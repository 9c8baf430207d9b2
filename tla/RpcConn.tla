------------------------------ MODULE RpcConn ------------------------------
(***************************************************************************)
(* One client NodeConn and the server connection it talks to.              *)
(*                                                                         *)
(* Callers (connsCall + WaitRsp, or WatchNode.MasterCall + ProtoWaitRsp)   *)
(* take a correlation id, write the request frames, then register a       *)
(* RecvChan in the connection's rc map and wait on it.  TestConn writes    *)
(* ping frames on the same socket.  The server side (tcpAccept or          *)
(* UdpListen) reads frames and runs ParseRspByte for each in a goroutine:  *)
(* ParseResp, then builtin or the registered handler, then MakeRspBody,    *)
(* whose frames the goroutine writes back one by one.  The client read     *)
(* loop (ReadRespTCP / ReadRespUDP) runs ParseResp on each reply frame,    *)
(* looks the correlation id up in rc and sends the payload on the waiter's *)
(* channel, which has room for one value.                                  *)
(*                                                                         *)
(* Both ParseResp users are instances of Reassembly with their own list    *)
(* map.  Handlers are abstracted to an echo of the request bytes.          *)
(***************************************************************************)
EXTENDS Integers, Sequences, SequencesExt, Codec

CONSTANTS
    Callers,     \* calls issued on this connection
    Kind,        \* Kind[c] = "serial": connsCall (NodeDetail.serial),
                 \*           "watch" : MasterCall (WatchNode.count)
    Fid,         \* Fid[c]: the function id called
    Req,         \* Req[c]: the request payload bytes
    Deadline,    \* Deadline[c]: the context has a deadline (FALSE: context.TODO)
    Served,      \* function ids >= BUILT_IN_MAX the server's QueryFunc finds
    Fails,       \* those whose handler returns an error
    ErrText,     \* bytes of the error messages handlers and builtin return
    SG,          \* server goroutine slots running ParseRspByte
    Transports,  \* the NodeConn.types a connection may have: "tcp", "udp"
    ReqnumStart, \* initial value of NodeDetail.reqnum
    MaxPings     \* MaxPings[t]: bound on ping frames TestConn writes over t

\* reqnum and count are uint32; the runs stay far below their wrap at 2^32
\* (which TLC's integers cannot reach), so the increments need no modulo.
ASSUME ReqnumStart \in 0..65535

WATCH_IN_MAX == 100     \* comm.WATCH_IN_MAX
BUILT_IN_MAX == 30      \* comm.BUILT_IN_MAX
PingNetwork  == 1
DialRegister == 2
UpFuncMapList == 11
UpNodeConnMsg == 12

VARIABLES
    reqnum,  \* NodeDetail.reqnum
    count,   \* WatchNode.count
    cl,      \* per caller: pc, correlation id, frames left to write, result
    rc,      \* NodeConn.rc: correlation id -> the caller whose RecvChan it is
    chan,    \* per caller: the buffered RecvChan.body (at most one value)
    c2s,     \* frames written by the client and not yet read by the server
    s2c,     \* frames written by the server and not yet read by the client
    pings,   \* ping frames written so far
    types,   \* NodeConn.types: "tcp" (frames in write order) or "udp"
             \* (datagrams reordered and lost)
    rl,      \* client read loop: "loop", or "send" with a target and payload
    cList, cHeap, cTask,        \* client NodeConn's ParseResp state
    sList, sHeap, sTask, sOut   \* server NodeConn's ParseResp state, and
                                \* the frames each goroutine has left to write

Cli == INSTANCE Reassembly WITH G <- {"rl"}, list <- cList, heap <- cHeap, task <- cTask
Srv == INSTANCE Reassembly WITH G <- SG, list <- sList, heap <- sHeap, task <- sTask

cvars == << cList, cHeap, cTask >>
svars == << sList, sHeap, sTask, sOut >>
vars == << reqnum, count, cl, rc, chan, c2s, s2c, pings, types, rl, cvars, svars >>

NoRes == [kind |-> "none", data |-> << >>]

Init == /\ reqnum = ReqnumStart
        /\ count = 0
        /\ cl = [c \in Callers |-> [pc |-> "call", num |-> 0, rows |-> << >>, res |-> NoRes]]
        /\ rc = << >>
        /\ chan = [c \in Callers |-> << >>]
        /\ c2s = << >> /\ s2c = << >>
        /\ pings = 0
        /\ types \in Transports
        /\ rl = [pc |-> "loop", to |-> CHOOSE c \in Callers : TRUE, data |-> << >>]
        /\ Cli!Init /\ Srv!Init
        /\ sOut = [g \in SG |-> << >>]
-----------------------------------------------------------------------------
(* The server's answer to a request (ParseRspByte after ParseResp):        *)
(* builtin for ids below BUILT_IN_MAX, else findCall when QueryFunc finds  *)
(* the id, else a not-found error.  Result: [err, data].                   *)
builtin(fid) ==
    CASE fid = PingNetwork -> [err |-> NoErr, data |-> << 80, 79, 78, 71 >>]  \* "PONG"
      [] fid \in {DialRegister, UpFuncMapList, UpNodeConnMsg} -> [err |-> NoErr, data |-> << >>]
      [] OTHER -> [err |-> Err(ErrText), data |-> << >>]

findCall(fid, bts) ==
    IF fid \in Fails THEN [err |-> Err(ErrText), data |-> << >>]
    ELSE [err |-> NoErr, data |-> bts]

Answer(fid, bts) ==
    IF fid < BUILT_IN_MAX THEN builtin(fid)
    ELSE IF fid \in Served THEN findCall(fid, bts)
    ELSE [err |-> Err(ErrText), data |-> << >>]

\* delete(n.rc, num) under n.mut.Lock
DelChan(n) == [x \in DOMAIN rc \ {n} |-> rc[x]]
-----------------------------------------------------------------------------
\* The caller has its correlation id n: build the frames and start writing.
Numbered(c, n) == [cl[c] EXCEPT !.pc = "write", !.num = n, !.rows = MakeReqBody(Req[c], n, Fid[c])]

\* Caller: take a correlation id and build the frames (connsCall or
\* MasterCall up to the write loop).  NodeDetail.serial returns ids below
\* WATCH_IN_MAX unchanged; otherwise its first atomic.AddUint32 is this
\* step, and a result below WATCH_IN_MAX sends the caller on to the swap.
\* WatchNode.count is one atomic.AddUint32.
Call(c) ==
    /\ cl[c].pc = "call"
    /\ \/ /\ Kind[c] = "serial" /\ Fid[c] < WATCH_IN_MAX
          /\ cl' = [cl EXCEPT ![c] = Numbered(c, Fid[c])]
          /\ UNCHANGED << reqnum, count >>
       \/ /\ Kind[c] = "serial" /\ Fid[c] >= WATCH_IN_MAX
          /\ reqnum' = reqnum + 1
          /\ cl' = IF reqnum + 1 < WATCH_IN_MAX
                   THEN [cl EXCEPT ![c].pc = "swap"]
                   ELSE [cl EXCEPT ![c] = Numbered(c, (reqnum + 1) % 65535)]
          /\ UNCHANGED count
       \/ /\ Kind[c] = "watch"
          /\ count' = count + 1
          /\ cl' = [cl EXCEPT ![c] = Numbered(c, (count + 1) % 65535)]
          /\ UNCHANGED reqnum
    /\ UNCHANGED << rc, chan, c2s, s2c, pings, types, rl, cvars, svars >>

\* serial: atomic.SwapUint32(&n.reqnum, WATCH_IN_MAX), a separate atomic
\* step, so other callers' Adds can run between it and the Add before it.
SerialSwap(c) ==
    /\ cl[c].pc = "swap"
    /\ reqnum' = WATCH_IN_MAX
    /\ cl' = [cl EXCEPT ![c].pc = "readd"]
    /\ UNCHANGED << count, rc, chan, c2s, s2c, pings, types, rl, cvars, svars >>

\* serial: the second atomic.AddUint32, whose result modulo 65535 is the id.
SerialReadd(c) ==
    /\ cl[c].pc = "readd"
    /\ reqnum' = reqnum + 1
    /\ cl' = [cl EXCEPT ![c] = Numbered(c, (reqnum + 1) % 65535)]
    /\ UNCHANGED << count, rc, chan, c2s, s2c, pings, types, rl, cvars, svars >>

\* conn.tconn.Write(row) / conn.uconn.Write(row), one frame at a time.
Write(c) ==
    /\ cl[c].pc = "write"
    /\ c2s' = Append(c2s, Head(cl[c].rows))
    /\ cl' = [cl EXCEPT ![c].rows = Tail(@),
                        ![c].pc = IF Len(cl[c].rows) = 1 THEN "register" ELSE "write"]
    /\ UNCHANGED << reqnum, count, rc, chan, s2c, pings, types, rl, cvars, svars >>

\* WaitRsp: NewChan(num) stores a fresh RecvChan in rc -- after the write.
NewChan(c) ==
    /\ cl[c].pc = "register"
    /\ rc' = [x \in DOMAIN rc \cup {cl[c].num} |-> IF x = cl[c].num THEN c ELSE rc[x]]
    /\ chan' = [chan EXCEPT ![c] = << >>]
    /\ cl' = [cl EXCEPT ![c].pc = "wait"]
    /\ UNCHANGED << reqnum, count, c2s, s2c, pings, types, rl, cvars, svars >>

\* WaitRsp's select takes the body; the deferred DelChan removes rc[num].
Receive(c) ==
    /\ cl[c].pc = "wait"
    /\ chan[c] # << >>
    /\ cl' = [cl EXCEPT ![c].pc = "done", ![c].res = [kind |-> "ok", data |-> Head(chan[c])]]
    /\ chan' = [chan EXCEPT ![c] = << >>]
    /\ rc' = DelChan(cl[c].num)
    /\ UNCHANGED << reqnum, count, c2s, s2c, pings, types, rl, cvars, svars >>

\* WaitRsp's select takes ctx.Done(): the deadline has passed.
Timeout(c) ==
    /\ cl[c].pc = "wait"
    /\ Deadline[c]
    /\ cl' = [cl EXCEPT ![c].pc = "done", ![c].res = [kind |-> "timeout", data |-> << >>]]
    /\ rc' = DelChan(cl[c].num)
    /\ UNCHANGED << reqnum, count, chan, c2s, s2c, pings, types, rl, cvars, svars >>

\* TestTcpConn / TestUdpConn write PingBytes on the live socket.
Ping ==
    /\ pings < MaxPings[types]
    /\ c2s' = Append(c2s, PingBytes)
    /\ pings' = pings + 1
    /\ UNCHANGED << reqnum, count, cl, rc, chan, s2c, types, rl, cvars, svars >>
-----------------------------------------------------------------------------
\* The frame a reader may take next: the first on TCP, any on UDP.
Takeable(w) == IF types = "tcp" /\ w # << >> THEN {1} ELSE 1..Len(w)

\* tcpAccept / UdpListen: read a frame and start a goroutine on it.
SrvRead(g) ==
    /\ sOut[g] = << >>
    /\ \E i \in Takeable(c2s) : /\ Srv!Start(g, c2s[i])
                            /\ c2s' = RemoveAt(c2s, i)
    /\ UNCHANGED << reqnum, count, cl, rc, chan, s2c, pings, types, rl, cvars, sOut >>

SrvStep(g) ==
    /\ Srv!Step(g)
    /\ UNCHANGED << reqnum, count, cl, rc, chan, c2s, s2c, pings, types, rl, cvars, sOut >>

\* ParseRspByte after ParseResp returned: no reply for an error, function
\* id 0 or correlation id 0; otherwise the answer's MakeRspBody frames.
SrvDispatch(g) ==
    LET o == sTask[g].out IN
    /\ Srv!Collect(g)
    /\ sOut' = IF o.err # "none" \/ o.fid = 0 \/ o.num = 0 THEN sOut
               ELSE LET a == Answer(o.fid, o.data)
                    IN [sOut EXCEPT ![g] = MakeRspBody(a.data, o.num, o.fid, a.err)]
    /\ UNCHANGED << reqnum, count, cl, rc, chan, c2s, s2c, pings, types, rl, cvars >>

\* The goroutine's write loop: rc.tconn.Write(row) / WriteToUDP(row, addr).
SrvWrite(g) ==
    /\ sOut[g] # << >>
    /\ s2c' = Append(s2c, Head(sOut[g]))
    /\ sOut' = [sOut EXCEPT ![g] = Tail(@)]
    /\ UNCHANGED << reqnum, count, cl, rc, chan, c2s, pings, types, rl, cvars, sList, sHeap, sTask >>
-----------------------------------------------------------------------------
\* ReadRespTCP / ReadRespUDP: read one frame and run ParseResp inline.
CliRead ==
    /\ rl.pc = "loop"
    /\ \E i \in Takeable(s2c) : /\ Cli!Start("rl", s2c[i])
                            /\ s2c' = RemoveAt(s2c, i)
    /\ UNCHANGED << reqnum, count, cl, rc, chan, c2s, pings, types, rl, svars, cList, cHeap >>

CliStep ==
    /\ Cli!Step("rl")
    /\ UNCHANGED << reqnum, count, cl, rc, chan, c2s, s2c, pings, types, rl, svars >>

\* ParseResp returned: for num > 0, look rc[num] up under n.mut.
CliDispatch ==
    LET o == cTask["rl"].out IN
    /\ Cli!Collect("rl")
    /\ rl' = IF o.num > 0 /\ o.num \in DOMAIN rc
             THEN [pc |-> "send", to |-> rc[o.num], data |-> o.data]
             ELSE rl
    /\ UNCHANGED << reqnum, count, cl, rc, chan, c2s, s2c, pings, types, svars >>

\* c.body <- bts: blocks while the channel's one slot is taken.
CliSend ==
    /\ rl.pc = "send"
    /\ chan[rl.to] = << >>
    /\ chan' = [chan EXCEPT ![rl.to] = << rl.data >>]
    /\ rl' = [rl EXCEPT !.pc = "loop"]
    /\ UNCHANGED << reqnum, count, cl, rc, c2s, s2c, pings, types, cvars, svars >>

\* A UDP datagram is lost on the way.
Drop ==
    /\ types = "udp"
    /\ \/ \E i \in 1..Len(c2s) : c2s' = RemoveAt(c2s, i) /\ UNCHANGED s2c
       \/ \E i \in 1..Len(s2c) : s2c' = RemoveAt(s2c, i) /\ UNCHANGED c2s
    /\ UNCHANGED << reqnum, count, cl, rc, chan, pings, types, rl, cvars, svars >>
-----------------------------------------------------------------------------
CallerNext(c) == Call(c) \/ SerialSwap(c) \/ SerialReadd(c) \/ Write(c) \/ NewChan(c) \/ Receive(c) \/ Timeout(c)
ServerNext(g) == SrvRead(g) \/ SrvStep(g) \/ SrvDispatch(g) \/ SrvWrite(g)
ClientNext == CliRead \/ CliStep \/ CliDispatch \/ CliSend

Next ==
    \/ \E c \in Callers : CallerNext(c)
    \/ \E g \in SG : ServerNext(g)
    \/ ClientNext
    \/ Ping
    \/ Drop

\* Goroutines are scheduled (weak fairness on each), and a context with a
\* deadline is eventually done.  Pings and losses are not forced.
Fairness ==
    /\ \A c \in Callers : WF_vars(CallerNext(c))
    /\ \A g \in SG : WF_vars(ServerNext(g))
    /\ WF_vars(ClientNext)

Spec == Init /\ [][Next]_vars /\ Fairness
-----------------------------------------------------------------------------
TypeOK ==
    /\ reqnum \in Nat /\ count \in Nat /\ pings \in 0..MaxPings[types] /\ types \in Transports
    /\ \A c \in Callers :
         /\ cl[c].pc \in {"call", "swap", "readd", "write", "register", "wait", "done"}
         /\ cl[c].num \in 0..65534
         /\ cl[c].res.kind \in {"none", "ok", "timeout"}
         /\ Len(chan[c]) <= 1
    /\ \A n \in DOMAIN rc : rc[n] \in Callers
    /\ rl.pc \in {"loop", "send"} /\ rl.to \in Callers
    /\ Cli!RTypeOK /\ Srv!RTypeOK

\* The reply a caller should get: the server's answer to its own request.
Expected(c) == Answer(Fid[c], Req[c])

\* Correlation isolation: a call that returns a body returns the body of
\* the reply to its own request, never another caller's reply or a ping's
\* PONG -- whatever order serial, the writes, NewChan, the server
\* goroutines and the read loop's rc lookup and send run in.
CorrelationIsolation ==
    \A c \in Callers :
        cl[c].res.kind = "ok" => /\ ~Expected(c).err.is
                                /\ cl[c].res.data = Expected(c).data

\* Every call whose context has a deadline returns, although its reply can
\* be dropped (read before NewChan registered the waiter, or lost).
CallsReturn == \A c \in Callers : <>(cl[c].pc = "done")
=============================================================================
