------------------------------ MODULE ConnLife ------------------------------
(***************************************************************************)
(* The connection cache of a node (funcmap.ser in src/network/rpc/fmsg.go) *)
(* and the life of its NodeConns (src/network/rpc/conns.go, node.go).      *)
(*                                                                         *)
(* Actors are the goroutines that run NodeBaseToConn for a peer: the       *)
(* builtin DialRegister handler (one goroutine per inbound frame) and      *)
(* UpServNodeConn.  NodeBaseToConn looks the peer up in the cache, probes  *)
(* a cached conn with TestConn (closing and deleting it when the probe     *)
(* fails), or dials a new one with RefreshConn, arms TimerCheck on it and  *)
(* stores it with PutConn.  sync.Map makes each Load, Store and Delete     *)
(* atomic, nothing more, so each of them is a step of its own.  The timer *)
(* runs TimerCheck for each conn and ClearConn every 10 s.                 *)
(*                                                                         *)
(* Only TCP is modelled (Tport set, Uport and Hport zero): the UDP branch  *)
(* of TestConn and RefreshConn has the same shape.  Peers crash (their     *)
(* open sockets break) and restart.  A socket is "open", "broken" or      *)
(* "closed".  TestTcpConn takes no lock: its ping write, its redial and    *)
(* the ping on the redialed tconn are steps of their own, and so are the   *)
(* Close and DelConn after it.  A ReadRespTCP loop reads n.tconn           *)
(* afresh for every Read: readers holds [c, s], the loop of conn c and    *)
(* the socket s its current Read is on.                                    *)
(***************************************************************************)
EXTENDS Integers, Sequences, FiniteSets

CONSTANTS
    Peers,       \* node uuids this node connects to
    Actors,      \* goroutines running NodeBaseToConn
    MaxSockets,  \* bound on sockets dialed
    MaxConns,    \* bound on NodeConn values made
    MaxCrashes,  \* bound on peer crashes
    MaxTicks     \* bound on ClearConn timer ticks

VARIABLES
    up,       \* up[p]: the peer process is running
    sock,     \* sock[s]: [peer, state] of every socket ever dialed
    readers,  \* running ReadRespTCP loops: [c, s]
    conns,    \* conns[c]: NodeConn [uuid, wrong, tconn (0 = nil), stamp, check]
    ser,      \* funcmap.ser: peer uuid -> conn index
    act,      \* per actor: pc, peer, kind, conn, old conn, second PutConn
    crashes,  \* crashes so far
    ticks     \* ClearConn ticks so far

vars == << up, sock, readers, conns, ser, act, crashes, ticks >>

Idle == [pc |-> "idle", p |-> CHOOSE p \in Peers : TRUE, kind |-> "dial",
         c |-> 0, old |-> 0, again |-> FALSE, tp |-> "ping", ok |-> FALSE]

Init == /\ up = [p \in Peers |-> TRUE]
        /\ sock = << >>
        /\ readers = {}
        /\ conns = << >>
        /\ ser = << >>
        /\ act = [a \in Actors |-> Idle]
        /\ crashes = 0
        /\ ticks = 0

\* One NodeBaseToConn and the PutConns after it dial at most Reserve
\* sockets (the redial of its TestConn, Dial, and a TestConn redial in each
\* of two PutConns) and make one NodeConn.  A router goroutine (kind
\* "remote", see Router) runs one probe and one NodeBaseToConn per peer.
\* A TimerCheck run dials at most TimerDials sockets.  A goroutine or a
\* timer run starts only while every busy one keeps its room, so none
\* waits on a bound.
Reserve == 4
TimerDials == 3
RouteNeed == Cardinality(Peers) * (Reserve + 1)
BusyOf(K) == Cardinality({a \in Actors : act[a].pc # "idle" /\ act[a].kind \in K})
TimerBusy == Cardinality({c \in DOMAIN conns : conns[c].check \notin {"none", "on", "off"}})
Reserved == Reserve * BusyOf({"dial", "push"}) + RouteNeed * BusyOf({"remote"})
            + TimerDials * TimerBusy
ReservedConns == BusyOf({"dial", "push"}) + Cardinality(Peers) * BusyOf({"remote"})
CanStart == /\ Len(sock) + Reserved + Reserve <= MaxSockets
            /\ Len(conns) + ReservedConns + 1 <= MaxConns
CanCheck == Len(sock) + Reserved + TimerDials <= MaxSockets
Open(s) == s # 0 /\ sock[s].state = "open"

\* A new socket to peer p (net.DialTCP succeeds).
NewSock(p) == Append(sock, [peer |-> p, state |-> "open"])

\* UpServNodeConn (builtin.go) and GetRemoteConn (invoke.go) call PutConn
\* again on the conn NodeBaseToConn returns.
SecondPut(a) == act[a].kind \in {"push", "remote"}

Set(a, f) == act' = [act EXCEPT ![a] = f]
Store(u, c) == [x \in DOMAIN ser \cup {u} |-> IF x = u THEN c ELSE ser[x]]
DelConn(u) == [x \in DOMAIN ser \ {u} |-> ser[x]]
-----------------------------------------------------------------------------
(* NodeConn.Close, under n.mut: SetReadDeadline and Close on whatever     *)
(* tconn holds now, which a concurrent redial may have replaced.           *)
CloseSock(c) ==
    LET t == conns[c].tconn
    IN IF Open(t) THEN [sock EXCEPT ![t].state = "closed"] ELSE sock

\* TestTcpConn's net.DialTCP, assigned to n.tconn: a new socket, or nil.
Redial(c) == [conns EXCEPT ![c].tconn = IF up[conns[c].uuid] THEN Len(sock) + 1 ELSE 0]
RedialSock(c) == IF up[conns[c].uuid] THEN NewSock(conns[c].uuid) ELSE sock
-----------------------------------------------------------------------------
\* A DialRegister frame from p (sent by p's DialTCP when it connects) or
\* a GetApiConnRsp push listing p reaches a handler goroutine.
Announce(a, p) ==
    /\ act[a].pc = "idle"
    /\ up[p]
    /\ CanStart
    /\ \E k \in {"dial", "push"} :
         Set(a, [Idle EXCEPT !.pc = IF k = "push" THEN "push" ELSE "lookup",
                             !.p = p, !.kind = k])
    /\ UNCHANGED << up, sock, readers, conns, ser, crashes, ticks >>

\* UpServNodeConn: a cached conn only gets its address fields refreshed;
\* otherwise NodeBaseToConn runs, followed by a second PutConn.
PushLookup(a) ==
    /\ act[a].pc = "push"
    /\ Set(a, [act[a] EXCEPT !.pc = IF act[a].p \in DOMAIN ser THEN "done" ELSE "lookup"])
    /\ UNCHANGED << up, sock, readers, conns, ser, crashes, ticks >>

\* NodeBaseToConn: GetNodeConn(node.Uuid).
Lookup(a) ==
    LET p == act[a].p IN
    /\ act[a].pc = "lookup"
    /\ Set(a, IF p \in DOMAIN ser THEN [act[a] EXCEPT !.pc = "test", !.c = ser[p]]
                                  ELSE [act[a] EXCEPT !.pc = "dial"])
    /\ UNCHANGED << up, sock, readers, conns, ser, crashes, ticks >>

\* After PutConn the actor is done, unless UpServNodeConn still has its
\* own PutConn of the conn NodeBaseToConn returned.
AfterPut(a) == IF SecondPut(a) /\ ~act[a].again
               THEN [act[a] EXCEPT !.pc = "putload", !.old = 0, !.again = TRUE]
               ELSE [act[a] EXCEPT !.pc = "done", !.old = 0]

(* conn.TestConn() run by a goroutine: pc "test" (NodeBaseToConn),        *)
(* "puttest" (PutConn, on the conn it loaded) or "probe" (GetRemoteConn,   *)
(* see Router); tp is the step of TestTcpConn it is at.                    *)
Testing(a) == act[a].pc \in {"test", "puttest", "probe"}
Target(a) == IF act[a].pc = "puttest" THEN act[a].old ELSE act[a].c

(* TestConn returned ok or not, with cs the conns after its last step.     *)
(* NodeBaseToConn: nil clears wrong and returns the cached conn; an error  *)
(* sets wrong and goes on to Close.  PutConn: nil keeps the loaded conn,   *)
(* an error goes on to Close it.  GetRemoteConn takes the result.          *)
TestEnd(a, ok, cs) ==
    LET c == Target(a)
        f == [act[a] EXCEPT !.tp = "ping"]
    IN CASE act[a].pc = "test" ->
              /\ conns' = [cs EXCEPT ![c].wrong = ~ok]
              /\ Set(a, IF ok THEN [f EXCEPT !.pc = IF SecondPut(a) THEN "putload" ELSE "done",
                                             !.again = TRUE]
                              ELSE [f EXCEPT !.pc = "close"])
         [] act[a].pc = "puttest" ->
              /\ conns' = cs
              /\ Set(a, IF ok THEN [AfterPut(a) EXCEPT !.tp = "ping"] ELSE [f EXCEPT !.pc = "putclose"])
         [] OTHER ->
              /\ conns' = cs
              /\ Set(a, [f EXCEPT !.pc = "probed", !.ok = ok])

\* TestTcpConn: n.tconn.Write(PingBytes) on the tconn it reads now.
TestPing(a) ==
    /\ Testing(a) /\ act[a].tp = "ping"
    /\ IF Open(conns[Target(a)].tconn)
       THEN TestEnd(a, TRUE, conns)
       ELSE /\ Set(a, [act[a] EXCEPT !.tp = "dial"])
            /\ UNCHANGED conns
    /\ UNCHANGED << up, sock, readers, ser, crashes, ticks >>

\* The write failed (or tconn was nil): n.tconn, err = net.DialTCP(...).
\* A failed dial leaves tconn nil and returns the error.
TestDial(a) ==
    LET c == Target(a) IN
    /\ Testing(a) /\ act[a].tp = "dial"
    /\ sock' = RedialSock(c)
    /\ IF up[conns[c].uuid]
       THEN /\ conns' = Redial(c)
            /\ Set(a, [act[a] EXCEPT !.tp = "reping"])
       ELSE TestEnd(a, FALSE, Redial(c))
    /\ UNCHANGED << up, readers, ser, crashes, ticks >>

\* n.tconn.Write(PingBytes) again, on n.tconn as it is now.
TestReping(a) ==
    /\ Testing(a) /\ act[a].tp = "reping"
    /\ TestEnd(a, Open(conns[Target(a)].tconn), conns)
    /\ UNCHANGED << up, sock, readers, ser, crashes, ticks >>

Test(a) == TestPing(a) \/ TestDial(a) \/ TestReping(a)

\* conn.Close() after a failed TestConn: NodeBaseToConn goes on to
\* DelConn, PutConn to its Store.
Close(a) ==
    /\ act[a].pc \in {"close", "putclose"}
    /\ sock' = CloseSock(Target(a))
    /\ Set(a, [act[a] EXCEPT !.pc = IF act[a].pc = "close" THEN "del" ELSE "putstore"])
    /\ UNCHANGED << up, readers, conns, ser, crashes, ticks >>

\* n.fmsg.DelConn(node.Uuid): deletes whatever is cached for the uuid now.
Del(a) ==
    /\ act[a].pc = "del"
    /\ ser' = DelConn(act[a].p)
    /\ Set(a, [act[a] EXCEPT !.pc = "dial", !.c = 0])
    /\ UNCHANGED << up, sock, readers, conns, crashes, ticks >>

\* A fresh NodeConn and RefreshConn: DialTCP (which writes the
\* DialRegister frames), TestTcpConn on the new socket, go ReadRespTCP.
\* A failed dial returns the error and nothing is stored.
Dial(a) ==
    LET p == act[a].p
        c == Len(conns) + 1
    IN /\ act[a].pc = "dial"
       /\ IF up[p]
          THEN /\ conns' = Append(conns, [uuid |-> p, wrong |-> FALSE, tconn |-> Len(sock) + 1,
                                          stamp |-> 0, check |-> "none"])
               /\ sock' = NewSock(p)
               /\ readers' = readers \cup {[c |-> c, s |-> Len(sock) + 1]}
               /\ Set(a, [act[a] EXCEPT !.pc = "timer", !.c = c])
          ELSE /\ conns' = Append(conns, [uuid |-> p, wrong |-> FALSE, tconn |-> 0,
                                          stamp |-> 0, check |-> "none"])
               /\ Set(a, [act[a] EXCEPT !.pc = "done", !.c = 0])
               /\ UNCHANGED << sock, readers >>
       /\ UNCHANGED << up, ser, crashes, ticks >>

\* n.TimerCheck(conn): the health check is put on the timer.
Arm(a) ==
    /\ act[a].pc = "timer"
    /\ conns' = [conns EXCEPT ![act[a].c].check = "on"]
    /\ Set(a, [act[a] EXCEPT !.pc = "putload"])
    /\ UNCHANGED << up, sock, readers, ser, crashes, ticks >>
-----------------------------------------------------------------------------
(* funcmap.PutConn(conn): Load the cached conn; a healthy one is kept and *)
(* the new conn is dropped (not closed); an unhealthy one is closed and   *)
(* the new conn stored.                                                    *)
PutLoad(a) ==
    LET p == act[a].p IN
    /\ act[a].pc = "putload"
    /\ Set(a, IF p \in DOMAIN ser THEN [act[a] EXCEPT !.pc = "puttest", !.old = ser[p]]
                                  ELSE [act[a] EXCEPT !.pc = "putstore"])
    /\ UNCHANGED << up, sock, readers, conns, ser, crashes, ticks >>

PutStore(a) ==
    /\ act[a].pc = "putstore"
    /\ ser' = Store(act[a].p, act[a].c)
    /\ Set(a, AfterPut(a))
    /\ UNCHANGED << up, sock, readers, conns, crashes, ticks >>

\* NodeBaseToConn returns: a handler goroutine ends, a router goroutine
\* goes on with the conn (0 when it failed).
Return(a) ==
    /\ act[a].pc = "done"
    /\ Set(a, IF act[a].kind = "remote" THEN [act[a] EXCEPT !.pc = "got"] ELSE Idle)
    /\ UNCHANGED << up, sock, readers, conns, ser, crashes, ticks >>
-----------------------------------------------------------------------------
(* TimerCheck's function, run every 10 s while it returns TRUE.  check   *)
(* is the step its run is at.  A conn not flagged wrong stops the check.   *)
(* A wrong conn is probed with TestTcpConn ("ping", "dial", "reping");     *)
(* when that fails, tconn is closed and RefreshConn runs: DialTCP, then    *)
(* TestTcpConn again ("rping", "rdial", "rreping"), closing tconn when it  *)
(* fails and starting ReadRespTCP when it passes.  wrong is not cleared   *)
(* here, so the check of a wrong conn goes on until a NodeBaseToConn      *)
(* clears it.                                                              *)
SetCheck(c, k) == [conns EXCEPT ![c].check = k]

CheckStart(c) ==
    /\ conns[c].check = "on"
    /\ IF conns[c].wrong
       THEN CanCheck /\ conns' = SetCheck(c, "ping")
       ELSE conns' = SetCheck(c, "off")
    /\ UNCHANGED << up, sock, readers, ser, act, crashes, ticks >>

\* The ping write of either TestTcpConn; RefreshConn's passing one starts
\* go nc.ReadRespTCP() on tconn.
CheckPing(c) ==
    LET k == conns[c].check
        t == conns[c].tconn
    IN /\ k \in {"ping", "rping"}
       /\ conns' = SetCheck(c, IF Open(t) THEN "on" ELSE IF k = "ping" THEN "dial" ELSE "rdial")
       /\ readers' = IF Open(t) /\ k = "rping" THEN readers \cup {[c |-> c, s |-> t]} ELSE readers
       /\ UNCHANGED << up, sock, ser, act, crashes, ticks >>

CheckDial(c) ==
    LET k == conns[c].check IN
    /\ k \in {"dial", "rdial"}
    /\ sock' = RedialSock(c)
    /\ conns' = [Redial(c) EXCEPT ![c].check =
                   IF up[conns[c].uuid] THEN IF k = "dial" THEN "reping" ELSE "rreping"
                   ELSE IF k = "dial" THEN "close" ELSE "rclose"]
    /\ UNCHANGED << up, readers, ser, act, crashes, ticks >>

CheckReping(c) ==
    LET k == conns[c].check
        t == conns[c].tconn
    IN /\ k \in {"reping", "rreping"}
       /\ conns' = SetCheck(c, IF Open(t) THEN "on" ELSE IF k = "reping" THEN "close" ELSE "rclose")
       /\ readers' = IF Open(t) /\ k = "rreping" THEN readers \cup {[c |-> c, s |-> t]} ELSE readers
       /\ UNCHANGED << up, sock, ser, act, crashes, ticks >>

\* nc.tconn.SetReadDeadline and nc.tconn.Close: after the first test the
\* run goes on to RefreshConn; after RefreshConn's test it returns.
CheckClose(c) ==
    /\ conns[c].check \in {"close", "rclose"}
    /\ sock' = CloseSock(c)
    /\ conns' = SetCheck(c, IF conns[c].check = "close" THEN "refresh" ELSE "on")
    /\ UNCHANGED << up, readers, ser, act, crashes, ticks >>

\* RefreshConn: nc.tconn, err = n.DialTCP(...); on an error it returns.
CheckRefresh(c) ==
    /\ conns[c].check = "refresh"
    /\ sock' = RedialSock(c)
    /\ conns' = [Redial(c) EXCEPT ![c].check = IF up[conns[c].uuid] THEN "rping" ELSE "on"]
    /\ UNCHANGED << up, readers, ser, act, crashes, ticks >>

CheckTick(c) == CheckStart(c) \/ CheckPing(c) \/ CheckDial(c) \/ CheckReping(c)
                \/ CheckClose(c) \/ CheckRefresh(c)

\* funcmap.ClearConn every 10 s: deletes every cached conn that is wrong
\* or whose stamp is older than 10 s.  NodeConn.stamp is never assigned,
\* so it is 0 and older than any horizon.  Evicted conns are not closed.
Evictable(c) == conns[c].wrong \/ conns[c].stamp = 0

ClearConn ==
    /\ ticks < MaxTicks
    /\ ser' = [u \in {x \in DOMAIN ser : ~Evictable(ser[x])} |-> ser[u]]
    /\ ticks' = ticks + 1
    /\ UNCHANGED << up, sock, readers, conns, act, crashes >>

\* A Read on a socket that is not open fails and ReadRespTCP returns.  A
\* loop that was between two Reads when its socket broke issues the next
\* Read on n.tconn, which a redial may have replaced meanwhile.
ReaderStep(r) ==
    LET t == conns[r.c].tconn IN
    /\ r \in readers
    /\ ~Open(r.s)
    /\ \/ readers' = readers \ {r}
       \/ /\ Open(t) /\ t # r.s
          /\ readers' = (readers \ {r}) \cup {[r EXCEPT !.s = t]}
    /\ UNCHANGED << up, sock, conns, ser, act, crashes, ticks >>

\* The peer process dies: its sockets break.  Later it starts again.
Crash(p) ==
    /\ up[p] /\ crashes < MaxCrashes
    /\ up' = [up EXCEPT ![p] = FALSE]
    /\ sock' = [s \in DOMAIN sock |->
                  IF sock[s].peer = p /\ sock[s].state = "open"
                  THEN [sock[s] EXCEPT !.state = "broken"] ELSE sock[s]]
    /\ crashes' = crashes + 1
    /\ UNCHANGED << readers, conns, ser, act, ticks >>

Restart(p) ==
    /\ ~up[p]
    /\ up' = [up EXCEPT ![p] = TRUE]
    /\ UNCHANGED << sock, readers, conns, ser, act, crashes, ticks >>
-----------------------------------------------------------------------------
ActorNext(a) == PushLookup(a) \/ Lookup(a) \/ Test(a) \/ Close(a) \/ Del(a) \/ Dial(a)
                \/ Arm(a) \/ PutLoad(a) \/ PutStore(a) \/ Return(a)

Next == \/ \E a \in Actors : ActorNext(a) \/ \E p \in Peers : Announce(a, p)
        \/ \E c \in DOMAIN conns : CheckTick(c)
        \/ ClearConn
        \/ \E r \in readers : ReaderStep(r)
        \/ \E p \in Peers : Crash(p) \/ Restart(p)

\* Handler goroutines and read loops are scheduled.  Announcements,
\* timer ticks and peer crashes are the environment and not forced.
TypeOK ==
    /\ up \in [Peers -> BOOLEAN]
    /\ \A s \in DOMAIN sock : sock[s].peer \in Peers /\ sock[s].state \in {"open", "broken", "closed"}
    /\ \A r \in readers : r.c \in DOMAIN conns /\ r.s \in DOMAIN sock
    /\ \A c \in DOMAIN conns : /\ conns[c].uuid \in Peers
                               /\ conns[c].wrong \in BOOLEAN
                               /\ conns[c].tconn \in 0..Len(sock)
                               /\ conns[c].check \in {"none", "on", "off", "ping", "dial", "reping", "close",
                                                     "refresh", "rping", "rdial", "rreping", "rclose"}
    /\ DOMAIN ser \subseteq Peers /\ \A u \in DOMAIN ser : ser[u] \in DOMAIN conns
    /\ \A a \in Actors : /\ act[a].pc \in {"idle", "push", "lookup", "test", "close", "del",
                                  "dial", "timer", "putload", "puttest", "putclose", "putstore",
                                  "done", "got", "route", "probe", "probed"}
                        /\ act[a].tp \in {"ping", "dial", "reping"}
                        /\ act[a].kind \in {"dial", "push", "remote"}
    /\ crashes \in 0..MaxCrashes /\ ticks \in 0..MaxTicks

Spec == Init /\ [][Next]_vars
          /\ \A a \in Actors : WF_vars(ActorNext(a))
          /\ \A c \in 1..MaxConns, s \in 1..MaxSockets :
                WF_vars(ReaderStep([c |-> c, s |-> s]))
=============================================================================
