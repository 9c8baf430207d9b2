------------------------------- MODULE Router -------------------------------
(***************************************************************************)
(* Name resolution and connection choice for a call by api name           *)
(* (src/network/rpc/invoke.go call/send/multi, remoteCall, GetRemoteConn;  *)
(* node.go QueryFunc; fmsg.go PutMsg, Query, GetFuncConn, UpFuncNode;      *)
(* api.go CallRemoteByte), composed with the connection cache (ConnLife):  *)
(* GetRemoteConn probes cached conns and runs NodeBaseToConn and PutConn   *)
(* on the same ser map as the handler goroutines.                         *)
(*                                                                         *)
(* The client funcmap keeps funcdata records in fdata, indexed by function *)
(* id (ids) and by api name (str).  The watcher is the environment: its    *)
(* registry is the constants Api, Fid, Type and Providers, and each        *)
(* MasterCall to it may fail.  A caller passes a two-part name             *)
(* "Service.Func", so nodename is "" (rpc.SplitApiName), and a uuid or     *)
(* none (CallByUuid / CallAuto and their send and multi forms).            *)
(***************************************************************************)
EXTENDS ConnLife

CONSTANTS
    Callers,    \* actors that issue calls
    Ops,        \* entry points: "call", "send", "multi", "byte" (CallRemoteByte),
                \* "all" (SendAutoAll)
    Uuids,      \* uuids the callers pass: "" (none), "self" (n.Uuid) or a peer
    Names,      \* api names the callers pass
    Api,        \* names registered at the watcher
    Fid,        \* Fid[n]: the function id the watcher gave n
    Type,       \* Type[n]: "call", "send" or "multi"
    Providers,  \* Providers[n]: the nodes GetApiConn lists for n
    Serv,       \* Serv[n]: the service part of n
    LocalServ,  \* services this node registered
    LocalApi,   \* api names this node registered
    MaxCalls    \* bound on calls issued

ASSUME /\ Callers \subseteq Actors /\ Api \subseteq Names /\ LocalApi \subseteq Api
       /\ \A n \in Api : Fid[n] \in Nat \ {0} /\ Providers[n] \subseteq Peers
       /\ \A n, m \in Api : Fid[n] = Fid[m] => n = m
       /\ Uuids \subseteq {"", "self"} \cup Peers

VARIABLES
    fdata,  \* funcdata records: [fid, name, one, node]
    ids,    \* funcmap.ids: function id -> record
    str,    \* funcmap.str: api name -> record
    rt,     \* per caller: the call in progress
    issued  \* calls issued so far

rvars == << fdata, ids, str, rt, issued >>
allvars == << vars, rvars >>

NoMsg == [fid |-> 0, type |-> "none"]
RIdle == [pc |-> "idle", op |-> "call", name |-> CHOOSE n \in Names : TRUE, uuid |-> "", fm |-> NoMsg,
          left |-> {}, cur |-> CHOOSE p \in Peers : TRUE, got |-> {}, rows |-> {},
          res |-> "none", crash0 |-> 0, down0 |-> FALSE]

\* WatchRegister stores the functions the watcher returns for this node
\* in ids and str, with one = TRUE.
RInit == /\ Init
         /\ fdata = [i \in 1..Cardinality(LocalApi) |->
                       LET n == CHOOSE m \in LocalApi :
                                  Cardinality({k \in LocalApi : Fid[k] < Fid[m]}) = i - 1
                       IN [fid |-> Fid[n], name |-> n, one |-> TRUE, node |-> {}]]
         /\ ids = [f \in {fdata[i].fid : i \in DOMAIN fdata} |-> CHOOSE i \in DOMAIN fdata : fdata[i].fid = f]
         /\ str = [n \in {fdata[i].name : i \in DOMAIN fdata} |-> CHOOSE i \in DOMAIN fdata : fdata[i].name = n]
         /\ rt = [a \in Callers |-> RIdle]
         /\ issued = 0

\* funcmap.Query(fid, name): the conditions test fid = 0 and name = "",
\* so it loads ids[0] and str[""].  "" is not in Names.
Query(fid, name) ==
    IF fid = 0 /\ 0 \in DOMAIN ids THEN ids[0]
    ELSE IF name = "" /\ "" \in DOMAIN str THEN str[""]
    ELSE 0

\* The api type an entry point requires; sendall checks none.
OpType(op) == IF op = "byte" THEN "call" ELSE op
TypeMatches(op, t) == op = "all" \/ t = OpType(op)

RSet(a, f) == rt' = [rt EXCEPT ![a] = f]
End(a, res) == RSet(a, [rt[a] EXCEPT !.pc = "end", !.res = res])
-----------------------------------------------------------------------------
\* A goroutine calls CallAuto / SendAuto / CallMultiAuto / SendAutoAll /
\* CallRemoteByte, or a ByUuid form with uuid u.  call, send, multi and
\* sendall run QueryFunc: Query(0, name), then the watcher.
\* CallRemoteByte looks only in the cache; what follows a hit there (its
\* TryRemote loop) is not modelled, as Query(0, _) hits only ids[0].
Begin(a, op, name, u) ==
    /\ act[a].pc = "idle" /\ rt[a].pc = "idle" /\ issued < MaxCalls
    /\ op \in {"byte", "all"} => u = ""
    /\ issued' = issued + 1
    /\ Len(sock) + Reserved + RouteNeed <= MaxSockets
    /\ Len(conns) + ReservedConns + Cardinality(Peers) <= MaxConns
    /\ act' = [act EXCEPT ![a] = [Idle EXCEPT !.pc = "route", !.kind = "remote"]]
    /\ LET d == Query(0, name)
           r == [RIdle EXCEPT !.op = op, !.name = name, !.uuid = u, !.crash0 = crashes,
                              !.down0 = \E p \in Peers : ~up[p]]
       IN RSet(a, CASE op = "byte" /\ d = 0 -> [r EXCEPT !.pc = "end", !.res = "notfound"]
                    [] op = "byte"          -> [r EXCEPT !.pc = "end", !.res = "found"]
                    [] d # 0 -> [r EXCEPT !.pc = "type",
                                          !.fm = [fid |-> fdata[d].fid, type |-> Type[fdata[d].name]]]
                    [] OTHER -> [r EXCEPT !.pc = "ask"])
    /\ UNCHANGED << up, sock, readers, conns, ser, crashes, ticks, fdata, ids, str >>

\* QueryFunc: GetFuncMsg(ctx, 0, name) to the watcher (3 s deadline),
\* which looks name up in its str map.  A miss or an error returns nil
\* and the call fails with "call not found this server api".
Ask(a) ==
    LET n == rt[a].name IN
    /\ rt[a].pc = "ask"
    /\ \/ /\ n \in Api
          /\ RSet(a, [rt[a] EXCEPT !.pc = "putmsg", !.fm = [fid |-> Fid[n], type |-> Type[n]]])
       \/ End(a, "notfound")
    /\ UNCHANGED << vars, fdata, ids, str, issued >>

PutIds_prev(a) ==
    LET f == rt[a].fm.fid IN
    /\ rt[a].pc = "putmsg"
    /\ IF Query(f, "") # 0
       THEN /\ RSet(a, [rt[a] EXCEPT !.pc = "type"])
            /\ UNCHANGED << fdata, ids >>
       ELSE /\ fdata' = Append(fdata, [fid |-> f, name |-> rt[a].name, one |-> FALSE, node |-> {}])
            /\ ids' = [x \in DOMAIN ids \cup {f} |-> IF x = f THEN Len(fdata) ELSE ids[x]]
            /\ RSet(a, [rt[a] EXCEPT !.pc = "putstr"])
    /\ UNCHANGED << vars, str, issued >>

\* QueryFunc's PutMsg(tmp): Query(fid, "") misses, so a new funcdata
\* (node list empty) is stored in ids and then, as a second step, in str.
PutIds(a) ==
    LET f == rt[a].fm.fid IN
    /\ rt[a].pc = "putmsg"
    /\ IF Query(f, "") # 0
       THEN /\ RSet(a, [rt[a] EXCEPT !.pc = "type"])
            /\ UNCHANGED << fdata, ids >>
       ELSE /\ fdata' = Append(fdata, [fid |-> f, name |-> rt[a].name, one |-> FALSE, node |-> {}])
            /\ ids' = [x \in DOMAIN ids \cup {f} |-> IF x = f THEN Len(fdata') ELSE ids[x]]
            /\ RSet(a, [rt[a] EXCEPT !.pc = "putstr"])
    /\ UNCHANGED << vars, str, issued >>

PutStr(a) ==
    LET n == rt[a].name IN
    /\ rt[a].pc = "putstr"
    /\ str' = [x \in DOMAIN str \cup {n} |-> IF x = n THEN ids[rt[a].fm.fid] ELSE str[x]]
    /\ RSet(a, [rt[a] EXCEPT !.pc = "type"])
    /\ UNCHANGED << vars, fdata, ids, issued >>

\* The api type must match the entry point.  sendall goes straight to
\* GetRemoteConn.  A call to this node's own uuid runs locally, call and
\* send requiring f.api = Call, so a local Send api fails.  Otherwise,
\* nodename being "", a service of this node is called locally whatever
\* the uuid; call and send test "ok || f.api != Call", which dereferences
\* a nil f when the service is local but the function is not.  Then
\* remoteCall: GetAssignConn for a uuid, GetRemoteConn without.
\* A local multi runs LocalMulti, which ranges over its one-element rows
\* instead of args and so calls the method with (rv, rv): reflect panics
\* for every multi method, having at least three inputs besides rv.
LocalResult(op) == IF op = "multi" THEN "panic" ELSE "local"

Route(a) ==
    LET n == rt[a].name
        op == rt[a].op
        here == Serv[n] \in LocalServ
    IN
    /\ rt[a].pc = "type"
    /\ CASE ~TypeMatches(op, rt[a].fm.type)    -> End(a, "notfound")
         [] op = "all"                         -> RSet(a, [rt[a] EXCEPT !.pc = "funcconn"])
         [] rt[a].uuid = "self" /\ here /\ n \in LocalApi /\ op \in {"call", "multi"}
                                               -> End(a, LocalResult(op))
         [] rt[a].uuid = "self"                -> End(a, "notfound")
         [] here /\ n \in LocalApi             -> End(a, LocalResult(op))
         [] here /\ op # "multi"               -> End(a, "panic")
         [] rt[a].uuid # ""                    -> RSet(a, [rt[a] EXCEPT !.pc = "assign"])
         [] OTHER                              -> RSet(a, [rt[a] EXCEPT !.pc = "funcconn"])
    /\ UNCHANGED << vars, fdata, ids, str, issued >>
-----------------------------------------------------------------------------
(* GetRemoteConn(fmsg).                                                    *)

\* GetFuncConn(fid, name): the record str[name], and the cached conns of
\* its node list that are not flagged wrong.
FuncConns(n) ==
    LET d == str[n] IN
    {ser[u] : u \in {v \in fdata[d].node \cap DOMAIN ser : ~conns[ser[v]].wrong}}

FuncConn(a) ==
    LET n == rt[a].name IN
    /\ rt[a].pc = "funcconn"
    /\ IF n \notin DOMAIN str
       THEN End(a, "panic")
       ELSE IF FuncConns(n) # {}
       THEN RSet(a, [rt[a] EXCEPT !.pc = "end", !.res = "ok", !.rows = FuncConns(n)])
       ELSE RSet(a, [rt[a] EXCEPT !.pc = "apiconn"])
    /\ UNCHANGED << vars, fdata, ids, str, issued >>

\* GetApiConn and GetNodeMsg are MasterCalls under the caller's ctx, and
\* ProtoWaitRsp returns on a reply or on ctx.Done.  sendall's ctx has a
\* 10 s deadline; call, send and multi (CallAuto, SendAuto, CallMultiAuto
\* and their ByUuid forms) pass context.TODO, so a reply that never comes
\* (a Failed frame, or one read before NewChan, see RpcConn) blocks the
\* call for ever.
HasDeadline(op) == op = "all"
Hang(a) == /\ ~HasDeadline(rt[a].op)
           /\ RSet(a, [rt[a] EXCEPT !.pc = "hung"])

\* GetApiConn to the watcher: the nodes serving name, or an error (then
\* remoteCall fails with the same "no multi remote" error; "nolist" only
\* tells the two apart in the model), or no answer.
ApiConn(a) ==
    /\ rt[a].pc = "apiconn"
    /\ \/ /\ Providers[rt[a].name] # {}
          /\ RSet(a, [rt[a] EXCEPT !.pc = "probe", !.left = Providers[rt[a].name]])
       \/ End(a, "nolist")
       \/ Hang(a)
    /\ UNCHANGED << vars, fdata, ids, str, issued >>

\* NodeBaseToConn for node u, run by the caller's goroutine (ConnLife).
ToNbc(a, u) == act' = [act EXCEPT ![a] = [@ EXCEPT !.pc = "lookup", !.p = u, !.c = 0,
                                                   !.old = 0, !.again = FALSE]]

\* For each listed node: GetNodeConn(node.Uuid); a cached conn goes
\* through conn.TestConn() (ConnLife's steps, pc "probe"), a missing one
\* to NodeBaseToConn.
Probe(a, u) ==
    /\ rt[a].pc = "probe" /\ u \in rt[a].left
    /\ IF u \in DOMAIN ser
       THEN act' = [act EXCEPT ![a] = [@ EXCEPT !.pc = "probe", !.c = ser[u]]]
       ELSE ToNbc(a, u)
    /\ RSet(a, [rt[a] EXCEPT !.pc = IF u \in DOMAIN ser THEN "probing" ELSE "nbc", !.cur = u])
    /\ UNCHANGED << up, sock, readers, conns, ser, crashes, ticks, fdata, ids, str, issued >>

\* Where a call goes once node u is dealt with: the next listed node, or
\* the end of GetRemoteConn / GetAssignConn (UpNode).
NextAfter(a, u) == IF rt[a].left = {u} THEN "upnode" ELSE "probe"

\* TestConn returned: nil takes the conn; an error goes to NodeBaseToConn.
Probed(a) ==
    LET u == rt[a].cur IN
    /\ rt[a].pc = "probing" /\ act[a].pc = "probed"
    /\ IF act[a].ok
       THEN /\ act' = [act EXCEPT ![a] = [@ EXCEPT !.pc = "route", !.ok = FALSE]]
            /\ RSet(a, [rt[a] EXCEPT !.left = @ \ {u}, !.got = @ \cup {u},
                                     !.rows = @ \cup {act[a].c}, !.pc = NextAfter(a, u)])
       ELSE /\ ToNbc(a, u)
            /\ RSet(a, [rt[a] EXCEPT !.pc = "nbc"])
    /\ UNCHANGED << up, sock, readers, conns, ser, crashes, ticks, fdata, ids, str, issued >>

Got_ignore(a) ==
    LET u == rt[a].cur
    IN /\ rt[a].pc = "nbc" /\ act[a].pc = "got"
       /\ act' = [act EXCEPT ![a].pc = "route"]
       /\ RSet(a, [rt[a] EXCEPT !.left = @ \ {u},
                                !.pc = NextAfter(a, u)])
       /\ UNCHANGED << up, sock, readers, conns, ser, crashes, ticks, fdata, ids, str, issued >>

\* GetAssignConn(uuid, ""): a cached conn of the node is returned as it
\* is, untested and even when flagged wrong.  Otherwise GetNodeMsg asks
\* the watcher for the node (under the caller's ctx, see ApiConn); an
\* error or an unknown node gives no conn,
\* and a known one goes through NodeBaseToConn and PutConn (ConnLife).
Assign(a) ==
    LET u == rt[a].uuid IN
    /\ rt[a].pc = "assign"
    /\ IF u \in DOMAIN ser
       THEN /\ RSet(a, [rt[a] EXCEPT !.pc = "end", !.res = "ok", !.rows = {ser[u]}])
            /\ UNCHANGED act
       ELSE \/ /\ ToNbc(a, u)
               /\ RSet(a, [rt[a] EXCEPT !.pc = "nbc", !.cur = u, !.left = {u}])
            \/ /\ End(a, "nolist")
               /\ UNCHANGED act
            \/ /\ Hang(a)
               /\ UNCHANGED act
    /\ UNCHANGED << up, sock, readers, conns, ser, crashes, ticks, fdata, ids, str, issued >>

\* NodeBaseToConn returned: without error, the node and conn are taken.
Got(a) ==
    LET u == rt[a].cur
        ok == act[a].c # 0
    IN /\ rt[a].pc = "nbc" /\ act[a].pc = "got"
       /\ act' = [act EXCEPT ![a].pc = "route"]
       /\ RSet(a, [rt[a] EXCEPT !.left = @ \ {u},
                                !.got = IF ok THEN @ \cup {u} ELSE @,
                                !.rows = IF ok THEN @ \cup {act[a].c} ELSE @,
                                !.pc = NextAfter(a, u)])
       /\ UNCHANGED << up, sock, readers, conns, ser, crashes, ticks, fdata, ids, str, issued >>

\* When some listed node gave no conn, GetRemoteConn's UpFuncNode(fid, ids)
\* replaces the node list of ids[fid].  No conn at all fails the call
\* (remoteCall, remoteMulti, sendall); otherwise connsCall runs with the
\* conns (RpcConn), or sendall writes to each.
UpNode(a) ==
    LET f == rt[a].fm.fid IN
    /\ rt[a].pc = "upnode"
    /\ fdata' = IF rt[a].uuid = "" /\ rt[a].got # Providers[rt[a].name] /\ f \in DOMAIN ids
                THEN [fdata EXCEPT ![ids[f]].node = rt[a].got] ELSE fdata
    /\ End(a, IF rt[a].rows = {} THEN "noremote" ELSE "ok")
    /\ UNCHANGED << vars, ids, str, issued >>

\* The call returns.
Finish(a) ==
    /\ rt[a].pc = "end"
    /\ act' = [act EXCEPT ![a] = Idle]
    /\ RSet(a, RIdle)
    /\ UNCHANGED << up, sock, readers, conns, ser, crashes, ticks, fdata, ids, str, issued >>
-----------------------------------------------------------------------------
\* The steps of a call in progress.
RouteStep(a) == \/ Ask(a) \/ PutIds(a) \/ PutStr(a) \/ Route(a) \/ FuncConn(a)
                \/ ApiConn(a) \/ (\E u \in Peers : Probe(a, u)) \/ Probed(a) \/ Assign(a) \/ Got(a)
                \/ UpNode(a)
                \/ Finish(a)

RNext == \/ \E a \in Callers : RouteStep(a) \/ \E op \in Ops, n \in Names, u \in Uuids : Begin(a, op, n, u)
         \/ Next /\ UNCHANGED rvars

\* Goroutines are scheduled; starting a call is not forced.  No call
\* waits on a read loop, so the read loops need no fairness here.
RSpec == /\ RInit /\ [][RNext]_allvars
         /\ \A a \in Actors : WF_allvars(ActorNext(a) /\ UNCHANGED rvars)
         /\ \A a \in Callers : WF_allvars(RouteStep(a))

RTypeOK ==
    /\ TypeOK
    /\ \A i \in DOMAIN fdata : fdata[i].name \in Names /\ fdata[i].node \subseteq Peers
    /\ \A f \in DOMAIN ids : ids[f] \in DOMAIN fdata /\ fdata[ids[f]].fid = f
    /\ \A n \in DOMAIN str : str[n] \in DOMAIN fdata
    /\ \A a \in Callers : rt[a].pc \in {"idle", "ask", "putmsg", "putstr", "type", "funcconn",
                                         "apiconn", "probe", "probing", "assign", "nbc", "upnode",
                                         "end", "hung"}
=============================================================================
