------------------------------ MODULE Dispatch ------------------------------
(***************************************************************************)
(* Inbound dispatch of a request frame (encode.go ParseRspByte) and the    *)
(* function-id resolution it depends on (node.go QueryFunc, fmsg.go Query, *)
(* watch.go MasterCall/SlavesCall), across the watcher node and the nodes  *)
(* configured with it.                                                    *)
(*                                                                         *)
(* A request with an id at or above BUILT_IN_MAX is resolved with          *)
(* QueryFunc(fid, ""): the local funcmap first, then GetFuncMsg to the     *)
(* watcher, which dispatches that request the same way.  Resolution and    *)
(* dispatch are therefore mutually recursive; the recursion ends at the    *)
(* watcher, whose WatchNode has no master and no slaves.                   *)
(*                                                                         *)
(* A funcmap is abstracted to its key sets: the function ids stored in     *)
(* ids and the api names stored in str.  A handler's body is abstracted to *)
(* "call": findCall found the method.                                      *)
(***************************************************************************)
EXTENDS Integers, FiniteSets

CONSTANTS
    Nodes,          \* processes
    Watcher,        \* the node NewWatcher starts (name WATCHER)
    Fids,           \* function ids a request frame may carry
    WatchFids,      \* ids of the WatchApi methods (comm.WatchFmsg)
    Served,         \* Served[n]: ids of the methods in n.funcs (Register)
    CacheIds,       \* CacheIds[n]: keys of n.fmsg.ids
    CacheNames,     \* CacheNames[n]: keys of n.fmsg.str (never "")
    Registry,       \* ids the watcher's own funcmap has minted (PutApi)
    BUILT_IN_MAX,   \* ids below it are built-ins
    GetFuncMsgId    \* comm.GetFuncMsg

ASSUME /\ Watcher \in Nodes /\ GetFuncMsgId \in WatchFids
       /\ \A n \in Nodes : "" \notin CacheNames[n] /\ 0 \notin CacheIds[n]

VARIABLE handled    \* the requests dispatched so far: [node, fid, res]

\* funcmap.Query(fid, name) with its conditions as written: the ids map is
\* read only for fid = 0 and the str map only for name = "".
Query(n, fid, name) ==
    \/ fid = 0 /\ 0 \in CacheIds[n]
    \/ name = "" /\ "" \in CacheNames[n]

\* WatchNode.MasterCall: the watcher node's WatchNode is never configured
\* (newClient skips InitWatchConfig for it), so master is nil and
\* SlavesCall finds no slave; any other node has a master conn, since
\* newClient fails without one.
HasWatcherConn(n) == n # Watcher

\* WatchApi.GetFuncMsg on the watcher: GetIds(fid).GetApi().
WatchGetFuncMsg(fid) == fid \in Registry

RECURSIVE QueryFunc(_, _), ParseRspByte(_, _)

\* NodeDetail.QueryFunc(fid, ""): a cache hit, or GetFuncMsg to the
\* watcher.  That request is a frame with id GetFuncMsgId which the
\* watcher dispatches; an error there comes back as a Failed frame, which
\* the caller's read loop drops (ParseResp returns num 0), so the
\* 3 s deadline expires and QueryFunc returns nil.
QueryFunc(n, fid) ==
    \/ Query(n, fid, "")
    \/ /\ HasWatcherConn(n)
       /\ ParseRspByte(Watcher, GetFuncMsgId) = "call"
       /\ WatchGetFuncMsg(fid)

\* ParseRspByte: id 0 is dropped, built-ins go to builtin, the rest are
\* resolved and handed to findCall, which looks the method up in n.funcs.
ParseRspByte(n, fid) ==
    CASE fid = 0                 -> "drop"
      [] fid < BUILT_IN_MAX      -> "builtin"
      [] ~QueryFunc(n, fid)      -> "notfound"
      [] fid \in Served[n]       -> "call"
      [] OTHER                   -> "notfound"

Init == handled = {}

\* A request frame with id f reaches node n's read loop, which runs
\* ParseRspByte on it in a new goroutine (tcpAccept / UdpListen).
Request(n, f) ==
    /\ ~\E r \in handled : r.node = n /\ r.fid = f
    /\ handled' = handled \cup {[node |-> n, fid |-> f, res |-> ParseRspByte(n, f)]}

Next == \E n \in Nodes, f \in Fids : Request(n, f)

Spec == Init /\ [][Next]_handled

TypeOK ==
    handled \subseteq [node : Nodes, fid : Fids,
                       res : {"drop", "builtin", "notfound", "call"}]
=============================================================================
