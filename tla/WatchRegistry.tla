--------------------------- MODULE WatchRegistry ---------------------------
(***************************************************************************)
(* The watcher's registry (package watch): the funcmap of api names and    *)
(* function ids (fmsg.go) and the nodemap of live nodes (node.go), as the  *)
(* WatchApi handlers change them (api.go), with the client heartbeat that  *)
(* drives them (rpc/node.go InitTimer) and the watcher's ClearNodeExprie   *)
(* timer (watch.go NewWatcher).                                            *)
(*                                                                         *)
(* Every request runs its handler in a goroutine of its own, and the       *)
(* handlers share the two maps without a lock: a sync.Map makes each Load  *)
(* and Store atomic, nothing more.  A handler is therefore a sequence of   *)
(* steps, one per map access that another handler can observe: PutApi's    *)
(* GetStr, its AddUint32, its ids and str stores, and the unlocked         *)
(* "data.node = append(data.node, uuid)", which reads the slice and writes *)
(* it back; GetApiConn's read of data.node and its write of the pruned     *)
(* list.  A data race on data.node is modelled by its lost-update outcome. *)
(*                                                                         *)
(* A funcdata is kept as [name, node]: its msg and api carry the id and    *)
(* the name, and node is its list of provider uuids.  A NodeMsg is its     *)
(* stamp: its state is set false only by ClearNodeExprie right before it   *)
(* deletes it.  Time is a clock of whole seconds.                          *)
(***************************************************************************)
EXTENDS Integers, Sequences, SequencesExt, Functions

CONSTANTS
    Nodes,         \* uuids of the nodes that register with the watcher
    Funcs,         \* Funcs[u]: the api names of u's Registered request, in order
    Queriers,      \* goroutines serving GetApiConn requests
    WATCH_IN_MAX,  \* funcmap.num as NewWatcher creates it
    TimeOut,       \* -comm.NodeConnTimeOut in seconds (2 * HeartbeatInterval)
    MaxTime,       \* bound on the clock
    MaxQueries     \* bound on GetApiConn requests

VARIABLES
    num,      \* funcmap.num: the last function id minted
    ids,      \* funcmap.ids: function id -> funcdata [name, node]
    str,      \* funcmap.str: api name -> the id of the funcdata stored for it
    nodes,    \* nodemap.uuid: uuid -> NodeMsg.stamp
    now,      \* the clock, in seconds
    h,        \* per node: its Registered handler, or "idle" once it returned
    wrong,    \* per node: heartbeatsWrong, failed Heartbeats calls
    q,        \* per querier: its GetApiConn handler
    queries,  \* GetApiConn requests served so far
    fids      \* per node: its fmsg cache, api name -> the FuncID it was told

vars == << num, ids, str, nodes, now, h, wrong, q, queries, fids >>

Api(u) == Funcs[u][h[u].i]

\* Each node's first WatchRegister is on the wire when the watcher starts
\* (newClient registers before InitTimer starts its heartbeat).
Init == /\ num = WATCH_IN_MAX
        /\ ids = << >> /\ str = << >> /\ nodes = << >>
        /\ now = 0
        /\ h = [u \in Nodes |-> [pc |-> "check", i |-> 1, id |-> 0, node |-> << >>,
                                 got |-> << >>]]
        /\ wrong = [u \in Nodes |-> 0]
        /\ q = [r \in Queriers |-> [pc |-> "idle", id |-> 0, keep |-> << >>]]
        /\ queries = 0
        /\ fids = [u \in Nodes |-> << >>]

SetH(u, f) == h' = [h EXCEPT ![u] = f]
NextApi(u) == SetH(u, [h[u] EXCEPT !.pc = "check", !.i = @ + 1])

\* rsp.Funcs: v, whose ID PutApi has set, is appended to the reply.
Told(u, id) == (Api(u) :> id) @@ h[u].got

\* PutApi(req.Uuid, v) for the next v of req.Funcs: GetStr(v.Name).  A hit
\* sets v.ID to its FuncID, and returns if its node list holds the uuid,
\* else goes on to the append; a miss mints a new id.
PutApiCheck(u) ==
    /\ h[u].pc = "check" /\ h[u].i <= Len(Funcs[u])
    /\ IF Api(u) \in DOMAIN str
       THEN LET id == str[Api(u)] IN
            IF u \in Range(ids[id].node)
            THEN SetH(u, [h[u] EXCEPT !.pc = "check", !.i = @ + 1, !.got = Told(u, id)])
            ELSE SetH(u, [h[u] EXCEPT !.pc = "append", !.id = id,
                                      !.node = ids[id].node, !.got = Told(u, id)])
       ELSE SetH(u, [h[u] EXCEPT !.pc = "mint"])
    /\ UNCHANGED << num, ids, str, nodes, now, wrong, q, queries, fids >>

\* arg.ID = atomic.AddUint32(&f.num, 1)
PutApiMint(u) ==
    /\ h[u].pc = "mint"
    /\ num' = num + 1
    /\ SetH(u, [h[u] EXCEPT !.pc = "ids", !.id = num + 1, !.got = Told(u, num + 1)])
    /\ UNCHANGED << ids, str, nodes, now, wrong, q, queries, fids >>

\* f.ids.Store(arg.ID, tmp), tmp holding node []string{uuid}
PutApiStoreIds(u) ==
    /\ h[u].pc = "ids"
    /\ ids' = (h[u].id :> [name |-> Api(u), node |-> << u >>]) @@ ids
    /\ SetH(u, [h[u] EXCEPT !.pc = "str"])
    /\ UNCHANGED << num, str, nodes, now, wrong, q, queries, fids >>

\* f.str.Store(arg.Name, tmp); addEnvFile's write to funclist.conf is not
\* modelled (nothing reads it back, see InitEnvFile in the README).
PutApiStoreStr(u) ==
    /\ h[u].pc = "str"
    /\ str' = (Api(u) :> h[u].id) @@ str
    /\ NextApi(u)
    /\ UNCHANGED << num, ids, nodes, now, wrong, q, queries, fids >>

\* data.node = append(data.node, uuid): writes back the list it read.
PutApiAppend(u) ==
    /\ h[u].pc = "append"
    /\ ids' = [ids EXCEPT ![h[u].id].node = Append(h[u].node, u)]
    /\ NextApi(u)
    /\ UNCHANGED << num, str, nodes, now, wrong, q, queries, fids >>

\* WatchRegister's loop over rsp.Funcs: the node's fmsg ids and str maps
\* get each api name under the ID the reply carries.
StoreFuncs(u) == [fids EXCEPT ![u] = h[u].got @@ @]

\* Registered after its loop: PutNodeDetail(req) stores a new NodeMsg, or
\* refreshes the stamp of the one stored for the uuid (its host is the
\* same).  The reply (it always lists the watcher, so len(Watch) > 0)
\* reaches WatchRegister, which runs StoreFuncs; its caller resets
\* heartbeatsWrong.  The watcher conns it builds are not modelled.
PutNodeDetail(u) ==
    /\ h[u].pc = "check" /\ h[u].i > Len(Funcs[u])
    /\ nodes' = (u :> now) @@ nodes
    /\ fids' = StoreFuncs(u)
    /\ SetH(u, [h[u] EXCEPT !.pc = "idle", !.i = 1, !.got = << >>])
    /\ wrong' = [wrong EXCEPT ![u] = 0]
    /\ UNCHANGED << num, ids, str, now, q, queries >>

\* nodemap.GetNodeByUuid(uuid) finds a stored NodeMsg.
GetNodeByUuid(u) == u \in DOMAIN nodes

\* UpHeartbeat: the stored NodeMsg gets stamp now (and state true).
UpHeartbeat(u) == [nodes EXCEPT ![u] = now]

\* The client's heartbeat timer callback (the timer does not overlap a run
\* with the next, and the node's first WatchRegister precedes InitTimer):
\* Heartbeats to the watcher, whose handler refreshes a stored NodeMsg and
\* fails for an unknown uuid.  Every third failure calls WatchRegister.
Heartbeat(u) ==
    /\ h[u].pc = "idle"
    /\ IF GetNodeByUuid(u)
       THEN /\ nodes' = UpHeartbeat(u)
            /\ UNCHANGED << h, wrong >>
       ELSE /\ wrong' = [wrong EXCEPT ![u] = @ + 1]
            /\ IF (wrong[u] + 1) % 3 = 0
               THEN SetH(u, [h[u] EXCEPT !.pc = "check"])
               ELSE UNCHANGED h
            /\ UNCHANGED nodes
    /\ UNCHANGED << num, ids, str, now, q, queries, fids >>

\* ClearNodeExprie: delete every NodeMsg whose stamp is older than
\* now + NodeConnTimeOut.
ClearNodeExprie ==
    /\ nodes' = [u \in {x \in DOMAIN nodes : nodes[x] >= now - TimeOut} |-> nodes[u]]
    /\ UNCHANGED << num, ids, str, now, h, wrong, q, queries, fids >>

Tick ==
    /\ now < MaxTime
    /\ now' = now + 1
    /\ UNCHANGED << num, ids, str, nodes, h, wrong, q, queries, fids >>

\* GetApiConn: the funcdata of the request's FuncID, or of its ApiName's
\* msg.FuncID (a miss answers an empty list and changes nothing); its node
\* list is read and the uuids GetNodeByUuid still finds are kept.
GetApiConnLoad(r) ==
    /\ q[r].pc = "idle" /\ queries < MaxQueries
    /\ \E id \in DOMAIN ids \cup {str[a] : a \in DOMAIN str} :
         q' = [q EXCEPT ![r] = [pc |-> "store", id |-> id,
                  keep |-> SelectSeq(ids[id].node, GetNodeByUuid)]]
    /\ queries' = queries + 1
    /\ UNCHANGED << num, ids, str, nodes, now, h, wrong, fids >>

\* data.node = ids: the pruned list overwrites whatever is there now.
GetApiConnStore(r) ==
    /\ q[r].pc = "store"
    /\ ids' = [ids EXCEPT ![q[r].id].node = q[r].keep]
    /\ q' = [q EXCEPT ![r].pc = "idle"]
    /\ UNCHANGED << num, str, nodes, now, h, wrong, queries, fids >>

Registered(u) ==
    \/ PutApiCheck(u) \/ PutApiMint(u) \/ PutApiStoreIds(u)
    \/ PutApiStoreStr(u) \/ PutApiAppend(u) \/ PutNodeDetail(u)

Next ==
    \/ \E u \in Nodes : Registered(u) \/ Heartbeat(u)
    \/ \E r \in Queriers : GetApiConnLoad(r) \/ GetApiConnStore(r)
    \/ ClearNodeExprie
    \/ Tick

Spec == Init /\ [][Next]_vars

TypeOK ==
    /\ num \in Nat /\ now \in 0..MaxTime /\ queries \in 0..MaxQueries
    /\ \A id \in DOMAIN ids : ids[id].node \in Seq(Nodes)
    /\ Range(str) \subseteq DOMAIN ids
    /\ \A u \in DOMAIN nodes : u \in Nodes /\ nodes[u] \in 0..MaxTime
    /\ \A u \in Nodes : h[u].pc \in {"check", "mint", "ids", "str", "append", "idle"}
    /\ \A u \in Nodes : Range(fids[u]) \subseteq DOMAIN ids
=============================================================================
