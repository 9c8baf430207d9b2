----------------------------- MODULE Reassembly -----------------------------
(***************************************************************************)
(* NodeConn.ParseResp (src/network/rpc/conns.go): decode one frame and     *)
(* join the chunks of a multi-frame payload in the connection's list map   *)
(* (correlation id -> *ReadLink).                                          *)
(*                                                                         *)
(* ParseResp is run by goroutines: the client read loops run it inline,   *)
(* one frame at a time, but the server (tcpAccept, UdpListen) starts one   *)
(* goroutine per frame, so several ParseResp calls on one NodeConn run at  *)
(* once.  The map is guarded by n.mut only around each load, store and     *)
(* delete; the *ReadLink found in the map is then read and written with   *)
(* no lock held.  Each action below is one such region: the lookup under  *)
(* RLock, the checks on the entry, the unlocked slot fill, the completion  *)
(* scan with its locked delete, and the locked store of a new entry.       *)
(*                                                                         *)
(* A *ReadLink is a pointer: an entry deleted from the map stays usable    *)
(* by a goroutine that loaded it earlier.  heap holds every entry ever     *)
(* created and list maps correlation ids to heap indices.                  *)
(***************************************************************************)
EXTENDS Integers, Sequences, SequencesExt, Codec

CONSTANT G          \* goroutine slots running ParseResp on this NodeConn

VARIABLES
    list,   \* NodeConn.list : correlation id -> index into heap
    heap,   \* the ReadLink records: [funcid, buck, uuid, body, recv]
    task    \* per goroutine: pc, the parsed frame, the loaded entry, the result

vars == << list, heap, task >>

\* ParseResp's four return values (num, fid, bts, err).
Out(num, fid, data, err) == [num |-> num, fid |-> fid, data |-> data, err |-> err]
NoOut == Out(0, 0, << >>, "none")

Idle == [pc |-> "idle", p |-> parse(<< >>), ref |-> 0, out |-> NoOut]

Init == /\ list = << >>
        /\ heap = << >>
        /\ task = [g \in G |-> Idle]

\* delete(n.list, uuid) under n.mut.Lock
Delete(l, u) == [x \in DOMAIN l \ {u} |-> l[x]]

Finish(g, o) == task' = [task EXCEPT ![g] = [@ EXCEPT !.pc = "done", !.out = o]]
Goto(g, pc) == task' = [task EXCEPT ![g].pc = pc]

\* A goroutine starts ParseResp on a frame.
Start(g, frame) ==
    /\ task[g].pc = "idle"
    /\ task' = [task EXCEPT ![g] = [Idle EXCEPT !.pc = "lookup", !.p = parse(frame)]]
    /\ UNCHANGED << list, heap >>

\* The caller takes the result and the goroutine slot becomes free.
Collect(g) ==
    /\ task[g].pc = "done"
    /\ task' = [task EXCEPT ![g] = Idle]
    /\ UNCHANGED << list, heap >>

\* parse, the early returns, and the RLock'd load of n.list[uuid].
Lookup(g) ==
    LET p == task[g].p IN
    /\ task[g].pc = "lookup"
    /\ IF p.err # "none" \/ p.Sort > p.Buck THEN Finish(g, Out(0, 0, << >>, p.err))
       ELSE IF p.Buck = 1 THEN Finish(g, Out(p.Uuid, p.Func, p.Data, "none"))
       ELSE IF p.Buck > 1 /\ p.Uuid \in DOMAIN list
            THEN task' = [task EXCEPT ![g].pc = "check", ![g].ref = list[p.Uuid]]
       ELSE IF p.Buck > 1 THEN Goto(g, "create")
       ELSE Finish(g, NoOut)
    /\ UNCHANGED << list, heap >>

\* An entry was found: a count or function mismatch, or an index out of
\* range, drops whatever entry the map now holds for uuid; an empty slot
\* is to be filled; a filled one means a duplicate, ignored.
Check(g) ==
    LET p   == task[g].p
        tmp == heap[task[g].ref]
    IN /\ task[g].pc = "check"
       /\ IF p.Buck # tmp.buck \/ p.Func # tmp.funcid \/ p.Sort - 1 >= tmp.buck
          THEN /\ list' = Delete(list, p.Uuid)
               /\ Finish(g, Out(0, 0, << >>, "wrong"))
          ELSE /\ IF Len(tmp.body[p.Sort]) = 0 THEN Goto(g, "fill") ELSE Finish(g, NoOut)
               /\ UNCHANGED list
       /\ UNCHANGED heap

\* atomic.AddUint32(&tmp.recv, 1); tmp.body[Sort-1] = Data -- no lock held.
Fill(g) ==
    LET p == task[g].p
        r == task[g].ref
    IN /\ task[g].pc = "fill"
       /\ heap' = [heap EXCEPT ![r].recv = @ + 1, ![r].body[p.Sort] = p.Data]
       /\ Goto(g, "complete")
       /\ UNCHANGED list

\* Variant of Complete that returns the payload but leaves the entry in list.
Complete_keep_entry(g) ==
    LET p   == task[g].p
        tmp == heap[task[g].ref]
    IN /\ task[g].pc = "complete"
       /\ IF tmp.recv >= tmp.buck /\ \A i \in 1..tmp.buck : Len(tmp.body[i]) > 0
          THEN Finish(g, Out(p.Uuid, p.Func, FlattenSeq(tmp.body), "none"))
          ELSE Finish(g, NoOut)
       /\ UNCHANGED << list, heap >>

\* recv >= buck: scan the slots; all filled -> join them, delete the map
\* entry for uuid and return the payload.
Complete(g) ==
    LET p   == task[g].p
        tmp == heap[task[g].ref]
    IN /\ task[g].pc = "complete"
       /\ IF tmp.recv >= tmp.buck /\ \A i \in 1..tmp.buck : Len(tmp.body[i]) > 0
          THEN /\ list' = Delete(list, p.Uuid)
               /\ Finish(g, Out(p.Uuid, p.Func, FlattenSeq(tmp.body), "none"))
          ELSE /\ Finish(g, NoOut)
               /\ UNCHANGED list
       /\ UNCHANGED heap

\* Variant of Create that stores the index of the previous heap entry.
Create_stale_index(g) ==
    LET p == task[g].p IN
    /\ task[g].pc = "create"
    /\ IF p.Sort <= 0 \/ p.Sort - 1 >= p.Buck
       THEN /\ list' = Delete(list, p.Uuid)
            /\ Finish(g, Out(0, 0, << >>, "wrong"))
            /\ UNCHANGED heap
       ELSE /\ heap' = Append(heap, [funcid |-> p.Func, buck |-> p.Buck, uuid |-> p.Uuid,
                                     body |-> [i \in 1..p.Buck |->
                                                 IF i = p.Sort THEN p.Data ELSE << >>],
                                     recv |-> 1])
            /\ list' = [x \in DOMAIN list \cup {p.Uuid} |->
                          IF x = p.Uuid THEN Len(heap) ELSE list[x]]
            /\ Finish(g, NoOut)

\* No entry was found: a fresh ReadLink holding this chunk is stored,
\* replacing whatever another goroutine stored meanwhile.
Create(g) ==
    LET p == task[g].p IN
    /\ task[g].pc = "create"
    /\ IF p.Sort <= 0 \/ p.Sort - 1 >= p.Buck
       THEN /\ list' = Delete(list, p.Uuid)
            /\ Finish(g, Out(0, 0, << >>, "wrong"))
            /\ UNCHANGED heap
       ELSE /\ heap' = Append(heap, [funcid |-> p.Func, buck |-> p.Buck, uuid |-> p.Uuid,
                                     body |-> [i \in 1..p.Buck |->
                                                 IF i = p.Sort THEN p.Data ELSE << >>],
                                     recv |-> 1])
            /\ list' = [x \in DOMAIN list \cup {p.Uuid} |->
                          IF x = p.Uuid THEN Len(heap) + 1 ELSE list[x]]
            /\ Finish(g, NoOut)

Step(g) == Lookup(g) \/ Check(g) \/ Fill(g) \/ Complete(g) \/ Create(g)

\* The shape of the state: list points into heap, every entry's slots match
\* its chunk count, and every goroutine is at one of the steps.
RTypeOK ==
    /\ \A u \in DOMAIN list : list[u] \in 1..Len(heap)
    /\ \A i \in 1..Len(heap) : /\ heap[i].buck > 1
                               /\ DOMAIN heap[i].body = 1..heap[i].buck
                               /\ heap[i].recv \in 1..heap[i].buck
    /\ \A g \in G : task[g].pc \in {"idle", "lookup", "check", "fill",
                                    "complete", "create", "done"}
=============================================================================
