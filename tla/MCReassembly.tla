---------------------------- MODULE MCReassembly ----------------------------
(***************************************************************************)
(* One NodeConn receiving the frames of a few request payloads, encoded by *)
(* MakeReqBody, and joining them with ParseResp.                           *)
(*                                                                         *)
(* Ordered = TRUE is a TCP connection: the frames of one payload arrive in *)
(* the order written, frames of different payloads (concurrent callers,    *)
(* each Write is one whole frame) interleave.  Ordered = FALSE is UDP:     *)
(* any frame may come next.  G has one slot for the client read loops     *)
(* (ParseResp inline) and several for the server, which starts a          *)
(* goroutine per frame (tcpAccept, UdpListen).                             *)
(***************************************************************************)
EXTENDS Naturals, Sequences, Reassembly

CONSTANTS
    Messages,   \* payloads written to the connection: [uuid, fid, data]
    Ordered     \* TRUE: TCP byte stream, FALSE: UDP datagrams

VARIABLES
    wire,       \* frames written and not yet read, per payload
    delivered   \* history: ParseResp results with num > 0, in order

\* Payload sets the runs use (a .cfg cannot write records).
\* Three-, two-, one-frame and empty payloads, distinct correlation ids.
MixedPayloads ==
    { [uuid |-> 101, fid |-> 300, data |-> <<1, 2, 3, 4, 5>>],
      [uuid |-> 102, fid |-> 300, data |-> <<6, 7, 8, 9>>],
      [uuid |-> 65534, fid |-> 65535, data |-> <<10>>],
      [uuid |-> 103, fid |-> 31, data |-> << >>] }

\* One three-chunk request, and one two-chunk request.
ThreeChunks == { [uuid |-> 101, fid |-> 300, data |-> << 1, 2, 3, 4, 5 >>] }
TwoChunks == { [uuid |-> 101, fid |-> 300, data |-> << 1, 2, 3 >>] }

\* Two peers of one UDP listener, each on its first call (serial gives both
\* correlation id 101), to the same function with different payloads.
TwoPeers == { [uuid |-> 101, fid |-> 300, data |-> << 1, 2, 3 >>],
              [uuid |-> 101, fid |-> 300, data |-> << 4, 5, 6 >>] }

mcvars == << list, heap, task, wire, delivered >>

MCInit == /\ Init
          /\ wire = [m \in Messages |-> MakeReqBody(m.data, m.uuid, m.fid)]
          /\ delivered = << >>

\* The read loop reads the next frame and hands it to a goroutine.
Receive(g) ==
    /\ \E m \in Messages : \E i \in 1..Len(wire[m]) :
         /\ Ordered => i = 1
         /\ Start(g, wire[m][i])
         /\ wire' = [wire EXCEPT ![m] = RemoveAt(@, i)]
    /\ UNCHANGED delivered

\* A finished ParseResp: a result with num > 0 is a joined payload.
Deliver(g) ==
    /\ Collect(g)
    /\ delivered' = IF task[g].out.num > 0 /\ task[g].out.err = "none"
                    THEN Append(delivered, task[g].out) ELSE delivered
    /\ UNCHANGED wire

MCNext == \E g \in G :
            \/ Receive(g)
            \/ Deliver(g)
            \/ Step(g) /\ UNCHANGED << wire, delivered >>

MCSpec == MCInit /\ [][MCNext]_mcvars
            /\ \A g \in G : WF_mcvars(Receive(g)) /\ WF_mcvars(Deliver(g))
                            /\ WF_mcvars(Step(g) /\ UNCHANGED << wire, delivered >>)

-----------------------------------------------------------------------------
TypeOK ==
    /\ RTypeOK
    /\ \A m \in Messages : \A i \in 1..Len(wire[m]) : Len(wire[m][i]) = TotalSize
    /\ \A i \in 1..Len(delivered) : delivered[i].num > 0

\* Every payload ParseResp hands out is, byte for byte, one that was
\* written with that correlation id and function id: MakeReqBody, parse
\* and the slot join together lose, reorder or mix no bytes.
DeliveredIntact ==
    \A i \in 1..Len(delivered) :
        \E m \in Messages : /\ m.uuid = delivered[i].num
                            /\ m.fid = delivered[i].fid
                            /\ m.data = delivered[i].data

\* A payload is handed out at most once: the request behind it is
\* dispatched at most once by ParseRspByte.
DeliveredAtMostOnce ==
    \A i, j \in 1..Len(delivered) :
        i # j => delivered[i].num # delivered[j].num

\* Once every frame has been read, every payload has been handed out and
\* the list map holds no half-joined entry.
AllDelivered ==
    <>( /\ \A m \in Messages : \E i \in 1..Len(delivered) : delivered[i].num = m.uuid
        /\ DOMAIN list = {} )
=============================================================================
