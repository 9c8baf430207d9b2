----------------------------- MODULE MCRouter -----------------------------
(***************************************************************************)
(* Calls by api name on one node's conn cache (Router over ConnLife),    *)
(* racing its TimerCheck runs, a ClearConn tick and a peer crash.  The     *)
(* caller's goroutine also serves DialRegister between its calls; races    *)
(* of two handler goroutines are MCConnLife's.  The watcher may answer,   *)
(* fail or never answer; with the code as it is it never serves these      *)
(* requests (dispatch_watcher).                                            *)
(***************************************************************************)
EXTENDS Router

\* n1 is served by peer p1; n2 by this node (service s2).  Both are
\* calls; a watcher that fails GetFuncMsg stands for a name it lacks.
RNames == {"n1", "n2"}
RApi == {"n1", "n2"}
RFid == [n \in RApi |-> IF n = "n1" THEN 300 ELSE 301]
RType == [n \in RApi |-> "call"]
RProviders == [n \in RApi |-> IF n = "n1" THEN {"p1"} ELSE {}]
RServ == [n \in RNames |-> IF n = "n2" THEN "s2" ELSE "s1"]

(* A call that got a node from the watcher (GetApiConn's list, or         *)
(* GetNodeMsg for a uuid) fails for want of a conn only if a peer was down *)
(* when it started or crashed during it: GetRemoteConn's probe, and the    *)
(* NodeBaseToConn and PutConn of either path, reach a live node whatever   *)
(* ClearConn, TimerCheck and earlier handlers have done to ser meanwhile.  *)
NoSpuriousFailure ==
    \A a \in Callers :
        rt[a].pc = "end" /\ rt[a].res = "noremote"
            => rt[a].down0 \/ crashes > rt[a].crash0

=============================================================================
