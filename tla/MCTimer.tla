------------------------------ MODULE MCTimer ------------------------------
(***************************************************************************)
(* A node's ticker (NewTimer(200 ms), so part is 1 s) with InitTimer's     *)
(* heartbeat: AddDurationFunction(HeartbeatInterval = 2 s, -1, ...).  The  *)
(* clock counts seconds.                                                   *)
(***************************************************************************)
EXTENDS Timer

TAdder == [f \in Funcs |-> "function"]
TInterval == [f \in Funcs |-> 2]
TTimes == [f \in Funcs |-> -1]

(* AddDurationFunction with times -1 promises to run the function forever *)
(* (timer.go, "times: [-1 meas forever]"), and the heartbeat relies on it: *)
(* while the ticker has not been closed, a function added to run forever  *)
(* is always either stored in one or two or in a run goroutine that will  *)
(* re-put it, whatever order the ticker's go-then-Delete, the run's put    *)
(* and checkSave's Store-then-Delete take.                                 *)
NeverDropped ==
    \A f \in Funcs :
        st[f] = "added" /\ Counted(f) /\ data[f].times = -1 /\ ~closed =>
            f \in one \cup two \/ rn[f].run + rn[f].put > 0
=============================================================================
