----------------------------- MODULE MCConnLife -----------------------------
(***************************************************************************)
(* Properties of the connection cache, checked on small sets of peers and  *)
(* handler goroutines (ConnLife).                                          *)
(***************************************************************************)
EXTENDS ConnLife

\* The conns a goroutine still references: the cache, the handlers, and
\* the timer, which holds the conn of every armed TimerCheck.
Held == {ser[u] : u \in DOMAIN ser}
        \cup {act[a].c : a \in Actors} \cup {act[a].old : a \in Actors}
        \cup {c \in DOMAIN conns : conns[c].check = "on"}

(* A read loop whose socket is open reads its conn's current tconn, so     *)
(* the replies to requests written on tconn are read.  TestTcpConn means   *)
(* to replace tconn only after a write on it failed; two unlocked          *)
(* TestTcpConns on one conn, or TimerCheck's, must not leave the loop on   *)
(* a socket tconn no longer names.                                         *)
ReaderOnCurrentSocket ==
    \A r \in readers : Open(r.s) => conns[r.c].tconn = r.s

(* Every cached conn whose socket is open has a ReadRespTCP loop on it;    *)
(* otherwise replies to calls routed through the cache are never read.     *)
ReaderAttached ==
    \A u \in DOMAIN ser :
        Open(conns[ser[u]].tconn) => [c |-> ser[u], s |-> conns[ser[u]].tconn] \in readers

(* A ReadRespTCP loop on an open socket belongs to a conn some goroutine   *)
(* still references; otherwise nothing can ever close that socket, and    *)
(* the loop and the socket leak.                                           *)
NoReaderLeak ==
    \A r \in readers : Open(r.s) => r.c \in Held
=============================================================================
