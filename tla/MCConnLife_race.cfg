\* One peer that crashes and restarts, two handler goroutines whose
\* NodeBaseToConn and PutConn run TestTcpConn on the same cached conn,
\* the TimerCheck of flagged conns, one ClearConn tick.
CONSTANTS
    Peers = {p1}
    Actors = {a1, a2}
    MaxSockets = 8
    MaxConns = 4
    MaxCrashes = 1
    MaxTicks = 1
SPECIFICATION Spec
INVARIANT ReaderOnCurrentSocket
CHECK_DEADLOCK FALSE
