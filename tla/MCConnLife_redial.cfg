\* A peer crashes and restarts; one handler goroutine, no ClearConn tick.
CONSTANTS
    Peers = {p1}
    Actors = {a1}
    MaxSockets = 4
    MaxConns = 4
    MaxCrashes = 1
    MaxTicks = 0
SPECIFICATION Spec
INVARIANT ReaderAttached
CHECK_DEADLOCK FALSE
