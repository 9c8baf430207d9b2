\* One peer that stays up, one handler goroutine, one ClearConn tick.
CONSTANTS
    Peers = {p1}
    Actors = {a1}
    MaxSockets = 4
    MaxConns = 4
    MaxCrashes = 0
    MaxTicks = 1
SPECIFICATION Spec
INVARIANT NoReaderLeak
CHECK_DEADLOCK FALSE
