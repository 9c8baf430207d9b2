\* Two providers of one api register concurrently; one GetApiConn handler.
CONSTANTS
    Nodes = {n1, n2}
    Funcs <- WFuncs
    Queriers = {r1}
    WATCH_IN_MAX = 100
    TimeOut = 4
    MaxTime = 5
    MaxQueries = 2
SPECIFICATION Spec
INVARIANT ProviderListed
CHECK_DEADLOCK FALSE
