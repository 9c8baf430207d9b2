\* The watcher and one registered node receive every request id once.
CONSTANTS
    Nodes <- DNodes
    Watcher = "w"
    Fids <- DFids
    WatchFids <- DWatchFids
    Served <- DServed
    CacheIds <- DCacheIds
    CacheNames <- DCacheNames
    Registry = {101}
    BUILT_IN_MAX = 30
    GetFuncMsgId = 83
SPECIFICATION Spec
INVARIANT ServedRequestsDispatched
CHECK_DEADLOCK FALSE
