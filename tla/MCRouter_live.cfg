\* One goroutine that makes two calls (call, multi, sendall or
\* CallRemoteByte; by api name, by a peer's uuid or by its own "self")
\* and between them may serve DialRegister, racing a second goroutine
\* that serves DialRegister frames and GetApiConnRsp pushes; peer p1 may
\* crash once; one ClearConn tick; the TimerCheck of flagged conns.
CONSTANTS
    Peers = {"p1"}
    Actors = {a1}
    Callers = {a1}
    MaxSockets = 7
    MaxConns = 4
    MaxCrashes = 1
    MaxTicks = 1
    MaxCalls = 2
    Ops = {"call", "multi", "all", "byte"}
    Uuids = {"", "self", "p1"}
    Names <- RNames
    Api <- RApi
    Fid <- RFid
    Type <- RType
    Providers <- RProviders
    Serv <- RServ
    LocalServ = {"s2"}
    LocalApi = {"n2"}
SPECIFICATION RSpec
INVARIANTS RTypeOK NoSpuriousFailure
CHECK_DEADLOCK FALSE
