\* Two concurrent connsCall calls to a user function on a node that has
\* made no call yet (reqnum 0), with deadlines, one server goroutine slot
\* and one ping, over TCP or UDP.  serial's Add, Swap and Add interleave.
CONSTANTS
    TotalSize = 16
    BodyStart = 12
    BodySplit = 2
    FinalByte = 14
    Callers = {a, b}
    Kind <- TwoCallsKind
    Fid <- TwoCallsFid
    Req <- TwoCallsReq
    Deadline <- TwoCallsDeadline
    Served = {300}
    Fails = {}
    ErrText <- ErrBytes
    SG = {s1}
    Transports = {"tcp", "udp"}
    ReqnumStart = 0
    MaxPings <- TcpPing
SPECIFICATION Spec
CHECK_DEADLOCK FALSE
INVARIANT CorrelationIsolation
