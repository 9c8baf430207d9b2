\* One CallAuto call (context.TODO, no deadline) over TCP to a handler
\* that returns an error.  WaitRsp registers its RecvChan only after the
\* request frames are written.
CONSTANTS
    TotalSize = 16
    BodyStart = 12
    BodySplit = 2
    FinalByte = 14
    ErrText <- ErrBytes
    SG = {s1}
    Transports = {"tcp"}
    Served = {300}
    Callers = {a}
    Kind <- TwoCallsKind
    Fid <- TwoCallsFid
    Req <- TwoCallsReq
    Deadline <- NoDeadline
    Fails = {300}
    ReqnumStart = 0
    MaxPings <- NoPings
SPECIFICATION Spec
PROPERTIES CallsReturn
CHECK_DEADLOCK FALSE
