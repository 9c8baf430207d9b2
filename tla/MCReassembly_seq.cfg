\* Client read loop (ParseResp inline, one goroutine) on a UDP socket:
\* frames in any order.  BodySplit 2: payloads of 5, 4, 1 and 0 bytes make
\* 3, 2, 1 frames and one empty frame.
CONSTANTS
    TotalSize = 16
    BodyStart = 12
    BodySplit = 2
    FinalByte = 14
    G = {g1}
    Ordered = FALSE
    Messages <- MixedPayloads
SPECIFICATION MCSpec
INVARIANTS TypeOK 
PROPERTIES AllDelivered
CHECK_DEADLOCK FALSE
