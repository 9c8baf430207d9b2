\* UdpListen: one NodeConn (one list map) for every peer; two peers send a
\* two-chunk request with the same correlation id.  One goroutine.
CONSTANTS
    TotalSize = 16
    BodyStart = 12
    BodySplit = 2
    FinalByte = 14
    G = {g1}
    Ordered = FALSE
    Messages <- TwoPeers
SPECIFICATION MCSpec
INVARIANTS DeliveredIntact
CHECK_DEADLOCK FALSE
