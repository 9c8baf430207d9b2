\* Server side of a TCP connection (tcpAccept): frames read in order, one
\* goroutine per frame, two running at once; one three-chunk request.
CONSTANTS
    TotalSize = 16
    BodyStart = 12
    BodySplit = 2
    FinalByte = 14
    G = {g1, g2}
    Ordered = TRUE
    Messages <- ThreeChunks
SPECIFICATION MCSpec
INVARIANTS DeliveredAtMostOnce
CHECK_DEADLOCK FALSE
