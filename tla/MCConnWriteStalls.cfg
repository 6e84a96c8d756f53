CONSTANTS
    MaxBytes = 4
    Chunks = {1, 3}
    SockBuf = 2
    MaxArrivals = 1
    PeerEnds = {}
    Client = FALSE
SPECIFICATION FairSpec
PROPERTY NeverStalls
\* A connection may be idle for ever or closed.
CHECK_DEADLOCK FALSE
