CONSTANTS
    MaxBytes = 4
    Chunks = {1, 3}
    SockBuf = 2
    MaxArrivals = 0
    PeerEnds = {}
    Client = FALSE
SPECIFICATION Spec
INVARIANT NothingLost
\* A connection may be idle for ever or closed.
CHECK_DEADLOCK FALSE
