CONSTANTS
    MaxBytes = 6
    Chunks = {1, 3}
    SockBuf = 2
    MaxArrivals = 1
    PeerEnds = {"close", "reset"}
    Client = TRUE
SPECIFICATION FairSpec
INVARIANTS TypeOK ToldOnce WriteArmed StreamIntact
PROPERTIES Drains PeerCloseNoticed
\* A connection may be idle for ever or closed.
CHECK_DEADLOCK FALSE
