CONSTANTS
    Requests <- MCRequests
    MaxRequests = 3
    FileSize = 2
    LoadSize = 3
SPECIFICATION FairSpec
INVARIANTS TypeOK RequestsIntact OwnAnswer LengthRight
PROPERTY Answered
\* The client may stop sending, and the connection may be closed.
CHECK_DEADLOCK FALSE
