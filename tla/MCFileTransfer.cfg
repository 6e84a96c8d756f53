SPECIFICATION FairSpec
CONSTANTS
    FileSizes = {0, 1, 4, 9}
    MaxDataSize = 2
    WindowSize = 3
INVARIANTS TypeOK EchoIntact
PROPERTY Finishes
CHECK_DEADLOCK FALSE
