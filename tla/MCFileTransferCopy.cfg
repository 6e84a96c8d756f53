SPECIFICATION Spec
CONSTANTS
    FileSizes = {5}
    MaxDataSize = 3
    WindowSize = 4
INVARIANT CopyEqualsFile
CHECK_DEADLOCK FALSE
