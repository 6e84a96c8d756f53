CONSTANTS
    BufferSize = 7
    WindowSize = 3
    Sizes = {1, 2}
    Total = 12
    Channel = 2
SPECIFICATION FairSpec
INVARIANTS TypeOK WindowsNested Retransmittable OutOfOrderKept
PROPERTIES ImplementsByteStream Settles
