SPECIFICATION FairSpec
CONSTANTS
    seed = seed
    peer = peer
    me = me
    none = none
    NumLoops = 2
    Addresses <- MCAddresses
    Local = me
    Invalid = {none}
    Seeds <- MCSeeds
    IsSeed = FALSE
    MaxConnectionCount = 2
    MaxAddrs = 2
    MaxEnds = 1
INVARIANTS TypeOK Counted KeptAlive
PROPERTY Refills
CHECK_DEADLOCK FALSE
