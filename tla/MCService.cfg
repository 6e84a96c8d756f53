SPECIFICATION FairSpec
CONSTANTS
    w1 = w1
    w2 = w2
    e1 = e1
    Workers = {w1, w2}
    Names = {e1}
    Zero = zero
    MaxAccepts = 3
    MaxFds = 2
    MaxEmfile = 1
INVARIANTS TypeOK Held Released
PROPERTIES Served StopReturns
CHECK_DEADLOCK FALSE
