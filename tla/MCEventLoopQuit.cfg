CONSTANTS
    Producers = {p1}
    MaxCalls = 1
    ClearSize = 1
    PipeCap = 2
    EdgeTriggered = TRUE
    EveryWriteWakes = TRUE
SPECIFICATION FairSpec
PROPERTY QuitReturns
\* loop() returns after quit().
CHECK_DEADLOCK FALSE
