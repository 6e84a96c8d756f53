CONSTANTS
    Producers = {p1, p2}
    MaxCalls = 2
    ClearSize = 1
    PipeCap = 2
    EdgeTriggered = TRUE
    EveryWriteWakes = TRUE
SPECIFICATION FairSpec
INVARIANTS TypeOK NoLostWakeup NoLostQuit InOrderOnce
PROPERTY ImplementsFairExecutor
\* loop() returns after quit().
CHECK_DEADLOCK FALSE
