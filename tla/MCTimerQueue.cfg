CONSTANTS
    TicksPerMs = 2
    MaxTime = 5
    MaxTimers = 3
    Expiries = {1, 3}
    Intervals = {0, 2}
SPECIFICATION FairSpec
INVARIANTS TypeOK Cancellable CancelledStaysCancelled NeverTooOften WakesInTime
PROPERTY DueIsRun
\* The loop may wait for ever, and the clock is bounded.
CHECK_DEADLOCK FALSE
