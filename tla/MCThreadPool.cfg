CONSTANTS
    Worker = {w1, w2, w3}
    Task = {a, b, c, d}
SPECIFICATION FairSpec
INVARIANTS Inv DestructorRunsAll NoLostWakeup NobodySleepsThroughStop
PROPERTIES EveryTaskRuns DestructorReturns
CHECK_DEADLOCK FALSE
