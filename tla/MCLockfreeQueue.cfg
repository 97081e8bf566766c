CONSTANTS
    Thread = {t1, t2}
    Value = {v1, v2}
    MaxEnq = 2
    MoveClears = FALSE
SPECIFICATION FairSpec
INVARIANTS Structure Inv DestructorDrains
PROPERTIES PointersAdvance Linearizable EveryCallReturns
CHECK_DEADLOCK FALSE
