CONSTANTS
    Thread = {t1, t2}
    Value = {v1}
    MaxEnq = 2
    MoveClears = TRUE
SPECIFICATION Spec
INVARIANTS DequeueReturnsEnqueued
CHECK_DEADLOCK FALSE
