CONSTANTS
    MaxCtrlr = 2
    MaxNs = 2
    Failures = {"qpair", "memory", "submit", "io"}
SPECIFICATION Spec
INVARIANTS NothingOutlivesItsOperation ReadsBackText GlobalsMatchLists
CHECK_DEADLOCK FALSE
