CONSTANTS
    Degree = 2
    Clients <- MCClients
SPECIFICATION Spec
INVARIANTS TreeIsWellFormed NothingLost RangeQueryIsComplete MissesOnlySeparators
CHECK_DEADLOCK FALSE
