CONSTANTS
    MaxFd = 5
    MaxCalls = 7
    IoErrors = TRUE
    Tables = TRUE
SPECIFICATION FairSpec
INVARIANTS FdsDistinct NothingOutlivesItsCall CreatGivesBlob SetupIsNotReentered
PROPERTY EveryCallReturns
CHECK_DEADLOCK FALSE
