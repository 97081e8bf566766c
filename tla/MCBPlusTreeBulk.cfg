CONSTANTS
    Degree = 2
    Clients <- OneClient
SPECIFICATION Spec
INVARIANT BulkInsertChecks
CHECK_DEADLOCK FALSE
