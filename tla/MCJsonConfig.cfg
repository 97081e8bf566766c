CONSTANTS
    Configs <- SmallConfigs
    Failures = {"start", "connect", "request", "response", "init", "connection"}
SPECIFICATION FairSpec
INVARIANTS SendsThePlan CallbackOnceAndLast OneThingPending
PROPERTY AlwaysCallsBack
CHECK_DEADLOCK FALSE
