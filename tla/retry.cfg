SPECIFICATION FairSpec
CONSTANTS
    InitialInterval = 1
    MaximumInterval = 5
    MaximumDelay = 6
    MaxTime = 14
CHECK_DEADLOCK FALSE
INVARIANTS
    DelayBound
    AtMostOneLateAttempt
PROPERTIES
    OperationReturns
