SPECIFICATION SagaSpec
CONSTANTS
    Activity <- MCActivity
    KindOf <- MCKindOf
    HasFunction <- MCHasFunction
    MaxActivities = 3
    MaxAttempts = 2
INVARIANTS UnconfirmedRollbackIsClean
PROPERTY HumanIsBarrier
CHECK_DEADLOCK FALSE
