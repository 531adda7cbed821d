SPECIFICATION SagaSpec
CONSTANTS
    Activity <- MCActivity
    KindOf <- MCKindOf
    HasFunction <- MCHasFunction
    MaxActivities = 3
    MaxAttempts = 2
INVARIANT ConfirmResumes
CHECK_DEADLOCK FALSE
