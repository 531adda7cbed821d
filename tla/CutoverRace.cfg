SPECIFICATION FairSpec
CONSTANTS
    cron = cron
    sre = sre
    Cron = cron
    Worker <- MCWorker
    Seed = {"a"}
    Record <- MCRecord
    Bucket <- MCOneSeedBucket
    Dwell <- MCDwell
    Verdict <- MCVerdict
    AdvanceAt = 98
    RollbackAt = 95
    ImmediateAt = 90
    Stream = {}
    Exclusive = FALSE
    MaxTime = 2
    MaxCrashes = 0
INVARIANTS LadderClimbed
PROPERTY RegressionUnwinds
