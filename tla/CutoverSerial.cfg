SPECIFICATION Spec
CONSTANTS
    cron = cron
    sre = sre
    Cron = cron
    Worker <- MCWorker
    Seed <- MCSeed
    Record <- MCRecord
    Bucket <- MCBucket
    Dwell <- MCDwell
    Verdict <- MCVerdict
    AdvanceAt = 98
    RollbackAt = 95
    ImmediateAt = 90
    Stream = {"stage_transition", "f44"}
    Exclusive = TRUE
    MaxTime = 2
    MaxCrashes = 1
INVARIANT LedgerTellsStage
PROPERTIES ImplementsRollout NoFlipFlop LedgerChains
