SPECIFICATION FairSpec
CONSTANTS
    Subscriber = {"left"}
    Topics <- MCTopics
    Record = {"r1"}
    Field = {"amount"}
    Schema = {"amount"}
    Value = {1, 2}
    Rewritten = 3
    Computed = "amount"
    Partial = FALSE
    ReadThrough = TRUE
    MaxChanges = 3
    MaxCrashes = 1
    MaxResyncs = 1
INVARIANTS EvidenceComplete 
 
CHECK_DEADLOCK FALSE
