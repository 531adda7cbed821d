SPECIFICATION FairSpec
CONSTANTS
    Call = {"c1", "c2"}
    Process = {"cutover", "shadow"}
    Own = "cutover"
    Weight <- MCWeight
    MaxRemaining = 4
    MaxRefreshes = 2
    MaxSessions = 3
INVARIANTS BudgetRespected OneExchange NoStaleSession
 
CHECK_DEADLOCK FALSE
