SPECIFICATION Spec
CONSTANTS
    Orgs <- MCOrgs
    Categories <- MCCategories
    Vias = {"rest", "mdapi", "sf_cli"}
    Fields <- MCFields
    PerQuery = 2
    MaxFaults = 1
    MaxScans = 3
    MaxCrashes = 1
INVARIANTS
    RetrievedBodyWins
    
    
    LoggedScansAreKept
    LogReplays
    ChangesAreReal
CHECK_DEADLOCK FALSE
