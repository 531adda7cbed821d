SPECIFICATION Spec
CONSTANTS
    Orgs <- MCOrgs
    Categories <- MCCategories
    Vias = {"rest"}
    Fields <- MCFields
    PerQuery = 2
    MaxFaults = 2
    MaxScans = 1
    MaxCrashes = 0
INVARIANTS
    PartialIsReported
CHECK_DEADLOCK FALSE
