CONSTANTS
    Orgs <- MCOrgs
    MaxFailures = 1
    MaxPasses = 1
    MaxDepth = 3
SPECIFICATION Spec
INVARIANTS
    
    StoppedRunNeverPasses
    
    
    
    RulesActAsConfigured
    ReentryReported
    SaveHazardsReported
