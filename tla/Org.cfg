\* Two orgs, every order of their components.
SPECIFICATION Commands
CONSTANTS
    Orgs <- MCOrgs
    CustomName <- MCCustomName
    Package <- MCPackage
    FieldOfHop <- MCFieldOfHop
    StandardTarget <- MCStandardTarget
    LooseObject <- MCLooseObject
    Form <- MCForm
    Base <- MCBase
    MaxDepth = 4
    MinConfidence = 50
    Filters <- MCFilters
    Answers <- MCAnswers
    Concurrency = 2
    PerWindow = 2
    Window = 2
    MaxPasses = 2
    MaxChanges = 1
    MaxKills = 1
INVARIANTS
    RateRespected
    AnnotationsKept
    EveryReferenceTraced
    CustomFieldNeverInvented
    UnusedAgreesWithWhereUsed
    
    DeadIsUncalled
    ClosureComplete
