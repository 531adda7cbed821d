SPECIFICATION Spec
CONSTANTS
    Entity <- MCEntity
    SObjectOf <- MCSObjectOf
    WithId <- MCWithId
    Setup = {"User"}
    Rule <- MCRule
    RuleObject <- MCRuleObject
    RuleStep <- MCRuleStep
    RuleKind <- MCRuleKind
    Scopes <- MCScopes
    DepthLimit = 2
    MaxSaves = 4
INVARIANTS RefireOnce FlowsOncePerEntity ValidationStops
CHECK_DEADLOCK FALSE
