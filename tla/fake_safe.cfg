CONSTANTS
    Paths <- ThreePaths
    Root = "."
    Ancestors <- PathsAncestors
    Requests = {r1, r2}
    MaxVersion = 1
    MaxSites = 2
SPECIFICATION Spec
INVARIANTS
    TreesWellFormed
PROPERTIES
    ContractKeptInPlace
CHECK_DEADLOCK FALSE
