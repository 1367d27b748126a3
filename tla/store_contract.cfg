CONSTANTS
    Paths <- ThreePaths
    Root = "."
    Ancestors <- PathsAncestors
    Requests = {r1, r2, r3}
    Listers = {}
    MaxVersion = 2
    MaxSites = 2
    MaxFaults = 0
    Restores = FALSE
SPECIFICATION Spec
SYMMETRY Symmetric
INVARIANTS
    IndexKept
    SiteFolderHasRow
PROPERTIES
    IntentBeforeDestruction
    ImplementsContract
CHECK_DEADLOCK FALSE
