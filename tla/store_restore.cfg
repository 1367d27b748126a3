CONSTANTS
    Paths <- TwoPaths
    Root = "."
    Ancestors <- PathsAncestors
    Requests = {r1}
    Listers = {l1}
    MaxVersion = 2
    MaxSites = 1
    MaxFaults = 1
    Restores = TRUE
SPECIFICATION Spec
SYMMETRY Symmetric
INVARIANTS
    StaleRowsAreListable
CHECK_DEADLOCK FALSE
