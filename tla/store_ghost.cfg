CONSTANTS
    Paths <- TwoPaths
    Root = "."
    Ancestors <- PathsAncestors
    Requests = {r1, r2}
    Listers = {l1}
    MaxVersion = 2
    MaxSites = 1
    MaxFaults = 0
    Restores = FALSE
SPECIFICATION Spec
SYMMETRY Symmetric
INVARIANTS
    StaleRowsAreListable
CHECK_DEADLOCK FALSE
