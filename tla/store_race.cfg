CONSTANTS
    Paths <- TwoPaths
    Root = "."
    Ancestors <- PathsAncestors
    Requests = {r1, r2}
    Listers = {l1}
    MaxVersion = 2
    MaxSites = 2
    MaxFaults = 1
    Restores = TRUE
SPECIFICATION Spec
SYMMETRY Symmetric
INVARIANTS
    TypeOK
    TrustedRowsAreTrue
    UndisturbedListingReconciles
    StagingOwned
CHECK_DEADLOCK FALSE
