CONSTANTS
    Paths <- TwoPaths
    Root = "."
    Ancestors <- PathsAncestors
    Requests = {r1, r2}
    Listers = {}
    MaxVersion = 1
    MaxSites = 2
    MaxFaults = 0
    Restores = FALSE
SPECIFICATION Spec
SYMMETRY Symmetric
INVARIANTS
    UploadLandsInItsSite
CHECK_DEADLOCK FALSE
