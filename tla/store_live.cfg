CONSTANTS
    Paths <- TwoPaths
    Root = "."
    Ancestors <- PathsAncestors
    Requests = {r1, r2}
    Listers = {l1}
    MaxVersion = 1
    MaxSites = 2
    MaxFaults = 0
    Restores = FALSE
SPECIFICATION FairSpec
PROPERTIES
    LockedRequestsAreAnswered
    ListingsEnd
CHECK_DEADLOCK FALSE
