CONSTANTS
    Paths <- TwoPaths
    Root = "."
    Ancestors <- PathsAncestors
    Requests = {r1, r2}
    MaxVersion = 1
    MaxSites = 2
SPECIFICATION FairSpec
PROPERTIES
    ImplementsContract
CHECK_DEADLOCK FALSE
