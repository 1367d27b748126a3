CONSTANTS
    Chars = {"a", "A", "e'", "W", "-", ".", "/", "BS"}
    SlugMaxLength = 3
    PathMaxLength = 5
    SegmentMaxBytes = 4
    MaxText = 6
SPECIFICATION Texts
INVARIANTS
    SlugsAreSlugs
    PathsAreCanonical
    ParentsAreFolders
CHECK_DEADLOCK FALSE
