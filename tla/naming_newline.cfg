CONSTANTS
    Chars = {"a", "-", "NL"}
    SlugMaxLength = 3
    PathMaxLength = 5
    SegmentMaxBytes = 4
    MaxText = 4
SPECIFICATION Texts
INVARIANTS
    AcceptedSlugsAreSlugs
CHECK_DEADLOCK FALSE
