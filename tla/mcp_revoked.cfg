CONSTANTS
    c1 = c1
    Calls = {c1}
    Tokens = {t1}
    Contents = {"small", "large"}
    Size <- SizeOf
    Cap = 1
    Offered <- Mixed
    MaxChanges = 1
    NoSite = NoSite
    EmptySite = EmptySite
    EmptyFolder = EmptyFolder
    None = None
SPECIFICATION LiveSpec
PROPERTIES
    RevokedIsRefused
CHECK_DEADLOCK FALSE
