CONSTANTS
    c1 = c1
    Calls = {c1, c2}
    Tokens = {t1}
    Contents = {"small", "large"}
    Size <- SizeOf
    Cap = 1
    Offered <- Mixed
    MaxChanges = 1
    NoSite = NoSite
    EmptySite = EmptySite
    EmptyFolder = EmptyFolder
    None = None
SPECIFICATION LiveSpec
INVARIANTS
    DoneForAgents
    RevokedSeesNothing
    TiersAgree
    DownloadWithinCap
    AnswersAreTrue
PROPERTIES
    RevokedStartsNothing
    EveryCallAnswered
CHECK_DEADLOCK FALSE
