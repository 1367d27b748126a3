CONSTANTS
    b1 = b1
    Browsers <- OneBrowser
    Tabs <- TwoTabs
    BrowserOf <- TabBrowser
    Users = {u1, u2}
    Sessions = {s1, s2}
    h1 = h1
    Handlers = {h1}
    MayBe <- Mixed
    None = None
SPECIFICATION LiveSpec
PROPERTIES
    SignedOutForCause
    SignOutEnds
    DeadSessionLeaves
