CONSTANTS
    b1 = b1
    Browsers <- OneBrowser
    Tabs <- OneTab
    BrowserOf <- TabBrowser
    Users = {u1, u2}
    Sessions = {s1, s2}
    h1 = h1
    Handlers = {h1, h2}
    MayBe <- Mixed
    None = None
SPECIFICATION LiveSpec
PROPERTIES
    ForgottenIsOver
