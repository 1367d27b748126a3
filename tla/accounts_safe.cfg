CONSTANTS
    UserIds = {u1, u2}
    TokenIds = {t1, t2, t3}
    Names = {admin, other}
    Passwords = {p1, p2}
    AdminName = admin
    AdminPassword = p1
    SessionLength = 1
    MaxTime = 2
    MaxFaults = 1
    NoUser = NoUser
    NoToken = NoToken
SPECIFICATION Spec
SYMMETRY Symmetric
INVARIANTS
    EndedStaysEnded
    OwnersExist
    SignsOutUnlessFault
PROPERTIES
    AccountsNeverEmpty
    ManagementNeedsSession
    TokensEndForCause
