SPECIFICATION FairSpec
CONSTANTS
    u1 = u1
    u2 = u2
    p1 = p1
    p2 = p2
    s1 = s1
    s2 = s2
    Sessions = {s1, s2}
    Users = {u1, u2}
    Passwords = {p1}
    Texts = {t1}
    Pixels = {}
    NoPixels = noPixels
    None = none
    MayTimeOut = FALSE
    LookupMayFail = FALSE
    WriteMayFail = FALSE
    MaxChats = 0
    Joins <- SameLogins
    StoredUsers <- OneAccount
    Leavers = {s1}
    Kickable = {}
PROPERTIES
    EveryAskAnswered
    GoodbyeCloses
CHECK_DEADLOCK FALSE
