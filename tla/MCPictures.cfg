SPECIFICATION Spec
CONSTANTS
    u1 = u1
    u2 = u2
    p1 = p1
    p2 = p2
    s1 = s1
    s2 = s2
    Sessions = {s1, s2}
    Users = {u1, u2}
    Passwords = {p1}
    Texts = {t1}
    Pixels = {x1}
    NoPixels = noPixels
    None = none
    MayTimeOut = TRUE
    LookupMayFail = FALSE
    WriteMayFail = FALSE
    MaxChats = 0
    Joins <- OwnLogins
    StoredUsers <- TwoAccounts
    Leavers = {s1}
    Kickable = {u1}
INVARIANTS
    PicturesArrive
CHECK_DEADLOCK FALSE
