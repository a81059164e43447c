SPECIFICATION FairTeardownSpec
CONSTANTS
    Users = {u1}
    Passwords = {p1, p2}
    Texts = {t1}
    Pixels = {x1}
    NoPixels = none
    None = none2
    MaxCalls = 3
    Sessions = {1, 2, 3}
    LookupMayFail = TRUE
    StoredUsers <- NewFile
    WriteMayFail = TRUE
INVARIANTS
    AnsweredInOrder
    StopDrainsQueue
    OnlyBusyStopHarms
PROPERTIES
    AccountsSpec
    EveryJoinAnswered
    TeardownEnds
CHECK_DEADLOCK FALSE
