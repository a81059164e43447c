SPECIFICATION FairSpec
CONSTANTS
    Producers = {p1, p2}
    Waiters = {w1, w2}
    Pollers = {t1}
    Values = {a, b}
    None = none
    MaxPushes = 3
INVARIANTS
    NoLostWakeup
PROPERTIES
    FifoSpec
    EverythingTaken
CHECK_DEADLOCK FALSE
