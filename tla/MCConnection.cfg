SPECIFICATION FairConnectionSpec
CONSTANTS
    Lines = {a, b}
    Bye = bye
    MaxCalls = 2
    MaxLines = 3
INVARIANTS
    OneWriteAtATime
    HandledInOrder
    CrashNeedsPipelining
PROPERTIES
    OutboxSpec
    SentIsWritten
    ReaderGoesOn
CHECK_DEADLOCK FALSE
