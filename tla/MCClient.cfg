SPECIFICATION FairSpec
CONSTANTS
    MaxConnects = 2
    MaxChats = 1
    MaxSays = 1
INVARIANTS
    OwnLinesInOrder
    ShownAnswerIsLatest
    FaultsNeedReconnect
PROPERTIES
    ConnectReturns
    EveryJoinSent
CHECK_DEADLOCK FALSE
