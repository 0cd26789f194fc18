SPECIFICATION FairSpec
CONSTANTS
    MaxSessions = 2
    MaxMsgs = 2
    Fds = {1, 2}
    MaxPosts = 4
    LogicMessage <- MCLogicMessage
INVARIANTS
    TypeOK
    CloseBeforeUnregister
    NoZombieSession
    EchoInOrder
PROPERTIES
    LogicSafety
    EveryMessageDispatched
    DeadSessionsLeave
CHECK_DEADLOCK FALSE
