SPECIFICATION FairSpec
CONSTANTS
    MaxSessions = 1
    MaxMsgs = 1
    Fds = {1, 2}
    MaxPosts = 1
    LogicMessage <- MCLogicMessage
PROPERTIES
    CloseAllReturns
CHECK_DEADLOCK FALSE
