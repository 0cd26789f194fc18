SPECIFICATION Spec
CONSTANTS
    MaxSessions = 2
    MaxMsgs = 1
    Fds = {1, 2}
    MaxPosts = 2
    LogicMessage <- MCLogicMessage
INVARIANTS
    ReplyReachesRequester
CHECK_DEADLOCK FALSE
