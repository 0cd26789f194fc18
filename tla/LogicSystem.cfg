SPECIFICATION LogicSpec
CONSTANTS
    LogicMessage = {m1, m2}
    MaxPosts = 4
INVARIANTS
    LogicTypeOK
    NoMissedMessage
    FifoExactlyOnce
PROPERTIES
    EveryMessageServed
    BoxSpec
CHECK_DEADLOCK FALSE
