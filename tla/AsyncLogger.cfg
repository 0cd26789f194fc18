SPECIFICATION FairSpec
CONSTANTS
    Client = {c1, c2}
    MaxLogs = 3
    MaxSinks = 2
INVARIANTS
    TypeOK
    WakeupPending
    SinkRuns
    DestroyedIsComplete
PROPERTIES
    DestructorReturns
    EveryLineWritten
CHECK_DEADLOCK FALSE
