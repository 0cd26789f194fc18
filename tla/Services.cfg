CONSTANTS
    SendSize = {1, 2}
    SendMsgs = 3
    RecvSize = 2
    ChatConn = {"a", "b", "c"}
    ChatSent = 1
    ChatRoom = 3
    ChatCrowd = 2
    PollSlots = 2
    EchoConn = {"a", "b", "c"}
    EchoSlots = 2
    EchoBuf = 2
    EchoBytes <- FewBytes
    RingSize = 3
    RingItems = 7
    QueueTasks = 4
    LoopTask = {"t1", "t2", "t3"}
    LoopFd = {1, 2, 3}
    LoopToken = 6
    PtrThread = {"t1", "t2"}
    PtrObject = {"a", "b"}
    TaskText <- PaddedTexts
    TaskPriority = {1, 2}
    TaskId = 3
SPECIFICATION Spec
INVARIANTS
    StreamsCorrect
    ChatCorrect
    QueuesCorrect
    LoopCorrect
    SharedCorrect
    RecordsCorrect
CHECK_DEADLOCK FALSE
