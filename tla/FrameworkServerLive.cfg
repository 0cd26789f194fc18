SPECIFICATION FairSpec
CONSTANTS
    Conn = {c1}
    Worker = {w1, w2}
    MaxLines = 3
    ResponseSize = 2
INVARIANTS
    OneRequestInFlight
    ResponsesInOrder
PROPERTIES
    SubmittedIsAnswered
CHECK_DEADLOCK FALSE
