SPECIFICATION Spec
CONSTANTS
    Conn = {c1}
    Worker = {w1, w2}
    MaxLines = 2
    ResponseSize = 1
INVARIANTS
    CompleteLinesProcessed
CHECK_DEADLOCK FALSE
