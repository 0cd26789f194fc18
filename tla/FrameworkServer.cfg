SPECIFICATION Spec
CONSTANTS
    Conn = {c1, c2}
    Worker = {w1, w2}
    MaxLines = 1
    ResponseSize = 2
SYMMETRY WorkerSymmetry
INVARIANTS
    TypeOK
    NoLostCompletion
    PoolDrained
CHECK_DEADLOCK FALSE
