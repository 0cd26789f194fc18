SPECIFICATION Spec
INVARIANTS
    BstCorrect
    AvlCorrect
    HashCorrect
    SequencesCorrect
    MmCorrect
    RegionCorrect
CHECK_DEADLOCK FALSE
