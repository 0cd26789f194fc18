SPECIFICATION Spec
INVARIANT AvlBalanced
CHECK_DEADLOCK FALSE
