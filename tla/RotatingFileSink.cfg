SPECIFICATION Spec
CONSTANTS
    MaxByte = 3
    LineSize = {1, 2}
    MaxDay = 2
    MaxIdx = 2
    MaxLives = 2
INVARIANTS
    TypeOK
    SizeTracked
    FirstLifeBounded
PROPERTIES
    OpenFileNeverOverflows
CHECK_DEADLOCK FALSE
