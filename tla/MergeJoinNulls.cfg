SPECIFICATION Spec
CONSTANTS
    PerPage = 1
    MaxPages = 2
    NULL = NULL
    NoRow = NoRow
    OuterBlock = 2
    RunTuples = 2
    MaxByte = 3
    Keys <- MCKeys
    Partitions = 2
    MaxLeft = 3
    MaxRight = 2
    Budget = 1
    MaxLevels = 2
    MaxLost = 1
INVARIANT NullKeysSkipped
CHECK_DEADLOCK FALSE
