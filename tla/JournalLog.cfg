SPECIFICATION Spec
CONSTANTS
    Torn = Torn
    Zeros = Zeros
    MaxRecords = 4
    BlockClient = FALSE
    ZeroTail = TRUE
INVARIANTS PrefixDurable InOrder
CHECK_DEADLOCK FALSE
