SPECIFICATION Spec
CONSTANTS
    Torn = Torn
    Zeros = Zeros
    MaxRecords = 3
    BlockClient = FALSE
    ZeroTail = FALSE
INVARIANT Durable
CHECK_DEADLOCK FALSE
