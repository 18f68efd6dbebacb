SPECIFICATION Spec
CONSTANTS
    MaxByte = 7
    None = None
    Garbled = Garbled
    Unreadable = Unreadable
    Missing = Missing
    MaxTruncation = 1
    Clients = {c1, c2}
    Batches <- MCBatches
    TablePaths <- MCTablePaths
    MaxSent = 3
    MaxFaults = 2
INVARIANTS
    ReplyMatches
    SelectRight
PROPERTY
    Answered
CHECK_DEADLOCK FALSE
