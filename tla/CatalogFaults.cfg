SPECIFICATION Spec
CONSTANTS
    MaxByte = 7
    None = None
    Garbled = Garbled
    Unreadable = Unreadable
    Missing = Missing
    MaxTruncation = 1
    TableNames <- MCTableNames
    Schemas <- MCSchemas
    UserKeys <- MCUserKeys
    ScanPrefixes <- MCScanPrefixes
    ProjectName <- MCProjectName
    DatasetName <- MCDatasetName
    MaxId = 5
    MaxDdl = 3
    MaxFaults = 1
    MaxLost = 1
INVARIANTS
    ViewRight
    ListsLive ColumnsRight
    ScansPrefix
PROPERTY
    OpenSeeds
CHECK_DEADLOCK FALSE
