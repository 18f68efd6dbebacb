SPECIFICATION Spec
CONSTANTS
    Torn = Torn
    Zeros = Zeros
    Keys = {k1, k2}
    v1 = v1
    v2 = v2
    Vals = {v1, v2}
    Empty = Empty
    NoValue = NoValue
    ReadError = ReadError
    Nothing = Nothing
    MaxCalls = 3
    MaxSst = 2
    MaxManifest = 1
    MaxFaults = 2
    Settings <- MCSettings
INVARIANTS ReadsAcked GetScanAgree VersionsUnique LostOnlyIfDamaged
PROPERTIES ScanStable IsDurableKv
SYMMETRY KeySymmetry
CHECK_DEADLOCK FALSE
