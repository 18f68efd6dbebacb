SPECIFICATION Spec
CONSTANTS
    Target = 2
    PerChunk = 2
    MaxKey = 2
    Writes = 3
    Snapshots = {2, 3}
    MaxFaults = 1
INVARIANTS ScanRight GetNewest
CHECK_DEADLOCK FALSE
