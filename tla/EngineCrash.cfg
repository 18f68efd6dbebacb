SPECIFICATION Spec
CONSTANTS
    Keys = {k1, k2}
    MaxPage = 3
    Slots = 2
    MaxPuts = 4
    MaxFaults = 2
    Blank = Blank
    NoLoc = NoLoc
    NoValue = NoValue
    Unreadable = Unreadable
INVARIANTS TypeOK ReadsRight
PROPERTY LostOnlyFresh
CHECK_DEADLOCK FALSE
