SPECIFICATION FairSpec
CONSTANTS
    Torn = Torn
    Zeros = Zeros
    Marker = Marker
    NFrames = 2
    MaxPage = 3
    Limits <- MCLimits
INVARIANTS FlushAtomic Coherent NoReissue
PROPERTIES IsAtomicPages PinnedStays CallReturns
CHECK_DEADLOCK FALSE
