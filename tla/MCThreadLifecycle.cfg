CONSTANTS
    Main = o1
    Objects = {o1, o2, o3}
    NULL = NULL
    GcThreshold = 1
    MaxCached = 1
    MaxCalls = 5
SPECIFICATION FairSpec
INVARIANTS
    IInv
    FoundStaysValid
    NoLostWake
    OnlyJoinCycles
PROPERTIES
    CallReturns
CHECK_DEADLOCK FALSE
