CONSTANTS
    t1 = t1
    b1 = b1
    Threads = {t1, t2, t3}
    Bits = {b1, b2}
    InitBits = {}
    Single = FALSE
    ByPrio = TRUE
    Prio <- MCPrio
    Requests <- FewRequests
    None = None
SPECIFICATION FairSpec
INVARIANTS
    IInv
    NobodyOverlooked
PROPERTIES
    NoOvertaking
    SuccessIsMet
    DestructorReturns
CHECK_DEADLOCK FALSE
