CONSTANTS
    Threads = {t1, t2, t3}
    NULL = NULL
    MaxValue = 1
    Cancellers = {t1}
    Deadlines = {"never", "rel"}
SPECIFICATION SemFairSpec
INVARIANTS
    SemIInv
    NoStrandedToken
    NoLostCancel
PROPERTIES
    TokenServed
CHECK_DEADLOCK FALSE
