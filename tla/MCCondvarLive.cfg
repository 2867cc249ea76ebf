CONSTANTS
    Threads = {t1, t2, t3}
    Conds = {c1}
    Mutexes = {m1, m2}
    RecursiveM = {}
    NULL = NULL
    MaxDefer = 1
    MaxCount = 0
    Cancellers = {}
    Deadlines = {"never"}
SPECIFICATION FairSpec
INVARIANT NoLostWake
PROPERTY SignalledWakes
CHECK_DEADLOCK FALSE
