CONSTANTS
    Threads = {t1, t2, t3}
    Conds = {c1}
    Mutexes = {m1}
    RecursiveM = {}
    NULL = NULL
    MaxDefer = 1
    MaxCount = 0
    Cancellers = {t1, t2, t3}
    Deadlines = {"never", "at"}
SPECIFICATION Spec
INVARIANT WakeSemaphoreMax
SYMMETRY Symmetry
CHECK_DEADLOCK FALSE
