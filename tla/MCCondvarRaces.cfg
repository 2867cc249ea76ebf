CONSTANTS
    Threads = {t1, t2}
    Conds = {c1}
    Mutexes = {m1}
    RecursiveM = {m1}
    NULL = NULL
    MaxDefer = 1
    MaxCount = 1
    Cancellers = {t1, t2}
    Deadlines = {"never", "rel"}
SPECIFICATION Spec
INVARIANTS
    IInv
    NoLostCancel
    DebtCovered
    SignalNotAbsorbed
SYMMETRY Symmetry
CHECK_DEADLOCK FALSE
