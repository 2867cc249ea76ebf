CONSTANTS
    Threads = {t1, t2, t3}
    Objs = {o1, o2}
    NULL = NULL
    DESTROYED = DESTROYED
    MaxHeld = 2
SPECIFICATION Spec
INVARIANTS
    Exclusion
    CountsAgree
    SleepersBlocked
SYMMETRY Symmetry
CHECK_DEADLOCK FALSE
