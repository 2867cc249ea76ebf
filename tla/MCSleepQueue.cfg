CONSTANTS
    Threads = {t1, t2, t3, t4}
    Wchans = {c1, c2}
    NULL = NULL
SPECIFICATION SleepqSpec
INVARIANTS
    SleepqIInv
    NoLostObject
PROPERTY ImplementsWaitQueues
