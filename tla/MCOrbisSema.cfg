CONSTANTS
    t1 = t1
    Threads = {t1, t2, t3}
    MaxTokens = 2
    InitTokens = 1
    IsFifo = FALSE
    Prio <- MCPrio
    None = None
SPECIFICATION FairSpec
INVARIANTS
    IInv
    NobodyOverlooked
PROPERTIES
    TokensMatchResult
    NoOvertaking
    AnsweredReturns
CHECK_DEADLOCK FALSE
