SPECIFICATION FairSpec
CONSTANTS
    k1 = k1
    k2 = k2
    b1 = b1
    b2 = b2
    Keys = {k1, k2}
    Subs = {b1, b2}
    MaxSubs = 1
    MaxSessions = 1
    Budgets <- MCBudgets
    None = None
INVARIANTS
    PoolsSound
    OutputKept
PROPERTIES
    NothingLeft
    AwaitsEnd
CHECK_DEADLOCK FALSE
