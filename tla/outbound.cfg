CONSTANTS
    Texts = {a}
    MaxAttempts = 2
    MaxTurns = 2
    Requests = {r1, r2}
    Budgets <- MCBudgets
    None = None
SPECIFICATION Spec
CHECK_DEADLOCK FALSE
INVARIANTS
    FatesRight
    ShownRight
    StreamsCloseUnlessFailed
    OneLiveUnlessRaced
PROPERTY
    Drains
