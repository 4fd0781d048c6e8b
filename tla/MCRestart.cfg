SPECIFICATION Spec
CONSTANTS
    t1 = t1
    t2 = t2
    r1 = r1
    r2 = r2
    Torrents = {t1, t2}
    SingleFile = {t1}
    Rules = {r1, r2}
    Poll = poll
    Callers = {api}
    Labels <- TwoRules
    RuleRows <- RestartRows
    Configured = 1
    MaxRestarts = 1
    MaxEdits = 0
    LoopReadFails = TRUE
    NoRule = NoRule
    All = All
    Free = Free
INVARIANTS
    IInv
    PayloadSurvives
    ManualByHandOnly
PROPERTIES
    ImplementsPayload
CHECK_DEADLOCK FALSE
