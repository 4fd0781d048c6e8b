SPECIFICATION Spec
CONSTANTS
    t1 = t1
    t2 = t2
    r1 = r1
    r2 = r2
    Torrents = {t2}
    SingleFile = {}
    Rules = {r1}
    Poll = poll
    Callers = {}
    Labels <- OneRule
    RuleRows <- DirectoryRows
    Configured = 1
    MaxRestarts = 1
    MaxEdits = 0
    LoopReadFails = FALSE
    NoRule = NoRule
    All = All
    Free = Free
INVARIANTS
    DirectoriesSurvive
