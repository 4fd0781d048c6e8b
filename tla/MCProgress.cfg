SPECIFICATION FairSpec
CONSTANTS
    t1 = t1
    t2 = t2
    r1 = r1
    r2 = r2
    Torrents = {t1, t2}
    SingleFile = {t1}
    Rules = {r1}
    Poll = poll
    Callers = {api}
    Labels <- OneRule
    RuleRows <- ProgressRows
    Configured = 2
    MaxRestarts = 0
    MaxEdits = 0
    LoopReadFails = FALSE
    NoRule = NoRule
    All = All
    Free = Free
PROPERTIES
    AutoDelivers
    CyclesEnd
