SPECIFICATION Spec
CONSTANTS
    t1 = t1
    t2 = t2
    r1 = r1
    r2 = r2
    Torrents = {t1, t2}
    SingleFile = {t1}
    Rules = {r1}
    Poll = poll
    Callers = {api}
    Labels <- OneRule
    RuleRows <- OverlapRows
    Configured = 2
    MaxRestarts = 0
    MaxEdits = 1
    LoopReadFails = FALSE
    NoRule = NoRule
    All = All
    Free = Free
INVARIANTS
    SingleTransfer
    SequentialRule
    RegistryExact
    LocksHeld
PROPERTIES
    RemovalFollowsDelivery
