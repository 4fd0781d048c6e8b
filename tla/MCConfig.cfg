SPECIFICATION Spec
CONSTANTS
    r1 = r1
    r2 = r2
    host = host
    p1 = p1
    p2 = p2
    Requests = {r1, r2}
    Saves <- MCSaves
    MaxId = 2
    MaxRule = 1
    Empty = Empty
    None = None
SYMMETRY Interchangeable
CONSTRAINT Focus
INVARIANTS
    TypeOK
    NoRemoteToRemote
    AnsweredSaveStands
    ReachedAsStored
    RuleKeepsItsDestination
CHECK_DEADLOCK FALSE
