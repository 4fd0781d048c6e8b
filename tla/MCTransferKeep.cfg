SPECIFICATION Spec
CONSTANTS
    t1 = t1
    t2 = t2
    f1 = f1
    f2 = f2
    n1 = n1
    n2 = n2
    Transfers = {t1, t2}
    AllFiles = {f1, f2}
    Name <- SameName
    MaxSuffix = 1
    Plans <- MixedPlans
    BlindProbes = FALSE
    WalksOmit = TRUE
    MaxCrashes = 1
    NoPath = NoPath
    Absent = Absent
    Hole = Hole
    Gone = Gone
INVARIANTS
    NothingLost
PROPERTIES
    ExistingKept
CONSTRAINT Apart
SYMMETRY Alike
