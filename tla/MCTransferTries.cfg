SPECIFICATION FairSpec
CONSTANTS
    t1 = t1
    t2 = t2
    f1 = f1
    f2 = f2
    n1 = n1
    n2 = n2
    Transfers = {t1}
    AllFiles = {f1, f2}
    Name <- OwnName
    MaxSuffix = 1
    Plans <- FileAndDirectoryPlans
    BlindProbes = TRUE
    WalksOmit = TRUE
    MaxCrashes = 1
    NoPath = NoPath
    Absent = Absent
    Hole = Hole
    Gone = Gone
INVARIANTS
    TypeOK
PROPERTIES
    SkippedUntouched
    MovedIsThere
    ImplementsPayload
    OverwriteDelivers
