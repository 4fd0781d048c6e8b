SPECIFICATION Spec
CONSTANTS
    e1 = e1
    e2 = e2
    w1 = w1
    t1 = t1
    t2 = t2
    la = la
    lb = lb
    Editors = {e1, e2}
    Workers = {w1}
    Torrents = {t1, t2}
    Labels = {la, lb}
    MaxId = 2
    MaxEpoch = 2
    None = None
CONSTRAINT Focus
SYMMETRY Interchangeable
INVARIANTS
    TypeOK
    AtMostOnce
    EditsStand
    RemovedWasMoved
PROPERTY OneRepetitionIsEnough
CHECK_DEADLOCK FALSE
