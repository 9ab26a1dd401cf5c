SPECIFICATION FairSpec
CONSTANTS
    p = p
    w1 = w1
    w2 = w2
    Points = {p}
    Writes = {w1, w2}
    PointOf <- TwoOfOne
    MaxManagers = 2
    NoWrite = NoWrite
INVARIANTS
    TypeOK
    NoWriteForgotten
    OkIsHeld
PROPERTIES
    PendingIsSettled
CHECK_DEADLOCK FALSE
