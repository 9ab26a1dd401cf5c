SPECIFICATION Spec
CONSTANTS
    MaxEnables = 2
    MaxLoops = 2
    MaxOpens = 2
    Patient = TRUE
INVARIANTS
    TypeOK
    DisabledIsQuiet
    OneOwner
    DeadLinkIsFaulty
PROPERTIES
    DisableEnds
    LossIsReported
CHECK_DEADLOCK FALSE
