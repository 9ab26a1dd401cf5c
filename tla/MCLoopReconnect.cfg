SPECIFICATION Spec
CONSTANTS
    MaxEnables = 1
    MaxLoops = 1
    MaxOpens = 2
    Patient = TRUE
PROPERTIES
    Reconnects
CHECK_DEADLOCK FALSE
