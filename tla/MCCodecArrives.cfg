SPECIFICATION Spec
CONSTANTS
    Samples <- AllSamples
    MaxPoints = 2
INVARIANTS
    ArrivesAsSent
CHECK_DEADLOCK FALSE
