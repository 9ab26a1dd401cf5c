SPECIFICATION Spec
CONSTANTS
    Samples <- AllSamples
    MaxPoints = 2
INVARIANTS
    RoundTrip
CHECK_DEADLOCK FALSE
