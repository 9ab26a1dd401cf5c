SPECIFICATION Spec
CONSTANTS
    r1 = r1
    a1 = a1
    a2 = a2
    Requests = {r1}
    Acks = {a1, a2}
    MaxEnables = 2
    MaxDrainers = 3
    Capacity = 2
    NoQueue = NoQueue
    NoFrame = NoFrame
INVARIANTS
    TypeOK
    InOrderOnce
    OneDrainer
PROPERTIES
    CallReturns
    FrameLeavesQueue
CONSTRAINT AcksInTurn
CHECK_DEADLOCK FALSE
