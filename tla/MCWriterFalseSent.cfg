SPECIFICATION Spec
CONSTANTS
    r1 = r1
    a1 = a1
    a2 = a2
    Requests = {r1}
    Acks = {}
    MaxEnables = 1
    MaxDrainers = 2
    Capacity = 1
    NoQueue = NoQueue
    NoFrame = NoFrame
PROPERTIES
    DisconnectedIsReported
CHECK_DEADLOCK FALSE
