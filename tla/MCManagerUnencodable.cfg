SPECIFICATION FairSpec
CONSTANTS
    a = a
    b = b
    w1 = w1
    w2 = w2
    w3 = w3
    m1 = m1
    m2 = m2
    Devices = {a}
    Items = {w1, w2}
    DeviceOf <- TwoOfOne
    Encoders = {}
    MsgIds = {m1, m2}
    MaxRetry = 2
    Leftovers <- NoLeftovers
    NoMsg = NoMsg
    NoItem = NoItem
    NoFrame = NoFrame
INVARIANTS
    UnencodableIsDropped
CHECK_DEADLOCK FALSE
