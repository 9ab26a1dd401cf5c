SPECIFICATION FairSpec
CONSTANTS
    a = a
    b = b
    w1 = w1
    w2 = w2
    w3 = w3
    m1 = m1
    m2 = m2
    Devices = {a, b}
    Items = {w1, w3}
    DeviceOf <- OneOfTwo
    Encoders = {a, b}
    MsgIds = {m1}
    MaxRetry = 2
    Leftovers <- NoLeftovers
    NoMsg = NoMsg
    NoItem = NoItem
    NoFrame = NoFrame
INVARIANTS
    NoLostWakeup
PROPERTIES
    RoundRobin
    WritesSettle
    StopEndsScheduler
    RefinesPromise
CHECK_DEADLOCK FALSE
