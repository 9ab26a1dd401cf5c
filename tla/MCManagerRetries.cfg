SPECIFICATION Spec
CONSTANTS
    a = a
    b = b
    w1 = w1
    w2 = w2
    w3 = w3
    m1 = m1
    m2 = m2
    Devices = {a, b}
    Items = {w1, w2, w3}
    DeviceOf <- TwoAndOne
    Encoders = {a}
    MsgIds = {m1, m2}
    MaxRetry = 3
    Leftovers <- OldAnswer
    NoMsg = NoMsg
    NoItem = NoItem
    NoFrame = NoFrame
INVARIANTS
    TypeOK
    OneVerdict
    EncodedWriteIsTold
    AttemptsBounded
    AckedWasHeard
PROPERTIES
    SettledStaysSilent
    RemovesOnlyItsOwn
    RefinesSafety
CONSTRAINT AloneOrNot
CHECK_DEADLOCK FALSE
