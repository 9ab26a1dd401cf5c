SPECIFICATION Spec
CONSTANTS
    net = net
    d1 = d1
    d2 = d2
    y = y
    e1 = e1
    Networks = {net}
    Devices = {d1, d2}
    Edits = {e1}
    Rows = {k1, k2}
    k1 = k1
    k2 = k2
    Names = {y}
    Writeable = {y}
    Uarts = {d1}
    NetworkOf <- OneHome
    EditOf <- Edited
    Asked <- Spelled
    Bodies = {Absent}
    Upper <- ToUpper
    Uplinks <- Frames
    MaxPings = 2
    MinPoints = 2
    MaxBusy = 2
    Own = Own
    Absent = Absent
    Deleted = Deleted
INVARIANTS
    TypeOK
    OneAddress
    PointsFollowDevice
    NoTwinPoints
PROPERTIES
    PingEnds
CONSTRAINT PointsOfOne
CHECK_DEADLOCK FALSE
