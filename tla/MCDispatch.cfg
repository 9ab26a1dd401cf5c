SPECIFICATION Spec
CONSTANTS
    edge = edge
    drop = drop
    tap = tap
    door = door
    meter = meter
    uart = uart
    odd = odd
    stranger = stranger
    NoDevice = NoDevice
    Known <- Database
    ModelOf <- Fleet
    Sent <- Traffic
    Lost = {0, 1, 2, 4, 6, 19}
INVARIANTS
    TypeOK
    NoGarbage
    VerdictIsAuthentic
    IntactIsDecoded
    NoPanic
    AllOrNothing
CHECK_DEADLOCK FALSE
