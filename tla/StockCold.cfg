SPECIFICATION Spec
CONSTANTS
    Requests = {r1, r2}
    Organizers = {o1}
    InitialQuantity = 2
    Quantities = {1, 3}
    MaxQty = 2
    NoKey = NoKey
    NoRequest = NoRequest
    ColdStart = TRUE
    KeyLoss = TRUE
    RedisFails = TRUE
    EventFails = TRUE
    Releases = TRUE
    SaleCloses = TRUE
\* A run ends when every purchase has been answered.
CHECK_DEADLOCK FALSE
INVARIANT FlightHasLeader
PROPERTY SoldGrowsWithinQuantity
PROPERTY EveryReservationAnswered
