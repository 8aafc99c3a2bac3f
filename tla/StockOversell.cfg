SPECIFICATION Spec
CONSTANTS
    Requests = {r1, r2}
    Organizers = {}
    InitialQuantity = 1
    Quantities = {}
    MaxQty = 1
    NoKey = NoKey
    NoRequest = NoRequest
    ColdStart = TRUE
    KeyLoss = FALSE
    RedisFails = FALSE
    EventFails = FALSE
    Releases = FALSE
    SaleCloses = FALSE
\* A run ends when every purchase has been answered.
CHECK_DEADLOCK FALSE
INVARIANT NoOversell
