SPECIFICATION Spec
CONSTANTS
    Requests = {r1, r2, r3, r4}
    Organizers = {}
    InitialQuantity = 4
    Quantities = {}
    MaxQty = 2
    NoKey = NoKey
    NoRequest = NoRequest
    ColdStart = FALSE
    KeyLoss = FALSE
    RedisFails = FALSE
    EventFails = TRUE
    Releases = TRUE
    SaleCloses = TRUE
\* A run ends when every purchase has been answered.
CHECK_DEADLOCK FALSE
SYMMETRY Symmetry
INVARIANT StockLedger
PROPERTY SellsAsPromised
INVARIANT NoOversell
INVARIANT GrantedIsHeld
