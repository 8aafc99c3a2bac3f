SPECIFICATION Spec
CONSTANTS
    Procs = {p1, p2}
    p1 = p1
    p2 = p2
    Orders = {o1, o2}
    o1 = o1
    o2 = o2
    IdemKeys = {k1}
    k1 = k1
    Stock = 1
    MaxCancels = 2
    NoKey = NoKey
    NoOrder = NoOrder
    Processing = Processing
SYMMETRY Symmetry
INVARIANTS
    OneOrderPerKey
    UnitsAccounted
    CancelledGivesBack
    OnePending
\* All orders may be used up and all cancellations made.
CHECK_DEADLOCK FALSE
