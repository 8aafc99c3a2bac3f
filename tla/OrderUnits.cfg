SPECIFICATION Spec
CONSTANTS
    Orders = {o1, o2}
    o1 = o1
    o2 = o2
    Threads = {buyer, worker}
    buyer = buyer
    worker = worker
    Worker = worker
    Payers = {o1, o2}
    NoOrder = NoOrder
    Stock = 2
    OneAtATime = TRUE
    LongLine = FALSE
    Failures = FALSE
INVARIANTS
    UnitsConserved
SYMMETRY Symmetry
\* A run ends when every order is finished and nobody asks any more.
CHECK_DEADLOCK FALSE
