SPECIFICATION Spec
CONSTANTS
    Orders = {o1, o2}
    o1 = o1
    o2 = o2
    Threads = {buyer1, worker}
    buyer1 = buyer1
    worker = worker
    Worker = worker
    Payers = {}
    NoOrder = NoOrder
    Stock = 2
    OneAtATime = FALSE
    LongLine = TRUE
    Failures = TRUE
INVARIANTS
    TypeOK
    SlotHasLease
    
PROPERTIES
    ExpiredIsSwept
\* A run ends when every order is finished and nobody asks any more.
CHECK_DEADLOCK FALSE
