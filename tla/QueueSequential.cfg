SPECIFICATION Spec
CONSTANTS
    Orders = {o1, o2, o3}
    o1 = o1
    o2 = o2
    o3 = o3
    Threads = {buyer, worker}
    buyer = buyer
    worker = worker
    Worker = worker
    Payers = {o1}
    NoOrder = NoOrder
    Stock = 3
    OneAtATime = TRUE
    LongLine = TRUE
    Failures = TRUE
INVARIANTS
    WaitingRoomInOrder
    
SYMMETRY Symmetry
CONSTRAINT OnePayment
\* A run ends when every order is finished and nobody asks any more.
CHECK_DEADLOCK FALSE
