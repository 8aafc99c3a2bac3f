SPECIFICATION Spec
CONSTANTS
    Orders = {o1}
    o1 = o1
    NoOrder = NoOrder
    MaxMessages = 3
    MaxSessions = 1
CONSTRAINT OneGroup
INVARIANTS
    TypeOK
    CommittedIsHandled
    
    PaymentFollowsOrder
\* All messages may be handled.
CHECK_DEADLOCK FALSE
