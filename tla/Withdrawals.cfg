SPECIFICATION Spec
CONSTANTS
    g1 = g1
    e1 = e1
    o1 = o1
    r1 = r1
    r2 = r2
    r3 = r3
    b1 = b1
    Organizers = {g1}
    Events = {e1}
    Orders = {o1}
    Requests = {r1, r2, r3}
    Readers = {b1}
    OwnerOf <- MCOwnerOf
    EventOf <- MCEventOf
    By <- MCBy
    Price = 20
    Amounts = {19}
    MinAmount = 18
    MaxConns = 3
    MaxCauses = 1
INVARIANTS
    TypeOK
    NoOverdraft
PROPERTY ShownIsAvailable
PROPERTY CallsEnd
\* Every call ends, or waits, and nobody has to start another.
CHECK_DEADLOCK FALSE
