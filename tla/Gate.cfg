SPECIFICATION Spec
CONSTANTS
    t1 = t1
    e1 = e1
    e2 = e2
    NoEvent = NoEvent
    Tickets = {t1}
    Events = {e1, e2}
    EventOf <- OneTicket
    Scanners = {s1, s2, s3}
INVARIANT NoDoubleEntry
INVARIANT RightGate
PROPERTY ClosedStaysClosed
PROPERTY AdmitsOnce
PROPERTY EntryIsReported
PROPERTY ValidTicketEnters
