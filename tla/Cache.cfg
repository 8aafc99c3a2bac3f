SPECIFICATION Spec
CONSTANTS
    Procs = {p1, p2}
    p1 = p1
    p2 = p2
    Events = {e1}
    e1 = e1
    Pages = {g1}
    g1 = g1
    MaxVersion = 2
    Absent = Absent
INVARIANTS
    FreshUnlessLate
PROPERTIES
    CacheConverges
