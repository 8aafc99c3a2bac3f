SPECIFICATION Spec
CONSTANTS
    Procs = {p1, p2}
    p1 = p1
    p2 = p2
    Tokens = {t1, t2, t3}
    t1 = t1
    t2 = t2
    t3 = t3
    NoToken = NoToken
    Resets = {k1}
    k1 = k1
    NoReset = NoReset
    Passwords = {w1, w2}
    w1 = w1
    w2 = w2
    NoPassword = NoPassword
SYMMETRY Symmetry
CONSTRAINT Bound
INVARIANTS
    SuccessorUnique
    LoggedOutStaysOut
    SessionSurvives
    ResetOnce
    RoleNeverExceeds
\* All tokens may be used up.
CHECK_DEADLOCK FALSE
