SPECIFICATION Spec
CONSTANTS
    Session = {s1, s2, s3, s4}
    NoSession = NoSession
    Proc = {p1, p2}
    maxSessions = 2
SYMMETRY Symmetry
INVARIANTS
    NeverUnaccounted
    TableIsKept
CHECK_DEADLOCK FALSE
