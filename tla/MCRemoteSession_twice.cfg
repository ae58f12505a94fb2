SPECIFICATION Spec
CONSTANTS
    Proc = {p1, p2}
    Token = {t1, t2}
    NoToken = NoToken
    MayRestart = FALSE
SYMMETRY Symmetry
INVARIANT OneSessionOpen
CHECK_DEADLOCK FALSE
