SPECIFICATION Spec
CONSTANTS
    Proc = {p1, p2}
    Token = {t1, t2}
    NoToken = NoToken
    MayRestart = TRUE
SYMMETRY Symmetry
INVARIANTS
    SessionsInSequence
PROPERTIES
    GateSpec
    AnswerIsKept
CHECK_DEADLOCK FALSE
