SPECIFICATION Spec
CONSTANTS
    NoPlan = NoPlan
    NoToken = NoToken
    NoFix = NoFix
    Fix = {temp, dns}
    AdminFix = {dns}
    ReversibleFix = {temp}
    Proc = {p1, p2}
    Token = {t1, t2}
    HasRestore = TRUE
    CanElevate = TRUE
    MayStrand = TRUE
    MayRestart = TRUE
SYMMETRY Symmetry
INVARIANTS
    OneRunPerPlan
    ChangeWasConsented
    PointBeforeChange
    DryRunIsDry
    NothingForgotten
PROPERTIES
    GateSpec
    YesIsAnswered
