SPECIFICATION FairSpec
CONSTANTS
    N = 2
    Fixable = {1, 2}
    Unverifiable = {1}
    Proc = {p1, p2}
INVARIANTS
    HistoryComplete
    VerdictIsHonest
PROPERTIES
    FixedMeansClean
    MoveEnds
CHECK_DEADLOCK FALSE
