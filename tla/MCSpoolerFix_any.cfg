SPECIFICATION SpoolSpec
CONSTANTS
    File <- MCFile
    PathOf <- MCPathOf
    Run = {r1, r2}
    Folder = {d1, d2}
    NoFolder = NoFolder
    NoRun = NoRun
    MayCancel = TRUE
    CommandFails = TRUE
    MoveFails = TRUE
SYMMETRY Symmetry
INVARIANTS
    QueueWhole
    ServiceBackWhenCalm
PROPERTIES
    StruckOffMeansBack
CHECK_DEADLOCK FALSE
