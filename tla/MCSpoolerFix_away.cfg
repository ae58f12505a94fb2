SPECIFICATION SpoolSpec
CONSTANTS
    File <- MCFile
    PathOf <- MCPathOf
    Run = {r1}
    Folder = {d1}
    NoFolder = NoFolder
    NoRun = NoRun
    MayCancel = TRUE
    CommandFails = FALSE
    MoveFails = FALSE
SYMMETRY Symmetry
INVARIANT ServiceBack
CHECK_DEADLOCK FALSE
