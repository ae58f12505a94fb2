SPECIFICATION TempSpec
CONSTANTS
    File <- MCFile
    PathOf <- MCPathOf
    Run = {r1, r2}
    Folder = {d1, d2}
    NoFolder = NoFolder
    NoRun = NoRun
SYMMETRY Symmetry
INVARIANTS
    UndoIsComplete
PROPERTY HeldIsKept
CHECK_DEADLOCK FALSE
