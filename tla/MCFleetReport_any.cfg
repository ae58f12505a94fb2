SPECIFICATION Spec
CONSTANTS
    Machine = {m1}
    Report = {r1, r2, r3}
    MachineOf <- MCMachineOf
    NoReport = NoReport
    MaxHistory = 2
    MaxTime = 1
SYMMETRY Symmetry
INVARIANTS
    NothingLost
    NewestFirst
PROPERTIES
    GateSpec
    LogIsTrue
CHECK_DEADLOCK FALSE
