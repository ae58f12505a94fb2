SPECIFICATION Spec
CONSTANTS
    None = None
    Garbled = Garbled
    maxEvents = 11
    Check <- Checks
    Machines <- MCMachines
    MaxSnapshots = 2
INVARIANTS
    UnreadIsNotOK
    LossIsNoFinding
    WorseNeverBetter
    MetWasSeen
    FindingIsAnswered
CHECK_DEADLOCK FALSE
