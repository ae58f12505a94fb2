SPECIFICATION Spec
CONSTANTS
    None = None
    Part = Part
    MaxAttachments = 2
    MaxExpectations = 3
    FixesHere <- MCFixesHere
    Starts <- MCStarts
    Snapshots <- MCSnapshots
    Earlier <- MCEarlier
    MaxSteps = 2
CHECK_DEADLOCK FALSE
INVARIANTS
    NothingUnasked
    FilesAreWhole
    LogTellsTheRun
    NothingIdentifyingLeaves
PROPERTIES
    NothingAfterInterrupt
    RunEnds
