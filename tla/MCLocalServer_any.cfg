SPECIFICATION FairSpec
CONSTANTS
    Request = {r1, r2, r3}
    NoRequest = NoRequest
    IdleTimeout = 2
INVARIANTS
    FirstUseRunsOnce
    SentAsShown
PROPERTIES
    GateSpec
    Ends
