SPECIFICATION Spec
CONSTANTS
    b1 = b1
    b2 = b2
    r1 = r1
    r2 = r2
    r3 = r3
    r4 = r4
    Free = Free
    Brains <- MCBrains
    Requests <- MCRequests
    Scenarios <- MCScenarios
    MinBrains = 2
    MaxSessions = 3
INVARIANTS
    TypeOK
    OneOpinion
    CancelledStays
    ConsentKept
PROPERTY
    RunEnds
CHECK_DEADLOCK FALSE
