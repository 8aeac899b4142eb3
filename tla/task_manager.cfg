SPECIFICATION Spec
CONSTANTS
    q1 = q1
    q2 = q2
    q3 = q3
    q4 = q4
    a = a
    b = b
    None = None
    Reqs <- MCReqs
    Convs <- MCConvs
    Scenarios <- MCScenarios
    PressureCap = 1
    MaxSlots = 5
INVARIANTS
    TypeOK
    ReservationsMatch
    NoLostAgent
    ResidentBound
PROPERTY
    EveryCallReturns
CHECK_DEADLOCK FALSE
