SPECIFICATION Spec
CONSTANTS
    j1 = j1
    j2 = j2
    t1 = t1
    t2 = t2
    r1 = r1
    r2 = r2
    c1 = c1
    Fresh = Fresh
    Free = Free
    User = User
    Keep = Keep
    Jobs <- MCJobs
    Ticks <- MCTicks
    Requests <- MCRequests
    Convs <- MCConvs
    Scenarios <- MCScenarios
    MaxRetries = 1
INVARIANTS
    TypeOK
    TimerFollowsRow
PROPERTIES
    RemovedJobQuiesces
    RetryChainEnds
CHECK_DEADLOCK FALSE
