SPECIFICATION Spec
CONSTANTS
    q1 = q1
    q2 = q2
    q3 = q3
    q4 = q4
    Free = Free
    Reqs <- MCReqs
    Scenarios <- MCScenarios
    MaxGen = 3
    MaxOp = 5
INVARIANT
    CurrentServer
CHECK_DEADLOCK FALSE
