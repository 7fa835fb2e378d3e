SPECIFICATION FairSpec
CONSTANTS
    p1 = p1  p2 = p2  a1 = a1  a2 = a2  e1 = e1  e2 = e2
    Procs = {p1, p2}
    Approvals = {a1}
    Executions = {e1}
    Null = Null
    MaxOutput = 1
CHECK_DEADLOCK FALSE
PROPERTIES LockReleased
