SPECIFICATION Spec
CONSTANTS
    p1 = p1  p2 = p2  a1 = a1  a2 = a2  e1 = e1  e2 = e2
    Procs = {p1, p2}
    Approvals = {a1, a2}
    Executions = {e1, e2}
    Null = Null
    MaxOutput = 1
SYMMETRY Symmetry
CHECK_DEADLOCK FALSE
INVARIANTS StopMeansRefused
