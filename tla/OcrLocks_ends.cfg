SPECIFICATION FairSpec
CONSTANTS
    p1 = p1
    p2 = p2
    c1 = c1
    c2 = c2
    None = None
    Procs = {p1}
    Callers = {c1}
    ProcOf <- Process
    MaxCrashes = 0
PROPERTIES
    ClaimEnds
CHECK_DEADLOCK FALSE
