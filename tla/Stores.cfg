SPECIFICATION EitherSpec
CONSTANTS
    r1 = r1
    r2 = r2
    d1 = d1
    d2 = d2
    d3 = d3
    p1 = p1
    p2 = p2
    t1 = t1
    t2 = t2
    None = None
    Procs = {p1, p2}
    Tasks = {t1, t2}
    Threads = {r1, r2}
    Dirs = {d1, d2, d3}
    LastTopic = 2
    MaxTroubles = 1
    MaxCalls = 3
    MaxClaims = 3
    MaxFaults = 1
SYMMETRY Symmetry
INVARIANTS
    MapIsKept
    CompletedIsWhole
    DirectoryHasRow
    AnswerIsTrue
    ClaimIsKept
PROPERTIES
    UserFileStands
CHECK_DEADLOCK FALSE
