SPECIFICATION FairSpec
CONSTANTS
    p1 = p1
    p2 = p2
    None = None
    Procs = {p1}
    LastPage = 2
    Escalated <- LastIsEscalated
    MaxSource = 2
    MaxAttempts = 2
    MaxCrashes = 1
INVARIANTS
    FinalIsSound
PROPERTIES
    CompletedIsKept
    NoteIsOfCurrentFinal
    RunEnds
CHECK_DEADLOCK FALSE
