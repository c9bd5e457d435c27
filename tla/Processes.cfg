SPECIFICATION EitherSpec
CONSTANTS
    Callers = {c1, c2}
    Setup = setup
    Health = health
    MaxCommands = 2
    MaxFaults = 1
    ServiceWorkers = {w1, w2}
    MaxCrashes = 1
    MaxScanFaults = 1
    MaxHandOffs = 1
INVARIANTS
    NoChildIsLost
    CleanExitLeavesNothing
    StatusMeansClean
PROPERTIES
    ShellSettles
    NothingOutlivesTheShell
CHECK_DEADLOCK FALSE
