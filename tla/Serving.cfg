SPECIFICATION EitherSpec
CONSTANTS
    b1 = b1
    b2 = b2
    b3 = b3
    b4 = b4
    c1 = c1
    c2 = c2
    c3 = c3
    Queued = {b1, b2, b3, b4}
    NoBatch = NoBatch
    Priority <- ThreeLevels
    Concurrency <- TwoEach
    Files <- LongQueues
    MaxGlobal = 2
    Burst = 2
    Batches = {b1, b2}
    Clients = {c1, c2, c3}
    Follows <- AllFollowFirst
    RingMax = 2
    QueueMax = 2
    MaxSubscribers = 2
    MaxHistory = 1
    MaxSeq = 3
    MaxDrops = 1
SYMMETRY Interchangeable
INVARIANTS
    NoGapNoDuplicate
    BacklogReachesTheEnd
    LevelsAlternate
CHECK_DEADLOCK FALSE
