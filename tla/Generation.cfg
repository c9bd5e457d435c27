SPECIFICATION EitherSpec
CONSTANTS
    deepseek = deepseek
    hybrid = hybrid
    old = old
    new = new
    w1 = w1
    w2 = w2
    c1 = c1
    c2 = c2
    None = None
    Workers = {deepseek, hybrid}
    Trusted = {deepseek}
    LastRound = 2
    Inputs = {old, new}
    TopicWorkers = {w1, w2}
    Chapters = {c1, c2}
    LastTopicRound = 1
    MaxChanges = 1
SYMMETRY Interchangeable
INVARIANTS
    RunsBelongToLease
    StagedCanFinish
    PublishedFromOneInput
    CompletedIsCurrent
    SyncedMapIsCurrent
PROPERTIES
    StagedFromOneInput
    LostLeaseWritesNothing
CHECK_DEADLOCK FALSE
