SPECIFICATION Spec
CONSTANTS
    b1 = b1
    b2 = b2
    t1 = t1
    t2 = t2
    Batches = {b1, b2}
    Tasks = {t1, t2}
    BatchOf <- PairBatchOf
    Concurrency <- OneEach
    MaxGlobal = 2
    MaxActive = 1
    MaxDbFaults = 1
    FactoryFaults = FALSE
    Events = {"cancel", "delete", "shutdown", "crash"}
INVARIANTS
    WorkerHoldsSlot
    FinalizedIsQuiet
    ClosedBatchHasClosedTasks
PROPERTIES
    CancelIsObeyed
    ImplementsContract
