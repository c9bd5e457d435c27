SPECIFICATION FairSpec
CONSTANTS
    b1 = b1
    b2 = b2
    t1 = t1
    t2 = t2
    Batches = {b1}
    Tasks = {t1, t2}
    BatchOf <- PairBatchOf
    Concurrency <- OneEach
    MaxGlobal = 1
    MaxActive = 1
    MaxDbFaults = 1
    FactoryFaults = TRUE
    Events = {"cancel", "delete", "shutdown", "crash"}
PROPERTIES
    BatchEnds
    ShutdownCompletes
