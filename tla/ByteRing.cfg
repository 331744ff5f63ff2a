SPECIFICATION FairSpec
CONSTANTS
    Capacity = 4
    PushSizes = {1, 2, 5}
    PopSizes = {1, 2, 4}
    MaxBytes = 9
INVARIANTS
    FifoDelivery
    NoDataRace
    StaleSnapshotUnderReports
    QueryIsAPromise
    RingInv
PROPERTIES
    PushReturns
    PopReturns
    MutualWaitNeedsLargeChunks
    ImplementsFifo
CHECK_DEADLOCK FALSE
