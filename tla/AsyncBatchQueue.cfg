CONSTANTS
    MaxBatchSize = 2
    MaxQueueSize = 2
    HasErrorCallback = TRUE
    MaxPuts = 5
    Stoppers = {s1, s2}
SPECIFICATION FairSpec
INVARIANTS IndInv NoOutlive DroppedWithinOne
PROPERTIES ImplementsBatchQueue StopReturns HandedOver
CHECK_DEADLOCK FALSE
