SPECIFICATION Spec
CONSTANTS
    t1 = t1
    t2 = t2
    Thread <- TwoThreads
    Capacity = 7
    Lengths <- MCLengths
    DeviceMayFail = FALSE
    DataMayFail = FALSE
    MaxTransactions = 3
    MaxSyncs = 1
INVARIANTS
    WaitsForFlushesOnly
CHECK_DEADLOCK FALSE
