SPECIFICATION Spec
CONSTANTS
    t1 = t1
    t2 = t2
    Thread <- OneThread
    Capacity = 7
    Lengths <- MCLengths
    DeviceMayFail = FALSE
    DataMayFail = TRUE
    MaxTransactions = 3
    MaxSyncs = 1
INVARIANTS
    MetadataInOrder
CHECK_DEADLOCK FALSE
