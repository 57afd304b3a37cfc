SPECIFICATION FairSpec
CONSTANTS
    t1 = t1
    t2 = t2
    Thread <- OneThread
    Capacity = 7
    Lengths <- MCLengths
    DeviceMayFail = TRUE
    DataMayFail = FALSE
    MaxTransactions = 3
    MaxSyncs = 1
INVARIANTS DataBeforeMetadata MetadataInOrder SyncSettles
PROPERTIES CommitReturns CloseReturns
CHECK_DEADLOCK FALSE
