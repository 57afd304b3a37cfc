SPECIFICATION Spec
CONSTANTS
    Capacity = 5
    Target <- MCTarget
    MetaOps <- MCMetaOps
    TrimOps <- NoTrim
    DataOps <- MCDataOps
    WriteThrough = {"info"}
    MaxOps = 2
    MaxCrashes = 1
    MaxRestarts = 1
    MixedFaults = TRUE
INVARIANT RecoveryIsAtomic
CHECK_DEADLOCK FALSE
