SPECIFICATION Spec
CONSTANTS
    Capacity = 6
    Target <- MCTarget
    MetaOps <- MCMetaOps
    TrimOps <- NoTrim
    DataOps <- MCDataOps
    WriteThrough = {"info"}
    MaxOps = 3
    MaxCrashes = 2
    MaxRestarts = 0
    MixedFaults = TRUE
INVARIANT RecoveryIsAtomic
CHECK_DEADLOCK FALSE
