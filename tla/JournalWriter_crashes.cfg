SPECIFICATION Spec
CONSTANTS
    Capacity = 5
    Target <- MCTarget
    MetaOps <- MCMetaOps
    TrimOps <- NoTrim
    DataOps <- MCDataOps
    WriteThrough = {"info", "entry"}
    MaxOps = 3
    MaxCrashes = 2
    MaxRestarts = 0
    MixedFaults = TRUE
INVARIANTS RecoveryIsAtomic CommittedSurvives
CHECK_DEADLOCK FALSE
