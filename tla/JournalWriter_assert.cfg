SPECIFICATION Spec
CONSTANTS
    Capacity = 5
    Target <- MCTarget
    MetaOps <- MCMetaOps
    TrimOps <- NoTrim
    DataOps <- MCDataOps
    WriteThrough = {"info"}
    MaxOps = 3
    MaxCrashes = 0
    MaxRestarts = 0
    MixedFaults = TRUE
INVARIANT InfoBlockAdvances
CHECK_DEADLOCK FALSE
