SPECIFICATION Spec
CONSTANTS
    Capacity = 6
    Target <- MCTarget
    MetaOps <- MCMetaOps
    TrimOps <- MCTrimOps
    DataOps <- MCDataOps
    WriteThrough = {"info"}
    MaxOps = 3
    MaxCrashes = 1
    MaxRestarts = 2
    MixedFaults = FALSE
INVARIANTS RecoveryIsAtomic CommittedSurvives AlwaysMountable CommittedEntriesIntact InfoBlockAdvancesWhileEnabled
PROPERTIES ReplayNeverRollsBack
CHECK_DEADLOCK FALSE
