SPECIFICATION Spec
CONSTANTS
    Conns = {c1, c2}
    Tasks <- MCTasks
    Waiters = {w1}
    MaxHandles = 2
    OpenRequests <- MCOpenRequests
    CloneRequests <- MCCloneRequests
    VmoRequests <- MCVmoRequests
    Width = 3
    NodeRights <- MCNodeRights
    MaxFileSize = 1
    SeekOffsets = {0}
    MaxBuf = 2
    Lengths = {2}
    Page = 2
    NewVmos <- MCNewVmos
    VmoLengths = {2}
    VmoHandleRights <- MCVmoHandleRights
    ServiceRequests <- MCServiceRequests
    ServiceModes = {"none", "service", "file"}
    NodeClones <- MCNodeClones
    Kinds = {"file", "vmo", "service"}
INVARIANTS ClosedOnce ClosedWhenWaitReturns CountCoversConnections SeekFitsI64 SharedHandlesAreReadOnly
PROPERTIES ShutdownCompletes
CHECK_DEADLOCK FALSE
