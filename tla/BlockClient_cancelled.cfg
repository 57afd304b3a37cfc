SPECIFICATION Spec
CONSTANTS
    Callers = {1, 2}
    Calls <- CancelCalls
    Cancelled = {1}
    MaxCalls = 1
    block_size = 2
    TEMP_VMO_SIZE = 2
    DeviceBlocks <- MCBlocks
    FifoDepth = 2
    RequestIds = 4
    FirstId = 0
    MayFail = FALSE
    MayClose = FALSE
INVARIANT DataIsOwn
CHECK_DEADLOCK FALSE
