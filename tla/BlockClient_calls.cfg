SPECIFICATION Spec
CONSTANTS
    Callers = {1, 2, 3}
    Calls <- MCCalls
    Cancelled = {3}
    MaxCalls = 1
    block_size = 2
    TEMP_VMO_SIZE = 2
    DeviceBlocks <- MCBlocks
    FifoDepth = 1
    RequestIds = 6
    FirstId = 4
    MayFail = TRUE
    MayClose = TRUE
INVARIANTS DataIsOwn SentInOrder DisconnectedAnswersAll
PROPERTIES EveryCallEnds
CHECK_DEADLOCK FALSE
