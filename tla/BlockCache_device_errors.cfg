SPECIFICATION Spec
CONSTANTS
    BLOCK_SIZE = 2
    BLOCK_COUNT = 2
    device_size = 5
    Buffers <- MCBuffers
    StreamBuffers <- MCStream
    Offsets <- MCOffsets
    Seeks <- MCSeeks
    FaultyCalls = {"write_back", "refill"}
    MaxFuse = 1
    MaxOffset = 6
INVARIANT SlotsAreOwn
CHECK_DEADLOCK FALSE
