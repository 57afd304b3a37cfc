SPECIFICATION Spec
CONSTANTS
    BLOCK_SIZE = 2
    BLOCK_COUNT = 2
    device_size = 5
    Buffers <- MCBuffers
    StreamBuffers <- MCStream
    Offsets <- MCOffsets
    Seeks <- MCSeeks
    FaultyCalls = {"fill", "flush"}
    MaxFuse = 1
    MaxOffset = 6
VIEW View
PROPERTIES ImplementsDisk
CHECK_DEADLOCK FALSE
