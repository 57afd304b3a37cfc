SPECIFICATION Spec
CONSTANTS
    Tasks = {t1, t2, t3, t4}
    Sizes = {0, 3, 9}
    Kinds = {"block", "read_only", "file", "fake"}
    source_size = 23
    block_size = 2
    device_blocks = 2
    Blocks = {1}
    MaxDropped = 1
SYMMETRY Symmetry
INVARIANTS Partition EverythingMerges IoStaysInBuffer
CHECK_DEADLOCK FALSE
