SPECIFICATION Safe
CONSTANTS
    Streams <- MCCutStreams
    BufferSize = 6
    BomLength = 2
    MaxYields = 4
INVARIANT
    ReturnsEachItemOnce
CHECK_DEADLOCK FALSE
