SPECIFICATION Safe
CONSTANTS
    Streams <- MCBomStreams
    BufferSize = 4
    BomLength = 2
    MaxYields = 4
INVARIANT
    SplitsWholeArrays
CHECK_DEADLOCK FALSE
