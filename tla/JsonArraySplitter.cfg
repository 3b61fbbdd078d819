SPECIFICATION Spec
CONSTANTS
    Streams <- MCStreams
    BufferSize = 4
    BomLength = 2
    MaxYields = 4
INVARIANTS
    BufferHoldsInput
    GrowsForOneToken
PROPERTIES
    ImplementsJsonArrayItems
CHECK_DEADLOCK FALSE
