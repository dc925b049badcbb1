SPECIFICATION Spec
CONSTANTS
    Streams <- MCStreams
    Lengths = {3, 5, 6, 8, 9}
    HeaderSize = 5
    MaxPDUSize = 8
    ReadBufferSize = 11
    Threshold = 6
    MaxStream = 24
CHECK_DEADLOCK FALSE
INVARIANTS FramesTile NothingHeldBack BufferBounded CleanEnd
