CONSTANTS
    Buffers <- MCBuffers
    SIZE_MAX = 15
SPECIFICATION CrcSpec
INVARIANTS
    CrcTypeOK
    IsRemainder
    ReadsTheText
CHECK_DEADLOCK FALSE
