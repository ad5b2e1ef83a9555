SPECIFICATION Spec
CONSTANTS
    PAGE = 4096
    HDR = 12
    FTR = 8
    HEAP_MIN_SIZE = 28672
    START = 12582912
    InitialSize = 32768
    TABLE_END = 90112
    WORD = 16777216
    Request <- MCSmall
    MaxAllocs = 4
INVARIANT FootersLeadToHoles
CHECK_DEADLOCK FALSE
