SPECIFICATION Spec
CONSTANTS
    ENTRIES = 32
    KHEAP_START = 520
    KHEAP_PAGES = 6
    INDEX_PAGES = 1
    HEAP_MIN_PAGES = 2
    HEAP_STRUCT = 4
    STACK_TOP = 896
    STACK_PAGES = 1
    KernelEnd <- MCKernelEnd
    Memory <- MCMemory
    MaxDirs = 2
INVARIANT FirstFrameIsFree
CHECK_DEADLOCK FALSE
