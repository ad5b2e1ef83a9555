SPECIFICATION KernelSpec
CONSTANTS
    ENTRIES = 32
    KHEAP_START = 524
    KHEAP_PAGES = 11
    INDEX_PAGES = 1
    HEAP_MIN_PAGES = 2
    HEAP_STRUCT = 4
    STACK_TOP = 896
    STACK_PAGES = 1
    KernelEnd <- MCKernelEnd
    Memory <- MCMemory
    MaxDirs = 4
INVARIANTS
    TypeOK
    FrameHasOneOwner
    IdentityMapped
    KernelTablesLinked
    TablesAreWalked
    StacksAreOwn
CHECK_DEADLOCK FALSE
