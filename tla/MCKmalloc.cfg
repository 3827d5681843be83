CONSTANTS
    PAGE = 2
    MIN_BLOCK_SIZE = 4
    MAX_UNITS = 5
    HEAP_PAGES = 5
SPECIFICATION FairSpec
VIEW View
INVARIANTS TypeOK Partition FreeList
PROPERTIES ImplementsHeap CallsReturn
