CONSTANTS
    mmap <- MCmmap
    offset <- MCoffset
    page_frames_len = 7
    BYTE = 1
    MAX_REQUEST = 3
    Clients = {c1, c2}
    FOUR_KB = 8
    ONE_MB = 16
    UINT = 256
    Boots <- MCBoots
SPECIFICATION MmSpec
SYMMETRY Symmetry
CONSTRAINT Serial
INVARIANTS TypeOK NoDoubleAllocation NoLeak AllocationGuarantee FoundIsScan Spared MapSound FramesCounted
CHECK_DEADLOCK FALSE
