CONSTANTS
    KBD_BUFFER_SIZE = 3
    Readers = {r1, r2}
    NONE = NONE
    Keys = {"a"}
    MAX_READ = 1
    WORD = 8
SPECIFICATION Spec
CONSTRAINT InOrder

PROPERTY DiscardOnlyWhenFull
CHECK_DEADLOCK FALSE
