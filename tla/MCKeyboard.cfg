CONSTANTS
    KBD_BUFFER_SIZE = 3
    Readers = {r1, r2}
    NONE = NONE
    Keys = {"a", "lshift", "capslock"}
    MAX_READ = 1
    WORD = 8
SPECIFICATION FairSpec
CONSTRAINT InOrder
INVARIANTS TypeOK FIFO VisibleUnread ModifiersTracked
PROPERTIES Delivered
CHECK_DEADLOCK FALSE
