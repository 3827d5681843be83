CONSTANTS
    AEFS_BLOCK_SIZE = 2
    AEFS_INODE_NUM_BLOCKS = 2
    INODES_PER_BLOCK = 4
    BLOCKS = 20
    SIZE_LIMIT = 16
    FB_NUM_COLS = 2
    FB_NUM_ROWS = 2
    WORD = 16
    Writers = {1, 2}
    Chars = {"a", "b"}
    PROCESS_MAX_NUM_FD = 2
    MAX_VNODES = 4
    MAX_CALLS = 4
    Counts = {0, 3, 9}
    Texts <- MCTexts
    Trees <- MCTrees
    Paths <- MCPaths
SPECIFICATION Spec
CONSTRAINT Bound
VIEW View
INVARIANTS FilesTypeOK ImageListed Owned CursorOnScreen NoStrayWrite ShowsText
PROPERTIES Inherited Resolves ReadBack
CHECK_DEADLOCK FALSE
