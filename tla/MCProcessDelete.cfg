CONSTANTS
    NUM_ENTRIES = 12
    NUM_FRAMES = 22
    CODE_PAGES = 2
    MAX_SWITCHES = 2
    MAX_HEAP = 1
    MAX_CALLS = 3
    Procs = {p1, p2, p3, p4}
    boot = boot
SPECIFICATION Spec
PROPERTY DeleteReleases
CHECK_DEADLOCK FALSE
