CONSTANTS
    Ps = {p1, p2, p3}
    NULL = NULL
    Tags = {u0}
    ENTRY = u0
    Calls = {"sys_other", "sys_execve", "sys_fork", "sys_yield", "sys_exit", "sys_wait"}
    SCHEDULER_PIT_INTERVAL = 2
    SCHEDULER_TIME_SLICE = 2
    MAX_OOM = 1
SPECIFICATION Spec
SYMMETRY Symmetry
CONSTRAINT NotCorrupt
VIEW View
INVARIANTS TypeOK RunningIsHead ListIntact UniquePids
