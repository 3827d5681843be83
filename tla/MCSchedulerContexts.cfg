CONSTANTS
    Ps = {p1, p2}
    NULL = NULL
    Tags = {u0, u1}
    ENTRY = u0
    Calls = {"sys_other", "sys_execve", "sys_fork", "sys_yield", "sys_exit", "sys_wait"}
    SCHEDULER_PIT_INTERVAL = 2
    SCHEDULER_TIME_SLICE = 4
    MAX_OOM = 1
SPECIFICATION Spec
SYMMETRY Symmetry
CONSTRAINT NotCorrupt
VIEW View
PROPERTIES ContextPreserved
