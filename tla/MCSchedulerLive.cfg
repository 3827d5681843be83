CONSTANTS
    Ps = {p1, p2, p3}
    NULL = NULL
    Tags = {u0}
    ENTRY = u0
    Calls = {"sys_fork", "sys_wait"}
    SCHEDULER_PIT_INTERVAL = 2
    SCHEDULER_TIME_SLICE = 2
    MAX_OOM = 0
SPECIFICATION FairSpec
CONSTRAINT NotStruck
VIEW LiveView
PROPERTIES NoStarvation
