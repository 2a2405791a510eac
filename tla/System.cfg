SPECIFICATION SysSpec
CONSTANTS
    PROC_MAX = 3
    QUEUE_SIZE = 5
    SCHEDULER_TIMESLICE = 2
    MAX_PID = 3
    DESTROY_ANY = FALSE
    TIMERS_MAX = 5
    SPINNER = 2
    UPTIME = 4
    TICK_PERIOD = 4
INVARIANTS
    KernelMatchesPic
    LevelAnnounced
PROPERTIES
    IsFairKernel
    EveryReadyRuns
