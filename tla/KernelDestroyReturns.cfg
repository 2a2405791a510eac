SPECIFICATION Spec
CONSTANTS
    PROC_MAX = 3
    QUEUE_SIZE = 3
    SCHEDULER_TIMESLICE = 1
    MAX_PID = 2
    DESTROY_ANY = FALSE
INVARIANTS
    DestroyReturns
