SPECIFICATION Spec
CONSTANTS
    PROC_MAX = 5
    QUEUE_SIZE = 5
    SCHEDULER_TIMESLICE = 3
    MAX_PID = 7
    DESTROY_ANY = TRUE
INVARIANTS
    TypeOK
    AllocatorExact
    PidsExact
    RunQueueExact
    CurrentExact
    ContextIntegrity
    SliceBound
    NeverPanics
    WaitBounded
PROPERTIES
    NoLostTurn
    IsRoundRobin
