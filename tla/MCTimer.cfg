SPECIFICATION FairSpec
CONSTANTS
    TIMERS_MAX = 3
    QUEUE_SIZE = 3
    Callback = {c1, c2}
    NoCallback = NoCallback
    Interval = {1, 2, 3}
    Repeat <- MCRepeat
    TICK_PERIOD = 6
INVARIANTS
    TypeOK
    SlotsExact
PROPERTIES
    IsTimerService
    FiniteTimersEnd
