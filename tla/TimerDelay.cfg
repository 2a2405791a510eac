SPECIFICATION AgedSpec
CONSTANTS
    TIMERS_MAX = 2
    QUEUE_SIZE = 2
    Callback = {c1}
    NoCallback = NoCallback
    Interval = {1, 2}
    Repeat = {0, 1}
    TICK_PERIOD = 2
INVARIANTS
    WaitsItsInterval
