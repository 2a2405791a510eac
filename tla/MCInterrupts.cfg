SPECIFICATION FairSpec
CONSTANTS
    Device = {0, 1, 4, 5, 9, 12}
    Driver = {0, 1, 5, 9, 12}
    MASKED = {0, 1, 3, 4, 5, 6, 7, 8, 10, 11, 13, 14, 15}
    CHANGES = TRUE
INVARIANTS
    TypeOK
    MasksFollowCalls
    NeverUnhandled
    ServiceExact
    NothingBlocks
PROPERTIES
    TimerServed
    IsInterruptService
