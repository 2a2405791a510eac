SPECIFICATION Spec
CONSTANTS
    QUEUE_SIZE = 3
    Item = {0, 1, 2}
INVARIANTS
    TypeOK
    CountersAgree
PROPERTIES
    IsFifo
