SPECIFICATION Spec
CONSTANTS
    Key = {"letter", "arrow"}
    REPEATING = {"letter"}
    PORT_MAX = 2
INVARIANTS
    NoKeyMisread
