SPECIFICATION Spec
CONSTANTS
    Key = {"ctrl_r", "alt_l", "shift_l", "caps", "numlock", "escape", "letter", "digit"}
    REPEATING = {"letter", "digit", "escape"}
    PORT_MAX = 2
INVARIANTS
    TypeOK
    NoKeyMisread
    ModifiersFollowKeys
    LocksFollowPresses
