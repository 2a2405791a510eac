SPECIFICATION Spec
CONSTANTS
    Key = {"shift_l", "shift_r", "letter"}
    REPEATING = {"letter"}
    PORT_MAX = 2
INVARIANTS
    ModifiersFollowKeys
