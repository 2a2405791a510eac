SPECIFICATION Spec
CONSTANTS
    VGA_WIDTH = 4
    VGA_HEIGHT = 7
    PROC_MAX = 3
    WELCOME <- MCWelcome
    MESSAGE <- MCMessage
    Line <- MCLine
    TABLE_WIDTH = 2
    Echoed = {"k", "newline", "backspace", "tab"}
    INPUTS = 2
INVARIANTS
    TypeOK
    OnScreenUntilRaced
PROPERTIES
    TerminalUntilRaced
