SPECIFICATION Spec
CONSTANTS
    Glyphs = {"a"}
    Rows = 3
    Tab = 2
    TabStops = 2
    BootLen = 4
    LateLen = 2
    IrqLen = 1
    MaxIrqs = 2
INVARIANTS
    TypeOK
    CursorOnScreen
    WritesOnScreen
    NeverBeforeScreen
PROPERTIES
    ImplementsTerminal
CHECK_DEADLOCK FALSE
