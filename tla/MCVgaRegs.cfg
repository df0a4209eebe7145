SPECIFICATION Spec
CONSTANTS
    Cards <- MCCards
    LightPen = {0, 255}
    MaxCalls = 2
INVARIANTS
    CardHoldsDump
    ReadBack
CHECK_DEADLOCK FALSE
