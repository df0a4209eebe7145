SPECIFICATION Spec
CONSTANTS
    Half = 128
    radix = 16
    Calls <- MCCalls
INVARIANTS
    ArgumentsInStep
    NumbersReadBack
    NumberFields
    StringFields
PROPERTY Returns
CHECK_DEADLOCK FALSE
