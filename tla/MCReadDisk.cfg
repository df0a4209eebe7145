SPECIFICATION Spec
CONSTANTS
    Requests <- MCRequests
    MaxPolls = 2
INVARIANT RegistersHoldLba
CHECK_DEADLOCK FALSE
