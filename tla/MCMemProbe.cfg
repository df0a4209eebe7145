SPECIFICATION Spec
CONSTANTS
    Bioses <- MCBioses
    MaxCalls = 30
INVARIANTS
    MapDelivered
    RoomKept
PROPERTY ProbeEnds
CHECK_DEADLOCK FALSE
