SPECIFICATION Spec
CONSTANTS
    N = 16
    PageBytes = 64
    HighPde = 12
    CodeLimit = 31
    DataLimit = 223
    Loader = 11
    Stack = 13
    Dest = 14
    Source = 12
    Blocks = 10
    Bioses <- MCBioses
    Garbage <- MCGarbage
INVARIANTS
    MappingsKept
    LostOnlyWhere
    PixelsLand
CHECK_DEADLOCK FALSE
