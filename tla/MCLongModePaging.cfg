SPECIFICATION Spec
CONSTANTS
    N = 8
    SelfSlot = 6
    DevSlot = 5
    Spare = 32
    ApicFrame = 35
    Copies = 16
    Absent = Absent
    Frames <- MCFrames
    Memories <- MCMemories
INVARIANTS
    TypeOK
    IdentityMapped
    NoFault
    ApicMapped
    OnlyTablesWritten
    NothingElseMapped
    PteFormula
PROPERTY NoStaleTranslation
CHECK_DEADLOCK FALSE
