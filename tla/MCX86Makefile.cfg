SPECIFICATION Spec
CONSTANTS
    DefaultSectors = 22
    MCTotal = 24
    ArgLists <- X86ArgLists
    FileSystems <- MCFileSystems
    Machines <- MCMachines
    Sections <- MCSections
INVARIANT SeventeenSectors
CHECK_DEADLOCK FALSE
