SPECIFICATION Spec
CONSTANTS
    DefaultSectors = 22
    MCTotal = 24
    ArgLists <- MCArgLists
    FileSystems <- MCFileSystems
    Machines <- MCMachines
    Sections <- MCSections
INVARIANTS
    ImageHoldsInputs
    ImageSize
    PaddingInitialised
    HeadRunsWhole
    LoaderRunsWhole
    LostOnlyInHead
PROPERTY Boots
CHECK_DEADLOCK FALSE
