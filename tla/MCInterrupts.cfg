SPECIFICATION Spec
CONSTANTS
    BiosMasks <- MCBiosMasks
    BiosFs = 24
    Devices <- MCDevices
    MaxRaised = 2
INVARIANTS
    TypeOK
    NoShutdown
    ReadyWhenEnabled
    MainUndisturbed
    NoNesting
PROPERTY RequestsServed
CHECK_DEADLOCK FALSE
