SPECIFICATION GpSpec
CONSTANTS
    BiosMasks <- MCBiosMasks
    BiosFs = 0
    Devices <- MCDevices
    MaxRaised = 1
INVARIANT IretFindsFrame
CHECK_DEADLOCK FALSE
