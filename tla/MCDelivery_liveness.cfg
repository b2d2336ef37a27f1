SPECIFICATION FairSpec
CONSTANTS
    Configs <- Moved
    MaxSamples = 2
    MaxStamps = 2
    Faults = {"stop"}
PROPERTIES
    StopTerminates
    EventuallySettled
    ReloadsTakeEffect
