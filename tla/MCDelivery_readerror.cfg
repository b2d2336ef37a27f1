SPECIFICATION Spec
CONSTANTS
    Configs <- UsualOnly
    MaxSamples = 1
    MaxStamps = 1
    Faults = {"readError"}
PROPERTIES
    DeletesOnlyCorrupt
