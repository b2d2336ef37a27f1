SPECIFICATION Spec
CONSTANTS
    Configs <- TokenGone
    MaxSamples = 1
    MaxStamps = 1
    Faults = {}
PROPERTIES
    TokenlessKeepsBacklog
