SPECIFICATION Spec
CONSTANTS
    Configs <- TightOnly
    MaxSamples = 3
    MaxStamps = 3
    Faults = {"stop", "cancel", "lostAck", "corrupt", "expire"}
INVARIANTS
    ShutdownEmptiesQueue
    SpoolBounded
PROPERTIES
    SentAgainOnlyUnanswered
    EvictsOnlyOverflow
