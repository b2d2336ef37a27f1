SPECIFICATION Spec
CONSTANTS
    Names <- TwoNames
    Modulus = 3
    MaxClock = 2
    MaxSince = 2
    MaxProcesses = 1
INVARIANTS
    TypeOK
PROPERTIES
    NeverOverstated
    NothingUncounted
    SpeedBounded
