SPECIFICATION FairSpec
CONSTANTS
    Defaults <- SmallDefaults
    DefaultTimeout = 1
    Configs <- Transports
    Statuses <- EveryClass
    Faults = {"reject", "lostAck", "cancel", "redirect"}
CHECK_DEADLOCK FALSE
INVARIANTS
    TypeOK
    HonoursContract
    GzipRefusalIsNotFinal
    BackoffClosedForm
PROPERTIES
    Returns
