SPECIFICATION Spec
CONSTANTS
    Configs <- TightOver
    MaxSamples = 2
    MaxStamps = 2
    Faults = {"reject", "lostAck", "redirect", "crash", "readError", "deleteError",
              "storeError", "pruneError"}
INVARIANTS
    TypeOK
    NothingVanishes
    HandsMatchDisk
PROPERTIES
    KeepsPromise
    BacklogStaysInOrder
