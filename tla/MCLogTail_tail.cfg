SPECIFICATION FairSpec
CONSTANTS
    LogFiles <- TwoLogs
    FileLimit = 1
    CollectLimit = 1
    CacheLimit = 2
    MaxLines <- TwoAndThree
    Faults = {"truncate", "readError", "crash"}
INVARIANTS
    TypeOK
    ForwardedOnceInOrder
    NoLineSkipped
PROPERTIES
    TailKeepsUp
