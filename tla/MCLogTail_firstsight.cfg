SPECIFICATION Spec
CONSTANTS
    LogFiles <- OneLog
    FileLimit = 2
    CollectLimit = 2
    CacheLimit = 2
    MaxLines <- TwoLines
    Faults = {}
PROPERTIES
    SkipsOnlyOnFirstSight
