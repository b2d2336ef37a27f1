SPECIFICATION FairSpec
CONSTANTS
    Configs <- Edits
    Limit = 1
    MaxStreak = 3
    MaxAhead = 3
INVARIANTS
    TypeOK
    StreaksTellHistory
    MapsAgree
PROPERTIES
    ReportsWholeConfig
    CacheFollowsConfig
    CheckedForEver
