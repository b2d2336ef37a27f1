SPECIFICATION FairLife
CONSTANTS
    MaxRevisions = 3
    Updaters <- TwoUpdaters
    Releases <- TwoReleases
    Chunks = 2
INVARIANTS
    HostTypeOK
    StaleOnlyAfterRace
    BrokenOnlyAfterOverlap
PROPERTIES
    NeverGoesBack
    QuietWriteIsLoaded
