CONSTANTS
    Scenes <- MCClaims
    Shapes <- MCShapes
    Tasks = 2
    CacheSize = 1
    MaxCommits = 2
    MaxTables = 2
    MaxEvents = 2
SPECIFICATION Spec
CHECK_DEADLOCK FALSE
INVARIANTS
    FailureNotKept
    \* EnrichedCurrent
    \* ManagedCurrent
    \* DatasetStays
