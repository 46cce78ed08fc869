CONSTANTS
    Scenes <- MCScenes
    Shapes <- MCShapes
    Tasks = 2
    CacheSize = 1
    MaxCommits = 2
    MaxTables = 2
    MaxEvents = 1
SPECIFICATION Spec
CHECK_DEADLOCK FALSE
INVARIANTS
    ReadsExact
    IncrementExact
    JudgedCurrent
