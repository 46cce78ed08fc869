CONSTANTS
    RowCounts = {0, 2}
    Schemas <- MCSchemas
    Calls <- MCCalls
    Engines <- MCEngines
    FeedSchemaWalk = 1
    SplitRows = 2
    MaxVersion = 3
    MaxEvents = 1
SPECIFICATION Spec
CHECK_DEADLOCK FALSE
INVARIANTS
    FeedsExact
    FollowerExact
PROPERTIES
    FollowerCatchesUp
