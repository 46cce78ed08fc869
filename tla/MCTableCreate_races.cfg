SPECIFICATION Spec
CONSTANTS
    j1 = j1
    j2 = j2
    Job = {j1, j2}
    Other = Other
    Shared = Shared
    None = None
    Settings <- MCSettings
    Retries = 1
    MaxCalls = 2
    MaxOthers = 2
CHECK_DEADLOCK FALSE
INVARIANTS
    OutcomeTruthful
    LandsAsAsked
    NothingLeft
PROPERTIES
    UndoSparesOthers
