\* Two plans, committed, committed again, aborted and cancelled, with late requests.
SPECIFICATION Spec
CHECK_DEADLOCK FALSE
CONSTANTS
    p1 = p1
    p2 = p2
    job = job
    NoTxn = NoTxn
    Other = Other
    Plan = {p1, p2}
    Overwrites = {p2}
    Settings <- MCSettings
    Retries = 1
    MaxCalls = 2
    MaxOthers = 1
INVARIANTS
    OutcomeTruthful
    CommitsSound
PROPERTIES
    LandsOnceOrDiscarded
