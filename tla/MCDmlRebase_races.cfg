\* Every three of nine jobs, on tables of every kind.
CONSTANTS
    k1 = k1
    k2 = k2
    AnyKey = AnyKey
    None = None
    Op <- MCOp
    Jobs <- MCJobs
    Initial <- MCInitial
    Modes = {"dv", "files", "table"}
    Levels = {TRUE, FALSE}
    Retries = 1
    Faults = {"applied", "tail"}
SPECIFICATION Spec
INVARIANTS
    VersionsExact
    ReadsHold
    VectorsAccounted
