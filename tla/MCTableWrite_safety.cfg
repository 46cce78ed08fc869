\* An append and an overwrite of one job race another append, on both kinds of table.
CONSTANTS
    w1 = w1
    w2 = w2
    w3 = w3
    t1 = t1
    NoTxn = NoTxn
    Writer = {w1, w2, w3}
    Overwriter = {w2}
    Streaming = {w1}
    TxnOf <- MCTxnOf
    Kinds = {"path", "managed", "tailless"}
    KernelAttempts = 3
    TableAttempts = 3
    UnpublishedCap = 1
    Faults = {"stage", "io", "io_applied", "server", "denied", "missing", "rejected", "tail", "publish", "crash"}
SPECIFICATION FairSpec
INVARIANTS
    CommittedFilesExist
    TxnCommittedOnce
    LandsOnce
    OutcomeTruthful
    VersionsSound
    NoOrphans
PROPERTIES
    EveryAppendLands
