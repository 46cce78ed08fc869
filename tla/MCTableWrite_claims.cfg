\* The catalog ratifies a commit and then answers 5xx, or refuses it with an answer of its
\* own, a 400 for example.
CONSTANTS
    w1 = w1
    w2 = w2
    w3 = w3
    t1 = t1
    NoTxn = NoTxn
    Writer = {w1, w2}
    Overwriter = {}
    Streaming = {}
    TxnOf <- MCNoTxnOf
    Kinds = {"managed"}
    KernelAttempts = 2
    TableAttempts = 2
    UnpublishedCap = 2
    Faults = {"server_applied", "rejected"}
SPECIFICATION Spec
INVARIANTS
    CommittedFilesExist
    \* RefusedLeavesNothing
