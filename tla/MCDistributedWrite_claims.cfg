\* One append without a txn, whose late request takes effect while the driver publishes.
SPECIFICATION Spec
CHECK_DEADLOCK FALSE
CONSTANTS
    p1 = p1
    p2 = p2
    job = job
    NoTxn = NoTxn
    Other = Other
    Plan = {p1}
    Overwrites = {}
    Settings <- MCLateBackfill
    Retries = 1
    MaxCalls = 1
    MaxOthers = 2
INVARIANT FragmentsLandOnce
