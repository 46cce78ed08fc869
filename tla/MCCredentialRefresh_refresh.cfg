SPECIFICATION Spec
CHECK_DEADLOCK FALSE
SYMMETRY ProvidersAlike
CONSTANTS
    Callers = {c1}
    Providers = {p1, p2}
    Lives <- MCLives
    Margin = 5
    RefreshAhead = 5
    Retry = 1
    Grace = 1
    MaxAge = 2
    Idle = 3
    Near = 1
    MaxWait = 1
    VendTime = 1
    MaxTime = 10
    MaxFailures = 1
    MaxOpens = 2
    None = None
    Refresher = Refresher
INVARIANTS
    SlotKept
PROPERTIES
    ProviderContract
