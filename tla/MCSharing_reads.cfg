CONSTANTS
    Content <- MCContent
    Calls <- MCCalls
    Servers <- MCServers
    MaxExpiries = 2
    MaxFaults = 1
SPECIFICATION Spec
CHECK_DEADLOCK FALSE
INVARIANTS
    ReadsExact
    FailsForCause
PROPERTIES
    CallsEnd
