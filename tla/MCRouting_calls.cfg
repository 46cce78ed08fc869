CONSTANTS
    Tables <- MCTables
    Connections <- MCConnections
    Calls <- MCCalls
    Changes <- MCChanges
    MaxChanges = 2
SPECIFICATION Spec
INVARIANTS
    EnginesDoNoHarm
PROPERTIES
    NeverStranded
