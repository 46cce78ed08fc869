CONSTANTS
    Callers = {c1, c2}
    Calls <- MCCalls
    Tables <- MCTables
    MaxDynamicPartitions = 2
    MaxFaults = 1
SPECIFICATION Spec
CHECK_DEADLOCK FALSE
SYMMETRY Symmetry
INVARIANTS
    OutcomeTruthful
    ResultExact
    EffectExact
    NothingLeftBehind
