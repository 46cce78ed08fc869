CONSTANTS
    Clients = {c1, c2}
    Tasks <- MCTasks
    Created <- MCCreated
    Foreign <- MCForeign
    Ops <- MCOps
    MaxVersion = 3
    MaxAttempts = 2
    MaxWrites = 2
SPECIFICATION Spec
CHECK_DEADLOCK FALSE
SYMMETRY Symmetry
INVARIANTS
    ReadsOwnColumn
    MetadataSound
    RowsSatisfy
    IdentityUnique
