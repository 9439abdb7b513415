\* Two nodes, up to two replicas whose first attempt fails, silences, rescaling,
\* a startup gate or upgrade walks with and without a surge node.
SPECIFICATION LoopFairSpec
CONSTANTS
    Fleet = {a, b}
    Spare = surge
    Slots = 1
    LastOrdinal = 2
    Replicas = {1, 2}
    Failing = {0}
    NotReadyAfter = 1
    EvictAfter = 2
    BackoffCap = 1
    ForgiveAfter = 1
    Budgets = {0, 2}
    Floor = 1
    Rounds = 2
INVARIANTS
    LoopConsistent
PROPERTIES
    TasksAreSpared
    WalksEnd
    Recovers
