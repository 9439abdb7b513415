\* A deployment scaled down while its children wait, beside another task.
SPECIFICATION FairSpec
CONSTANTS
    Tasks = {1, 2, 3}
    Nodes = {1, 2}
    Need <- NeedOf
    Capacity <- CapacityOf
    Priority <- CheapOther
    Eligible <- Everywhere
    Repels <- NoRepulsion
    Budgets <- OneFloor
    EngineGuarded = FALSE
    MaxDisplacements = 1
    BackoffBase = 2
    BackoffCap = 4
    Children <- TwoChildren
    Verbs = {"submit", "scale"}
PROPERTIES
    PassesRecover
CHECK_DEADLOCK FALSE
