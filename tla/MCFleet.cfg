\* Two ordinals and a cheaper task under every verb, with a guarded engine.
SPECIFICATION FairSpec
CONSTANTS
    Tasks = {1, 2, 3}
    Nodes = {1, 2}
    Need <- NeedOne
    Capacity <- SmallSecond
    Priority <- CheapOther
    Eligible <- Everywhere
    Repels <- NoRepulsion
    Budgets <- TwoFloors
    EngineGuarded = TRUE
    MaxDisplacements = 2
    BackoffBase = 2
    BackoffCap = 3
    Children <- TwoChildren
    Verbs = {"submit", "delete", "finish", "cordon", "scale", "drain", "retire", "restart"}
INVARIANTS
    PlaneConsistent
    NeverOvercommitted
PROPERTIES
    OnlyCheaperDisplaced
    DrainKeepsFloor
    FeasibleIsPlaced
    EvictionsCease
