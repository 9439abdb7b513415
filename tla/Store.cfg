\* Two controllers race on two names; names are removed and re-added.
SPECIFICATION Spec
CONSTANTS
    Names = {a, b}
    NodeNames = {m}
    Controllers = {c1, c2}
    Phases = {"Pending", "Bound"}
    FirstPhase = "Pending"
    MaxObjects = 3
    MaxSequence = 5
    MaxHandles = 2
    AttemptsAllowed = 2
INVARIANTS
    StoreConsistent
    FreshWhileNameUnreused
    NoSpuriousRefusal
CHECK_DEADLOCK FALSE
