\* An informer, or a watcher that saves its cursor and crashes, beside one
\* controller, a node, and a keeper that compacts.  Of the two task objects the
\* second one carries labels the selector does not match.
SPECIFICATION WatchSpec
CONSTANTS
    Names = {a, b}
    NodeNames = {m}
    Controllers = {c1}
    MaxObjects = 2
    MaxSequence = 4
    MaxHandles = 1
    AttemptsAllowed = 1
    MaxKeep = 3
    Crews = {{"informer"}, {"watcher"}}
    Phases = {"Pending", "Bound"}
    FirstPhase = "Pending"
    Matching = {1}
INVARIANTS
    SoundNeverStranded
    InformerSynced
    NoMissedAdd
CHECK_DEADLOCK FALSE
