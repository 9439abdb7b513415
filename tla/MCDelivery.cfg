\* Two replicas through three revisions, good and bad, with losses and freezes;
\* three waves, three builds in two channels, a pool of two;
\* two deployments of a manifest, a store of two nodes and two tasks.
SPECIFICATION DeliverySpec
CONSTANTS
    Replicas = 2
    MaxSurge = 1
    MaxUnavailable = 1
    Floor = 2
    Keep = 2
    Patience = 1
    Builds = {"good", "bad"}
    GoodBuilds = {"good"}
    Faults = {"lose", "end", "vanish", "slo"}
    MaxRevision = 3
    MaxLosses = 1
    Bakes <- ThreeWaves
    Versions = {v1, v2, v3}
    Soak = 2
    Slots = 2
    Share = 1
    Shares = 2
    MinimumRequests = 3
    Tolerance = 2
    Volumes = {1, 2, 4}
    MaxRequests = 6
    Dials = {0, 1, 10}
    SessionLength = 2
    MaxUsers = 5
    Pool = {1, 2}
    Probation = 2
    MaxMeddling = 1
    Window = 2
    MaxMinor = 4
    Findings = {1, 2, 3}
    FixBudget = 2
    FixWindow = 2
    Deploys = {"web", "api"}
    Ordinals = {0, 1, 2}
    DefaultCpu = 1
    NoLabel = "none"
    Raws <- ThreeRaws
    MaxCommits = 2
    MaxDone = 1
    Subjects = {1, 2}
    Need <- TwoNeeds
    Places = {1, 2}
    Capacity <- TwoSizes
    FloorOf = 1
    LogNames = {"a", "b"}
    MaxLog = 5
    Starts = {0, 1, 2, 3}
    Ends = {1, 2, 3, 4, 5}
    MaxWindows = 3
    Ledger <- ThreeAssets
    Sizes = {0, 1, 2}
INVARIANTS
    RolloutConsistent
    DeliveryHolds
    RecordsHold
PROPERTIES
    DeliveryMoves
    RolloutEnds
CHECK_DEADLOCK FALSE
