SPECIFICATION CallsSpec
CONSTANTS
    Callers = {c1, c2, c3}
    FailureThreshold = 2
    FailureWindow = 2
    Cooldown = 2
    ProbesToClose = 2
    CallIds = {k1, k2, k3, k4}
    PoolSize = 2
    QueueSize = 2
    MaxTakes = 2
    ShedAt <- TwoStagesShed
    RestoreAt <- TwoStagesRestore
    Loads = {0, 1, 2, 3, 4}
    RestoreHold = 2
    Clients = {u1, u2}
    Token = 6
    Rate = 4
    Burst = 2
    ReserveRate = 3
    ReserveBurst = 3
    ReserveFloor = 6
    Attempts = {a1, a2, a3}
    KeyTtl = 2
    MaxDoubts = 2
    Askers = {w1, w2, w3}
    MaxVersion = 3
    RetryWindow = 3
    Num = 1
    Den = 2
    MaxSuccesses = 6
    SagaSteps <- FourSteps
    MaxRaises = 2
    Requests = {r1, r2}
    LongestRequest = 5
    LameDuck = 2
    DrainDeadline = 4
    MaxMemory = 9
    MaxRate = 4
    PauseBudget = 1
    MaxRounds = 3
    Workers = {1, 2, 3}
    JobLists <- UpToFiveJobs
    HalfLife = 2
    Flap = 256
    MaxPenalty = 3
    Servers <- ThreeServers
    SlowStarts = {0, 3}
    MaxArrivals = 2
    LastTick = 5
    HedgeDelay = 2
    Latencies = {1, 3, 5, 9}
    MaxCalls = 3
    MaxInFlight = 4
    MaxLimit = 800
    SampleValues = {0, 1, 2, 3, 9}
    MaxSampled = 6
    Hours = {1, 2}
    KeepReadings = 5
    MinimumHistory = 4
    Readings = {5, 40}
    Probes = {0, 4, 20, 42, 60, 90}
    ReservoirSize = 2
    MaxOffered = 5
    SampleWindow = 3
    MinimumSamples = 2
    MaxGap = 7
    LowSuspicion = 1
    HighSuspicion = 3
    Wardens = {d1, d2}
    Allowance = 2
    UpAfter = 2
    DownAfter = 3
    PromoteAfter = 2
    Skews = {0, 2}
    Delays = {0, 3}
    TickLength = 8
    MaxDrift = 2
    Waiters = {1, 2, 3, 4}
    MaxEdges = 5
    LockUsers = {1, 2, 3}
    Locks = {l1, l2}
    Base <- Bands
    DedupWindow = 2
    FlapThreshold = 3
    EscalateAfter = 2
    LadderLength = 3
    Sources <- TwoNodesAndZone
    Consequences <- TasksAndNode
    Inhibits <- ZoneOverNodeOverTask
    MaxOffers = 4
    FastWindow = 2
    SlowWindow = 4
    SloWindow = 5
    AlarmTimes = 5
    Categories = {"drain", "restart"}
    CandidateMinutes = 3
    MaxMinutes = 5
    SignalValues = {0, 1, 5}
    SignalSpan = 6
    KeepOneIn = 3
    MaxTraces = 8
    MaxSpans = 4
    LastMoment = 4
    Homesteads = {n1, n2}
    Nowhere = Nowhere
    MaxTasks = 1
    StageCount = 2
    AttemptsAllowed = 2
    Policies <- TwoPolicies
    BackoffCap = 8
    HealthyReset = 4
    MaxRow = 5
INVARIANTS
    ValvesHold
    SignalsHold
PROPERTIES
    NothingTurnsEarly
    CallsSettle
CHECK_DEADLOCK FALSE
