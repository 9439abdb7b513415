SPECIFICATION CapacitySpec
CONSTANTS
    HoldNames = {h1, h2}
    Scavengers = {v1, v2}
    BookingNames = {b1, b2}
    Capacity = 2
    FleetFree = 2
    Horizon = 3
    Teams = {1, 2, 3}
    Guarantee <- Guarantees
    NoticeWindow = 2
    MaxAsk = 3
    Holders = {d1, d2}
    Slots = {0, 1}
    Shares = {2, 4}
    MaxSlices = 5
    Hosts = {1, 2, 3}
    HostSize = 3
    Gangs <- PairAndTrio
    LoneNeed = 1
    MoveBudget = 2
    Leash = 1
    MaxUpsets = 1
    Asks <- FourAsks
    Bursts <- FiveBursts
    NodeSize <- FourByFour
    Warmup = 2
    RetireAfter = 2
    MaxDemand = 3
    LeastReplicas = 1
    MostReplicas = 4
    StepLimit = 2
    DeadBand = 0
    LoadsSeen = {5, 20, 35, 40, 90}
    Stabilization = 2
    Every = {3, 4}
    BatchDemand = 2
    HoldAfter = 2
    PlanHorizon = 9
    StartRequests = {10, 20, 50}
    TotalLoads = {84, 100}
    MaxFight = 6
    s1 = s1
    s2 = s2
    SpotNodes = {s1, s2}
    StableNodes = {n1}
    SpotJobs = {j1, j2}
    JobLength = 4
    NoticeOf = 1
    ReclaimAt <- TwoReclaims
    NoWhere = NoWhere
    Offers <- FourOffers
    Preference <- TwoPreferred
    g1 = g1
    g2 = g2
    g3 = g3
    i1 = i1
    i2 = i2
    Guests = {g1, g2, g3}
    Grace <- Graces
    NoGrace = NoGrace
    MaxAge = 3
    Machines = {1, 2, 3}
    Fenced = {3}
    Residents = {g2}
    Nowhere = Nowhere
    Images = {i1, i2}
    ImageOf <- TwoImages
    CooldownWindow = 2
    Span = 5
    Stacks <- FiveStacks
    Size = 5
    RackOf <- TwoRacks
    ServingFloor = 1
    KeySpan = 4
    StartShards = 4
    ShardLoads = {0, 1, 4, 6}
    Dwell = 2
    MoveLimit = 2
    RingNodes = 3
    LastSpot = 4
    PointsPerNode = 2
    WindowSize = 2
    LateAllowance = 1
    EventTimes = {0, 1, 2, 3, 4, 5}
    MaxEvents = 6
    Pool = {1, 2, 3}
    FlightTime = 2
    Cooldowns = {0, 2, 3}
    RungCapacity = 2
    RungFactor = 2
    RungCount = 3
    MaxSamples = 24
    MaxSpikes = 2
    Holder = {p, q}
    Lifetime = 4
    Overlap = 2
    MaxSerial = 3
    Homes = {"n1", "n2"}
    Apps = {"x", "y"}
    PaperLife = 2
    Digests = {"d1", "d2", "d3"}
    ServiceReplicas = 2
    KeepDigests = 2
    BlockCount = 5
    ScrubRate = 2
    Editors = {e1, e2}
    e1 = e1
    e2 = e2
    VersionOf <- OldAndNew
    NameLimit = 4
    MaxText = 6
    ObservedFrom = 1
    OutageTimes = {0, 1, 2, 3, 4, 5, 6, 7}
    MaxOutages = 3
    Singles = {1, 2, 3}
    MaxReplicas = 2
    MaxTiers = 3
    PatchHosts = {"h1", "h2", "h3"}
    Versions = {"v1", "v2", "v3"}
    Advisories <- TwoAdvisories
    Fuse <- TwoFuses
    MaxAdvisoryAge = 4
    Ships = {"s1", "s2", "s3"}
    ShipTimes = {0, 2, 3}
    RequestKinds = {"get", "put"}
    SampleCap = 2
    MaxMirrored = 12
    Grams = {1, 3}
    DefaultGrams = 2
    CarbonTimes = {0, 1, 2, 3, 4}
    MaxWindows = 2
    NodeSizes <- ThreeSizes
    IdleWatts = 4
    Gates = {"quota", "hooks"}
    Applicants = {"t1", "t2"}
    LogTimes = {1, 2}
    MaxRefusals = 2
    LineCounts = {0, 50, 600}
    MaxBlast = 5
    MaxIncidents = 1
    Billed = {"x", "y"}
    Usages = {0, 1, 3}
    MaxBill = 5
    Queuers = {1, 2}
    Ranks = {50, 1000}
    MaxBinds = 3
    LastWait = 2
    Topics = {"x", "y"}
    Lifetimes = {0, 2}
    MaxNotes = 3
    LastPage = 3
    Packages = {"x", "y"}
    Tags = {1, 2}
    ReleaseTimes = {0, 2, 5}
    MaxReleases = 3
    TailThreshold = 3
    NodeCpu = 4
    Requested <- TwoOneOne
    Uses = {3}
    WorkUnit = 420
    LastShare = 2
    SpecsAsked <- ThatAndTagged
    Unset = Unset
    MaxHooks = 2
    Pages <- FivePages
    Pods = {1, 2}
    Gated = {"web", "mid", "db"}
    Needs <- ChainOfThree
    Grants <- SixGrants
    Spaces = {"x", "y"}
    Verbs = {"get", "scale"}
    MaxBindings = 2
    Clauses <- FourClauses
    LabelSets <- FourLabelSets
    MaxPolicies = 2
    Durations = {1, 2, 4}
    Deadlines = {2, 5}
    MaxBatch = 4
    BinSize = 10
    ItemSizes = {3, 4, 5, 6, 7}
    MaxItems = 5
    Shapes <- ThreeShapes
    Clusters <- ThreeClusters
    TeamCount = 3
    Weights <- ThreeWeights
    MaxWaiting = 2
    Boxes <- FourBoxes
    Kinds <- TwoKinds
    Scorings = {"binpack", "spread", "peer_spread", "attracted", "frugal", "value", "wishes"}
    WishedLabel = "ssd"
    WishWeight = 2
    SpreadApp = "web"
    MaxSkew = 1
    NoZone = "none"
    MaxOfKind = 2
    Federation <- FederationOfThree
    Workloads <- TwoSent
    AnyRegion = "any"
INVARIANTS
    PromisesFit
    PackingHolds
    ScalingHolds
    LedgersHold
PROPERTIES
    NobodyLeavesEarly
CHECK_DEADLOCK FALSE
