\* Three ordinals and two revisions; two nodes; three names and two janitors;
\* two indexes one at a time, a retry each, beside a name that is used again.
SPECIFICATION WorkloadsSpec
CONSTANTS
    MaxCount = 3
    MaxRevision = 2
    MaxHarm = 2
    Machines = {m1, m2}
    NoMachine = NoMachine
    MaxMoves = 4
    Members = {t1, t2, t3}
    Janitors = {j1, j2}
    Nobody = Nobody
    MaxBirths = 2
    Indexes = {0, 1}
    Parallelism = 1
    Retries = 1
    KeepSucceeded = 1
    KeepFailed = 1
    Ttl = 2
    Others <- OneOther
    Schedules <- OneOfEach
    LastTick = 6
    Jobs = {p1, p2, p3, p4}
INVARIANTS
    WorkloadsConsistent
    TriggersRight
PROPERTIES
    ActiveUntouched
    WorkloadsSettle
CHECK_DEADLOCK FALSE
