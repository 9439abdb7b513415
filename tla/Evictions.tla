----------------------------- MODULE Evictions -----------------------------
(***************************************************************************)
(* Who must leave a node, who may not come, and what is believed of the    *)
(* nodes: taints with grace under the pressure loop (taintevict.py,        *)
(* pressureloop.py), fenced pools (nodepools.py), cached images            *)
(* (imagecache.py), volumes (volumes.py), cooldowns of displaced tasks     *)
(* (cooldowns.py), and two surveys of a placement (hotspots.py,            *)
(* failuredomains.py).                                                     *)
(***************************************************************************)
EXTENDS Integers, Sequences, FiniteSets, FiniteSetsExt, Functions

CONSTANTS
    Guests, Grace,      \* tasks, and their grace under pressure, or NoGrace
    NoGrace, MaxAge,    \* bound: of ages
    Machines, Fenced,   \* nodes, and those of the dedicated pool
    Residents, Nowhere, \* the guests that are cut for the pool
    Images, ImageOf,
    CooldownWindow, Span,
    Stacks,             \* what lies on the nodes of a survey: [ones, twos]
    Size,               \* the capacity of a surveyed node: the margin is a fifth
    RackOf, ServingFloor

ASSUME EvictionsAssumption ==
    /\ \A g \in Guests : Grace[g] \in {NoGrace} \union (0..MaxAge)
    /\ Fenced \subseteq Machines /\ Size % 5 = 0
    /\ CooldownWindow \in Nat \ {0} /\ CooldownWindow <= Span

VARIABLES
    pressed,    \* whether the node is over its capacity
    landed,     \* [key -> ticks since the taint landed], or Clean
    believes,   \* PressureLoop.tainted
    houses,     \* guests on the node
    seat,       \* [guest -> node], or Nowhere
    held,       \* images each node is believed to hold
    onDisk,     \* images each node holds
    swapped,    \* nodes that were replaced under their name
    homeNode,   \* the node of the one volume
    strayed,    \* whether the volume was moved under its task
    displaced,  \* ages of the displacements of one task
    stacks,     \* what lies on the nodes of the survey
    fleetMap    \* where the replicas of a deploy are

taintVars == <<pressed, landed, believes, houses>>
seatVars == <<seat, held, onDisk, swapped, homeNode, strayed>>

-----------------------------------------------------------------------------
(* Taints with grace.  Nothing stops the engine from a tainted node.       *)

Clean == -1
Keys == {"pressure", "other"}
GraceFor(g, k) == IF k = "pressure" THEN Grace[g] ELSE NoGrace

TaintInit ==
    /\ pressed = FALSE
    /\ landed = [k \in Keys |-> Clean]
    /\ believes = FALSE
    /\ houses = Guests

Taint(k) ==
    /\ landed' = [landed EXCEPT ![k] = IF @ = Clean THEN 0 ELSE @]
    /\ UNCHANGED <<pressed, believes, houses>>

Untaint(k) ==
    /\ landed' = [landed EXCEPT ![k] = Clean]
    /\ UNCHANGED <<pressed, believes, houses>>

Leaving(taints) ==
    {g \in houses : \E k \in Keys :
        taints[k] # Clean /\ (GraceFor(g, k) = NoGrace \/ taints[k] >= GraceFor(g, k))}

\* The loop taints or lifts by what it believes, then sweeps.
ObservePressure ==
    LET taints == IF pressed /\ ~believes
                  THEN [landed EXCEPT !["pressure"] = IF @ = Clean THEN 0 ELSE @]
                  ELSE IF ~pressed /\ believes THEN [landed EXCEPT !["pressure"] = Clean]
                  ELSE landed
    IN /\ landed' = taints
       /\ believes' = pressed
       /\ houses' = houses \ Leaving(taints)
       /\ UNCHANGED pressed

Return(g) ==
    /\ g \notin houses
    /\ houses' = houses \union {g}
    /\ UNCHANGED <<pressed, landed, believes>>

TaintTime ==
    /\ landed' = [k \in Keys |-> IF landed[k] \in 0..(MaxAge - 1) THEN landed[k] + 1
                                 ELSE landed[k]]
    /\ pressed' \in BOOLEAN
    /\ UNCHANGED <<believes, houses>>

TaintNext ==
    \/ ObservePressure \/ TaintTime
    \/ \E g \in Guests : Return(g)
    \/ \E k \in Keys : Taint(k) \/ Untaint(k)

-----------------------------------------------------------------------------
(* Where a guest may sit: the fence of a pool, the pull of a volume         *)

Keeper == CHOOSE g \in Guests : TRUE    \* the guest that claims the volume

SeatInit ==
    /\ seat = [g \in Guests |-> Nowhere]
    /\ held = [m \in Machines |-> {}] /\ onDisk = [m \in Machines |-> {}]
    /\ swapped = {}
    /\ homeNode \in Machines \ Fenced
    /\ strayed = FALSE

\* A resident insists on the pool and tolerates its fence.
PoolAdmits(g, m) == (g \in Residents) = (m \in Fenced)

GravityAdmits(g, m) == g = Keeper => m = homeNode
Welcome(g, m) == PoolAdmits(g, m) /\ GravityAdmits(g, m)

\* A cold image is pulled once for each node, and the node is held warm.
StartDelay(m, image) ==
    /\ held' = [held EXCEPT ![m] = @ \union {image}]
    /\ onDisk' = [onDisk EXCEPT ![m] =
          IF image \in held[m] THEN @ ELSE @ \union {image}]

Sit(g, m) ==
    /\ seat[g] = Nowhere /\ Welcome(g, m)
    /\ seat' = [seat EXCEPT ![g] = m]
    /\ StartDelay(m, ImageOf[g])
    /\ strayed' = (strayed /\ g # Keeper)
    /\ UNCHANGED <<swapped, homeNode>>

Rise(g) ==
    /\ seat[g] # Nowhere
    /\ seat' = [seat EXCEPT ![g] = Nowhere]
    /\ strayed' = (strayed /\ g # Keeper)
    /\ UNCHANGED <<held, onDisk, swapped, homeNode>>

\* The home changes at once; the task that claims the volume stays where it is.
Migrate(to) ==
    /\ homeNode' = to
    /\ strayed' = (seat[Keeper] \notin {Nowhere, to})
    /\ UNCHANGED <<seat, held, onDisk, swapped>>

\* New iron under an old name: the cache is keyed by the name.
Swap(m) ==
    /\ \A g \in Guests : seat[g] # m
    /\ onDisk' = [onDisk EXCEPT ![m] = {}]
    /\ swapped' = swapped \union {m}
    /\ UNCHANGED <<seat, held, homeNode, strayed>>

SeatNext ==
    \/ \E g \in Guests : Rise(g) \/ \E m \in Machines : Sit(g, m)
    \/ \E m \in Machines \ Fenced : Migrate(m)
    \/ \E m \in Machines : Swap(m)

-----------------------------------------------------------------------------
(* The cooldown of one task that is displaced again and again               *)

CooldownInit == displaced = {}

Immune == \E age \in displaced : age < CooldownWindow

Displace ==
    /\ ~Immune
    /\ displaced' = displaced \union {0}

CooldownTime == displaced' = {age + 1 : age \in {a \in displaced : a < Span}}

CooldownNext == Displace \/ CooldownTime

-----------------------------------------------------------------------------
(* The survey of hotspots.  Shares are in fifths of Size.                   *)

SurveyInit == stacks \in [DOMAIN RackOf -> Stacks]
SurveyNodes == DOMAIN RackOf
Alloc(n) == stacks[n].ones + 2 * stacks[n].twos
SurveyTotal == SumFunction([n \in SurveyNodes |-> Alloc(n)])
Count == Cardinality(SurveyNodes)
Hot(n) == Alloc(n) * Count - SurveyTotal > Count * (Size \div 5)
Colder(m, n) == Alloc(m) < Alloc(n) \/ (Alloc(m) = Alloc(n) /\ m < n)
Partners(n) == {m \in SurveyNodes \ {n} : Alloc(m) * Count < SurveyTotal}

Room(m) ==
    LET ceiling == (SurveyTotal + Count * (Size \div 5)) \div Count
    IN Min({Size - Alloc(m), ceiling - Alloc(m)})

Fewest(S) == Max({0, Min(S)})

Sum(parcel) == parcel.ones + 2 * parcel.twos
Nothing == [ones |-> 0, twos |-> 0]

\* What a hot node sends to each of its partners, the coldest first, the smallest
\* tasks first, until it is down to the mean.
Plan(n) ==
    LET gap == (Alloc(n) * Count - SurveyTotal) \div Count
        rank == [m \in Partners(n) |-> 1 + Cardinality({p \in Partners(n) : Colder(p, m)})]
        after[i \in 0..Cardinality(Partners(n))] ==
            IF i = 0 THEN [left |-> stacks[n], carried |-> 0,
                           sent |-> [m \in SurveyNodes |-> Nothing]]
            ELSE LET b == after[i - 1]
                     m == CHOOSE p \in Partners(n) : rank[p] = i
                     ones == Fewest({b.left.ones, gap - b.carried, Room(m)})
                     twos == Fewest({b.left.twos, (gap - b.carried - ones) \div 2,
                                     (Room(m) - ones) \div 2})
                     parcel == [ones |-> ones, twos |-> twos]
                 IN [left |-> [ones |-> b.left.ones - ones, twos |-> b.left.twos - twos],
                     carried |-> b.carried + Sum(parcel),
                     sent |-> [b.sent EXCEPT ![m] = parcel]]
    IN after[Cardinality(Partners(n))]

\* Carry out the plan for one hot node.
FollowPlan(n) ==
    LET plan == Plan(n)
    IN /\ Hot(n) /\ plan.carried > 0
       /\ stacks' = [m \in SurveyNodes |->
             IF m = n THEN plan.left
             ELSE [ones |-> stacks[m].ones + plan.sent[m].ones,
                   twos |-> stacks[m].twos + plan.sent[m].twos]]

-----------------------------------------------------------------------------
(* The audit of failure domains: replicas on nodes, nodes in racks          *)

AuditInit == fleetMap \in [1..3 -> DOMAIN RackOf]

Killed(rack) == Cardinality({r \in DOMAIN fleetMap : RackOf[fleetMap[r]] = rack})
WorstExposure == Max({Killed(RackOf[n]) : n \in Range(fleetMap)})
AuditPasses == Cardinality(DOMAIN fleetMap) - WorstExposure >= ServingFloor

Relocate(r, n) == fleetMap' = [fleetMap EXCEPT ![r] = n]
AuditNext == \E r \in DOMAIN fleetMap, n \in DOMAIN RackOf : Relocate(r, n)

-----------------------------------------------------------------------------
(* Properties *)

\* taintevict.py: "the tenant may finish its coffee": a guest is swept out only
\* while a taint stands, and not before its grace for it has run.
GraceKept ==
    [][\A g \in houses \ houses' : \E k \in Keys :
          /\ landed'[k] # Clean
          /\ GraceFor(g, k) # NoGrace => landed'[k] >= GraceFor(g, k)]_taintVars

\* nodepools.py, volumes.py: a dedicated pool holds its residents and nobody
\* else, and a task is beside its data unless the data was moved under it.
SeatsAreRight ==
    \A g \in Guests : seat[g] # Nowhere =>
        /\ (g \in Residents) = (seat[g] \in Fenced)
        /\ g = Keeper => (seat[g] = homeNode \/ strayed)

\* imagecache.py: what a node is held to have pulled is there, but for nodes
\* that were replaced under their name.
CacheIsTrue ==
    \A m \in Machines : onDisk[m] \subseteq held[m] /\ (m \in swapped \/ held[m] = onDisk[m])

\* cooldowns.py: "the same task is not displaced twice in one breath": the
\* pinball count of a span is at most one for each window in it.
PinballBounded == Cardinality(displaced) <= (Span \div CooldownWindow) + 1

\* hotspots.py: a plan takes no more than it needs to bring the node down to the
\* mean, and puts no partner over the line the survey draws.
PlansStayCool ==
    \A n \in SurveyNodes : Hot(n) =>
        LET sent == [m \in SurveyNodes |-> Sum(Plan(n).sent[m])]
        IN /\ (Alloc(n) - SumFunction(sent)) * Count >= SurveyTotal
           /\ \A m \in SurveyNodes : sent[m] > 0 =>
                 (Alloc(m) + sent[m]) * Count - SurveyTotal <= Count * (Size \div 5)

\* failuredomains.py: a deploy that passes survives the loss of any one rack.
AuditIsRight ==
    AuditPasses <=> \A rack \in Range(RackOf) :
        Cardinality({r \in DOMAIN fleetMap : RackOf[fleetMap[r]] # rack}) >= ServingFloor
=============================================================================
