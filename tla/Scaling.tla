------------------------------ MODULE Scaling ------------------------------
(***************************************************************************)
(* Capacity that follows demand: the node dial (autoscale.py), the replica *)
(* dial and its rules (autoscale.py, scalerules.py), capacity ahead of a   *)
(* schedule (prescale.py), the scaler of requests against the scaler of    *)
(* replicas (vertical.py), rented nodes (spot.py), and what to buy         *)
(* (expander.py, capacityplan.py).                                         *)
(***************************************************************************)
EXTENDS Integers, Sequences, FiniteSets, Functions

CONSTANTS
    Warmup, RetireAfter, MaxDemand,
    LeastReplicas, MostReplicas, StepLimit, DeadBand,
    LoadsSeen,          \* loads, in twentieths of what one replica takes at target
    Stabilization,
    Every, BatchDemand, HoldAfter, PlanHorizon,   \* the schedules and the plan
    StartRequests, TotalLoads, MaxFight,          \* the fight of two scalers
    SpotNodes, StableNodes, SpotJobs, JobLength, NoticeOf, ReclaimAt, NoWhere,
    Offers,             \* what is for sale: [cpu, hourly]
    Preference          \* a sequence of offers

ASSUME ScalingAssumption ==
    /\ Warmup \in Nat /\ RetireAfter \in Nat \ {0} /\ Stabilization \in Nat \ {0}
    /\ LeastReplicas \in 1..MostReplicas /\ StepLimit \in Nat \ {0}
    /\ MostReplicas \in Nat /\ DeadBand \in Nat /\ LoadsSeen \subseteq Nat
    /\ StartRequests \subseteq Nat /\ TotalLoads \subseteq Nat
    /\ NoticeOf \in Nat \ {0} /\ ReclaimAt \in [SpotNodes -> Nat]
    /\ \A n \in SpotNodes : NoticeOf < ReclaimAt[n]
    /\ IsFiniteSet(SpotJobs) /\ NoWhere \notin SpotNodes \union StableNodes
    /\ IsFiniteSet(Every) /\ Every \subseteq Nat \ {0} /\ BatchDemand \in Nat
    /\ HoldAfter \in Nat \ {0} /\ PlanHorizon \in Nat
    /\ IsFiniteSet(Offers) /\ \A o \in Offers : o.cpu \in Nat /\ o.hourly \in Nat

VARIABLES
    aware,          \* whether the node scaler looks at what it has ordered
    waiting, demanded,
    coming,         \* [ordered name -> ticks until it is ready]
    provisioned,
    auto,           \* [node -> whether a task is on it]
    emptyFor,       \* [node -> ticks since empty_since]
    quietFor,       \* [node -> consecutive ticks at whose end it was empty]
    replicas, load,
    ruled,          \* the count the rules were last asked about, and their answer
    lowFor,         \* ticks since low_since, or NotLow
    truthfullyLow,  \* ticks for which every desire was below the count
    clock, backlog, schedules,
    fight,          \* [request, replicas, total, truce] of the fight meter
    market,         \* tick and whether the operator reacts
    job,            \* [job -> node, progress, done]
    worked, lost,   \* ticks of work done and lost in all
    shut,           \* nodes cordoned
    shop            \* a demand, and the offers of the day

nodeDialVars == <<aware, waiting, demanded, coming, provisioned, auto, emptyFor, quietFor>>
replicaVars == <<replicas, load>>
ruleVars == <<ruled, lowFor, truthfullyLow>>
prescaleVars == <<clock, backlog, schedules>>
spotVars == <<market, job, worked, lost, shut>>

Least(a, b) == IF a < b THEN a ELSE b
Most(a, b) == IF a < b THEN b ELSE a
NoMap == [n \in {} |-> 0]

-----------------------------------------------------------------------------
(* The node dial, as the tick of the cluster turns it                      *)

NodeDialInit ==
    /\ aware \in BOOLEAN
    /\ waiting = 0 /\ demanded = 0
    /\ coming = NoMap /\ provisioned = 0
    /\ auto = NoMap /\ emptyFor = NoMap /\ quietFor = NoMap

Demand ==
    /\ demanded < MaxDemand
    /\ demanded' = demanded + 1 /\ waiting' = waiting + 1
    /\ UNCHANGED <<aware, coming, provisioned, auto, emptyFor, quietFor>>

Finish(n) ==
    /\ n \in DOMAIN auto /\ auto[n]
    /\ auto' = [auto EXCEPT ![n] = FALSE]
    /\ UNCHANGED <<aware, waiting, demanded, coming, provisioned, emptyFor, quietFor>>

\* One order a call while anything is stuck; what is ready comes in.
Ordered(stuck) ==
    LET soon == [n \in DOMAIN coming |-> coming[n] - 1]
        name == provisioned + Cardinality(DOMAIN coming)
    IN IF stuck > 0 /\ ~(aware /\ coming # NoMap) /\ name \notin DOMAIN coming
       THEN [n \in DOMAIN coming \union {name} |-> IF n = name THEN Warmup ELSE soon[n]]
       ELSE soon

\* Wrong: a node that was in use keeps the tick it was first empty at.
EmptySinceFirst(nodes, busy) ==
    [n \in nodes |-> IF n \in DOMAIN emptyFor THEN emptyFor[n] + 1 ELSE 0]

EmptySince(nodes, busy) ==
    [n \in {m \in nodes : ~busy[m]} |->
        IF n \in DOMAIN emptyFor THEN emptyFor[n] + 1 ELSE 0]

NodeDialTick ==
    \E used \in SUBSET {n \in DOMAIN auto : ~auto[n]} :
        LET idle == {n \in DOMAIN auto : ~auto[n]}
            stuck == waiting - Cardinality(used)
            orders == Ordered(stuck)
            arrived == {n \in DOMAIN orders : orders[n] <= 0}
            busy == [n \in DOMAIN auto \union arrived |->
                        n \in used \/ (n \in DOMAIN auto /\ auto[n])]
            empty == EmptySince(DOMAIN busy, busy)
            retired == {n \in DOMAIN empty : empty[n] >= RetireAfter}
            kept == DOMAIN busy \ retired
        IN /\ Cardinality(used) = Least(waiting, Cardinality(idle))
           /\ waiting' = stuck
           /\ coming' = Restrict(orders, DOMAIN orders \ arrived)
           /\ provisioned' = provisioned + Cardinality(arrived)
           /\ auto' = Restrict(busy, kept)
           /\ emptyFor' = Restrict(empty, DOMAIN empty \ retired)
           /\ quietFor' = [n \in kept |->
                 IF busy[n] THEN 0
                 ELSE IF n \in DOMAIN quietFor
                 THEN Least(quietFor[n] + 1, RetireAfter) ELSE 1]
           /\ UNCHANGED <<aware, demanded>>

NodeDialNext == NodeDialTick \/ Demand \/ \E n \in DOMAIN auto : Finish(n)

-----------------------------------------------------------------------------
(* The replica dial                                                        *)

ReplicaInit ==
    /\ replicas \in LeastReplicas..MostReplicas
    /\ load \in LoadsSeen

\* round(raw + 0.5): the next integer, but an even integer stays itself.
RoundedUp(n, d) == IF n % d = 0 /\ (n \div d) % 2 = 0 THEN n \div d ELSE n \div d + 1
WantedFor(l) == Most(LeastReplicas, Least(MostReplicas, RoundedUp(l, 20)))

Stepped(current, target) == Most(-StepLimit, Least(StepLimit, target - current))

Distance(a, b) == IF a < b THEN b - a ELSE a - b

ReplicaTick ==
    /\ replicas' = IF Distance(WantedFor(load), replicas) <= DeadBand THEN replicas
                   ELSE replicas + Stepped(replicas, WantedFor(load))
    /\ load' \in LoadsSeen

-----------------------------------------------------------------------------
(* The rules: up by a step, down after a window                            *)

NotLow == -1

RulesInit ==
    /\ ruled = [before |-> LeastReplicas, after |-> LeastReplicas]
    /\ lowFor = NotLow
    /\ truthfullyLow = 0

Decide(desired) ==
    LET current == ruled.after
        clamped == Most(LeastReplicas, Least(MostReplicas, desired))
        low == clamped < current
        waited == IF lowFor = NotLow THEN 0 ELSE lowFor
    IN /\ ruled' = [before |-> current,
                    after |-> IF clamped > current THEN Least(clamped, current + StepLimit)
                              ELSE IF low /\ waited >= Stabilization THEN clamped
                              ELSE current]
       /\ lowFor' = IF low THEN waited ELSE NotLow
       /\ truthfullyLow' = IF low THEN truthfullyLow ELSE 0

RulesTime ==
    /\ ruled' = [ruled EXCEPT !.before = ruled.after]
    /\ lowFor' = IF lowFor = NotLow THEN NotLow ELSE Least(lowFor + 1, Stabilization)
    /\ truthfullyLow' = Least(truthfullyLow + 1, Stabilization)

RulesNext == RulesTime \/ \E d \in 0..(MostReplicas + 1) : Decide(d)

-----------------------------------------------------------------------------
(* Capacity ahead of the calendar                                          *)

PrescaleInit ==
    /\ schedules \in (SUBSET Every) \ {{}}
    /\ clock = 0 /\ backlog = 0

Due(e, t) == t % e = 0
Firings == {f \in schedules \X (0..PlanHorizon) : Due(f[1], f[2])}

\* The sum of the orders up to the tick; each firing orders and hands back.
CapacityAt(t) ==
    LET begun == {f \in Firings : Most(0, f[2] - Warmup) <= t}
        over == {f \in Firings : f[2] + HoldAfter <= t}
    IN Most(0, BatchDemand * (Cardinality(begun) - Cardinality(over)))

PrescaleTick ==
    LET burst == BatchDemand * Cardinality({e \in schedules : Due(e, clock)})
        due == backlog + burst
    IN /\ clock <= PlanHorizon
       /\ backlog' = due - Least(due, CapacityAt(clock))
       /\ clock' = clock + 1
       /\ UNCHANGED schedules

-----------------------------------------------------------------------------
(* The scaler of requests and the scaler of replicas on one deployment     *)

FightInit ==
    fight \in [request : StartRequests, replicas : {2, 3, 4}, total : TotalLoads,
               truce : BOOLEAN]

\* The request with headroom 1.2, or so that the ratio is on its target, 0.7.
Private(f) == [f EXCEPT !.request = (f.total * 12) \div (f.replicas * 10)]
Truce(f) == [f EXCEPT !.request = (f.total * 10) \div (f.replicas * 7)]

Horizontal(f) ==
    IF f.total * 10 > 7 * f.replicas * f.request
    THEN [f EXCEPT !.replicas = @ + 1]
    ELSE IF f.total * 20 < 7 * f.replicas * f.request /\ f.replicas > 1
    THEN [f EXCEPT !.replicas = @ - 1]
    ELSE f

FightRound ==
    /\ fight.replicas < MaxFight
    /\ fight' = Horizontal(IF fight.truce THEN Truce(fight) ELSE Private(fight))

-----------------------------------------------------------------------------
(* Rented nodes: a notice, then the reclaim.  An operator who reacts        *)
(* cordons the node and evacuates it.                                      *)

SpotInit ==
    /\ market \in [now : {0}, reacts : BOOLEAN]
    /\ job = [j \in SpotJobs |-> [on |-> NoWhere, progress |-> 0, done |-> FALSE]]
    /\ worked = 0 /\ lost = 0
    /\ shut = {}

Noticed(now) == {n \in SpotNodes : ReclaimAt[n] - NoticeOf = now}
Reclaimed(now) == {n \in SpotNodes : ReclaimAt[n] = now}
Stands(now) == StableNodes \union {n \in SpotNodes : ReclaimAt[n] > now}

\* Wrong: the node is evacuated and not cordoned.
EvacuateOnly(now) == {}
Cordoned(now) == IF market.reacts THEN shut \union Noticed(now) ELSE shut

Undone == {j \in SpotJobs : ~job[j].done}
Evacuated(now) == IF market.reacts THEN {j \in Undone : job[j].on \in Noticed(now)} ELSE {}
Lost(now) == {j \in Undone : job[j].on \in Reclaimed(now)}
Dropped(now) == SumFunction([j \in Lost(now) |-> job[j].progress])

Advance(j, on, progress) ==
    IF on = NoWhere THEN [on |-> on, progress |-> progress, done |-> FALSE]
    ELSE IF progress + 1 >= JobLength
    THEN [on |-> NoWhere, progress |-> progress + 1, done |-> TRUE]
    ELSE [on |-> on, progress |-> progress + 1, done |-> FALSE]

\* Notices, reclaims, one pass of the scheduler, a tick of work.  Progress is
\* kept over an evacuation and lost with the node.
SpotTick ==
    LET now == market.now
        stays == {j \in Undone : job[j].on # NoWhere} \ (Evacuated(now) \union Lost(now))
        shut1 == Cordoned(now)
        free == {n \in Stands(now) \ shut1 : \A j \in stays : job[j].on # n}
        seeks == Undone \ stays
    IN \E at \in [seeks -> free \union {NoWhere}] :
        LET on == [j \in Undone |-> IF j \in stays THEN job[j].on ELSE at[j]]
        IN /\ \A j, k \in seeks : j # k /\ at[j] # NoWhere => at[j] # at[k]
           /\ NoWhere \notin Range(at) \/ free \subseteq Range(at)
           /\ job' = [j \in SpotJobs |->
                 IF job[j].done THEN job[j]
                 ELSE Advance(j, on[j], IF j \in Lost(now) THEN 0 ELSE job[j].progress)]
           /\ worked' = worked + Cardinality({j \in Undone : on[j] # NoWhere})
           /\ lost' = lost + Dropped(now)
           /\ shut' = shut1
           /\ market' = [market EXCEPT !.now = @ + 1]

SpotNext == Undone # {} /\ SpotTick

-----------------------------------------------------------------------------
(* What to buy, and whether the loss of a node is survived                 *)

ShopInit == shop \in [demand : 1..3, offers : (SUBSET Offers) \ {{}}, bought : {{}}]

Fitting(s) == {o \in s.offers : o.cpu >= s.demand}

Cheapest(s) ==
    CHOOSE o \in Fitting(s) : \A p \in Fitting(s) :
        \/ o.hourly < p.hourly
        \/ o.hourly = p.hourly /\ o.cpu <= p.cpu

LeastWaste(s) ==
    CHOOSE o \in Fitting(s) : \A p \in Fitting(s) :
        \/ o.cpu < p.cpu
        \/ o.cpu = p.cpu /\ o.hourly <= p.hourly

\* The first of the list that is on offer and fits, if any does.
ByPriority(s) ==
    LET listed == {i \in DOMAIN Preference : Preference[i] \in Fitting(s)}
    IN {Preference[i] : i \in {k \in listed : \A l \in listed : k <= l}}

Buy ==
    /\ shop.bought = {} /\ Fitting(shop) # {}
    /\ shop' = [shop EXCEPT !.bought =
                   {<<"cheapest", Cheapest(shop)>>, <<"least-waste", LeastWaste(shop)>>}
                   \union ({"priority"} \X ByPriority(shop))]

\* The cpu of all of some nodes.
CpuOf(nodes) == SumFunction([n \in nodes |-> n.cpu])

\* Only the node that is largest by its cpu is taken away.
SurvivesNPlusOne(nodes, used) ==
    \E largest \in nodes :
        /\ \A n \in nodes : n.cpu <= largest.cpu
        /\ CpuOf(nodes \ {largest}) >= used

-----------------------------------------------------------------------------
(* Properties *)

\* autoscale.py: an order has a name no node ever had, at most one is under way
\* when the scaler looks at its pipeline, and what stands is what was ordered.
OrdersHold ==
    /\ DOMAIN coming \intersect DOMAIN auto = {}
    /\ \A n \in DOMAIN coming \union DOMAIN auto : n < provisioned + Cardinality(DOMAIN coming)
    /\ aware => Cardinality(DOMAIN coming) <= 1
    /\ \A n \in DOMAIN auto : auto[n] \/ quietFor[n] <= RetireAfter

\* autoscale.py: "retires nodes that have sat empty": a node goes only when it
\* was empty at the end of every tick of the window, never under a task.
OnlyIdleRetire ==
    [][\A n \in DOMAIN auto \ DOMAIN auto' : ~auto[n] /\ quietFor[n] >= RetireAfter]_nodeDialVars

\* autoscale.py: the dial is "damped and bounded": no tick moves it further than
\* a step or past what the load asks for, and it never leaves its interval.
DampedDial ==
    [][/\ Distance(replicas', replicas) <= StepLimit
       /\ Distance(WantedFor(load), replicas') <= Distance(WantedFor(load), replicas)
       /\ replicas' \in LeastReplicas..MostReplicas]_replicaVars

\* scalerules.py: up fast and down slow: no replica leaves unless the desire was
\* below the count at every decision of the window.
DownIsSlow ==
    [][ruled'.after < ruled.after =>
          truthfullyLow >= Stabilization /\ ruled'.after >= LeastReplicas]_ruleVars

\* prescale.py: a burst the plan saw coming never waits for a warmup.
BurstsMeetCapacity == backlog = 0

\* vertical.py: once the request is exact, a truce moves nothing any more.
TruceRests ==
    [][fight.truce /\ fight.request * 7 * fight.replicas = fight.total * 10
          => fight' = fight]_fight

\* spot.py: what was worked is in the progress of the jobs or was lost with a
\* node; an operator who reacts to every notice loses nothing.
WorkIsConserved ==
    /\ worked = lost + SumFunction([j \in SpotJobs |-> job[j].progress])
    /\ market.reacts => lost = 0
    /\ \A j \in SpotJobs : job[j].on # NoWhere => job[j].on \in Stands(market.now - 1)

\* expander.py: all that is bought fits; but for the list, no strategy buys what
\* another offer beats in both currencies.
PurchasesAreSound ==
    \A b \in shop.bought :
        /\ b[2].cpu >= shop.demand
        /\ b[1] # "priority" => \A o \in Fitting(shop) :
              o.hourly <= b[2].hourly /\ o.cpu <= b[2].cpu
                  => o.hourly = b[2].hourly /\ o.cpu = b[2].cpu

\* capacityplan.py: "survives" holds for the loss of any node, in cpu.
NPlusOneIsAnyNode ==
    \A used \in 0..6 : SurvivesNPlusOne(shop.offers, used) =>
        \A n \in shop.offers : CpuOf(shop.offers \ {n}) >= used
=============================================================================
