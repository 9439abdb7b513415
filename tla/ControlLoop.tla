----------------------------- MODULE ControlLoop -----------------------------
(***************************************************************************)
(* One tick of the cluster (fleet/sim/cluster.py): nodes beat, the monitor *)
(* sweeps (fleet/control/nodes.py), the deployment converges               *)
(* (fleet/control/deploy.py), pending tasks are placed                     *)
(* (fleet/sched/core.py) and the keeper probes                             *)
(* (fleet/control/health.py).  Between two ticks operators rescale the     *)
(* deployment or walk the fleet through an upgrade                         *)
(* (fleet/upgradewalk.py).  Tasks are alike and take one slot.             *)
(***************************************************************************)
EXTENDS Integers, FiniteSets, FiniteSetsExt

CONSTANTS
    Fleet,          \* the standing nodes
    Spare,          \* the surge node
    Slots,          \* tasks a node holds
    LastOrdinal,    \* bound on the ordinals of children
    Replicas,       \* the replica counts an operator may ask for
    Failing,        \* Script.failing_probes: the attempts that do not come up
    NotReadyAfter, EvictAfter,          \* control/nodes.py
    BackoffCap, ForgiveAfter,           \* control/health.py
    Budgets,        \* StartupGate.budget of a fleet, 0 without a gate
    Floor,          \* min_available of the guard's budget over the tasks
    Rounds          \* how often a walk drains one node

None == "none"
Nodes == Fleet \cup {Spare}
TaskNumbers == 0..LastOrdinal

\* From here on further restarts change nothing: no attempt in Failing is left
\* and the wait is at its cap.
Top == Max(Failing \cup {BackoffCap}) + 1

ASSUME LoopAssumption ==
    /\ IsFiniteSet(Fleet) /\ Spare \notin Fleet /\ None \notin Nodes
    /\ Slots \in Nat \ {0}
    /\ LastOrdinal \in Nat
    /\ Replicas \subseteq Nat \ {0}
    /\ Failing \subseteq Nat /\ IsFiniteSet(Failing)
    /\ NotReadyAfter \in Nat /\ EvictAfter \in Nat
    /\ NotReadyAfter < EvictAfter
    /\ BackoffCap \in Nat \ {0} /\ ForgiveAfter \in Nat \ {0}
    /\ Budgets \subseteq Nat /\ Floor \in Nat /\ Rounds \in Nat \ {0}

VARIABLES
    stage,      \* what the tick does next, "rest" between two ticks
    age,        \* [Nodes -> now - last_heartbeat], up to EvictAfter + 1
    ready, cordoned, joined,            \* sets of nodes
    phase, home, restarts,              \* of the child with an ordinal
    waiting,    \* [TaskNumbers -> waiting_until - now]
    healthy,    \* [TaskNumbers -> now - last_healthy of what runs], up to ForgiveAfter
    budget, absorbed, started,          \* StartupGate
    replicas,   \* DeploySpec.replicas
    walk        \* the upgrade walk: nodes to do, the one at hand, rounds left

nodeVars == <<age, ready, cordoned, joined>>
taskVars == <<phase, home, restarts>>
keeperVars == <<waiting, healthy, budget, absorbed, started>>
loopVars == <<stage, nodeVars, taskVars, keeperVars, replicas, walk>>

Least(a, b) == IF a < b THEN a ELSE b

Active == {o \in TaskNumbers : phase[o] \in {"Bound", "Running"}}
OwnTasks == {o \in TaskNumbers : phase[o] \in {"Pending", "Bound", "Running"}}
Aboard(n) == {o \in Active : home[o] = n}
AtRest == [todo |-> {}, node |-> None, left |-> 0, quiet |-> FALSE, surge |-> FALSE]

LoopTypeOK ==
    /\ stage \in {"rest", "beat", "sweep", "converge", "place", "keep"}
    /\ joined \subseteq Nodes /\ ready \subseteq Nodes /\ cordoned \subseteq Nodes
    /\ age \in [Nodes -> 0..EvictAfter + 1]
    /\ phase \in [TaskNumbers ->
                    {"Absent", "Pending", "Bound", "Running", "Failed"}]
    /\ home \in [TaskNumbers -> Nodes \cup {None}]
    /\ \A o \in TaskNumbers : home[o] # None <=> o \in Active
    /\ restarts \in [TaskNumbers -> 0..Top]
    /\ waiting \in [TaskNumbers -> 0..BackoffCap]
    /\ healthy \in [TaskNumbers -> 0..ForgiveAfter]
    /\ budget \in Budgets
    /\ absorbed \in [TaskNumbers -> 0..budget] /\ started \subseteq TaskNumbers
    /\ replicas \in Replicas
    /\ walk \in [todo : SUBSET Fleet, node : Nodes \cup {None},
                 left : 0..Rounds, quiet : BOOLEAN, surge : BOOLEAN]

LoopInit ==
    /\ stage = "rest"
    /\ joined = Fleet /\ ready = Fleet /\ cordoned = {}
    /\ age = [n \in Nodes |-> 0]
    /\ phase = [o \in TaskNumbers |-> "Absent"]
    /\ home = [o \in TaskNumbers |-> None]
    /\ restarts = [o \in TaskNumbers |-> 0]
    /\ waiting = [o \in TaskNumbers |-> 0]
    /\ healthy = [o \in TaskNumbers |-> 0]
    /\ budget \in Budgets /\ absorbed = [o \in TaskNumbers |-> 0] /\ started = {}
    /\ replicas \in Replicas
    /\ walk = AtRest

-----------------------------------------------------------------------------
(* The tick.                                                               *)

StartTick ==
    /\ stage = "rest" /\ walk = AtRest
    /\ stage' = "beat"
    /\ UNCHANGED <<nodeVars, taskVars, keeperVars, replicas, walk>>

\* Wrong: a beat does not turn the node back.
BeatUnheard(loud) ==
    /\ stage = "beat" /\ stage' = "sweep"
    /\ age' = [n \in Nodes |-> IF n \in loud THEN 0 ELSE age[n]]
    /\ UNCHANGED <<ready, cordoned, joined, taskVars, keeperVars, replicas,
                   walk>>

\* Monitor.beat of every node the script does not silence.
Beat(loud) ==
    /\ stage = "beat" /\ stage' = "sweep"
    /\ age' = [n \in Nodes |-> IF n \in loud THEN 0 ELSE age[n]]
    /\ ready' = ready \cup loud
    /\ UNCHANGED <<cordoned, joined, taskVars, keeperVars, replicas, walk>>

\* Wrong: one timer for both.
DeadEarly == {n \in joined : age[n] > NotReadyAfter}

\* Wrong: the second timer is one tick off.
DeadLate == {n \in joined : age[n] > EvictAfter + 1}

Dead == {n \in joined : age[n] > EvictAfter}

Stranded == {o \in Active : home[o] \in Dead}

SweepDead ==
    /\ stage = "sweep" /\ stage' = "converge"
    /\ ready' = ready \ {n \in joined : age[n] > NotReadyAfter}
    /\ phase' = [o \in TaskNumbers |-> IF o \in Stranded THEN "Pending" ELSE phase[o]]
    /\ home' = [o \in TaskNumbers |-> IF o \in Stranded THEN None ELSE home[o]]
    /\ restarts' = [o \in TaskNumbers |->
                       IF o \in Stranded THEN Least(Top, restarts[o] + 1)
                       ELSE restarts[o]]
    /\ UNCHANGED <<age, cordoned, joined, keeperVars, replicas, walk>>

LowestOf(S, k) == {o \in S : Cardinality({p \in S : p < o}) < k}
HighestOf(S, k) == {o \in S : Cardinality({p \in S : p > o}) < k}

\* Deployer.reconcile: the lowest free ordinals are filled, the highest names
\* removed.  An ended task is no child and keeps its name.
Unfilled ==
    LowestOf({o \in TaskNumbers : phase[o] = "Absent"}, replicas - Cardinality(OwnTasks))
Surplus == HighestOf(OwnTasks, Cardinality(OwnTasks) - replicas)

Converge ==
    /\ stage = "converge" /\ stage' = "place"
    /\ Cardinality(OwnTasks) + Cardinality(Unfilled) >= replicas
    /\ phase' = [o \in TaskNumbers |-> IF o \in Unfilled THEN "Pending"
                                    ELSE IF o \in Surplus THEN "Absent"
                                    ELSE phase[o]]
    /\ home' = [o \in TaskNumbers |-> IF o \in Surplus THEN None ELSE home[o]]
    /\ restarts' = [o \in TaskNumbers |->
                       IF o \in Unfilled \cup Surplus THEN 0 ELSE restarts[o]]
    /\ UNCHANGED <<nodeVars, keeperVars, replicas, walk>>

Open == (joined \cap ready) \ cordoned

Pending == {o \in TaskNumbers : phase[o] = "Pending"}

\* Scheduler.schedule_pending: by name, each to some open node with room; the
\* scorers' choice among them is left open.
Seated(seat) ==
    LET load(n, o) == Cardinality(Aboard(n))
                        + Cardinality({p \in Pending : p < o /\ seat[p] = n})
    IN  \A o \in Pending :
           IF seat[o] = None THEN \A n \in Open : load(n, o) >= Slots
           ELSE load(seat[o], o) < Slots

Place ==
    /\ stage = "place" /\ stage' = "keep"
    /\ \E seat \in [Pending -> Open \cup {None}] :
          /\ Seated(seat)
          /\ home' = [o \in TaskNumbers |-> IF o \in Pending THEN seat[o] ELSE home[o]]
          /\ phase' = [o \in TaskNumbers |->
                          IF o \in Pending /\ seat[o] # None THEN "Bound"
                          ELSE phase[o]]
    /\ UNCHANGED <<nodeVars, restarts, keeperVars, replicas, walk>>

-----------------------------------------------------------------------------
(* Keeper.tick.  The node a failed task keeps on record is read by nobody. *)

Probed == {o \in TaskNumbers : phase[o] = "Bound" /\ waiting[o] = 0}
Up == {o \in Probed : restarts[o] \notin Failing}
Down == Probed \ Up
Gated == IF budget = 0 THEN {} ELSE Down \ started
Broken == {o \in Gated : absorbed[o] + 1 >= budget}
Backed == Down \ Gated

Forgiven ==
    {o \in TaskNumbers :
        phase[o] = "Running" /\ restarts[o] > 0 /\ healthy[o] >= ForgiveAfter}

BackoffFor(r) == Least(2^r, BackoffCap)
Sooner(wait) == IF wait > 0 THEN wait - 1 ELSE 0

\* The keeper goes through the tasks; then the clock moves on.
Keep ==
    /\ stage = "keep" /\ stage' = "rest"
    /\ phase' = [o \in TaskNumbers |-> IF o \in Up THEN "Running"
                                    ELSE IF o \in Broken THEN "Failed"
                                    ELSE phase[o]]
    /\ home' = [o \in TaskNumbers |-> IF o \in Broken THEN None ELSE home[o]]
    /\ restarts' = [o \in TaskNumbers |->
                       IF o \in Forgiven THEN 0
                       ELSE IF o \in Down \ Broken THEN Least(Top, restarts[o] + 1)
                       ELSE restarts[o]]
    /\ waiting' = [o \in TaskNumbers |->
                      Sooner(IF o \in Backed THEN BackoffFor(restarts[o] + 1)
                             ELSE waiting[o])]
    /\ healthy' = [o \in TaskNumbers |->
                      IF o \in Up THEN 1
                      ELSE IF phase'[o] = "Running"
                           THEN Least(ForgiveAfter, healthy[o] + 1)
                      ELSE 0]
    /\ absorbed' = [o \in TaskNumbers |->
                       IF o \in Gated THEN Least(budget, absorbed[o] + 1)
                       ELSE absorbed[o]]
    /\ started' = IF budget = 0 THEN started ELSE started \cup Up
    /\ age' = [n \in Nodes |->
                  IF n \in joined THEN Least(EvictAfter + 1, age[n] + 1) ELSE age[n]]
    /\ UNCHANGED <<ready, cordoned, joined, budget, replicas, walk>>

-----------------------------------------------------------------------------
(* Between two ticks.                                                      *)

\* Bound: a name is left for a child that breaks at the gate.
Scale(k) ==
    /\ stage = "rest" /\ walk = AtRest /\ k # replicas
    /\ Cardinality({o \in TaskNumbers : phase[o] # "Failed"}) > Max(Replicas)
    /\ replicas' = k
    /\ stage' = "beat"
    /\ UNCHANGED <<nodeVars, taskVars, keeperVars, walk>>

\* Guard.drain: by name, while the rest stays at the floor.
Evicted(n) == LowestOf(Aboard(n), Cardinality(Active) - Floor)

DrainEffect(n) ==
    /\ phase' = [o \in TaskNumbers |-> IF o \in Evicted(n) THEN "Pending" ELSE phase[o]]
    /\ home' = [o \in TaskNumbers |-> IF o \in Evicted(n) THEN None ELSE home[o]]
    /\ UNCHANGED <<age, ready, restarts, keeperVars, replicas>>

\* Walk.upgrade: the surge node joins, then the first node is taken.
StartWalk(names, surge) ==
    /\ stage = "rest" /\ walk = AtRest
    /\ names # {} /\ names \subseteq joined
    /\ budget = 0    \* bound: fleets with a gate are not walked
    /\ surge => Spare \notin joined
    /\ joined' = joined \cup (IF surge THEN {Spare} ELSE {})
    /\ age' = IF surge THEN [age EXCEPT ![Spare] = 0] ELSE age
    /\ ready' = IF surge THEN ready \cup {Spare} ELSE ready
    /\ cordoned' = IF surge THEN cordoned \ {Spare} ELSE cordoned
    /\ walk' = [AtRest EXCEPT !.todo = names, !.surge = surge]
    /\ UNCHANGED <<stage, taskVars, keeperVars, replicas>>

TakeNode(n) ==
    /\ stage = "rest" /\ walk.node = None /\ n \in walk.todo
    /\ cordoned' = cordoned \cup {n}
    /\ walk' = [walk EXCEPT !.todo = @ \ {n}, !.node = n, !.left = Rounds - 1,
                            !.quiet = Aboard(n) = {}]
    /\ DrainEffect(n)
    /\ stage' = "beat"
    /\ UNCHANGED joined

\* Wrong: a refused drain is tried for ever.
DrainUntilQuiet ==
    /\ stage = "rest" /\ walk.node \in Fleet
    /\ ~walk.quiet
    /\ walk' = [walk EXCEPT !.left = 1, !.quiet = Aboard(walk.node) = {}]
    /\ DrainEffect(walk.node)
    /\ stage' = "beat"
    /\ UNCHANGED <<cordoned, joined>>

DrainAgain ==
    /\ stage = "rest" /\ walk.node \in Fleet
    /\ ~walk.quiet /\ walk.left > 0
    /\ walk' = [walk EXCEPT !.left = @ - 1, !.quiet = Aboard(walk.node) = {}]
    /\ DrainEffect(walk.node)
    /\ stage' = "beat"
    /\ UNCHANGED <<cordoned, joined>>

\* The node is patched and opened, whatever is still aboard.
Patch ==
    /\ stage = "rest" /\ walk.node \in Fleet
    /\ walk.quiet \/ walk.left = 0
    /\ cordoned' = cordoned \ {walk.node}
    /\ walk' = IF walk.todo = {} /\ ~walk.surge THEN AtRest
               ELSE [walk EXCEPT !.node = None]
    /\ stage' = "beat"
    /\ UNCHANGED <<age, ready, joined, taskVars, keeperVars, replicas>>

\* The surge node is closed and drained once.
DrainSpare ==
    /\ stage = "rest" /\ walk.surge /\ walk.node = None /\ walk.todo = {}
    /\ cordoned' = cordoned \cup {Spare}
    /\ walk' = [walk EXCEPT !.node = Spare]
    /\ DrainEffect(Spare)
    /\ stage' = "beat"
    /\ UNCHANGED joined

\* One tick later it is removed if it is empty, and stays closed if it is not.
DropSpare ==
    /\ stage = "rest" /\ walk.node = Spare
    /\ joined' = IF Aboard(Spare) = {} THEN joined \ {Spare} ELSE joined
    /\ ready' = ready \cap joined' /\ cordoned' = cordoned \cap joined'
    /\ walk' = AtRest
    /\ UNCHANGED <<stage, age, taskVars, keeperVars, replicas>>

Tick ==
    \/ StartTick
    \/ \E loud \in SUBSET joined : Beat(loud)
    \/ SweepDead \/ Converge \/ Place \/ Keep

Upgrade ==
    \/ \E n \in Fleet : TakeNode(n)
    \/ DrainAgain \/ Patch \/ DrainSpare \/ DropSpare

LoopNext ==
    \/ Tick \/ Upgrade
    \/ \E k \in Replicas : Scale(k)
    \/ \E names \in SUBSET Fleet, surge \in BOOLEAN : StartWalk(names, surge)

LoopSpec == LoopInit /\ [][LoopNext]_loopVars

\* The loop runs, and a walk that was started is carried on.
LoopFairSpec == LoopSpec /\ WF_loopVars(Tick \/ Upgrade)

-----------------------------------------------------------------------------

\* nodes.py:3-5: once the second timer is over, no task is left on the silent
\* node for the rest of the tick, and no later step puts one there.
GhostsLeave ==
    stage \in {"converge", "place", "keep"} =>
        \A n \in joined : age[n] > EvictAfter => Aboard(n) = {}

\* nodes.py:7-8, "A node that comes back before the eviction timer keeps every
\* task it had": a tick takes a running task off its node for no other reason.
ReturningNodeKeepsTasks ==
    [][\A o \in Active :
          stage \in {"beat", "sweep", "place"} /\ home'[o] # home[o] =>
             age[home[o]] > EvictAfter]_loopVars

\* Every active task lives on a node that is in the store: the surge node is not
\* taken from under its tasks.
HomesReal == \A o \in Active : home[o] \in joined

\* Slots are never overbooked, whatever silence, drains and returns do.
NeverOvercommitted == \A n \in Nodes : Cardinality(Aboard(n)) <= Slots

\* budget.py:3-4: a walk never takes the active tasks below the floor.
WalkKeepsFloor ==
    [][/\ stage = "rest"
       /\ Cardinality(Active') < Cardinality(Active)
       => Cardinality(Active') >= Floor]_loopVars

\* No step of the tick or of a walk takes a task it should have spared.
TasksAreSpared == ReturningNodeKeepsTasks /\ WalkKeepsFloor

\* upgradewalk.py:4-6: a walk leaves no node closed behind it, the surge node
\* apart.
WalkLeavesOpen == walk = AtRest => cordoned \subseteq {Spare}

\* At every stage of the tick and between two ticks.
LoopConsistent ==
    LoopTypeOK /\ GhostsLeave /\ HomesReal /\ NeverOvercommitted /\ WalkLeavesOpen

\* Every walk comes to its end, however long nodes are silent.
WalksEnd == walk # AtRest ~> walk = AtRest

\* The loop's whole purpose: when from some point on every node beats, nobody
\* rescales or walks, and there is room, all replicas run.
Calm == walk = AtRest /\ \A n \in joined : age[n] <= 1
Serving == {o \in Active : phase[o] = "Running" /\ home[o] \in ready}
Recovers ==
    \A k \in Replicas :
        <>[](Calm /\ replicas = k) => <>[](Cardinality(Serving) = k)
=============================================================================
