------------------------------ MODULE Placement ------------------------------
(***************************************************************************)
(* The placement engine: fleet/sched/placement.py (Engine.one_pass) over   *)
(* the scheduler and its filters (sched/core.py, sched/filters.py), the    *)
(* preemptor (sched/preempt.py), the class treaty (sched/classes.py), the  *)
(* disruption budgets (control/budget.py) and the queue's backoff bench    *)
(* (sched/queue.py).                                                       *)
(*                                                                         *)
(* Tasks and nodes are numbers, in the order their names sort.  One pass   *)
(* is a sequence of steps, one per due task; nothing else runs in between, *)
(* but an exception ends the pass where it stands.  One resource stands    *)
(* for cpu and memory.  benched_until is kept as the ticks still to wait.  *)
(***************************************************************************)
EXTENDS Integers, FiniteSets, FiniteSetsExt

CONSTANTS
    Tasks,             \* task names, numbered in name order
    Nodes,             \* node names, numbered in name order
    Need,              \* [Tasks -> Resources]
    Capacity,          \* [Nodes -> Resources]
    Priority,          \* [Tasks -> priority]
    Eligible,          \* [Tasks -> nodes whose labels and taints admit it]
    Repels,            \* pairs <<t, u>>: t repels its peer u
    Budgets,           \* set of [covered : SUBSET Tasks, floor : Nat]
    EngineGuarded,     \* Engine.guard is set
    MaxDisplacements,  \* Engine.max_displacements_per_pass
    BackoffBase,
    BackoffCap

Entry == [bench : 0..BackoffCap, refusals : 0..BackoffCap]
NotWaiting == [bench |-> -1, refusals |-> 0]
Fresh == [bench |-> 0, refusals |-> 0]
NoNode == 0

ASSUME PlacementAssumption ==
    /\ Tasks \subseteq Nat /\ IsFiniteSet(Tasks)
    /\ Nodes \subseteq Nat \ {NoNode}
    /\ Need \in [Tasks -> Nat \ {0}]
    /\ Capacity \in [Nodes -> Nat]
    /\ Priority \in [Tasks -> Int]
    /\ EngineGuarded \in BOOLEAN
    /\ MaxDisplacements \in Nat
    /\ BackoffBase \in Nat \ {0, 1}
    /\ BackoffCap \in Nat \ {0}

VARIABLES
    phase,      \* [Tasks -> phase], Absent when the store has no such task
    home,       \* [Tasks -> Task.node]
    nodes,      \* the nodes in the store
    cordoned,   \* those whose schedulable flag is off
    waiting,    \* SchedulingQueue.waiting
    pass,       \* whether one_pass is running
    todo,       \* the due tasks the running pass has not handled
    displaced,  \* displaced_this_pass
    rebuilt     \* the engine is coldstart's, with no guard and no churn limit

storeVars == <<phase, home, nodes, cordoned>>
passVars == <<pass, todo, displaced>>
vars == <<storeVars, waiting, passVars, rebuilt>>

\* Bound stands for Bound and Running: no rule of the engine tells them apart.
\* Evicted lasts only from make_room to the loop that requeues the victims.
Phases == {"Absent", "Pending", "Bound", "Succeeded"}

PlacementTypeOK ==
    /\ phase \in [Tasks -> Phases]
    /\ home \in [Tasks -> Nodes \cup {NoNode}]
    /\ nodes \in SUBSET Nodes
    /\ cordoned \in SUBSET nodes
    /\ waiting \in [Tasks -> Entry \cup {NotWaiting}]
    /\ pass \in {"idle", "running"}
    /\ todo \in SUBSET Tasks
    /\ displaced \in Nat
    /\ rebuilt \in BOOLEAN

-----------------------------------------------------------------------------
(* objects.py, filters.py: what a node has left and who may land on it.    *)

Active == {t \in Tasks : phase[t] = "Bound"}
OnNode(m) == {t \in Active : home[t] = m}
SizeOf(S) == MapThenSumSet(LAMBDA t : Need[t], S)
Room(m) == Capacity[m] - SizeOf(OnNode(m))

\* Wrong: every task is measured against an empty node.
PassingByCapacity(t, V) ==
    {m \in nodes \ cordoned : m \in Eligible[t] /\ Need[t] <= Capacity[m]}

\* EVERY_FILTER, with the tasks of V off their nodes.
PassingWithout(t, V) ==
    {m \in nodes \ cordoned :
        /\ m \in Eligible[t]
        /\ \A u \in OnNode(m) \ (V \cup {t}) : <<t, u>> \notin Repels
        /\ Need[t] <= Room(m) + SizeOf(OnNode(m) \cap V)}

Passing(t) == PassingWithout(t, {})

-----------------------------------------------------------------------------
(* preempt.py.                                                             *)

CheaperFirst(t, u) ==
    \/ Priority[t] < Priority[u]
    \/ Priority[t] = Priority[u] /\ t < u

Cheaper(t, m) == {v \in OnNode(m) : Priority[v] < Priority[t]}

\* plan_for_node takes the cheapest first and stops as soon as t fits.
Plannable(t, m) == Need[t] <= Room(m) + SizeOf(Cheaper(t, m))
Victims(t, m) ==
    {v \in Cheaper(t, m) :
        Need[t] > Room(m) + SizeOf({u \in Cheaper(t, m) : CheaperFirst(u, v)})}

Cost(S) == MapThenSumSet(LAMBDA t : Priority[t], S)

Preferred(t, m, k) ==
    LET V == Victims(t, m)
        W == Victims(t, k)
    IN  \/ Cost(V) < Cost(W)
        \/ Cost(V) = Cost(W) /\ Cardinality(V) < Cardinality(W)
        \/ Cost(V) = Cost(W) /\ Cardinality(V) = Cardinality(W) /\ m < k

Planned(t) == {m \in nodes : Plannable(t, m)}

\* best_plan: no filter is asked, so a cordoned or ineligible node may win.
BestNode(t) ==
    CHOOSE m \in Planned(t) :
        \A k \in Planned(t) \ {m} : Preferred(t, m, k)

-----------------------------------------------------------------------------
(* classes.py: a class is its band's floor.                                *)

Bands == {0, 10, 100, 1000, 10000}
System == 10000
Batch == 10

ClassOf(p) == Max({f \in Bands : f <= p} \cup {0})

MayDisplace(mover, victim) ==
    IF victim = System THEN mover = System
    ELSE mover # Batch /\ mover > victim

\* _may_preempt_for: some plan the treaty allows, unless some node needs no
\* victim at all (the filters, not room, refused it).
MayPreemptFor(t) ==
    /\ \A m \in Planned(t) : Victims(t, m) # {}
    /\ \E m \in Planned(t) :
          \A v \in Victims(t, m) :
             MayDisplace(ClassOf(Priority[t]), ClassOf(Priority[v]))

-----------------------------------------------------------------------------
(* budget.py.                                                              *)

\* Guard.may_evict(t) when the tasks in act are active.
MayEvict(t, act) ==
    \A b \in Budgets :
        t \in b.covered /\ t \in act =>
            Cardinality(act \cap b.covered) - 1 >= b.floor

\* _budget_permits asks each victim of a plan on its own, for any plan.
BudgetPermits(t) ==
    EngineGuarded /\ ~rebuilt =>
        \E m \in Planned(t) : \A v \in Victims(t, m) : MayEvict(v, Active)

-----------------------------------------------------------------------------
(* queue.py.                                                               *)

Queued == {t \in Tasks : waiting[t] # NotWaiting}

\* offer: a name already waiting keeps its entry.
Offer(w, S) ==
    [t \in Tasks |-> IF t \in S /\ w[t] = NotWaiting THEN Fresh ELSE w[t]]

Forget(w, S) == [t \in Tasks |-> IF t \in S THEN NotWaiting ELSE w[t]]

\* The wait after n refusals; refusals are counted up to BackoffCap, where the
\* wait has long been capped.
Wait(n) == IF BackoffBase ^ n \in 0..BackoffCap THEN BackoffBase ^ n ELSE BackoffCap

Refuse(w, t) ==
    LET n == IF w[t].refusals < BackoffCap THEN w[t].refusals + 1 ELSE BackoffCap
    IN  [w EXCEPT ![t] = [bench |-> Wait(n), refusals |-> n]]

ShapeChanged(w) ==
    [t \in Tasks |-> IF w[t] = NotWaiting THEN w[t] ELSE [w[t] EXCEPT !.bench = 0]]

Tick(w) ==
    [t \in Tasks |-> IF w[t].bench > 0 THEN [w[t] EXCEPT !.bench = @ - 1] ELSE w[t]]

\* ready: the due tasks; the pass takes the highest priority, then the name.
Due == {t \in Queued : waiting[t].bench = 0}

Before(t, u) ==
    \/ Priority[t] > Priority[u]
    \/ Priority[t] = Priority[u] /\ t < u

Next1 == CHOOSE t \in todo : \A u \in todo \ {t} : Before(t, u)

-----------------------------------------------------------------------------
(* Engine.one_pass, called by Fleet.step; no step of it replaces the engine. *)

BeginPass ==
    /\ pass = "idle"
    /\ pass' = "running"
    /\ todo' = Due
    /\ displaced' = 0
    /\ UNCHANGED <<storeVars, waiting>>

\* Wrong: the clock stands still.
EndPassAtSameTick ==
    /\ pass = "running"
    /\ todo = {}
    /\ pass' = "idle"
    /\ UNCHANGED <<storeVars, waiting, todo, displaced>>

\* The pass returns and Fleet.step advances the clock.
EndPass ==
    /\ pass = "running"
    /\ todo = {}
    /\ pass' = "idle"
    /\ waiting' = Tick(waiting)
    /\ UNCHANGED <<storeVars, todo, displaced>>

\* An exception leaves one_pass: what was done stays done, what was left is
\* left, and the clock does not advance.
Abort ==
    /\ pass' = "idle"
    /\ todo' = {}

Handled(t) ==
    /\ pass = "running"
    /\ t \in todo
    /\ t = Next1

\* store.get_task raises NotFound for a queued name the store no longer has.
HeadGone(t) ==
    /\ Handled(t)
    /\ phase[t] = "Absent"
    /\ Abort
    /\ UNCHANGED <<storeVars, waiting, displaced>>

\* schedule: any scorers, so any passing node.
Place(t, m) ==
    /\ Handled(t)
    /\ phase[t] # "Absent"
    /\ m \in Passing(t)
    /\ phase' = [phase EXCEPT ![t] = "Bound"]
    /\ home' = [home EXCEPT ![t] = m]
    /\ waiting' = Forget(waiting, {t})
    /\ todo' = todo \ {t}
    /\ UNCHANGED <<nodes, cordoned, pass, displaced>>

Unplaceable(t) ==
    /\ Handled(t)
    /\ phase[t] # "Absent"
    /\ Passing(t) = {}

ChurnLeft == rebuilt \/ displaced < MaxDisplacements
MayBuyRoom(t) == ChurnLeft /\ MayPreemptFor(t) /\ BudgetPermits(t)

Bench(t) ==
    /\ Unplaceable(t)
    /\ ~MayBuyRoom(t)
    /\ waiting' = Refuse(waiting, t)
    /\ todo' = todo \ {t}
    /\ UNCHANGED <<storeVars, pass, displaced>>

\* Wrong: the whole node makes room.
WholeNode(t) == OnNode(BestNode(t))

\* make_room on the best plan, whose victims go back to Pending and into the
\* queue; then schedule again.
Chosen(t) == Victims(t, BestNode(t))

EvictFor(t) ==
    /\ Unplaceable(t)
    /\ MayBuyRoom(t)
    /\ displaced' = displaced + Cardinality(Chosen(t))
    /\ UNCHANGED <<nodes, cordoned>>

\* Wrong: the victims leave, and the mover goes back to the bench.
PreemptThenBench(t, m) ==
    /\ EvictFor(t)
    /\ m \in PassingWithout(t, Chosen(t))
    /\ phase' = [v \in Tasks |-> IF v \in Chosen(t) THEN "Pending" ELSE phase[v]]
    /\ home' = [v \in Tasks |-> IF v \in Chosen(t) THEN NoNode ELSE home[v]]
    /\ waiting' = Refuse(Offer(waiting, Chosen(t)), t)
    /\ todo' = todo \ {t}
    /\ UNCHANGED pass

\* t is placed wherever it passes now, the node of the plan or another.
PreemptAndPlace(t, m) ==
    /\ EvictFor(t)
    /\ m \in PassingWithout(t, Chosen(t))
    /\ phase' = [v \in Tasks |-> IF v = t THEN "Bound"
                                ELSE IF v \in Chosen(t) THEN "Pending"
                                ELSE phase[v]]
    /\ home' = [v \in Tasks |-> IF v = t THEN m
                               ELSE IF v \in Chosen(t) THEN NoNode
                               ELSE home[v]]
    /\ waiting' = Forget(Offer(waiting, Chosen(t)), {t})
    /\ todo' = todo \ {t}
    /\ UNCHANGED pass

\* The node emptied is one the filters refuse: Unschedulable leaves the pass.
PreemptInVain(t) ==
    /\ EvictFor(t)
    /\ PassingWithout(t, Chosen(t)) = {}
    /\ phase' = [v \in Tasks |-> IF v \in Chosen(t) THEN "Pending" ELSE phase[v]]
    /\ home' = [v \in Tasks |-> IF v \in Chosen(t) THEN NoNode ELSE home[v]]
    /\ waiting' = Offer(waiting, Chosen(t))
    /\ Abort

PassStep ==
    \E t \in Tasks :
        \/ HeadGone(t)
        \/ Bench(t)
        \/ PreemptInVain(t)
        \/ \E m \in Nodes : Place(t, m) \/ PreemptAndPlace(t, m)
=============================================================================
