-------------------------------- MODULE Fleet --------------------------------
(***************************************************************************)
(* The operator facade (fleet/api.py): its verbs over the store, the       *)
(* placement engine, the disruption budgets' drain (control/budget.py) and *)
(* one deployment (control/deploy.py).  A verb runs between two passes.    *)
(***************************************************************************)
EXTENDS Placement, SequencesExt

CONSTANTS
    Children,   \* the names of the deployment's ordinals, a sequence of tasks
    Verbs       \* bound: the verbs the operators of an instance use

ASSUME FleetAssumption == Children \in Seq(Tasks)

VARIABLE gone   \* a pass ended on an exception and no pass has ended well since

planeVars == <<gone, rebuilt>>
fleetVars == <<vars, gone>>

TypeOK == PlacementTypeOK /\ gone \in BOOLEAN

ChildNames == ToSet(Children)

Init ==
    /\ phase = [t \in Tasks |-> "Absent"]
    /\ home = [t \in Tasks |-> NoNode]
    /\ nodes = Nodes
    /\ cordoned = {}
    /\ waiting = [t \in Tasks |-> NotWaiting]
    /\ pass = "idle"
    /\ todo = {}
    /\ displaced = 0
    /\ rebuilt = FALSE
    /\ gone = FALSE

Verb(v) == pass = "idle" /\ v \in Verbs

\* Engine.submit.
Submit(t) ==
    /\ Verb("submit")
    /\ phase[t] = "Absent"
    /\ t \notin ChildNames
    /\ phase' = [phase EXCEPT ![t] = "Pending"]
    /\ waiting' = Offer(waiting, {t})
    /\ UNCHANGED <<home, nodes, cordoned, passVars, planeVars>>

Delete(t) ==
    /\ Verb("delete")
    /\ phase[t] # "Absent"
    /\ phase' = [phase EXCEPT ![t] = "Absent"]
    /\ home' = [home EXCEPT ![t] = NoNode]
    /\ waiting' = Forget(waiting, {t})
    /\ UNCHANGED <<nodes, cordoned, passVars, planeVars>>

\* The runtime reports that a task finished and gives its node back.
Finish(t) ==
    /\ Verb("finish")
    /\ phase[t] = "Bound"
    /\ phase' = [phase EXCEPT ![t] = "Succeeded"]
    /\ home' = [home EXCEPT ![t] = NoNode]
    /\ UNCHANGED <<nodes, cordoned, waiting, passVars, planeVars>>

-----------------------------------------------------------------------------
(* Deployer.reconcile and apply_deploy.                                    *)

Live == {t \in ChildNames : phase[t] \in {"Pending", "Bound"}}

\* The names of the lowest free ordinals, and the last names in name order.
Missing(k) ==
    LET free == {o \in DOMAIN Children : phase[Children[o]] = "Absent"}
    IN  {Children[o] : o \in {p \in free :
            Cardinality({q \in free : q < p}) < k - Cardinality(Live)}}

Surplus(k) ==
    {t \in Live : Cardinality({u \in Live : u > t}) < Cardinality(Live) - k}

\* Deleted children keep their queue entries: only the verb delete forgets.
Scale(k) ==
    /\ Verb("scale")
    /\ Cardinality(Missing(k)) >= k - Cardinality(Live)
    /\ phase' = [t \in Tasks |-> IF t \in Missing(k) THEN "Pending"
                                 ELSE IF t \in Surplus(k) THEN "Absent"
                                 ELSE phase[t]]
    /\ home' = [t \in Tasks |-> IF t \in Surplus(k) THEN NoNode ELSE home[t]]
    /\ waiting' = Offer(waiting, {t \in ChildNames : phase'[t] = "Pending"})
    /\ UNCHANGED <<nodes, cordoned, passVars, planeVars>>

-----------------------------------------------------------------------------
(* Nodes.                                                                  *)

Cordon(m) ==
    /\ Verb("cordon")
    /\ m \in nodes \ cordoned
    /\ cordoned' = cordoned \cup {m}
    /\ UNCHANGED <<phase, home, nodes, waiting, passVars, planeVars>>

Uncordon(m) ==
    /\ Verb("cordon")
    /\ m \in cordoned
    /\ cordoned' = cordoned \ {m}
    /\ UNCHANGED <<phase, home, nodes, waiting, passVars, planeVars>>

\* Wrong: every task asks as if none had left before it.
EvictedAtOnce(m) == {t \in OnNode(m) : MayEvict(t, Active)}

\* Guard.drain: in name order, each task asks while the earlier ones are gone.
Evicted(m) ==
    MapThenFoldSet(LAMBDA t, out : IF MayEvict(t, Active \ out) THEN out \cup {t}
                                                                ELSE out,
                   {}, LAMBDA t : t, LAMBDA S : Max(S), OnNode(m))

Drain(m) ==
    /\ Verb("drain")
    /\ m \in nodes
    /\ cordoned' = cordoned \cup {m}
    /\ LET out == Evicted(m)
       IN  /\ phase' = [t \in Tasks |-> IF t \in out THEN "Pending" ELSE phase[t]]
           /\ home' = [t \in Tasks |-> IF t \in out THEN NoNode ELSE home[t]]
           /\ waiting' = Offer(waiting, out)
    /\ UNCHANGED <<nodes, passVars, planeVars>>

\* Wrong: the refused leave their node but are not requeued.
RetireLosingRefused(m) ==
    /\ Verb("retire")
    /\ m \in nodes
    /\ LET out == Evicted(m) \cup OnNode(m)
       IN  /\ phase' = [t \in Tasks |-> IF t \in out THEN "Pending" ELSE phase[t]]
           /\ home' = [t \in Tasks |-> IF t \in out THEN NoNode ELSE home[t]]
           /\ waiting' = ShapeChanged(Offer(waiting, Evicted(m)))
    /\ nodes' = nodes \ {m}
    /\ cordoned' = cordoned \ {m}
    /\ UNCHANGED <<passVars, planeVars>>

\* retire_node: drain, then the refused leave too, then the node is removed.
Retire(m) ==
    /\ Verb("retire")
    /\ m \in nodes
    /\ LET out == Evicted(m) \cup OnNode(m)
       IN  /\ phase' = [t \in Tasks |-> IF t \in out THEN "Pending" ELSE phase[t]]
           /\ home' = [t \in Tasks |-> IF t \in out THEN NoNode ELSE home[t]]
           /\ waiting' = ShapeChanged(Offer(waiting, out))
    /\ nodes' = nodes \ {m}
    /\ cordoned' = cordoned \ {m}
    /\ UNCHANGED <<passVars, planeVars>>

\* store.add_node, which the facade leaves to its caller.
AddNode(m) ==
    /\ Verb("retire")
    /\ m \in Nodes \ nodes
    /\ nodes' = nodes \cup {m}
    /\ UNCHANGED <<phase, home, cordoned, waiting, passVars, planeVars>>

-----------------------------------------------------------------------------

\* coldstart.rebuild_engine: the pending tasks enter a new queue.
Rebuilt == Offer([t \in Tasks |-> NotWaiting],
                 {t \in Tasks : phase[t] = "Pending"})

Restart ==
    /\ Verb("restart")
    /\ waiting' = Rebuilt
    /\ rebuilt' = TRUE
    /\ gone' = FALSE
    /\ UNCHANGED <<storeVars, passVars>>

Engine ==
    /\ \/ BeginPass /\ UNCHANGED gone
       \/ PassStep /\ gone' = (pass' = "idle")
       \/ EndPass /\ gone' = FALSE
    /\ UNCHANGED rebuilt

Next ==
    \/ Engine
    \/ \E t \in Tasks : Submit(t) \/ Delete(t) \/ Finish(t)
    \/ \E k \in 0..Len(Children) : Scale(k)
    \/ \E m \in Nodes : \/ Cordon(m) \/ Uncordon(m) \/ Drain(m)
                        \/ Retire(m) \/ AddNode(m)
    \/ Restart

Spec == Init /\ [][Next]_fleetVars

\* Fleet.step is called again and again; nobody promises an operator's verb.
FairSpec == Spec /\ WF_fleetVars(Engine)

-----------------------------------------------------------------------------
(* What the fleet promises.                                                *)

\* verify.py's invariants, after every step.  An active task is on a node of the
\* store and no other task holds one, whatever drained or removed its node.
HomesReal ==
    \A t \in Tasks :
        /\ phase[t] = "Bound" <=> home[t] # NoNode
        /\ phase[t] = "Bound" => home[t] \in nodes

\* No node holds more than its capacity, also where victims of a preemption
\* leave it and the mover arrives in the same pass.
NeverOvercommitted == \A m \in nodes : Room(m) >= 0

\* queue.py:3-4, placement.py:9: a pending task is never forgotten, whatever
\* displaced, drained, retired, scaled or requeued it.
NoneForgotten == \A t \in Tasks : phase[t] = "Pending" => t \in Queued

\* A task that already runs is never in the queue, so no pass can bind it a
\* second time while it holds a node.
QueuedNeverActive == \A t \in Queued : phase[t] # "Bound"

\* A pass works off the tasks that were due when it began: each is still in
\* the queue with its bench empty when its turn comes.
TodoStaysDue == \A t \in todo : t \in Due

\* The steps that take v from its node to make room for t.
Displaces(t, v) ==
    /\ pass = "running"
    /\ t \in todo /\ t = Next1
    /\ phase[v] = "Bound" /\ phase'[v] = "Pending"

\* preempt.py:7-8: preemption never evicts an equal or higher priority.
OnlyCheaperDisplaced ==
    [][\A t, v \in Tasks : Displaces(t, v) => Priority[v] < Priority[t]]_fleetVars

Cover(b) == Cardinality(Active \cap b.covered)
FloorKept(b) == Cover(b) >= b.floor => Cover(b)' >= b.floor

\* budget.py:3-6: a drain never takes a covered group below its floor.
DrainKeepsFloor ==
    [][\A m \in Nodes : Drain(m) => \A b \in Budgets : FloorKept(b)]_fleetVars

\* queue.py:3-4: a task that fits an open node does not wait for ever, however
\* it is displaced, drained or benched, unless the queue keeps a name the store
\* has no longer.
FeasibleIsPlaced ==
    <>[](\A t \in Queued : phase[t] # "Absent") =>
        \A t \in Tasks : []<>~(phase[t] = "Pending" /\ Passing(t) # {})

\* A fleet whose pass ended on an exception recovers: a later pass ends well.
PassesRecover == []<>~gone

\* preempt.py:8-9: "a preemption loop wearing a scheduler costume is still a
\* loop".  Where every node of the store admits every task, evictions cease once
\* the operators are done, whatever they closed, drained and retired before.
EvictionsCease ==
    /\ <>[][Engine]_fleetVars
    /\ <>[](cordoned = {})
    => <>[](displaced = 0)

\* What a step of any verb or of the engine must leave behind: the types, every
\* pending task in the queue, no active one in it, homes that exist, and a pass
\* whose list is still due.
PlaneConsistent ==
    /\ TypeOK
    /\ NoneForgotten
    /\ QueuedNeverActive
    /\ HomesReal
    /\ TodoStaysDue
=============================================================================
