----------------------------- MODULE FleetProofs -----------------------------
(***************************************************************************)
(* Proofs about Fleet, for any tasks, nodes, sizes, priorities, budgets,   *)
(* deployment and verbs: the queue and the store agree on who waits, homes *)
(* are real, and preemption takes only what is cheaper.                    *)
(***************************************************************************)
EXTENDS Fleet, FiniteSetTheorems, FoldFacts, TLAPS

Waiting == [Tasks -> Entry \cup {NotWaiting}]

-----------------------------------------------------------------------------
(* The queue's helpers keep its type and say who is in it.                 *)

\* A bench of zero ticks, or any entry, is not the mark of absence.
LEMMA EntryIsNotAbsence ==
    ASSUME PlacementAssumption
    PROVE  /\ Fresh \in Entry
           /\ NotWaiting \notin Entry
PROOF BY SMT DEF PlacementAssumption, Fresh, Entry, NotWaiting

\* queue.offer adds what is missing and keeps every entry that is there.
LEMMA OfferAdds ==
    ASSUME PlacementAssumption, NEW w \in Waiting, NEW S
    PROVE  /\ Offer(w, S) \in Waiting
           /\ \A t \in Tasks :
                 /\ Offer(w, S)[t] # NotWaiting <=> t \in S \/ w[t] # NotWaiting
                 /\ w[t] # NotWaiting => Offer(w, S)[t] = w[t]
<1>1. Fresh \in Entry /\ Fresh # NotWaiting
  BY EntryIsNotAbsence
<1>2. Offer(w, S) = [t \in Tasks |-> IF t \in S /\ w[t] = NotWaiting THEN Fresh
                                     ELSE w[t]]
  BY DEF Offer
<1>. QED
  BY <1>1, <1>2, Zenon DEF Waiting

\* queue.forget removes exactly the names it is given.
LEMMA ForgetRemoves ==
    ASSUME NEW w \in Waiting, NEW S
    PROVE  /\ Forget(w, S) \in Waiting
           /\ \A t \in Tasks :
                 /\ Forget(w, S)[t] # NotWaiting <=> t \notin S /\ w[t] # NotWaiting
                 /\ t \notin S => Forget(w, S)[t] = w[t]
PROOF BY SMT DEF Waiting, Forget

\* A refusal sends a waiting task to the bench and nobody out of the queue.
LEMMA RefuseKeeps ==
    ASSUME PlacementAssumption, NEW w \in Waiting, NEW t \in Tasks,
           w[t] # NotWaiting
    PROVE  /\ Refuse(w, t) \in Waiting
           /\ \A u \in Tasks :
                 /\ Refuse(w, t)[u] # NotWaiting <=> w[u] # NotWaiting
                 /\ u # t => Refuse(w, t)[u] = w[u]
<1>1. w[t] \in Entry
  BY DEF Waiting
<1>. DEFINE n == IF w[t].refusals < BackoffCap THEN w[t].refusals + 1
                 ELSE BackoffCap
            e == [bench |-> Wait(n), refusals |-> n]
<1>2. n \in 0..BackoffCap
  BY <1>1, SMT DEF Entry, PlacementAssumption
<1>3. Wait(n) \in 0..BackoffCap
  <2>. HIDE DEF n
  <2>. QED  BY SMT DEF Wait, PlacementAssumption
<1>4. e \in Entry
  <2>. HIDE DEF n
  <2>. QED  BY <1>2, <1>3, SMT DEF Entry
<1>5. Refuse(w, t) = [w EXCEPT ![t] = e]
  BY DEF Refuse
<1>6. e # NotWaiting
  BY <1>4, EntryIsNotAbsence
<1>. HIDE DEF e
<1>. QED
  BY <1>4, <1>5, <1>6, SMT DEF Waiting

\* Lifting the benches, or the clock's tick, keeps everybody in the queue.
LEMMA ShapeChangedKeeps ==
    ASSUME PlacementAssumption, NEW w \in Waiting
    PROVE  /\ ShapeChanged(w) \in Waiting
           /\ \A t \in Tasks :
                 ShapeChanged(w)[t] # NotWaiting <=> w[t] # NotWaiting
<1>1. ASSUME NEW t \in Tasks, w[t] # NotWaiting
      PROVE  /\ [w[t] EXCEPT !.bench = 0] \in Entry
             /\ [w[t] EXCEPT !.bench = 0] # NotWaiting
  <2>1. w[t] \in Entry
    BY <1>1 DEF Waiting
  <2>2. [w[t] EXCEPT !.bench = 0] \in Entry
    BY <2>1, SMT DEF Entry, PlacementAssumption
  <2>. QED
    BY <2>2, EntryIsNotAbsence
<1>2. \A t \in Tasks :
         ShapeChanged(w)[t] = IF w[t] = NotWaiting THEN w[t]
                              ELSE [w[t] EXCEPT !.bench = 0]
  BY DEF ShapeChanged
<1>3. \A t \in Tasks : ShapeChanged(w)[t] \in Entry \cup {NotWaiting}
  BY <1>1, <1>2
<1>4. ShapeChanged(w) = [t \in Tasks |-> ShapeChanged(w)[t]]
  BY DEF ShapeChanged
<1>5. ShapeChanged(w) \in Waiting
  BY <1>3, <1>4, Zenon DEF Waiting
<1>. QED
  BY <1>1, <1>2, <1>5

\* A tick of the bench forgets nobody and queues nobody.
LEMMA TickKeeps ==
    ASSUME PlacementAssumption, NEW w \in Waiting
    PROVE  /\ Tick(w) \in Waiting
           /\ \A t \in Tasks : Tick(w)[t] # NotWaiting <=> w[t] # NotWaiting
<1>1. ASSUME NEW t \in Tasks, w[t].bench > 0
      PROVE  /\ w[t] # NotWaiting
             /\ [w[t] EXCEPT !.bench = @ - 1] \in Entry
             /\ [w[t] EXCEPT !.bench = @ - 1] # NotWaiting
  <2>1. w[t] # NotWaiting
    BY <1>1, SMT DEF NotWaiting
  <2>2. w[t] \in Entry
    BY <2>1 DEF Waiting
  <2>3. [w[t] EXCEPT !.bench = @ - 1] \in Entry
    BY <1>1, <2>2, SMT DEF Entry, PlacementAssumption
  <2>. QED
    BY <2>1, <2>3, EntryIsNotAbsence
<1>2. \A t \in Tasks :
         Tick(w)[t] = IF w[t].bench > 0 THEN [w[t] EXCEPT !.bench = @ - 1]
                      ELSE w[t]
  BY DEF Tick
<1>3. \A t \in Tasks : Tick(w)[t] \in Entry \cup {NotWaiting}
  BY <1>1, <1>2 DEF Waiting
<1>4. Tick(w) = [t \in Tasks |-> Tick(w)[t]]
  BY DEF Tick
<1>5. Tick(w) \in Waiting
  BY <1>3, <1>4, Zenon DEF Waiting
<1>. QED
  BY <1>1, <1>2, <1>5

\* The victims of a plan are active tasks cheaper than the mover.
LEMMA VictimsAreCheaper ==
    ASSUME NEW t, NEW m
    PROVE  /\ Victims(t, m) \subseteq Tasks
           /\ \A v \in Victims(t, m) :
                 phase[v] = "Bound" /\ Priority[v] < Priority[t]
PROOF BY SMT DEF Victims, Cheaper, OnNode, Active

\* The count of a plan's victims is a number: there are finitely many tasks.
LEMMA VictimsAreFew ==
    ASSUME PlacementAssumption, NEW t, NEW m
    PROVE  Cardinality(Victims(t, m)) \in Nat
<1>1. IsFiniteSet(Victims(t, m))
  BY VictimsAreCheaper, FS_Subset DEF PlacementAssumption
<1>. QED
  BY <1>1, FS_CardinalityType

-----------------------------------------------------------------------------
(* The inductive invariant.  Verbs run between passes, when no task is     *)
(* still to be handled; the tasks still to be handled are due, so a pass   *)
(* never benches a task the queue does not hold.                           *)

IdleHasNoTodo == pass = "idle" => todo = {}

QueueInv == NoneForgotten /\ QueuedNeverActive
TodoInv == TodoStaysDue /\ IdleHasNoTodo

IInv == TypeOK /\ QueueInv /\ HomesReal /\ TodoInv

Facts == PlacementAssumption /\ FleetAssumption

\* The fleet begins empty and idle.
LEMMA InitIInv ==
    ASSUME Facts
    PROVE  Init => IInv
<1>. SUFFICES ASSUME Init PROVE IInv
  OBVIOUS
<1>1. TypeOK
  <2>1. phase \in [Tasks -> Phases] /\ home \in [Tasks -> Nodes \cup {NoNode}]
    BY SMT DEF Init, Phases
  <2>2. waiting \in [Tasks -> Entry \cup {NotWaiting}]
    BY Zenon DEF Init
  <2>3. /\ nodes \in SUBSET Nodes /\ cordoned \in SUBSET nodes
        /\ pass \in {"idle", "running"} /\ todo \in SUBSET Tasks
        /\ displaced \in Nat /\ rebuilt \in BOOLEAN /\ gone \in BOOLEAN
    BY DEF Init
  <2>. QED
    BY <2>1, <2>2, <2>3 DEF TypeOK, PlacementTypeOK
<1>2. QueueInv
  BY SMT DEF Init, QueueInv, NoneForgotten, QueuedNeverActive, Queued
<1>3. HomesReal
  BY SMT DEF Init, HomesReal
<1>4. TodoInv
  BY SMT DEF Init, TodoInv, TodoStaysDue, IdleHasNoTodo
<1>. QED
  BY <1>1, <1>2, <1>3, <1>4 DEF IInv

\* What the invariant says of the queue's type and of an idle plane.
LEMMA IInvFacts ==
    ASSUME IInv
    PROVE  /\ waiting \in Waiting
           /\ pass = "idle" => todo = {}
           /\ \A t \in todo : t \in Tasks /\ waiting[t] # NotWaiting
PROOF BY DEF IInv, TypeOK, PlacementTypeOK, Waiting, TodoInv, IdleHasNoTodo,
             TodoStaysDue, Due, Queued

\* The deployment controller creates names the store does not hold and deletes
\* live children.
LEMMA ScaledChildren ==
    ASSUME NEW k
    PROVE  /\ \A t \in Missing(k) : t \in ChildNames /\ phase[t] = "Absent"
           /\ \A t \in Surplus(k) : t \in ChildNames /\ phase[t] # "Absent"
<1>1. ASSUME NEW t \in Missing(k)
      PROVE  t \in ChildNames /\ phase[t] = "Absent"
  <2>1. PICK o \in DOMAIN Children : t = Children[o] /\ phase[Children[o]] = "Absent"
    BY <1>1, Zenon DEF Missing
  <2>. QED
    BY <2>1, Zenon DEF ChildNames, ToSet
<1>2. Surplus(k) \subseteq Live
  BY Zenon DEF Surplus
<1>. QED
  BY <1>1, <1>2, SMT DEF Live

\* A submitted task is pending and enters the queue.
LEMMA SubmitKeeps ==
    ASSUME Facts, IInv, NEW t \in Tasks, Submit(t)
    PROVE  IInv'
<1>1. pass = "idle" /\ todo = {} /\ pass' = "idle" /\ todo' = {}
  BY IInvFacts DEF Submit, Verb, passVars
<1>2. waiting' = Offer(waiting, {t})
  BY DEF Submit
<1>a. PlacementAssumption /\ waiting \in Waiting
  BY IInvFacts DEF Facts
<1>3. /\ waiting' \in Waiting
      /\ \A u \in Tasks : waiting'[u] # NotWaiting <=> u \in {t} \/ waiting[u] # NotWaiting
  BY <1>2, <1>a, OfferAdds
<1>4. TypeOK'
  BY <1>3, SMT DEF Submit, IInv, TypeOK, PlacementTypeOK, Phases, Waiting, passVars, planeVars
<1>5. QueueInv'
  BY <1>3, SMT DEF Submit, IInv, TypeOK, PlacementTypeOK, QueueInv, NoneForgotten, QueuedNeverActive, Queued
<1>6. HomesReal'
  BY SMT DEF Submit, IInv, TypeOK, PlacementTypeOK, PlacementAssumption, Facts,
     HomesReal
<1>7. TodoInv'
  BY <1>1, SMT DEF TodoInv, TodoStaysDue, IdleHasNoTodo
<1>. QED
  BY <1>4, <1>5, <1>6, <1>7 DEF IInv

\* A deleted task leaves its node and the queue.
LEMMA DeleteKeeps ==
    ASSUME Facts, IInv, NEW t \in Tasks, Delete(t)
    PROVE  IInv'
<1>1. pass = "idle" /\ todo = {} /\ pass' = "idle" /\ todo' = {}
  BY IInvFacts DEF Delete, Verb, passVars
<1>2. waiting' = Forget(waiting, {t})
  BY DEF Delete
<1>a. PlacementAssumption /\ waiting \in Waiting
  BY IInvFacts DEF Facts
<1>3. /\ waiting' \in Waiting
      /\ \A u \in Tasks : waiting'[u] # NotWaiting <=> u \notin {t} /\ waiting[u] # NotWaiting
  BY <1>2, <1>a, ForgetRemoves
<1>4. TypeOK'
  BY <1>3, SMT DEF Delete, IInv, TypeOK, PlacementTypeOK, Phases, Waiting, passVars, planeVars
<1>5. QueueInv'
  BY <1>3, SMT DEF Delete, IInv, TypeOK, PlacementTypeOK, QueueInv, NoneForgotten, QueuedNeverActive, Queued
<1>6. HomesReal'
  BY SMT DEF Delete, IInv, TypeOK, PlacementTypeOK, PlacementAssumption, Facts,
     HomesReal
<1>7. TodoInv'
  BY <1>1, SMT DEF TodoInv, TodoStaysDue, IdleHasNoTodo
<1>. QED
  BY <1>4, <1>5, <1>6, <1>7 DEF IInv

\* A task that finished was active, hence not in the queue.
LEMMA FinishKeeps ==
    ASSUME Facts, IInv, NEW t \in Tasks, Finish(t)
    PROVE  IInv'
<1>1. pass = "idle" /\ todo = {} /\ pass' = "idle" /\ todo' = {}
  BY IInvFacts DEF Finish, Verb, passVars
<1>3. /\ waiting' \in Waiting
      /\ \A u \in Tasks : waiting'[u] # NotWaiting <=> waiting[u] # NotWaiting
  BY IInvFacts DEF Finish
<1>4. TypeOK'
  BY <1>3, SMT DEF Finish, IInv, TypeOK, PlacementTypeOK, Phases, Waiting, passVars, planeVars
<1>5. QueueInv'
  BY <1>3, SMT DEF Finish, IInv, TypeOK, PlacementTypeOK, QueueInv, NoneForgotten, QueuedNeverActive, Queued
<1>6. HomesReal'
  BY SMT DEF Finish, IInv, TypeOK, PlacementTypeOK, PlacementAssumption, Facts,
     HomesReal
<1>7. TodoInv'
  BY <1>1, SMT DEF TodoInv, TodoStaysDue, IdleHasNoTodo
<1>. QED
  BY <1>4, <1>5, <1>6, <1>7 DEF IInv

\* Every pending child is offered to the queue; the others keep their place in it.
LEMMA ScaleKeeps ==
    ASSUME Facts, IInv, NEW k \in 0..Len(Children), Scale(k)
    PROVE  IInv'
<1>1. pass = "idle" /\ todo = {} /\ pass' = "idle" /\ todo' = {}
  BY IInvFacts DEF Scale, Verb, passVars
<1>2. waiting' = Offer(waiting, {t \in ChildNames : phase'[t] = "Pending"})
  BY DEF Scale
<1>a. PlacementAssumption /\ waiting \in Waiting
  BY IInvFacts DEF Facts
<1>3. /\ waiting' \in Waiting
      /\ \A u \in Tasks : waiting'[u] # NotWaiting <=> u \in {t \in ChildNames : phase'[t] = "Pending"} \/ waiting[u] # NotWaiting
  BY <1>2, <1>a, OfferAdds
<1>4. TypeOK'
  BY <1>3, ScaledChildren, SMT DEF Scale, IInv, TypeOK, PlacementTypeOK, Phases, Waiting, passVars, planeVars
<1>5. QueueInv'
  <2>1. \A t \in Tasks : phase'[t] = "Pending" => t \in ChildNames \/ phase[t] = "Pending"
    BY ScaledChildren DEF Scale
  <2>2. \A t \in Tasks : phase'[t] = "Bound" => phase[t] = "Bound"
    BY SMT DEF Scale
  <2>3. IInv!2 /\ QueueInv
    BY DEF IInv
  <2>4. NoneForgotten'
    BY <1>3, <2>1, <2>3, Zenon DEF QueueInv, NoneForgotten, Queued
  <2>5. QueuedNeverActive'
    BY <1>3, <2>2, <2>3, SMT DEF QueueInv, QueuedNeverActive, Queued
  <2>. QED
    BY <2>4, <2>5 DEF QueueInv
<1>6. HomesReal'
  BY ScaledChildren, SMT DEF Scale, IInv, TypeOK, PlacementTypeOK, PlacementAssumption, Facts,
     HomesReal
<1>7. TodoInv'
  BY <1>1, SMT DEF TodoInv, TodoStaysDue, IdleHasNoTodo
<1>. QED
  BY <1>4, <1>5, <1>6, <1>7 DEF IInv

\* Marking a node moves no task.
LEMMA CordonKeeps ==
    ASSUME Facts, IInv, NEW m \in Nodes, Cordon(m)
    PROVE  IInv'
<1>1. pass = "idle" /\ todo = {} /\ pass' = "idle" /\ todo' = {}
  BY IInvFacts DEF Cordon, Verb, passVars
<1>3. /\ waiting' \in Waiting
      /\ \A u \in Tasks : waiting'[u] # NotWaiting <=> waiting[u] # NotWaiting
  BY IInvFacts DEF Cordon
<1>4. TypeOK'
  BY <1>3, SMT DEF Cordon, IInv, TypeOK, PlacementTypeOK, Phases, Waiting, passVars, planeVars
<1>5. QueueInv'
  BY <1>3, SMT DEF Cordon, IInv, TypeOK, PlacementTypeOK, QueueInv, NoneForgotten, QueuedNeverActive, Queued
<1>6. HomesReal'
  BY SMT DEF Cordon, IInv, TypeOK, PlacementTypeOK, PlacementAssumption, Facts,
     HomesReal
<1>7. TodoInv'
  BY <1>1, SMT DEF TodoInv, TodoStaysDue, IdleHasNoTodo
<1>. QED
  BY <1>4, <1>5, <1>6, <1>7 DEF IInv

\* Unmarking a node moves no task.
LEMMA UncordonKeeps ==
    ASSUME Facts, IInv, NEW m \in Nodes, Uncordon(m)
    PROVE  IInv'
<1>1. pass = "idle" /\ todo = {} /\ pass' = "idle" /\ todo' = {}
  BY IInvFacts DEF Uncordon, Verb, passVars
<1>3. /\ waiting' \in Waiting
      /\ \A u \in Tasks : waiting'[u] # NotWaiting <=> waiting[u] # NotWaiting
  BY IInvFacts DEF Uncordon
<1>4. TypeOK'
  BY <1>3, SMT DEF Uncordon, IInv, TypeOK, PlacementTypeOK, Phases, Waiting, passVars, planeVars
<1>5. QueueInv'
  BY <1>3, SMT DEF Uncordon, IInv, TypeOK, PlacementTypeOK, QueueInv, NoneForgotten, QueuedNeverActive, Queued
<1>6. HomesReal'
  BY SMT DEF Uncordon, IInv, TypeOK, PlacementTypeOK, PlacementAssumption, Facts,
     HomesReal
<1>7. TodoInv'
  BY <1>1, SMT DEF TodoInv, TodoStaysDue, IdleHasNoTodo
<1>. QED
  BY <1>4, <1>5, <1>6, <1>7 DEF IInv

\* Whatever the budgets let go is pending and in the queue.
LEMMA DrainKeeps ==
    ASSUME Facts, IInv, NEW m \in Nodes, Drain(m)
    PROVE  IInv'
<1>1. pass = "idle" /\ todo = {} /\ pass' = "idle" /\ todo' = {}
  BY IInvFacts DEF Drain, Verb, passVars
<1>2. waiting' = Offer(waiting, Evicted(m))
  BY DEF Drain
<1>a. PlacementAssumption /\ waiting \in Waiting
  BY IInvFacts DEF Facts
<1>3. /\ waiting' \in Waiting
      /\ \A u \in Tasks : waiting'[u] # NotWaiting <=> u \in Evicted(m) \/ waiting[u] # NotWaiting
  BY <1>2, <1>a, OfferAdds
<1>4. TypeOK'
  BY <1>3, SMT DEF Drain, IInv, TypeOK, PlacementTypeOK, Phases, Waiting, passVars, planeVars
<1>5. QueueInv'
  BY <1>3, SMT DEF Drain, IInv, TypeOK, PlacementTypeOK, QueueInv, NoneForgotten, QueuedNeverActive, Queued
<1>6. HomesReal'
  BY SMT DEF Drain, IInv, TypeOK, PlacementTypeOK, PlacementAssumption, Facts,
     HomesReal
<1>7. TodoInv'
  BY <1>1, SMT DEF TodoInv, TodoStaysDue, IdleHasNoTodo
<1>. QED
  BY <1>4, <1>5, <1>6, <1>7 DEF IInv

\* Nobody stays on a node that is removed, and everybody who left is queued.
LEMMA RetireKeeps ==
    ASSUME Facts, IInv, NEW m \in Nodes, Retire(m)
    PROVE  IInv'
<1>1. pass = "idle" /\ todo = {} /\ pass' = "idle" /\ todo' = {}
  BY IInvFacts DEF Retire, Verb, passVars
<1>2. waiting' = ShapeChanged(Offer(waiting, Evicted(m) \cup OnNode(m)))
  BY DEF Retire
<1>a. PlacementAssumption /\ waiting \in Waiting
  BY IInvFacts DEF Facts
<1>3. /\ waiting' \in Waiting
      /\ \A u \in Tasks : waiting'[u] # NotWaiting <=> u \in Evicted(m) \cup OnNode(m) \/ waiting[u] # NotWaiting
  <2>. DEFINE out == Evicted(m) \cup OnNode(m)
             w == Offer(waiting, out)
  <2>1. /\ w \in Waiting
        /\ \A u \in Tasks : w[u] # NotWaiting <=> u \in out \/ waiting[u] # NotWaiting
    BY <1>a, OfferAdds
  <2>2. waiting' = ShapeChanged(w)
    BY <1>2
  <2>. HIDE DEF out, w
  <2>3. /\ waiting' \in Waiting
        /\ \A u \in Tasks : waiting'[u] # NotWaiting <=> w[u] # NotWaiting
    BY <1>a, <2>1, <2>2, ShapeChangedKeeps
  <2>. QED
    BY <2>1, <2>3 DEF out
<1>4. TypeOK'
  BY <1>3, SMT DEF Retire, IInv, TypeOK, PlacementTypeOK, Phases, Waiting, passVars, planeVars, OnNode, Active
<1>5. QueueInv'
  BY <1>3, SMT DEF Retire, IInv, TypeOK, PlacementTypeOK, QueueInv, NoneForgotten, QueuedNeverActive, Queued, OnNode, Active
<1>6. HomesReal'
  BY SMT DEF Retire, IInv, TypeOK, PlacementTypeOK, PlacementAssumption, Facts,
     HomesReal, OnNode, Active
<1>7. TodoInv'
  BY <1>1, SMT DEF TodoInv, TodoStaysDue, IdleHasNoTodo
<1>. QED
  BY <1>4, <1>5, <1>6, <1>7 DEF IInv

\* A new node moves no task.
LEMMA AddNodeKeeps ==
    ASSUME Facts, IInv, NEW m \in Nodes, AddNode(m)
    PROVE  IInv'
<1>1. pass = "idle" /\ todo = {} /\ pass' = "idle" /\ todo' = {}
  BY IInvFacts DEF AddNode, Verb, passVars
<1>3. /\ waiting' \in Waiting
      /\ \A u \in Tasks : waiting'[u] # NotWaiting <=> waiting[u] # NotWaiting
  BY IInvFacts DEF AddNode
<1>4. TypeOK'
  BY <1>3, SMT DEF AddNode, IInv, TypeOK, PlacementTypeOK, Phases, Waiting, passVars, planeVars
<1>5. QueueInv'
  BY <1>3, SMT DEF AddNode, IInv, TypeOK, PlacementTypeOK, QueueInv, NoneForgotten, QueuedNeverActive, Queued
<1>6. HomesReal'
  BY SMT DEF AddNode, IInv, TypeOK, PlacementTypeOK, PlacementAssumption, Facts,
     HomesReal
<1>7. TodoInv'
  BY <1>1, SMT DEF TodoInv, TodoStaysDue, IdleHasNoTodo
<1>. QED
  BY <1>4, <1>5, <1>6, <1>7 DEF IInv

\* The queue a cold start rebuilds holds exactly the pending tasks.
LEMMA RestartKeeps ==
    ASSUME Facts, IInv, Restart
    PROVE  IInv'
<1>1. pass = "idle" /\ todo = {} /\ pass' = "idle" /\ todo' = {}
  BY IInvFacts DEF Restart, Verb, passVars
<1>. DEFINE empty == [t \in Tasks |-> NotWaiting]
            pending == {t \in Tasks : phase[t] = "Pending"}
<1>2. waiting' = Offer(empty, pending)
  BY DEF Restart, Rebuilt
<1>3. empty \in Waiting /\ \A t \in Tasks : empty[t] = NotWaiting
  BY Zenon DEF Waiting
<1>4. /\ waiting' \in Waiting
      /\ \A t \in Tasks : waiting'[t] # NotWaiting <=> t \in pending
  <2>. HIDE DEF empty, pending
  <2>. QED  BY <1>2, <1>3, OfferAdds DEF Facts
<1>. HIDE DEF empty
<1>5. TypeOK'
  <2>1. /\ rebuilt' = TRUE /\ gone' = FALSE
        /\ UNCHANGED <<phase, home, nodes, cordoned, pass, todo, displaced>>
    BY DEF Restart, storeVars, passVars
  <2>. QED
    BY <1>4, <2>1 DEF IInv, TypeOK, PlacementTypeOK, Waiting
<1>6. QueueInv'
  BY <1>4, SMT DEF Restart, QueueInv, NoneForgotten, QueuedNeverActive, Queued, storeVars
<1>7. HomesReal'
  BY DEF Restart, IInv, HomesReal, storeVars
<1>8. TodoInv'
  BY <1>1, SMT DEF TodoInv, TodoStaysDue, IdleHasNoTodo
<1>. QED
  BY <1>5, <1>6, <1>7, <1>8 DEF IInv

-----------------------------------------------------------------------------
(* The steps of a pass.                                                    *)

\* A pass begins with the due tasks.
LEMMA BeginPassKeeps ==
    ASSUME Facts, IInv, BeginPass, UNCHANGED planeVars
    PROVE  IInv'
<1>1. TypeOK'
  BY SMT DEF BeginPass, IInv, TypeOK, PlacementTypeOK, storeVars, planeVars, Due, Queued
<1>2. QueueInv'
  BY DEF BeginPass, IInv, QueueInv, NoneForgotten, QueuedNeverActive, Queued, storeVars
<1>3. HomesReal'
  BY DEF BeginPass, IInv, HomesReal, storeVars
<1>4. TodoInv'
  BY SMT DEF BeginPass, TodoInv, TodoStaysDue, IdleHasNoTodo, Due, Queued
<1>. QED
  BY <1>1, <1>2, <1>3, <1>4 DEF IInv

\* It ends when none is left, and the clock ticks.
LEMMA EndPassKeeps ==
    ASSUME Facts, IInv, EndPass, gone' = FALSE, UNCHANGED rebuilt
    PROVE  IInv'
<1>1. PlacementAssumption /\ waiting \in Waiting /\ waiting' = Tick(waiting)
  BY IInvFacts DEF Facts, EndPass
<1>2. /\ waiting' \in Waiting
      /\ \A t \in Tasks : waiting'[t] # NotWaiting <=> waiting[t] # NotWaiting
  BY <1>1, TickKeeps
<1>3. TypeOK'
  <2>1. pass' = "idle" /\ UNCHANGED <<phase, home, nodes, cordoned, todo, displaced>>
    BY DEF EndPass, storeVars
  <2>. QED
    BY <1>2, <2>1 DEF IInv, TypeOK, PlacementTypeOK, Waiting
<1>4. QueueInv'
  BY <1>2, SMT DEF EndPass, IInv, QueueInv, NoneForgotten, QueuedNeverActive, Queued, storeVars
<1>5. HomesReal'
  BY DEF EndPass, IInv, HomesReal, storeVars
<1>6. TodoInv'
  BY SMT DEF EndPass, TodoInv, TodoStaysDue, IdleHasNoTodo
<1>. QED
  BY <1>3, <1>4, <1>5, <1>6 DEF IInv

\* A name the store has lost ends the pass.
LEMMA HeadGoneKeeps ==
    ASSUME Facts, IInv, NEW t \in Tasks, HeadGone(t), gone' = TRUE, UNCHANGED rebuilt
    PROVE  IInv'
<1>1. TypeOK'
  BY SMT DEF HeadGone, Abort, IInv, TypeOK, PlacementTypeOK, storeVars
<1>2. QueueInv'
  BY DEF HeadGone, IInv, QueueInv, NoneForgotten, QueuedNeverActive, Queued, storeVars
<1>3. HomesReal'
  BY DEF HeadGone, IInv, HomesReal, storeVars
<1>4. TodoInv'
  BY SMT DEF HeadGone, Abort, TodoInv, TodoStaysDue, IdleHasNoTodo
<1>. QED
  BY <1>1, <1>2, <1>3, <1>4 DEF IInv

\* The task benched stays in the queue; the tasks behind it keep their entries.
LEMMA BenchKeeps ==
    ASSUME Facts, IInv, NEW t \in Tasks, Bench(t), gone' \in BOOLEAN, UNCHANGED rebuilt
    PROVE  IInv'
<1>1. /\ PlacementAssumption /\ waiting \in Waiting /\ waiting[t] # NotWaiting
      /\ waiting' = Refuse(waiting, t) /\ pass = "running"
  BY IInvFacts DEF Facts, Bench, Unplaceable, Handled
<1>2. /\ waiting' \in Waiting
      /\ \A u \in Tasks : /\ waiting'[u] # NotWaiting <=> waiting[u] # NotWaiting
                          /\ u # t => waiting'[u] = waiting[u]
  BY <1>1, RefuseKeeps
<1>3. TypeOK'
  BY <1>2, SMT DEF Bench, IInv, TypeOK, PlacementTypeOK, Waiting, storeVars
<1>4. QueueInv'
  BY <1>2, SMT DEF Bench, IInv, QueueInv, NoneForgotten, QueuedNeverActive, Queued, storeVars
<1>5. HomesReal'
  BY DEF Bench, IInv, HomesReal, storeVars
<1>6. TodoInv'
  BY <1>1, <1>2, SMT DEF Bench, IInv, TypeOK, PlacementTypeOK, TodoInv, TodoStaysDue, IdleHasNoTodo, Due, Queued
<1>. QED
  BY <1>3, <1>4, <1>5, <1>6 DEF IInv

\* The task placed is active and out of the queue.
LEMMA PlaceKeeps ==
    ASSUME Facts, IInv, NEW t \in Tasks, NEW m \in Nodes, Place(t, m),
           gone' \in BOOLEAN, UNCHANGED rebuilt
    PROVE  IInv'
<1>1. /\ waiting \in Waiting /\ waiting' = Forget(waiting, {t})
      /\ pass = "running" /\ m \in nodes
  BY IInvFacts DEF Place, Handled, Passing, PassingWithout
<1>2. /\ waiting' \in Waiting
      /\ \A u \in Tasks : /\ waiting'[u] # NotWaiting <=> u \notin {t} /\ waiting[u] # NotWaiting
                          /\ u \notin {t} => waiting'[u] = waiting[u]
  BY <1>1, ForgetRemoves
<1>3. TypeOK'
  BY <1>2, SMT DEF Place, IInv, TypeOK, PlacementTypeOK, Phases, Waiting
<1>4. QueueInv'
  BY <1>2, SMT DEF Place, IInv, TypeOK, PlacementTypeOK, QueueInv, NoneForgotten, QueuedNeverActive, Queued
<1>5. HomesReal'
  BY <1>1, SMT DEF Place, IInv, TypeOK, PlacementTypeOK, HomesReal, Facts, PlacementAssumption
<1>6. TodoInv'
  <2>1. todo' = todo \ {t} /\ pass' = pass
    BY DEF Place
  <2>2. \A u \in todo : u \in Tasks /\ waiting[u] # NotWaiting /\ waiting[u].bench = 0
    BY DEF IInv, TodoInv, TodoStaysDue, Due, Queued
  <2>3. TodoStaysDue'
    BY <1>2, <2>1, <2>2, Zenon DEF TodoStaysDue, Due, Queued
  <2>4. IdleHasNoTodo'
    BY <1>1, <2>1 DEF IdleHasNoTodo
  <2>. QED
    BY <2>3, <2>4 DEF TodoInv
<1>. QED
  BY <1>3, <1>4, <1>5, <1>6 DEF IInv

\* Both preemptions: the victims were active, so none of them was in the queue
\* or among the tasks still to be handled.
LEMMA VictimsWereActive ==
    ASSUME IInv, NEW t
    PROVE  /\ Chosen(t) \subseteq Tasks
           /\ \A v \in Chosen(t) : phase[v] = "Bound" /\ waiting[v] = NotWaiting
<1>1. /\ Chosen(t) \subseteq Tasks
      /\ \A v \in Chosen(t) : phase[v] = "Bound"
  BY VictimsAreCheaper DEF Chosen
<1>. QED
  BY <1>1 DEF IInv, QueueInv, QueuedNeverActive, Queued

\* The victims wait, the mover holds a node of the store.
LEMMA PreemptAndPlaceKeeps ==
    ASSUME Facts, IInv, NEW t \in Tasks, NEW m \in Nodes, PreemptAndPlace(t, m),
           gone' \in BOOLEAN, UNCHANGED rebuilt
    PROVE  IInv'
<1>. DEFINE V == Chosen(t)
            w == Offer(waiting, V)
<1>1. /\ PlacementAssumption /\ waiting \in Waiting /\ waiting' = Forget(w, {t})
      /\ pass = "running" /\ m \in nodes
  BY IInvFacts DEF Facts, PreemptAndPlace, EvictFor, Unplaceable, Handled, PassingWithout
<1>2. V \subseteq Tasks /\ \A v \in V : phase[v] = "Bound" /\ waiting[v] = NotWaiting
  BY VictimsWereActive
<1>3. displaced' = displaced + Cardinality(V) /\ Cardinality(V) \in Nat
  BY VictimsAreFew DEF PreemptAndPlace, EvictFor, Chosen, Facts
<1>4. /\ phase' = [v \in Tasks |-> IF v = t THEN "Bound"
                                   ELSE IF v \in V THEN "Pending" ELSE phase[v]]
      /\ home' = [v \in Tasks |-> IF v = t THEN m
                                  ELSE IF v \in V THEN NoNode ELSE home[v]]
      /\ todo' = todo \ {t}
      /\ UNCHANGED <<nodes, cordoned, pass>>
  BY DEF PreemptAndPlace, EvictFor
<1>. HIDE DEF V
<1>5. /\ w \in Waiting
      /\ \A u \in Tasks : /\ w[u] # NotWaiting <=> u \in V \/ waiting[u] # NotWaiting
                          /\ waiting[u] # NotWaiting => w[u] = waiting[u]
  BY <1>1, OfferAdds
<1>. HIDE DEF w
<1>6. /\ waiting' \in Waiting
      /\ \A u \in Tasks : /\ waiting'[u] # NotWaiting <=> u \notin {t} /\ w[u] # NotWaiting
                          /\ u \notin {t} => waiting'[u] = w[u]
  BY <1>1, <1>5, ForgetRemoves
<1>7. TypeOK'
  BY <1>3, <1>4, <1>6, SMT DEF IInv, TypeOK, PlacementTypeOK, Phases, Waiting
<1>8. QueueInv'
  BY <1>4, <1>5, <1>6, SMT DEF IInv, TypeOK, PlacementTypeOK, QueueInv, NoneForgotten, QueuedNeverActive, Queued
<1>9. HomesReal'
  BY <1>1, <1>2, <1>4, SMT DEF IInv, TypeOK, PlacementTypeOK, HomesReal, PlacementAssumption
<1>10. TodoInv'
  BY <1>1, <1>4, <1>5, <1>6, SMT DEF IInv, TypeOK, PlacementTypeOK, TodoInv, TodoStaysDue, IdleHasNoTodo, Due, Queued
<1>. QED
  BY <1>7, <1>8, <1>9, <1>10 DEF IInv

\* The victims wait; the mover keeps its place in the queue.
LEMMA PreemptInVainKeeps ==
    ASSUME Facts, IInv, NEW t \in Tasks, PreemptInVain(t), gone' \in BOOLEAN,
           UNCHANGED rebuilt
    PROVE  IInv'
<1>. DEFINE V == Chosen(t)
<1>1. PlacementAssumption /\ waiting \in Waiting /\ waiting' = Offer(waiting, V)
  BY IInvFacts DEF Facts, PreemptInVain
<1>2. V \subseteq Tasks /\ \A v \in V : phase[v] = "Bound" /\ waiting[v] = NotWaiting
  BY VictimsWereActive
<1>3. displaced' = displaced + Cardinality(V) /\ Cardinality(V) \in Nat
  BY VictimsAreFew DEF PreemptInVain, EvictFor, Chosen, Facts
<1>4. /\ phase' = [v \in Tasks |-> IF v \in V THEN "Pending" ELSE phase[v]]
      /\ home' = [v \in Tasks |-> IF v \in V THEN NoNode ELSE home[v]]
      /\ todo' = {} /\ pass' = "idle"
      /\ UNCHANGED <<nodes, cordoned>>
  BY DEF PreemptInVain, EvictFor, Abort
<1>. HIDE DEF V
<1>5. /\ waiting' \in Waiting
      /\ \A u \in Tasks : waiting'[u] # NotWaiting <=> u \in V \/ waiting[u] # NotWaiting
  BY <1>1, OfferAdds
<1>6. TypeOK'
  BY <1>3, <1>4, <1>5, SMT DEF IInv, TypeOK, PlacementTypeOK, Phases, Waiting
<1>7. QueueInv'
  BY <1>4, <1>5, SMT DEF IInv, TypeOK, PlacementTypeOK, QueueInv, NoneForgotten, QueuedNeverActive, Queued
<1>8. HomesReal'
  BY <1>2, <1>4, SMT DEF IInv, TypeOK, PlacementTypeOK, HomesReal
<1>9. TodoInv'
  BY <1>4, SMT DEF TodoInv, TodoStaysDue, IdleHasNoTodo
<1>. QED
  BY <1>6, <1>7, <1>8, <1>9 DEF IInv

-----------------------------------------------------------------------------
(* Capacity.  A step either lets tasks leave their nodes, or brings one    *)
(* task to a node that had room for it once the victims are off it.        *)

\* The tasks of a node are finitely many and weigh a natural number.
LEMMA LoadIsNat ==
    ASSUME Facts, NEW S, S \subseteq Tasks
    PROVE  /\ IsFiniteSet(S)
           /\ \A t \in S : Need[t] \in Nat
           /\ SizeOf(S) = Total(Need, S)
           /\ SizeOf(S) \in Nat
<1>1. IsFiniteSet(S) /\ \A t \in S : Need[t] \in Nat
  BY FS_Subset DEF Facts, PlacementAssumption
<1>2. SizeOf(S) = Total(Need, S)
  BY DEF SizeOf, Total
<1>. QED
  BY <1>1, <1>2, TotalIsNat

\* Nobody arrives anywhere: whoever is active was, on the node it is on.
NobodyArrives ==
    \A t \in Tasks : phase'[t] = "Bound" => phase[t] = "Bound" /\ home'[t] = home[t]

\* Where nobody arrives, no node that stays gets fuller.
LEMMA LeavingMakesRoom ==
    ASSUME Facts, NeverOvercommitted, NobodyArrives, nodes' \subseteq nodes, nodes \subseteq Nodes
    PROVE  NeverOvercommitted'
<1>. SUFFICES ASSUME NEW m \in nodes' PROVE Room(m)' >= 0
  BY DEF NeverOvercommitted
<1>1. /\ OnNode(m) \subseteq Tasks /\ OnNode(m)' \subseteq Tasks
      /\ OnNode(m)' \subseteq OnNode(m)
  BY DEF OnNode, Active, NobodyArrives
<1>2. SizeOf(OnNode(m)') <= SizeOf(OnNode(m))
  BY <1>1, LoadIsNat, TotalOfSubset
<1>3. SizeOf(OnNode(m)') \in Nat /\ SizeOf(OnNode(m)) \in Nat
  BY <1>1, LoadIsNat
<1>4. Capacity[m] \in Nat
  BY DEF Facts, PlacementAssumption
<1>5. Room(m) >= 0
  BY DEF NeverOvercommitted
<1>6. Room(m) = Capacity[m] - SizeOf(OnNode(m)) /\ Room(m)' = Capacity[m] - SizeOf(OnNode(m)')
  BY DEF Room
<1>. QED
  BY <1>2, <1>3, <1>4, <1>5, <1>6

\* t arrives on m, the tasks of V leave, and m has room for t without them.
LEMMA ArrivalFits ==
    ASSUME Facts, NeverOvercommitted, NEW t \in Tasks, NEW m \in nodes, NEW V,
           nodes \subseteq Nodes, nodes' = nodes, t \notin OnNode(m),
           Need[t] <= Room(m) + SizeOf(OnNode(m) \cap V),
           \A u \in Tasks \ {t} :
              phase'[u] = "Bound" => u \notin V /\ phase[u] = "Bound" /\ home'[u] = home[u],
           home'[t] = m
    PROVE  NeverOvercommitted'
<1>. SUFFICES ASSUME NEW k \in nodes PROVE Room(k)' >= 0
  BY DEF NeverOvercommitted
<1>1. /\ OnNode(k) \subseteq Tasks /\ OnNode(k)' \subseteq Tasks
      /\ k # m => OnNode(k)' \subseteq OnNode(k)
      /\ OnNode(m)' \subseteq (OnNode(m) \ V) \cup {t}
      /\ OnNode(m) \subseteq Tasks
  BY DEF OnNode, Active
<1>2. /\ Capacity[k] \in Nat /\ Room(k) >= 0
      /\ Room(k) = Capacity[k] - SizeOf(OnNode(k))
      /\ Room(k)' = Capacity[k] - SizeOf(OnNode(k)')
      /\ SizeOf(OnNode(k)) \in Nat /\ SizeOf(OnNode(k)') \in Nat
  BY <1>1, LoadIsNat DEF Room, NeverOvercommitted, Facts, PlacementAssumption
<1>3. CASE k # m
  <2>1. SizeOf(OnNode(k)') <= SizeOf(OnNode(k))
    BY <1>1, <1>3, LoadIsNat, TotalOfSubset
  <2>. QED
    BY <1>2, <2>1
<1>4. CASE k = m
  <2>. DEFINE stay == OnNode(m) \ V
              left == OnNode(m) \cap V
              one == {t}
              now == stay \cup one
  <2>1. /\ stay \subseteq Tasks /\ left \subseteq Tasks /\ one \subseteq Tasks /\ now \subseteq Tasks
        /\ stay \cap left = {} /\ stay \cup left = OnNode(m) /\ stay \cap one = {}
    BY <1>1
  <2>2. OnNode(m)' \subseteq now
    BY <1>1
  <2>. HIDE DEF stay, left, one, now
  <2>3. /\ SizeOf(stay) = Total(Need, stay) /\ SizeOf(left) = Total(Need, left)
        /\ SizeOf(now) = Total(Need, now) /\ SizeOf(OnNode(m)) = Total(Need, OnNode(m))
        /\ SizeOf(OnNode(m)') = Total(Need, OnNode(m)')
        /\ SizeOf(stay) \in Nat /\ SizeOf(left) \in Nat
        /\ IsFiniteSet(stay) /\ IsFiniteSet(left) /\ IsFiniteSet(now) /\ IsFiniteSet(one)
        /\ \A u \in Tasks : Need[u] \in Nat
    BY <1>1, <2>1, LoadIsNat
  <2>4. Total(Need, stay \cup left) = Total(Need, stay) + Total(Need, left)
    BY <2>1, <2>3, TotalOfUnion
  <2>5. Total(Need, stay \cup one) = Total(Need, stay) + Total(Need, one)
    <3>1. \A u \in stay \cup one : Need[u] \in Nat
      BY <2>1, <2>3
    <3>. QED
      BY <2>1, <2>3, <3>1, TotalOfUnion
  <2>6. Total(Need, one) = Need[t]
    BY <2>3, TotalOfOne DEF one
  <2>7. Total(Need, OnNode(m)') <= Total(Need, now)
    BY <2>1, <2>2, <2>3, TotalOfSubset
  <2>8. SizeOf(OnNode(m)) = SizeOf(stay) + SizeOf(left)
    BY <2>1, <2>3, <2>4, Zenon
  <2>9. SizeOf(now) = SizeOf(stay) + Need[t]
    BY <2>3, <2>5, <2>6, Zenon DEF now
  <2>10. SizeOf(OnNode(m)') <= SizeOf(now)
    BY <2>3, <2>7, Zenon
  <2>11. Need[t] <= Room(m) + SizeOf(left)
    BY DEF left
  <2>12. Need[t] \in Nat
    BY <2>3
  <2>. QED
    BY <1>2, <1>4, <2>3, <2>8, <2>9, <2>10, <2>11, <2>12
<1>. QED
  BY <1>3, <1>4

\* Only a step of a pass brings a task to a node, and only a new node joins.
LEMMA WhoArrives ==
    ASSUME Facts, IInv, [Next]_fleetVars
    PROVE  \/ NobodyArrives /\ nodes' \subseteq nodes
           \/ \E m \in Nodes : AddNode(m)
           \/ \E t \in Tasks, m \in Nodes : Place(t, m) \/ PreemptAndPlace(t, m)
<1>1. CASE UNCHANGED fleetVars
  BY <1>1 DEF fleetVars, vars, storeVars, NobodyArrives
<1>2. CASE Engine
  <2>1. CASE BeginPass \/ EndPass
    BY <2>1 DEF BeginPass, EndPass, storeVars, NobodyArrives
  <2>2. ASSUME NEW t \in Tasks, HeadGone(t) \/ Bench(t)
        PROVE  NobodyArrives /\ nodes' \subseteq nodes
    BY <2>2 DEF HeadGone, Bench, storeVars, NobodyArrives
  <2>3. ASSUME NEW t \in Tasks, PreemptInVain(t)
        PROVE  NobodyArrives /\ nodes' \subseteq nodes
    BY <2>3, SMT DEF PreemptInVain, EvictFor, NobodyArrives
  <2>. QED
    BY <1>2, <2>1, <2>2, <2>3 DEF Engine, PassStep
<1>3. ASSUME NEW t \in Tasks, Submit(t) \/ Delete(t) \/ Finish(t)
      PROVE  NobodyArrives /\ nodes' \subseteq nodes
  BY <1>3, SMT DEF IInv, TypeOK, PlacementTypeOK, Submit, Delete, Finish, NobodyArrives
<1>4. ASSUME NEW k \in 0..Len(Children), Scale(k)
      PROVE  NobodyArrives /\ nodes' \subseteq nodes
  BY <1>4, SMT DEF Scale, NobodyArrives
<1>5. ASSUME NEW m \in Nodes, Cordon(m) \/ Uncordon(m) \/ Drain(m) \/ Retire(m)
      PROVE  NobodyArrives /\ nodes' \subseteq nodes
  BY <1>5, SMT DEF Cordon, Uncordon, Drain, Retire, NobodyArrives
<1>6. CASE Restart
  BY <1>6 DEF Restart, storeVars, NobodyArrives
<1>. QED
  BY <1>1, <1>2, <1>3, <1>4, <1>5, <1>6 DEF Next

\* No verb and no step of the engine overfills a node.
LEMMA NextKeepsRoom ==
    ASSUME Facts, IInv, NeverOvercommitted, [Next]_fleetVars
    PROVE  NeverOvercommitted'
<1>1. nodes \subseteq Nodes
  BY DEF IInv, TypeOK, PlacementTypeOK
<1>2. CASE NobodyArrives /\ nodes' \subseteq nodes
  BY <1>1, <1>2, LeavingMakesRoom
<1>3. ASSUME NEW m \in Nodes, AddNode(m)
      PROVE  NeverOvercommitted'
  <2>1. /\ OnNode(m)' = {} /\ m \notin nodes /\ nodes' = nodes \cup {m}
        /\ \A k \in nodes : OnNode(k)' = OnNode(k)
    BY <1>3, SMT DEF AddNode, OnNode, Active, IInv, HomesReal
  <2>2. SizeOf({}) = 0
    BY TotalOfNone, LoadIsNat
  <2>3. Room(m)' = Capacity[m] - SizeOf({})
    BY <2>1, Zenon DEF Room
  <2>4. Capacity[m] \in Nat
    BY DEF Facts, PlacementAssumption
  <2>5. \A k \in nodes : Room(k)' = Room(k)
    BY <2>1, Zenon DEF Room
  <2>. QED
    BY <2>1, <2>2, <2>3, <2>4, <2>5 DEF NeverOvercommitted
<1>4. ASSUME NEW t \in Tasks, NEW m \in Nodes, Place(t, m)
      PROVE  NeverOvercommitted'
  <2>1. /\ m \in nodes /\ nodes' = nodes
        /\ Need[t] <= Room(m) + SizeOf(OnNode(m) \cap {})
        /\ home' = [home EXCEPT ![t] = m] /\ phase' = [phase EXCEPT ![t] = "Bound"]
        /\ t \in todo
    BY <1>4 DEF Place, Handled, Passing, PassingWithout
  <2>2. t \notin OnNode(m)
    BY <2>1, IInvFacts DEF OnNode, Active, IInv, QueueInv, QueuedNeverActive, Queued
  <2>3. /\ home'[t] = m
        /\ \A u \in Tasks \ {t} :
              phase'[u] = "Bound" => u \notin {} /\ phase[u] = "Bound" /\ home'[u] = home[u]
    BY <2>1 DEF IInv, TypeOK, PlacementTypeOK
  <2>. QED
    BY <1>1, <2>1, <2>2, <2>3, ArrivalFits
<1>5. ASSUME NEW t \in Tasks, NEW m \in Nodes, PreemptAndPlace(t, m)
      PROVE  NeverOvercommitted'
  <2>. DEFINE V == Chosen(t)
  <2>1. /\ m \in nodes /\ nodes' = nodes /\ t \in todo
        /\ Need[t] <= Room(m) + SizeOf(OnNode(m) \cap V)
        /\ phase' = [v \in Tasks |-> IF v = t THEN "Bound"
                                     ELSE IF v \in V THEN "Pending" ELSE phase[v]]
        /\ home' = [v \in Tasks |-> IF v = t THEN m
                                    ELSE IF v \in V THEN NoNode ELSE home[v]]
    BY <1>5 DEF PreemptAndPlace, EvictFor, Unplaceable, Handled, PassingWithout
  <2>2. t \notin OnNode(m)
    BY <2>1, IInvFacts DEF OnNode, Active, IInv, QueueInv, QueuedNeverActive, Queued
  <2>. HIDE DEF V
  <2>3. /\ home'[t] = m
        /\ \A u \in Tasks \ {t} :
              phase'[u] = "Bound" => u \notin V /\ phase[u] = "Bound" /\ home'[u] = home[u]
    BY <2>1
  <2>. QED
    BY <1>1, <2>1, <2>2, <2>3, ArrivalFits
<1>. QED
  BY <1>2, <1>3, <1>4, <1>5, WhoArrives

-----------------------------------------------------------------------------
(* Drains.  The fold asks for the tasks of a node one after the other, in  *)
(* name order; each one that leaves was one more than the floor needs.     *)

Asked(t, out) == IF MayEvict(t, Active \ out) THEN out \cup {t} ELSE out

DrainsTo(m, g) ==
    g = [s \in SUBSET OnNode(m) |->
            IF s = {} THEN {} ELSE Asked(Max(s), g[s \ {Max(s)}])]

\* The sets the fold goes through are finite sets of numbers, so each has a last.
LEMMA LastOnNode ==
    ASSUME Facts, NEW m
    PROVE  /\ IsFiniteSet(OnNode(m))
           /\ \A s \in SUBSET OnNode(m) : s # {} => Max(s) \in s
<1>1. OnNode(m) \subseteq Tasks
  BY DEF OnNode, Active
<1>2. \A s \in SUBSET OnNode(m) : IsFiniteSet(s) /\ s \subseteq Int
  BY <1>1, FS_Subset DEF Facts, PlacementAssumption
<1>. QED
  BY <1>2, MaxIsThere

\* The drained set is where a function defined by the fold's equation ends.
LEMMA EvictedIsAFold ==
    ASSUME Facts, NEW m
    PROVE  \E g : DrainsTo(m, g) /\ Evicted(m) = g[OnNode(m)]
<1>. DEFINE S == OnNode(m)
            pick == [s \in SUBSET S |-> Max(s)]
            step == [p \in Tasks \X SUBSET Tasks |-> Asked(p[1], p[2])]
<1>1. S \subseteq Tasks /\ IsFiniteSet(S) /\ \A s \in SUBSET S : s # {} => pick[s] \in s
  BY LastOnNode DEF OnNode, Active
<1>2. PICK g : IsFold(step, {}, pick, g, S)
  <2>. HIDE DEF S, pick, step
  <2>. QED
    BY <1>1, FoldExists
<1>3. \A s \in SUBSET S : g[s] \in SUBSET Tasks
  <2>. DEFINE Bad == {s \in SUBSET S : g[s] \notin SUBSET Tasks}
  <2>. SUFFICES ASSUME Bad # {} PROVE FALSE
    OBVIOUS
  <2>1. PICK s \in Bad : \A r \in Bad : r \subseteq s => r = s
    <3>1. Bad \subseteq SUBSET S /\ IsFiniteSet(S) /\ Bad # {}
      BY <1>1
    <3>. HIDE DEF Bad, S
    <3>. QED
      BY ONLY <3>1, SmallestSet
  <2>2. g[s] = FoldBody(step, {}, pick, g, s)
    BY <1>2, <2>1 DEF IsFold
  <2>3. s # {}
    BY <2>1, <2>2 DEF FoldBody
  <2>. DEFINE t == pick[s]
              r == s \ {t}
  <2>4. t \in s /\ r \in SUBSET S /\ r # s /\ r \subseteq s
    BY <1>1, <2>1, <2>3
  <2>5. g[r] \in SUBSET Tasks /\ t \in Tasks
    BY <1>1, <2>1, <2>4
  <2>6. g[s] = Asked(t, g[r])
    BY <2>2, <2>3, <2>5 DEF FoldBody
  <2>. QED
    BY <2>1, <2>5, <2>6 DEF Asked
<1>4. DrainsTo(m, g)
  <2>1. ASSUME NEW s \in SUBSET S, s # {}
        PROVE  g[s] = Asked(Max(s), g[s \ {Max(s)}])
    <3>1. Max(s) \in Tasks /\ g[s \ {Max(s)}] \in SUBSET Tasks
      BY <1>1, <1>3, <2>1
    <3>2. g[s] = step[<<Max(s), g[s \ {Max(s)}]>>]
      BY <1>2, <2>1 DEF IsFold, FoldBody
    <3>. QED
      BY <3>1, <3>2
  <2>2. g[{}] = {}
    BY <1>2 DEF IsFold, FoldBody
  <2>3. g = [s \in SUBSET S |-> g[s]]
    BY <1>2 DEF IsFold
  <2>. QED
    BY <2>1, <2>2, <2>3 DEF DrainsTo
<1>5. Evicted(m) = (CHOOSE h : DrainsTo(m, h))[S]
  BY DEF Evicted, MapThenFoldSet, DrainsTo, Asked
<1>6. DrainsTo(m, CHOOSE h : DrainsTo(m, h))
  BY <1>4
<1>. QED
  BY <1>5, <1>6

Left(b, out) == Cardinality((Active \ out) \cap b.covered)

\* One more task is asked for: whoever is covered by a budget at its floor stays.
LEMMA AskingKeepsFloor ==
    ASSUME Facts, NEW b \in Budgets, NEW t, NEW out, Left(b, out) >= b.floor
    PROVE  Left(b, Asked(t, out)) >= b.floor
<1>. DEFINE act == Active \ out
<1>1. CASE ~MayEvict(t, act)
  BY <1>1 DEF Asked
<1>2. CASE MayEvict(t, act) /\ ~(t \in b.covered /\ t \in act)
  <2>1. (Active \ (out \cup {t})) \cap b.covered = (Active \ out) \cap b.covered
    BY <1>2
  <2>. QED
    BY <1>2, <2>1 DEF Asked, Left
<1>3. CASE MayEvict(t, act) /\ t \in b.covered /\ t \in act
  <2>1. Cardinality(act \cap b.covered) - 1 >= b.floor
    BY <1>3 DEF MayEvict
  <2>2. IsFiniteSet(act \cap b.covered)
    <3>1. act \cap b.covered \subseteq Tasks
      BY DEF Active
    <3>. QED
      BY <3>1, FS_Subset DEF Facts, PlacementAssumption
  <2>3. t \in act \cap b.covered
    BY <1>3
  <2>4. Cardinality((act \cap b.covered) \ {t}) = Cardinality(act \cap b.covered) - 1
    <3>. HIDE DEF act
    <3>. QED
      BY <2>2, <2>3, FS_RemoveElement
  <2>5. (Active \ (out \cup {t})) \cap b.covered = (act \cap b.covered) \ {t}
    OBVIOUS
  <2>6. Left(b, Asked(t, out)) = Cardinality(act \cap b.covered) - 1
    BY <1>3, <2>4, <2>5, Zenon DEF Asked, Left
  <2>. QED
    BY <2>1, <2>6
<1>. QED
  BY <1>1, <1>2, <1>3

\* So the whole drain keeps it.
LEMMA EvictedKeepsFloor ==
    ASSUME Facts, NEW m, NEW b \in Budgets, Cover(b) >= b.floor
    PROVE  Left(b, Evicted(m)) >= b.floor
<1>1. PICK g : DrainsTo(m, g) /\ Evicted(m) = g[OnNode(m)]
  BY EvictedIsAFold
<1>. DEFINE S == OnNode(m)
            Bad == {s \in SUBSET S : ~(Left(b, g[s]) >= b.floor)}
<1>2. Bad = {}
  <2>. SUFFICES ASSUME Bad # {} PROVE FALSE
    OBVIOUS
  <2>1. PICK s \in Bad : \A r \in Bad : r \subseteq s => r = s
    <3>1. Bad \subseteq SUBSET S /\ IsFiniteSet(S) /\ Bad # {}
      BY LastOnNode
    <3>. HIDE DEF Bad, S
    <3>. QED
      BY ONLY <3>1, SmallestSet
  <2>2. CASE s = {}
    <3>1. g[s] = {}
      BY <1>1, <2>1, <2>2 DEF DrainsTo
    <3>2. Left(b, {}) = Cover(b)
      BY DEF Left, Cover
    <3>. QED
      BY <2>1, <3>1, <3>2
  <2>3. CASE s # {}
    <3>. DEFINE t == Max(s)
                r == s \ {t}
    <3>1. t \in s /\ r \in SUBSET S /\ r # s /\ r \subseteq s
      BY <2>1, <2>3, LastOnNode
    <3>2. g[s] = Asked(t, g[r])
      BY <1>1, <2>1, <2>3 DEF DrainsTo
    <3>3. Left(b, g[r]) >= b.floor
      BY <2>1, <3>1
    <3>4. Left(b, Asked(t, g[r])) >= b.floor
      BY <3>3, AskingKeepsFloor
    <3>. QED
      BY <2>1, <3>2, <3>4
  <2>. QED
    BY <2>2, <2>3
<1>. QED
  BY <1>1, <1>2

-----------------------------------------------------------------------------
(* The invariant of the fleet and what follows from it.                    *)

\* Every verb and every step of the engine keeps the invariant.
LEMMA NextKeepsIInv ==
    ASSUME Facts
    PROVE  IInv /\ [Next]_fleetVars => IInv'
<1>. SUFFICES ASSUME IInv, [Next]_fleetVars PROVE IInv'
  OBVIOUS
<1>1. CASE UNCHANGED fleetVars
  BY <1>1 DEF fleetVars, vars, storeVars, passVars, IInv, TypeOK, PlacementTypeOK,
     QueueInv, NoneForgotten, QueuedNeverActive, Queued, HomesReal, TodoInv,
     TodoStaysDue, IdleHasNoTodo, Due
<1>2. CASE Engine
  <2>1. CASE BeginPass /\ UNCHANGED gone
    BY <1>2, <2>1, BeginPassKeeps DEF Engine, planeVars
  <2>2. CASE PassStep /\ gone' = (pass' = "idle")
    <3>1. gone' \in BOOLEAN /\ UNCHANGED rebuilt
      BY <1>2, <2>2 DEF Engine
    <3>2. PICK t \in Tasks :
             \/ HeadGone(t)
             \/ Bench(t)
             \/ PreemptInVain(t)
             \/ \E m \in Nodes : Place(t, m) \/ PreemptAndPlace(t, m)
      BY <2>2 DEF PassStep
    <3>3. CASE HeadGone(t)
      BY <2>2, <3>1, <3>3, HeadGoneKeeps DEF HeadGone, Abort
    <3>4. CASE Bench(t)
      BY <3>1, <3>4, BenchKeeps
    <3>5. CASE PreemptInVain(t)
      BY <3>1, <3>5, PreemptInVainKeeps
    <3>6. ASSUME NEW m \in Nodes, Place(t, m) PROVE IInv'
      BY <3>1, <3>6, PlaceKeeps
    <3>7. ASSUME NEW m \in Nodes, PreemptAndPlace(t, m) PROVE IInv'
      BY <3>1, <3>7, PreemptAndPlaceKeeps
    <3>. QED
      BY <3>2, <3>3, <3>4, <3>5, <3>6, <3>7
  <2>3. CASE EndPass /\ gone' = FALSE
    BY <1>2, <2>3, EndPassKeeps DEF Engine
  <2>. QED
    BY <1>2, <2>1, <2>2, <2>3 DEF Engine
<1>3. ASSUME NEW t \in Tasks, Submit(t) \/ Delete(t) \/ Finish(t) PROVE IInv'
  BY <1>3, SubmitKeeps, DeleteKeeps, FinishKeeps
<1>4. ASSUME NEW k \in 0..Len(Children), Scale(k) PROVE IInv'
  BY <1>4, ScaleKeeps
<1>5. ASSUME NEW m \in Nodes,
             Cordon(m) \/ Uncordon(m) \/ Drain(m) \/ Retire(m) \/ AddNode(m)
      PROVE IInv'
  BY <1>5, CordonKeeps, UncordonKeeps, DrainKeeps, RetireKeeps, AddNodeKeeps
<1>6. CASE Restart
  BY <1>6, RestartKeeps
<1>. QED
  BY <1>1, <1>2, <1>3, <1>4, <1>5, <1>6 DEF Next

\* Everything in the invariant holds in every reachable state.
LEMMA AlwaysIInv ==
    ASSUME Facts
    PROVE  Spec => []IInv
<1>1. Init => IInv
  BY InitIInv
<1>2. IInv /\ [Next]_fleetVars => IInv'
  BY NextKeepsIInv
<1>. QED
  BY <1>1, <1>2, PTL DEF Spec

\* objects.py, filters.py, preempt.py: no node ever holds more than its capacity,
\* for any sizes, priorities and budgets.
THEOREM NodesNeverOverflow ==
    ASSUME Facts
    PROVE  Spec => []NeverOvercommitted
<1>1. Init => NeverOvercommitted
  <2>. SUFFICES ASSUME Init, NEW m \in nodes PROVE Room(m) >= 0
    BY DEF NeverOvercommitted
  <2>1. OnNode(m) = {} /\ m \in Nodes
    BY DEF Init, OnNode, Active
  <2>2. SizeOf({}) = 0
    BY TotalOfNone, LoadIsNat
  <2>3. Capacity[m] \in Nat
    BY <2>1 DEF Facts, PlacementAssumption
  <2>. QED
    BY <2>1, <2>2, <2>3 DEF Room
<1>2. IInv /\ NeverOvercommitted /\ [Next]_fleetVars => NeverOvercommitted'
  BY NextKeepsRoom
<1>. QED
  BY <1>1, <1>2, AlwaysIInv, PTL DEF Spec

\* The variables of the plane keep their types, for any instance.
THEOREM FleetTypeCorrect ==
    ASSUME Facts
    PROVE  Spec => []TypeOK
<1>1. IInv => TypeOK
  BY DEF IInv
<1>. QED
  BY <1>1, AlwaysIInv, PTL

\* queue.py:3-4: no pending task is ever out of the queue, through preemption,
\* drain, retirement, scaling, failed passes and a cold start.
THEOREM NobodyIsForgotten ==
    ASSUME Facts
    PROVE  Spec => []NoneForgotten
<1>1. IInv => NoneForgotten
  BY DEF IInv, QueueInv
<1>. QED
  BY <1>1, AlwaysIInv, PTL

\* A task the queue holds is never active: no pass binds a task twice.
THEOREM NobodyIsPlacedTwice ==
    ASSUME Facts
    PROVE  Spec => []QueuedNeverActive
<1>1. IInv => QueuedNeverActive
  BY DEF IInv, QueueInv
<1>. QED
  BY <1>1, AlwaysIInv, PTL

\* verify.py's bound_tasks_name_real_nodes, pending_tasks_have_no_node and
\* finished_tasks_hold_nothing.
THEOREM HomesAreReal ==
    ASSUME Facts
    PROVE  Spec => []HomesReal
<1>1. IInv => HomesReal
  BY DEF IInv
<1>. QED
  BY <1>1, AlwaysIInv, PTL

\* The tasks a pass took stay due until their turn.
THEOREM PassKeepsItsList ==
    ASSUME Facts
    PROVE  Spec => []TodoStaysDue
<1>1. IInv => TodoStaysDue
  BY DEF IInv, TodoInv
<1>. QED
  BY <1>1, AlwaysIInv, PTL

\* preempt.py:7-8: whoever leaves a node for a task of the pass is cheaper.
THEOREM PreemptionTakesTheCheaper ==
    Spec => OnlyCheaperDisplaced
<1>. DEFINE Fair == \A t, v \in Tasks : Displaces(t, v) => Priority[v] < Priority[t]
<1>1. ASSUME Next PROVE Fair
  <2>. SUFFICES ASSUME NEW t \in Tasks, NEW v \in Tasks, Displaces(t, v)
                PROVE  Priority[v] < Priority[t]
    OBVIOUS
  <2>1. /\ pass = "running" /\ t = Next1
        /\ phase[v] = "Bound" /\ phase'[v] = "Pending"
    BY DEF Displaces
  <2>2. PassStep
    <3>1. "running" # "idle" /\ "Bound" # "Pending"
      OBVIOUS
    <3>. QED
      BY <1>1, <2>1, <3>1, Zenon DEF Next, Engine, BeginPass, EndPass, storeVars, Submit,
         Delete, Finish, Scale, Cordon, Uncordon, Drain, Retire, AddNode,
         Restart, Verb
  <2>3. PICK u \in Tasks :
           \/ HeadGone(u)
           \/ Bench(u)
           \/ PreemptInVain(u)
           \/ \E m \in Nodes : Place(u, m) \/ PreemptAndPlace(u, m)
    BY <2>2 DEF PassStep
  <2>4. u = t
    BY <2>1, <2>3 DEF HeadGone, Bench, PreemptInVain, Place, PreemptAndPlace,
       EvictFor, Unplaceable, Handled
  <2>5. v \in Chosen(t)
    <3>1. CASE HeadGone(u) \/ Bench(u)
      BY <2>1, <3>1 DEF HeadGone, Bench, storeVars
    <3>2. CASE PreemptInVain(u)
      BY <2>1, <2>4, <3>2 DEF PreemptInVain
    <3>3. CASE \E m \in Nodes : Place(u, m)
      <4>1. phase' = [phase EXCEPT ![t] = "Bound"]
        BY <2>4, <3>3 DEF Place
      <4>. QED
        BY <2>1, <4>1
    <3>4. CASE \E m \in Nodes : PreemptAndPlace(u, m)
      BY <2>1, <2>4, <3>4 DEF PreemptAndPlace
    <3>. QED
      BY <2>3, <3>1, <3>2, <3>3, <3>4
  <2>. QED
    BY <2>5, VictimsAreCheaper DEF Chosen
<1>2. ASSUME UNCHANGED fleetVars PROVE Fair
  BY <1>2 DEF fleetVars, vars, storeVars, Displaces
<1>3. [Next]_fleetVars => [Fair]_fleetVars
  BY <1>1
<1>. QED
  BY <1>3, PTL DEF Spec, OnlyCheaperDisplaced

\* budget.py:3-6: a drain leaves every covered group that had its floor with it,
\* whatever budgets overlap and however many tasks of a group share the node.
THEOREM DrainsKeepTheFloor ==
    ASSUME Facts
    PROVE  Spec => DrainKeepsFloor
<1>. DEFINE Keeps == \A m \in Nodes : Drain(m) => \A b \in Budgets : FloorKept(b)
<1>1. Keeps
  <2>. SUFFICES ASSUME NEW m \in Nodes, Drain(m), NEW b \in Budgets, Cover(b) >= b.floor
                PROVE  Cover(b)' >= b.floor
    BY DEF FloorKept
  <2>1. Active' = Active \ Evicted(m)
    <3>1. phase' = [t \in Tasks |-> IF t \in Evicted(m) THEN "Pending" ELSE phase[t]]
      BY DEF Drain
    <3>. QED
      BY <3>1 DEF Active
  <2>2. Cover(b)' = Left(b, Evicted(m))
    BY <2>1, Zenon DEF Cover, Left
  <2>. QED
    BY <2>2, EvictedKeepsFloor
<1>2. [Next]_fleetVars => [Keeps]_fleetVars
  BY <1>1
<1>. QED
  BY <1>2, PTL DEF Spec, DrainKeepsFloor

\* All of it at once: no verb of api.py and no step of one_pass leaves the plane
\* with a lost, doubled or homeless task.
THEOREM PlaneStaysConsistent ==
    ASSUME Facts
    PROVE  Spec => []PlaneConsistent
<1>1. IInv => PlaneConsistent
  BY DEF IInv, QueueInv, TodoInv, PlaneConsistent
<1>. QED
  BY <1>1, AlwaysIInv, PTL
=============================================================================
