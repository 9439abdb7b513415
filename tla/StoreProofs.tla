----------------------------- MODULE StoreProofs -----------------------------
(***************************************************************************)
(* Proofs about Store and Watch, for every set of names, nodes,            *)
(* controllers and subscribers and every bound.  The store keeps its type, *)
(* a dense log and the lost-update promise of update_task; compaction      *)
(* strands no subscriber that registered in time, an informer that skipped *)
(* nothing knows the store, and a subscription that skipped nothing was    *)
(* handed every add its selector matches.                                  *)
(*                                                                         *)
(* At the end, about what is held for a time.  Of Election, for any        *)
(* candidates and lease: the invariant IInv ties the three places a token  *)
(* lives, the lease, the controllers and the log, to one list, the owners  *)
(* in handovers.  Of Custody, for any nodes, thresholds, probations and    *)
(* leases: quarantine keeps its taint, and only a clean probation ends it. *)
(***************************************************************************)
EXTENDS Watch, Election, Custody, FoldFacts, SequenceTheorems

-----------------------------------------------------------------------------
(* The store                                                               *)

HandleOver(S) == [obj : S, generation : Nat, moved : BOOLEAN]

\* MarkMoved keeps a handle sequence's length, objects and generations, and
\* turns moved on for the handles on these objects only.
LEMMA MarkMovedFacts ==
    ASSUME NEW S, NEW hs \in Seq(HandleOver(S)), NEW objs
    PROVE  /\ MarkMoved(hs, objs) \in Seq(HandleOver(S))
           /\ DOMAIN MarkMoved(hs, objs) = DOMAIN hs
           /\ \A i \in DOMAIN hs :
                /\ MarkMoved(hs, objs)[i].obj = hs[i].obj
                /\ MarkMoved(hs, objs)[i].generation = hs[i].generation
                /\ MarkMoved(hs, objs)[i].moved <=> (hs[i].moved \/ hs[i].obj \in objs)
<1>1. /\ hs \in [1..Len(hs) -> HandleOver(S)]
      /\ Len(hs) \in Nat
      /\ DOMAIN hs = 1..Len(hs)
  OBVIOUS
<1>2. \A i \in DOMAIN hs :
        /\ MarkMoved(hs, objs)[i] \in HandleOver(S)
        /\ MarkMoved(hs, objs)[i].obj = hs[i].obj
        /\ MarkMoved(hs, objs)[i].generation = hs[i].generation
        /\ MarkMoved(hs, objs)[i].moved <=> (hs[i].moved \/ hs[i].obj \in objs)
  <2>1. SUFFICES ASSUME NEW i \in DOMAIN hs
                 PROVE  /\ MarkMoved(hs, objs)[i] \in HandleOver(S)
                        /\ MarkMoved(hs, objs)[i].obj = hs[i].obj
                        /\ MarkMoved(hs, objs)[i].generation = hs[i].generation
                        /\ MarkMoved(hs, objs)[i].moved
                             <=> (hs[i].moved \/ hs[i].obj \in objs)
    OBVIOUS
  <2>2. hs[i] \in HandleOver(S)
    BY <1>1
  <2>3. MarkMoved(hs, objs)[i] =
           IF hs[i].obj \in objs THEN [hs[i] EXCEPT !.moved = TRUE] ELSE hs[i]
    BY DEF MarkMoved
  <2> QED
    BY <2>2, <2>3 DEF HandleOver
<1>3. DOMAIN MarkMoved(hs, objs) = 1..Len(hs)
  BY <1>1 DEF MarkMoved
<1>4. MarkMoved(hs, objs) \in [1..Len(hs) -> HandleOver(S)]
  BY <1>1, <1>2 DEF MarkMoved
<1> QED
  BY <1>1, <1>2, <1>3, <1>4

-----------------------------------------------------------------------------
(* Type correctness.                                                       *)

\* A handle is one over the objects there are.
LEMMA HandleIsOver == Handle = HandleOver(Allocated)
  BY DEF Handle, HandleOver

\* An empty store is well typed.
LEMMA InitType == ASSUME StoreAssumption PROVE Init => TypeOK
  BY DEF Init, TypeOK, StoreAssumption, Allocated, Task, Nothing

\* A handle sequence stays well typed while objects are only added.
LEMMA HandlesGrow ==
    ASSUME NEW S, NEW T, S \subseteq T, NEW hs \in Seq(HandleOver(S))
    PROVE  hs \in Seq(HandleOver(T))
<1>1. HandleOver(S) \subseteq HandleOver(T)
  BY DEF HandleOver
<1> QED
  BY <1>1

\* Every handle names an allocated object of a known task name.
LEMMA HandleTyped ==
    ASSUME TypeOK, NEW c \in Controllers, NEW i \in DOMAIN held[c]
    PROVE  /\ held[c][i] \in Handle
           /\ held[c][i].obj \in Allocated
           /\ held[c][i].generation \in Nat
           /\ heap[held[c][i].obj] \in Task
           /\ Named(held[c][i]) \in Names
<1>1. held[c] \in Seq(Handle)
  BY DEF TypeOK
<1>2. held[c][i] \in Handle
  BY <1>1
<1> QED
  BY <1>2 DEF TypeOK, Handle, Task, Named

\* Store._record keeps the log and its counter well typed.
LEMMA RecordTyped ==
    ASSUME TypeOK, NEW k \in Kinds, NEW x \in Names \cup NodeNames,
           Record(k, x)
    PROVE  events' \in Seq(Event) /\ nextSequence' \in Nat
<1>1. [sequence |-> nextSequence, kind |-> k, name |-> x] \in Event
  BY DEF TypeOK, Event
<1> QED
  BY <1>1 DEF TypeOK, Record

\* What a controller reads is a handle.
LEMMA HandleOnTyped ==
    ASSUME TypeOK, NEW n \in Names, Held(n)
    PROVE  HandleOn(n) \in Handle
  BY DEF TypeOK, Held, HandleOn, Handle, Task

\* Handles that are told of a move stay handles.
LEMMA MovedTyped ==
    ASSUME TypeOK, NEW d \in Controllers, NEW objs
    PROVE  MarkMoved(held[d], objs) \in Seq(Handle)
<1>1. held[d] \in Seq(HandleOver(Allocated))
  BY HandleIsOver DEF TypeOK
<1> QED
  BY <1>1, MarkMovedFacts, HandleIsOver

\* Every step of the store keeps the types.
LEMMA NextType == ASSUME StoreAssumption, TypeOK, [Next]_vars PROVE TypeOK'
<1>1. ASSUME NEW n \in Names, AddTask(n) PROVE TypeOK'
  <2>1. nextObject \in Nat /\ nextObject' = nextObject + 1
        /\ nextObject' \in 1..(MaxObjects + 1)
    BY <1>1 DEF TypeOK, AddTask, Objects, StoreAssumption
  <2>2. Allocated' = 1..nextObject /\ Allocated \subseteq Allocated'
        /\ nextObject \in Allocated' /\ 1..nextObject = Allocated \cup {nextObject}
    BY <2>1, <1>1 DEF Allocated, AddTask, Objects, StoreAssumption
  <2>3. heap' \in [Allocated' -> Task]
    <3>1. [name |-> n, generation |-> 1, phase |-> FirstPhase] \in Task
      BY DEF Task, StoreAssumption
    <3>2. \A o \in 1..nextObject : o # nextObject => heap[o] \in Task
      BY <2>2 DEF TypeOK
    <3> QED
      BY <1>1, <2>2, <3>1, <3>2 DEF AddTask
  <2>4. tasks' \in [Names -> Allocated' \cup {Nothing}]
    BY <1>1, <2>2 DEF TypeOK, AddTask
  <2>5. held' \in [Controllers -> Seq(Handle)']
    <3>1. \A d \in Controllers : held[d] \in Seq(Handle')
      BY <2>2, HandlesGrow, HandleIsOver DEF TypeOK, Handle, HandleOver
    <3> QED
      BY <1>1, <3>1 DEF TypeOK, AddTask, clientVars
  <2>6. events' \in Seq(Event) /\ nextSequence' \in Nat
    BY <1>1, RecordTyped DEF AddTask, Kinds
  <2> QED
    BY <1>1, <2>1, <2>3, <2>4, <2>5, <2>6
    DEF TypeOK, AddTask, clientVars
<1>2. ASSUME NEW n \in Names, RemoveTask(n) PROVE TypeOK'
  <2>1. held' \in [Controllers -> Seq(Handle)]
    BY <1>2, MovedTyped DEF RemoveTask
  <2>2. events' \in Seq(Event) /\ nextSequence' \in Nat
    BY <1>2, RecordTyped DEF RemoveTask, Kinds
  <2> QED
    BY <1>2, <2>1, <2>2 DEF TypeOK, RemoveTask, Allocated, Handle
<1>3. ASSUME NEW m \in NodeNames, AddNode(m) \/ RemoveNode(m) PROVE TypeOK'
  <2>1. events' \in Seq(Event) /\ nextSequence' \in Nat
    BY <1>3, RecordTyped DEF AddNode, RemoveNode, Kinds
  <2> QED
    BY <1>3, <2>1
    DEF TypeOK, AddNode, RemoveNode, Allocated, Handle, clientVars
<1>4. ASSUME NEW c \in Controllers, NEW n \in Names, Read(c, n) PROVE TypeOK'
  <2>1. Append(held[c], HandleOn(n)) \in Seq(Handle)
    BY <1>4, HandleOnTyped DEF Read, TypeOK
  <2> QED
    BY <1>4, <2>1 DEF TypeOK, Read, Allocated, Handle, storeVars
<1>5. ASSUME NEW c \in Controllers, NEW i \in DOMAIN held[c], NEW p \in Phases,
             Edit(c, i, p)
      PROVE  TypeOK'
  <2>1. heap' \in [Allocated -> Task]
    BY <1>5, HandleTyped DEF TypeOK, Edit, Task
  <2>2. dirty' \in SUBSET Names
    BY <1>5, HandleTyped DEF TypeOK, Edit, Task
  <2> QED
    BY <1>5, <2>1, <2>2 DEF TypeOK, Edit, Allocated, Handle, clientVars
<1>6. ASSUME NEW c \in Controllers, Update(c) PROVE TypeOK'
  <2> DEFINE h == Head(held[c])
  <2>1. h = held[c][1] /\ 1 \in DOMAIN held[c]
    BY <1>6 DEF Update, TypeOK
  <2>2. h \in Handle /\ h.obj \in Allocated /\ h.generation \in Nat
        /\ heap[h.obj] \in Task /\ Named(h) \in Names
    BY <2>1, HandleTyped
  <2>e. UpdateAccepted(c, h) \/ UpdateRefused(c, h) \/ UpdateMissing(c, h)
    BY <1>6 DEF Update
  <2>n. <<>> \in Seq(Handle)
    OBVIOUS
  <2> HIDE DEF h
  <2>3. CASE UpdateAccepted(c, h)
    <3>1. heap' \in [Allocated -> Task]
      <4>1. [heap[h.obj] EXCEPT !.generation = h.generation + 1] \in Task
        BY <2>2 DEF Task
      <4>2. heap' = [heap EXCEPT ![h.obj] =
                       [heap[h.obj] EXCEPT !.generation = h.generation + 1]]
        BY <2>3 DEF UpdateAccepted
      <4> QED
        BY <2>2, <4>1, <4>2 DEF TypeOK
    <3>2. tasks' \in [Names -> Allocated \cup {Nothing}]
      BY <2>2, <2>3 DEF TypeOK, UpdateAccepted
    <3>3. held' \in [Controllers -> Seq(Handle)]
      <4>1. \A d \in Controllers :
              MarkMoved(held[d], Touched(h)) \in Seq(Handle)
        BY MovedTyped
      <4> QED
        BY <2>3, <4>1 DEF UpdateAccepted
    <3>4. events' \in Seq(Event) /\ nextSequence' \in Nat
      BY <2>2, <2>3, RecordTyped DEF UpdateAccepted, Kinds
    <3>5. spent' \in [Controllers -> 0..(AttemptsAllowed - 1)]
      BY <2>3 DEF TypeOK, UpdateAccepted, StoreAssumption
    <3> QED
      BY <2>3, <3>1, <3>2, <3>3, <3>4, <3>5
      DEF TypeOK, UpdateAccepted, Allocated, Handle
  <2>4. CASE UpdateRefused(c, h)
    <3>1. <<HandleOn(Named(h))>> \in Seq(Handle)
      BY <2>2, <2>4, HandleOnTyped DEF UpdateRefused
    <3>2. held' \in [Controllers -> Seq(Handle)]
      BY <2>4, <2>n, <3>1 DEF TypeOK, UpdateRefused
    <3>3. spent' \in [Controllers -> 0..(AttemptsAllowed - 1)]
      BY SMTT(20), <2>4 DEF TypeOK, UpdateRefused, StoreAssumption
    <3> QED
      BY <2>4, <3>2, <3>3
      DEF TypeOK, UpdateRefused, Allocated, Handle, storeVars
  <2>5. CASE UpdateMissing(c, h)
    <3>1. held' \in [Controllers -> Seq(Handle)]
      BY <2>5, <2>n DEF TypeOK, UpdateMissing
    <3>2. spent' \in [Controllers -> 0..(AttemptsAllowed - 1)]
      BY <2>5 DEF TypeOK, UpdateMissing, StoreAssumption
    <3> QED
      BY <2>5, <3>1, <3>2
      DEF TypeOK, UpdateMissing, Allocated, Handle, storeVars
  <2> QED
    BY <2>e, <2>3, <2>4, <2>5
<1>7. ASSUME NEW c \in Controllers, BatchUpdate(c) PROVE TypeOK'
  <2> DEFINE g == held[c][1]
             h == held[c][2]
  <2>1. 1 \in DOMAIN held[c] /\ 2 \in DOMAIN held[c]
    BY <1>7 DEF BatchUpdate, TypeOK
  <2>2. /\ g \in Handle /\ g.obj \in Allocated /\ g.generation \in Nat
        /\ heap[g.obj] \in Task /\ Named(g) \in Names
        /\ h \in Handle /\ h.obj \in Allocated /\ h.generation \in Nat
        /\ heap[h.obj] \in Task /\ Named(h) \in Names
    BY <2>1, HandleTyped
  <2>e. BatchAccepted(c, g, h) \/ BatchRefused(c, g, h)
    BY <1>7 DEF BatchUpdate
  <2>n. <<>> \in Seq(Handle)
    OBVIOUS
  <2> HIDE DEF g, h
  <2>3. CASE BatchAccepted(c, g, h)
    <3>1. heap' \in [Allocated -> Task]
      <4> DEFINE one == [heap EXCEPT ![g.obj] =
                   [heap[g.obj] EXCEPT !.generation = g.generation + 1]]
      <4>1. one \in [Allocated -> Task]
        <5>1. [heap[g.obj] EXCEPT !.generation = g.generation + 1] \in Task
          BY <2>2 DEF Task
        <5> QED
          BY <2>2, <5>1 DEF TypeOK
      <4>2. heap' = [one EXCEPT ![h.obj] =
                       [one[h.obj] EXCEPT !.generation = h.generation + 1]]
        BY <2>3 DEF BatchAccepted
      <4> HIDE DEF one
      <4>3. one[h.obj] \in Task
        BY <2>2, <4>1
      <4>4. [one[h.obj] EXCEPT !.generation = h.generation + 1] \in Task
        BY <2>2, <4>3 DEF Task
      <4> QED
        BY <2>2, <4>1, <4>2, <4>4
    <3>2. tasks' \in [Names -> Allocated \cup {Nothing}]
      BY <2>2, <2>3 DEF TypeOK, BatchAccepted
    <3>3. held' \in [Controllers -> Seq(Handle)]
      <4> DEFINE objs == Touched(g) \cup Touched(h)
      <4>2. held' = [d \in Controllers |->
                        IF d = c THEN <<>> ELSE MarkMoved(held[d], objs)]
        BY <2>3 DEF BatchAccepted
      <4> HIDE DEF objs
      <4>1. \A d \in Controllers : MarkMoved(held[d], objs) \in Seq(Handle)
        BY MovedTyped
      <4> QED
        BY <2>n, <4>1, <4>2
    <3>4. events' \in Seq(Event) /\ nextSequence' \in Nat
      <4>1. \A x \in {g, h}, s \in Nat :
              [sequence |-> s, kind |-> "task-updated", name |-> Named(x)]
                \in Event
        BY <2>2 DEF Event, Kinds
      <4>2. /\ events \in Seq(Event)
            /\ nextSequence \in Nat /\ nextSequence + 1 \in Nat
        BY DEF TypeOK
      <4>3. <<[sequence |-> nextSequence, kind |-> "task-updated",
               name |-> Named(g)],
              [sequence |-> nextSequence + 1, kind |-> "task-updated",
               name |-> Named(h)]>> \in Seq(Event)
        BY <4>1, <4>2
      <4> QED
        BY <2>3, <4>2, <4>3 DEF BatchAccepted
    <3> QED
      BY <2>3, <3>1, <3>2, <3>3, <3>4
      DEF TypeOK, BatchAccepted, Allocated, Handle
  <2>4. CASE BatchRefused(c, g, h)
    BY <2>4, <2>n DEF TypeOK, BatchRefused, Allocated, Handle, storeVars
  <2> QED
    BY <2>e, <2>3, <2>4
<1>8. CASE UNCHANGED vars
  BY <1>8 DEF TypeOK, vars, storeVars, clientVars, Allocated, Handle
<1> QED
  BY <1>1, <1>2, <1>3, <1>4, <1>5, <1>6, <1>7, <1>8 DEF Next

\* Type correctness: the store's dictionaries, log and counter, and the
\* handles of every controller, keep their shape through every operation.
THEOREM TypeCorrect == ASSUME StoreAssumption PROVE Spec => []TypeOK
<1>1. Init => TypeOK
  BY InitType
<1>2. TypeOK /\ [Next]_vars => TypeOK'
  BY NextType
<1> QED
  BY <1>1, <1>2, PTL DEF Spec

-----------------------------------------------------------------------------
(* The event log.                                                          *)

\* Store._record numbers the log without a gap, whatever mix of task, node
\* and batch writes produced it: a cursor names exactly one place in it.
THEOREM LogIsDense == ASSUME StoreAssumption PROVE Spec => []LogDense
<1>1. Init => LogDense
  BY DEF Init, LogDense
<1>2. TypeOK /\ LogDense /\ [Next]_vars => LogDense'
  <2> SUFFICES ASSUME TypeOK, LogDense, [Next]_vars PROVE LogDense'
    OBVIOUS
  <2>1. events \in Seq(Event) /\ nextSequence \in Nat
    BY DEF TypeOK
  <2>2. ASSUME NEW k, NEW x, Record(k, x) PROVE LogDense'
    <3> DEFINE e == [sequence |-> nextSequence, kind |-> k, name |-> x]
    <3>1. events' = Append(events, e) /\ nextSequence' = nextSequence + 1
      BY <2>2 DEF Record
    <3>2. /\ Len(events') = Len(events) + 1
          /\ DOMAIN events' = 1..(Len(events) + 1)
          /\ events'[Len(events) + 1] = e
          /\ \A j \in 1..Len(events) : events'[j] = events[j]
      BY <2>1, <3>1
    <3> QED
      BY <2>1, <3>1, <3>2 DEF LogDense
  <2>3. ASSUME NEW c \in Controllers, NEW g, NEW h, BatchAccepted(c, g, h)
        PROVE  LogDense'
    <3> DEFINE e1 == [sequence |-> nextSequence, kind |-> "task-updated",
                      name |-> Named(g)]
               e2 == [sequence |-> nextSequence + 1, kind |-> "task-updated",
                      name |-> Named(h)]
               old == Len(events)
    <3>1. events' = events \o <<e1, e2>> /\ nextSequence' = nextSequence + 2
      BY <2>3 DEF BatchAccepted
    <3>2. e1.sequence = nextSequence /\ e2.sequence = nextSequence + 1
      OBVIOUS
    <3> HIDE DEF e1, e2
    <3>3. /\ Len(events') = old + 2
          /\ DOMAIN events' = 1..(old + 2)
          /\ events'[old + 1] = e1
          /\ events'[old + 2] = e2
          /\ \A j \in 1..old : events'[j] = events[j]
      BY <2>1, <3>1
    <3> QED
      BY SMTT(20), <2>1, <3>1, <3>2, <3>3 DEF LogDense
  <2>4. CASE UNCHANGED storeVars
    BY <2>4 DEF LogDense, storeVars
  <2>5. CASE UNCHANGED <<events, nextSequence>>
    BY <2>5 DEF LogDense
  <2>6. ASSUME NEW c \in Controllers, Update(c) PROVE LogDense'
    BY <2>6, <2>2, <2>4
    DEF Update, UpdateAccepted, UpdateRefused, UpdateMissing
  <2>7. ASSUME NEW c \in Controllers, BatchUpdate(c) PROVE LogDense'
    BY <2>7, <2>3, <2>4 DEF BatchUpdate, BatchRefused
  <2>8. CASE Next
    BY <2>8, <2>2, <2>4, <2>5, <2>6, <2>7
    DEF Next, AddTask, RemoveTask, AddNode, RemoveNode, Read, Edit
  <2> QED
    BY <2>4, <2>8 DEF vars
<1> QED
  BY <1>1, <1>2, TypeCorrect, PTL DEF Spec

-----------------------------------------------------------------------------
(* The log tells which tasks exist.                                        *)

ToldKinds == {"task-added", "task-removed"}

\* What a log says of a name: its last add or remove is an add.
Tells(trail, n) ==
    \E k \in DOMAIN trail :
        /\ trail[k].name = n /\ trail[k].kind = "task-added"
        /\ \A j \in DOMAIN trail :
              j > k /\ trail[j].kind \in ToldKinds => trail[j].name # n

\* One event more settles the matter for its own name, if it is an add or a
\* remove, and says nothing about any other.
LEMMA TellsOneMore ==
    ASSUME NEW S, NEW trail \in Seq(S), NEW e \in S, NEW n
    PROVE  Tells(Append(trail, e), n) <=>
               IF e.name = n /\ e.kind \in ToldKinds
               THEN e.kind = "task-added" ELSE Tells(trail, n)
<1> DEFINE more == Append(trail, e)
           last == Len(trail) + 1
<1>1. /\ DOMAIN more = 1..last /\ DOMAIN trail = 1..Len(trail) /\ Len(trail) \in Nat
      /\ more[last] = e
      /\ \A j \in 1..Len(trail) : more[j] = trail[j]
  OBVIOUS
<1>. HIDE DEF more
<1>2. CASE e.name = n /\ e.kind \in ToldKinds
  <2>1. ASSUME e.kind = "task-added" PROVE Tells(more, n)
    BY <1>1, <1>2, <2>1 DEF Tells
  <2>2. ASSUME Tells(more, n) PROVE e.kind = "task-added"
    <3>1. PICK k \in 1..last :
             /\ more[k].name = n /\ more[k].kind = "task-added"
             /\ \A j \in 1..last :
                   j > k /\ more[j].kind \in ToldKinds => more[j].name # n
      BY <1>1, <2>2 DEF Tells
    <3>2. k = last
      BY <1>1, <1>2, <3>1
    <3>. QED
      BY <1>1, <3>1, <3>2
  <2>. QED
    BY <1>2, <2>1, <2>2 DEF more
<1>3. CASE ~(e.name = n /\ e.kind \in ToldKinds)
  <2>1. ASSUME Tells(trail, n) PROVE Tells(more, n)
    <3>1. PICK k \in 1..Len(trail) :
             /\ trail[k].name = n /\ trail[k].kind = "task-added"
             /\ \A j \in 1..Len(trail) :
                   j > k /\ trail[j].kind \in ToldKinds => trail[j].name # n
      BY <1>1, <2>1 DEF Tells
    <3>2. k \in 1..last /\ more[k] = trail[k]
      BY <1>1
    <3>3. ASSUME NEW j \in 1..last, j > k, more[j].kind \in ToldKinds
          PROVE  more[j].name # n
      BY <1>1, <1>3, <3>1, <3>3
    <3>. QED
      BY <1>1, <3>1, <3>2, <3>3 DEF Tells
  <2>2. ASSUME Tells(more, n) PROVE Tells(trail, n)
    <3>1. PICK k \in 1..last :
             /\ more[k].name = n /\ more[k].kind = "task-added"
             /\ \A j \in 1..last :
                   j > k /\ more[j].kind \in ToldKinds => more[j].name # n
      BY <1>1, <2>2 DEF Tells
    <3>2. k \in 1..Len(trail)
      BY <1>1, <1>3, <3>1 DEF ToldKinds
    <3>. QED
      BY <1>1, <3>1, <3>2 DEF Tells
  <2>. QED
    BY <1>3, <2>1, <2>2 DEF more
<1>. QED
  BY <1>2, <1>3

\* What the log tells, said of any log.
LEMMA TellsIsLogTells ==
    LogTellsExistence <=> \A n \in Names : Held(n) <=> Tells(events, n)
BY DEF LogTellsExistence, LastAddOrRemove, Tells, ToldKinds

\* Every event the store records agrees with what the same step did to the
\* names, a batch's two updates included.
LEMMA LogKeepsTelling ==
    ASSUME StoreAssumption, TypeOK, LogTellsExistence, [Next]_vars
    PROVE  LogTellsExistence'
<1>. SUFFICES ASSUME NEW n \in Names PROVE Held(n)' <=> Tells(events', n)
  BY TellsIsLogTells DEF LogTellsExistence, LastAddOrRemove, Tells, ToldKinds
<1>1. Held(n) <=> Tells(events, n)
  BY TellsIsLogTells
<1>2. events \in Seq(Event) /\ nextSequence \in Nat
  BY DEF TypeOK
<1>3. ASSUME NEW k \in Kinds, NEW x \in Names \cup NodeNames, Record(k, x)
      PROVE  Tells(events', n) <=>
                IF x = n /\ k \in ToldKinds THEN k = "task-added"
                ELSE Tells(events, n)
  <2> DEFINE e == [sequence |-> nextSequence, kind |-> k, name |-> x]
  <2>1. e \in Event /\ e.name = x /\ e.kind = k
    BY <1>2 DEF Event
  <2>2. events' = Append(events, e)
    BY <1>3 DEF Record
  <2>. HIDE DEF e
  <2>. QED
    BY <1>2, <2>1, <2>2, TellsOneMore
<1>4. ASSUME NEW m \in Names, AddTask(m) \/ RemoveTask(m)
      PROVE  Held(n)' <=> Tells(events', n)
  <2>1. CASE AddTask(m)
    <3>1. "task-added" \in Kinds /\ "task-added" \in ToldKinds
      BY DEF Kinds, ToldKinds
    <3>2. Tells(events', n) <=> IF m = n THEN TRUE ELSE Tells(events, n)
      BY <1>3, <2>1, <3>1 DEF AddTask
    <3>3. Held(n)' <=> IF m = n THEN TRUE ELSE Held(n)
      BY <2>1 DEF AddTask, Held, TypeOK, Nothing, Objects
    <3>. QED
      BY <1>1, <3>2, <3>3
  <2>2. CASE RemoveTask(m)
    <3>1. "task-removed" \in Kinds /\ "task-removed" \in ToldKinds
      BY DEF Kinds, ToldKinds
    <3>2. Tells(events', n) <=> IF m = n THEN FALSE ELSE Tells(events, n)
      BY <1>3, <2>2, <3>1 DEF RemoveTask
    <3>3. Held(n)' <=> IF m = n THEN FALSE ELSE Held(n)
      BY <2>2 DEF RemoveTask, Held, TypeOK
    <3>. QED
      BY <1>1, <3>2, <3>3
  <2>. QED
    BY <1>4, <2>1, <2>2
<1>5. ASSUME NEW m \in NodeNames, AddNode(m) \/ RemoveNode(m)
      PROVE  Held(n)' <=> Tells(events', n)
  <2>1. /\ {"node-added", "node-removed"} \subseteq Kinds
        /\ "node-added" \notin ToldKinds /\ "node-removed" \notin ToldKinds
    BY DEF Kinds, ToldKinds
  <2>2. Tells(events', n) <=> Tells(events, n)
    BY <1>3, <1>5, <2>1 DEF AddNode, RemoveNode
  <2>3. Held(n)' <=> Held(n)
    BY <1>5 DEF AddNode, RemoveNode, Held
  <2>. QED
    BY <1>1, <2>2, <2>3
<1>6. ASSUME NEW c \in Controllers, Update(c), UpdateAccepted(c, Head(held[c]))
      PROVE  Held(n)' <=> Tells(events', n)
  <2> DEFINE h == Head(held[c])
  <2>1. h = held[c][1] /\ 1 \in DOMAIN held[c]
    BY <1>6 DEF Update, TypeOK
  <2>2. h.obj \in Allocated /\ Named(h) \in Names
    BY <2>1, HandleTyped
  <2>3. /\ tasks' = [tasks EXCEPT ![Named(h)] = h.obj]
        /\ Held(Named(h)) /\ Record("task-updated", Named(h))
    BY <1>6 DEF UpdateAccepted
  <2>. HIDE DEF h
  <2>4. "task-updated" \in Kinds /\ "task-updated" \notin ToldKinds
    BY DEF Kinds, ToldKinds
  <2>5. Tells(events', n) <=> Tells(events, n)
    BY <1>3, <2>2, <2>3, <2>4
  <2>6. Held(n)' <=> Held(n)
    BY <2>2, <2>3 DEF TypeOK, Held, Nothing, Allocated
  <2>. QED
    BY <1>1, <2>5, <2>6
<1>7. ASSUME NEW c \in Controllers, BatchUpdate(c),
             BatchAccepted(c, held[c][1], held[c][2])
      PROVE  Held(n)' <=> Tells(events', n)
  <2> DEFINE g == held[c][1]
             h == held[c][2]
             e1 == [sequence |-> nextSequence, kind |-> "task-updated",
                    name |-> Named(g)]
             e2 == [sequence |-> nextSequence + 1, kind |-> "task-updated",
                    name |-> Named(h)]
  <2>1. 1 \in DOMAIN held[c] /\ 2 \in DOMAIN held[c]
    BY <1>7 DEF BatchUpdate, TypeOK
  <2>2. /\ g.obj \in Allocated /\ Named(g) \in Names
        /\ h.obj \in Allocated /\ Named(h) \in Names
    BY <2>1, HandleTyped
  <2>3. /\ tasks' = [tasks EXCEPT ![Named(g)] = g.obj, ![Named(h)] = h.obj]
        /\ Held(Named(g)) /\ Held(Named(h))
        /\ events' = events \o <<e1, e2>>
    BY <1>7 DEF BatchAccepted
  <2>. HIDE DEF g, h
  <2>4. /\ e1 \in Event /\ e1.kind \notin ToldKinds
        /\ e2 \in Event /\ e2.kind \notin ToldKinds
    BY <1>2, <2>2 DEF Event, Kinds, ToldKinds
  <2>. HIDE DEF e1, e2
  <2>5. events' = Append(Append(events, e1), e2)
    BY <1>2, <2>3, <2>4
  <2>6. Append(events, e1) \in Seq(Event)
    BY <1>2, <2>4
  <2>7. Tells(events', n) <=> Tells(events, n)
    BY <1>2, <2>4, <2>5, <2>6, TellsOneMore
  <2>8. Held(n)' <=> Held(n)
    BY <2>2, <2>3 DEF TypeOK, Held, Nothing, Allocated
  <2>. QED
    BY <1>1, <2>7, <2>8
<1>8. CASE UNCHANGED <<tasks, events>>
  BY <1>1, <1>8 DEF Held
<1>9. CASE Next
  BY <1>4, <1>5, <1>6, <1>7, <1>8, <1>9
  DEF Next, Read, Edit, Update, UpdateRefused, UpdateMissing, BatchUpdate,
      BatchRefused, storeVars
<1>. QED
  BY <1>8, <1>9 DEF vars, storeVars

\* store.py:38-43 and watch.py: the log alone tells which tasks exist, after
\* every add, remove, update and batch.
THEOREM LogTellsWhoExists ==
    ASSUME StoreAssumption PROVE Spec => []LogTellsExistence
<1>1. Init => LogTellsExistence
  <2> SUFFICES ASSUME Init, NEW n \in Names PROVE ~Held(n) /\ ~Tells(events, n)
    BY TellsIsLogTells
  <2>1. DOMAIN events = {}
    BY DEF Init
  <2> QED
    BY <2>1 DEF Init, Held, Tells
<1>2. TypeOK /\ LogTellsExistence /\ [Next]_vars => LogTellsExistence'
  BY LogKeepsTelling
<1>. QED
  BY <1>1, <1>2, TypeCorrect, PTL DEF Spec

\* The store is consistent after every call: its types, a log without gaps, and
\* a log that tells which tasks exist.
THEOREM StoreStaysConsistent ==
    ASSUME StoreAssumption PROVE Spec => []StoreConsistent
<1>1. TypeOK /\ LogDense /\ LogTellsExistence => StoreConsistent
  BY DEF StoreConsistent
<1>. QED
  BY <1>1, TypeCorrect, LogIsDense, LogTellsWhoExists, PTL

-----------------------------------------------------------------------------
(* The lost-update promise.  HandleInv says where every outstanding handle *)
(* stands against the heap; both directions of update_task's generation    *)
(* test follow from it.                                                    *)

\* Objects are never forgotten and never renamed.
NamesFixed ==
    /\ Allocated \subseteq Allocated'
    /\ \A o \in Allocated : heap'[o].name = heap[o].name

\* No step forgets or renames an object.
LEMMA NextNames == ASSUME StoreAssumption, TypeOK, [Next]_vars PROVE NamesFixed
<1>1. nextObject \in Nat
  BY DEF TypeOK
<1>2. ASSUME NEW n \in Names, AddTask(n) PROVE NamesFixed
  BY <1>1, <1>2 DEF AddTask, NamesFixed, Allocated
<1>3. ASSUME NEW c \in Controllers, NEW i \in DOMAIN held[c], NEW p \in Phases,
             Edit(c, i, p)
      PROVE  NamesFixed
  BY <1>3, HandleTyped DEF TypeOK, Edit, NamesFixed, Allocated, Task
<1>4. ASSUME NEW c \in Controllers, NEW h, UpdateAccepted(c, h)
      PROVE  NamesFixed
  BY <1>4 DEF TypeOK, UpdateAccepted, NamesFixed, Allocated, Task
<1>5. ASSUME NEW c \in Controllers, NEW g, NEW h, BatchAccepted(c, g, h)
      PROVE  NamesFixed
  BY <1>5 DEF TypeOK, BatchAccepted, NamesFixed, Allocated, Task
<1>6. CASE heap' = heap /\ nextObject' = nextObject
  BY <1>6 DEF NamesFixed, Allocated
<1>7. CASE Next
  BY <1>7, <1>2, <1>3, <1>4, <1>5, <1>6
  DEF Next, RemoveTask, AddNode, RemoveNode, Read, Update, BatchUpdate,
      UpdateRefused, UpdateMissing, BatchRefused, storeVars
<1> QED
  BY <1>6, <1>7 DEF vars, storeVars

\* A name used once in the next state was used at most once before, so
\* MovedIsOlder only ever has fewer handles to speak about.
LEMMA ReuseIsForever ==
    ASSUME NamesFixed, NEW o \in Allocated, Unreused(o)'
    PROVE  Unreused(o)
  BY DEF NamesFixed, Unreused

\* update_task and batch_update move every other handle on the objects they
\* wrote or replaced, and no other handle.
LEMMA MovedHandles ==
    ASSUME TypeOK, NEW d \in Controllers, NEW objs,
           NEW new, new = MarkMoved(held[d], objs)
    PROVE  /\ DOMAIN new = DOMAIN held[d]
           /\ \A i \in DOMAIN held[d] :
                /\ new[i].obj = held[d][i].obj
                /\ new[i].generation = held[d][i].generation
                /\ new[i].moved <=> held[d][i].moved \/ held[d][i].obj \in objs
<1>1. held[d] \in Seq(HandleOver(Allocated))
  BY HandleIsOver DEF TypeOK
<1> QED
  BY <1>1, MarkMovedFacts

TouchedBoth(g, h) == Touched(g) \cup Touched(h)

\* update_task puts h.obj back under its own name.
LEMMA NameOfHeldNext ==
    ASSUME StoreAssumption, TypeOK, NameOfHeld, [Next]_vars
    PROVE  NameOfHeld'
<1>1. NamesFixed
  BY NextNames
<1>2. \A n \in Names : tasks'[n] = tasks[n] /\ Held(n) => heap'[tasks'[n]].name = n
  BY <1>1 DEF NamesFixed, NameOfHeld, TypeOK, Held
<1>3. ASSUME NEW n \in Names, AddTask(n) PROVE NameOfHeld'
  <2>1. nextObject \in 1..nextObject
    BY DEF TypeOK
  <2>2. tasks'[n] = nextObject /\ heap'[nextObject].name = n
    BY <1>3, <2>1 DEF AddTask, TypeOK
  <2>3. \A k \in Names : k # n => tasks'[k] = tasks[k]
    BY <1>3 DEF AddTask, TypeOK
  <2> QED
    BY <1>2, <2>2, <2>3 DEF NameOfHeld, Held
<1>4. ASSUME NEW n \in Names, RemoveTask(n) PROVE NameOfHeld'
  BY <1>2, <1>4 DEF RemoveTask, TypeOK, NameOfHeld, Held
<1>5. ASSUME NEW c \in Controllers, Update(c),
             UpdateAccepted(c, Head(held[c]))
      PROVE  NameOfHeld'
  <2> DEFINE h == Head(held[c])
  <2>1. h = held[c][1] /\ 1 \in DOMAIN held[c]
    BY <1>5 DEF Update, TypeOK
  <2>2. h.obj \in Allocated /\ Named(h) \in Names
    BY <2>1, HandleTyped
  <2>3. tasks' = [tasks EXCEPT ![Named(h)] = h.obj]
    BY <1>5 DEF UpdateAccepted
  <2>4. heap'[h.obj].name = Named(h)
    BY <1>1, <2>2 DEF NamesFixed, Named
  <2> HIDE DEF h
  <2> QED
    BY <1>2, <2>2, <2>3, <2>4 DEF TypeOK, NameOfHeld, Held
<1>6. ASSUME NEW c \in Controllers, BatchUpdate(c),
             BatchAccepted(c, held[c][1], held[c][2])
      PROVE  NameOfHeld'
  <2> DEFINE g == held[c][1]
             h == held[c][2]
  <2>1. 1 \in DOMAIN held[c] /\ 2 \in DOMAIN held[c]
    BY <1>6 DEF BatchUpdate, TypeOK
  <2>2. /\ g.obj \in Allocated /\ Named(g) \in Names
        /\ h.obj \in Allocated /\ Named(h) \in Names
    BY <2>1, HandleTyped
  <2>3. tasks' = [tasks EXCEPT ![Named(g)] = g.obj, ![Named(h)] = h.obj]
    BY <1>6 DEF BatchAccepted
  <2>4. heap'[h.obj].name = Named(h) /\ heap'[g.obj].name = Named(g)
    BY <1>1, <2>2 DEF NamesFixed, Named
  <2> HIDE DEF g, h
  <2> QED
    BY <1>2, <2>2, <2>3, <2>4 DEF TypeOK, NameOfHeld, Held
<1>7. CASE tasks' = tasks
  BY <1>2, <1>7 DEF NameOfHeld, Held
<1>8. CASE Next
  BY <1>8, <1>3, <1>4, <1>5, <1>6, <1>7
  DEF Next, AddNode, RemoveNode, Read, Edit, Update, BatchUpdate,
      UpdateRefused, UpdateMissing, BatchRefused, storeVars
<1> QED
  BY <1>7, <1>8 DEF vars, storeVars

\* What HandleInv says of one handle, now and in the next state.
Good(k) == MovedIsOlder(k) /\ UnmovedIsCurrent(k)

SoleNext(o) == \A x \in Allocated' : heap'[x].name = heap'[o].name => x = o
NameNext(k) == heap'[k.obj].name

GoodNext(k) ==
    /\ SoleNext(k.obj) =>
          /\ k.generation <= heap'[k.obj].generation
          /\ k.moved /\ tasks'[NameNext(k)] # Nothing
                => k.generation < heap'[k.obj].generation
    /\ ~k.moved => /\ tasks'[NameNext(k)] = k.obj
                   /\ k.generation = heap'[k.obj].generation

\* The next state is good when each of its handles is.
LEMMA HandleInvIsGoodNext ==
    HandleInv' <=> \A c \in Controllers : \A i \in DOMAIN held'[c] :
                       GoodNext(held'[c][i])
  BY DEF HandleInv, GoodNext, MovedIsOlder, UnmovedIsCurrent, SoleNext,
         NameNext, Unreused, Held, Named

\* A name used once in the next state was used once in this one.
LEMMA SoleWasSole ==
    ASSUME NamesFixed, NEW o \in Allocated, SoleNext(o)
    PROVE  Unreused(o)
  BY DEF NamesFixed, Unreused, SoleNext

\* A step that leaves a handle, its object's generation and the entry under
\* its name alone leaves it good.
LEMMA HandleKept ==
    ASSUME NamesFixed, NEW k, k.obj \in Allocated, Good(k),
           tasks'[Named(k)] = tasks[Named(k)],
           heap'[k.obj].generation = heap[k.obj].generation
    PROVE  GoodNext(k)
<1>1. NameNext(k) = Named(k)
  BY DEF NamesFixed, Named, NameNext
<1>2. SoleNext(k.obj) => Unreused(k.obj)
  BY SoleWasSole
<1> QED
  BY <1>1, <1>2 DEF Good, GoodNext, MovedIsOlder, UnmovedIsCurrent, Held

\* What a step may do to a handle it moves: the object it aliases has left the
\* store, got a later generation, or shares its name with another.
LEMMA HandleMoved ==
    ASSUME NEW j, j.moved, j.generation \in Nat,
           heap'[j.obj].generation \in Nat,
           \/ ~SoleNext(j.obj)
           \/ j.generation < heap'[j.obj].generation
           \/ /\ tasks'[NameNext(j)] = Nothing
              /\ j.generation <= heap'[j.obj].generation
    PROVE  GoodNext(j)
  BY DEF GoodNext

\* Every step of the store keeps what its handles promise.
LEMMA HandleInvNext ==
    ASSUME StoreAssumption, TypeOK, NameOfHeld, HandleInv, [Next]_vars
    PROVE  HandleInv'
<1>1. NamesFixed
  BY NextNames
<1>t. TypeOK'
  BY NextType
<1>2. ASSUME NEW c \in Controllers, NEW i \in DOMAIN held[c]
      PROVE  /\ Good(held[c][i])
             /\ held[c][i].obj \in Allocated
             /\ held[c][i].generation \in Nat
             /\ held[c][i].moved \in BOOLEAN
             /\ Named(held[c][i]) \in Names
             /\ NameNext(held[c][i]) = Named(held[c][i])
             /\ heap[held[c][i].obj].generation \in Nat
             /\ heap'[held[c][i].obj].generation \in Nat
  <2>1. held[c][i] \in Handle /\ held[c][i].obj \in Allocated
        /\ Named(held[c][i]) \in Names
    BY HandleTyped
  <2>2. held[c][i].obj \in Allocated'
    BY <2>1, <1>1 DEF NamesFixed
  <2>3. NameNext(held[c][i]) = Named(held[c][i])
    BY <2>1, <1>1 DEF NamesFixed, NameNext, Named
  <2> QED
    BY <1>t, <2>1, <2>2, <2>3 DEF HandleInv, Good, Handle, TypeOK, Task
<1>3. SUFFICES ASSUME NEW c \in Controllers, NEW i \in DOMAIN held'[c]
               PROVE  GoodNext(held'[c][i])
  BY HandleInvIsGoodNext
<1>4. ASSUME NEW n \in Names, AddTask(n) PROVE GoodNext(held'[c][i])
  <2> DEFINE k == held[c][i]
  <2>1. held' = held
    BY <1>4 DEF AddTask, clientVars
  <2>2. /\ Good(k) /\ k.obj \in Allocated /\ Named(k) \in Names
        /\ k.generation \in Nat /\ NameNext(k) = Named(k)
        /\ heap'[k.obj].generation \in Nat
    BY <1>2, <2>1
  <2>3. held'[c][i] = k
    BY <2>1
  <2> HIDE DEF k
  <2>4. heap'[k.obj] = heap[k.obj] /\ nextObject \in Allocated'
        /\ nextObject \notin Allocated /\ heap'[nextObject].name = n
    BY <1>4, <2>2 DEF AddTask, Allocated, TypeOK
  <2>5. CASE Named(k) # n
    <3>1. tasks'[Named(k)] = tasks[Named(k)]
      BY <1>4, <2>2, <2>5 DEF AddTask, TypeOK
    <3> QED
      BY <1>1, <2>2, <2>3, <2>4, <3>1, HandleKept
  <2>6. CASE Named(k) = n
    <3>1. k.moved
      BY <1>4, <2>2, <2>6
      DEF AddTask, Good, UnmovedIsCurrent, Held, Nothing, Allocated, TypeOK
    <3>2. ~SoleNext(k.obj)
      BY <2>2, <2>4, <2>6 DEF NameNext, SoleNext
    <3> QED
      BY <2>2, <2>3, <3>1, <3>2, HandleMoved
  <2> QED
    BY <2>5, <2>6
<1>5. ASSUME NEW n \in Names, RemoveTask(n) PROVE GoodNext(held'[c][i])
  <2> DEFINE k == held[c][i]
             j == held'[c][i]
  <2>1. held[c] \in Seq(HandleOver(Allocated))
    BY HandleIsOver DEF TypeOK
  <2>2. i \in DOMAIN held[c] /\ j.obj = k.obj /\ j.generation = k.generation
        /\ (j.moved <=> k.moved \/ k.obj = tasks[n])
        /\ j \in HandleOver(Allocated)
    BY <1>5, <2>1, MarkMovedFacts DEF RemoveTask
  <2>3. /\ Good(k) /\ k.obj \in Allocated /\ Named(k) \in Names
        /\ k.generation \in Nat /\ NameNext(k) = Named(k)
        /\ heap'[k.obj].generation \in Nat
    BY <1>2, <2>2
  <2> HIDE DEF k, j
  <2>4. /\ heap'[k.obj] = heap[k.obj] /\ tasks'[n] = Nothing
        /\ \A x \in Names : x # n => tasks'[x] = tasks[x]
    BY <1>5 DEF RemoveTask, TypeOK
  <2>5. NameNext(j) = NameNext(k) /\ j.generation \in Nat
    BY <2>2, <2>3 DEF NameNext
  <2>6. CASE Named(k) = n
    <3>1. j.moved
      BY <2>2, <2>3, <2>6 DEF Good, UnmovedIsCurrent
    <3>2. SoleNext(j.obj) => j.generation <= heap'[j.obj].generation
      <4>1. SoleNext(j.obj) => Unreused(k.obj)
        BY <1>1, <2>2, <2>3, SoleWasSole
      <4> QED
        BY <2>2, <2>3, <2>4, <4>1 DEF Good, MovedIsOlder
    <3> QED
      BY <2>2, <2>3, <2>4, <2>5, <2>6, <3>1, <3>2, HandleMoved DEF j
  <2>7. CASE Named(k) # n
    <3>1. j.moved <=> k.moved
      BY <1>5, <2>2, <2>3, <2>7 DEF NameOfHeld, RemoveTask, Named
    <3>2. GoodNext(k)
      BY <1>1, <2>3, <2>4, <2>7, HandleKept
    <3> QED
      BY <2>2, <2>5, <3>1, <3>2 DEF GoodNext, j
  <2> QED
    BY <2>6, <2>7
<1>6. ASSUME NEW d \in Controllers, NEW n \in Names, Held(n),
             \/ held' = [held EXCEPT ![d] = Append(@, HandleOn(n))]
             \/ held' = [held EXCEPT ![d] = <<HandleOn(n)>>],
             UNCHANGED storeVars
      PROVE  GoodNext(held'[c][i])
  <2>1. \/ i \in DOMAIN held[c] /\ held'[c][i] = held[c][i]
        \/ held'[c][i] = HandleOn(n)
    <3>1. held[c] \in Seq(Handle) /\ held \in [Controllers -> Seq(Handle)]
      BY DEF TypeOK
    <3>2. \/ c # d /\ held'[c] = held[c]
          \/ held'[c] = Append(held[c], HandleOn(n))
          \/ held'[c] = <<HandleOn(n)>>
      BY <1>6, <3>1
    <3>3. CASE held'[c] = Append(held[c], HandleOn(n))
      BY <3>1, <3>3
    <3>4. CASE held'[c] = <<HandleOn(n)>>
      BY <3>4
    <3> QED
      BY <3>2, <3>3, <3>4
  <2>2. heap' = heap /\ tasks' = tasks /\ Allocated' = Allocated
    BY <1>6 DEF storeVars, Allocated
  <2>3. CASE i \in DOMAIN held[c] /\ held'[c][i] = held[c][i]
    BY <1>1, <1>2, <2>2, <2>3, HandleKept
  <2>4. CASE held'[c][i] = HandleOn(n)
    <3> DEFINE j == held'[c][i]
    <3>1. j.obj = tasks[n] /\ j.generation = heap[tasks[n]].generation
          /\ ~j.moved
      BY <2>4 DEF HandleOn
    <3> HIDE DEF j
    <3>2. NameNext(j) = n /\ tasks[n] \in Allocated
      BY <1>6, <2>2, <3>1 DEF NameNext, NameOfHeld, Held, TypeOK
    <3>3. heap[tasks[n]].generation \in Nat
      BY <3>2 DEF TypeOK, Task
    <3> QED
      BY <2>2, <3>1, <3>2, <3>3 DEF GoodNext, j
  <2> QED
    BY <2>1, <2>3, <2>4
<1>7. ASSUME UNCHANGED <<tasks, nextObject>>,
             \A o \in Allocated : heap'[o].generation = heap[o].generation,
             \/ held' = held
             \/ \E d \in Controllers : held' = [held EXCEPT ![d] = <<>>]
      PROVE  GoodNext(held'[c][i])
  <2>1. i \in DOMAIN held[c] /\ held'[c][i] = held[c][i]
    <3>1. ASSUME NEW d \in Controllers, held' = [held EXCEPT ![d] = <<>>]
          PROVE  c # d /\ held'[c] = held[c]
      <4>1. held \in [Controllers -> Seq(Handle)]
        BY DEF TypeOK
      <4>2. held'[d] = <<>> /\ (c # d => held'[c] = held[c])
        BY <3>1, <4>1
      <4> QED
        BY <4>2
    <3> QED
      BY <1>7, <3>1
  <2> QED
    BY <1>1, <1>2, <1>7, <2>1, HandleKept
<1>8. ASSUME NEW d \in Controllers, Update(d), UpdateAccepted(d, Head(held[d]))
      PROVE  GoodNext(held'[c][i])
  <2> DEFINE h == Head(held[d])
             k == held[c][i]
             j == held'[c][i]
  <2>1. h = held[d][1] /\ 1 \in DOMAIN held[d]
    BY <1>8 DEF Update, TypeOK
  <2>2. /\ Good(h) /\ h.obj \in Allocated /\ Named(h) \in Names
        /\ h.generation \in Nat
    BY <1>2, <2>1
  <2>3. c # d
    BY <1>8 DEF UpdateAccepted
  <2>4. /\ i \in DOMAIN held[c]
        /\ j.obj = k.obj /\ j.generation = k.generation
        /\ j.moved <=> k.moved \/ k.obj \in {tasks[Named(h)], h.obj}
    <3>1. held'[c] = MarkMoved(held[c], Touched(h))
      BY <1>8, <2>3 DEF UpdateAccepted
    <3> HIDE DEF h
    <3>2. i \in DOMAIN held[c]
      BY <3>1, MovedHandles
    <3>3. /\ j.obj = k.obj /\ j.generation = k.generation
          /\ j.moved <=> k.moved \/ k.obj \in Touched(h)
      BY <3>1, <3>2, MovedHandles
    <3> QED
      BY <3>2, <3>3 DEF Touched
  <2>5. /\ Good(k) /\ k.obj \in Allocated /\ Named(k) \in Names
        /\ k.generation \in Nat /\ NameNext(k) = Named(k)
        /\ heap[k.obj].generation \in Nat
        /\ heap'[k.obj].generation \in Nat
    BY <1>2, <2>4
  <2>6. /\ Held(Named(h)) /\ Current(h)
        /\ tasks' = [tasks EXCEPT ![Named(h)] = h.obj]
        /\ heap' = [heap EXCEPT ![h.obj].generation = h.generation + 1]
    BY <1>8 DEF UpdateAccepted
  <2>7. heap'[h.obj].generation = h.generation + 1
        /\ \A o \in Allocated : o # h.obj => heap'[o] = heap[o]
    BY <2>2, <2>6 DEF TypeOK, Task
  <2> HIDE DEF h, k, j
  <2>8. tasks[Named(h)] \in Allocated /\ heap[tasks[Named(h)]].name = Named(h)
    BY <2>2, <2>6 DEF TypeOK, NameOfHeld, Held
  <2>9. CASE k.obj = h.obj
    <3>1. j.moved
      BY <2>4, <2>9
    <3>2. SoleNext(j.obj) => j.generation < heap'[j.obj].generation
      <4>1. SUFFICES ASSUME SoleNext(k.obj)
                     PROVE  k.generation < heap'[k.obj].generation
        BY <2>4
      <4>2. Unreused(k.obj)
        BY <1>1, <2>5, <4>1, SoleWasSole
      <4>3. tasks[Named(h)] = h.obj
        BY <2>2, <2>8, <2>9, <4>2 DEF Unreused, Named
      <4>4. heap[h.obj].generation = h.generation
        BY <2>6, <4>3 DEF Current
      <4>5. k.generation <= heap[k.obj].generation
        BY <2>5, <4>2 DEF Good, MovedIsOlder
      <4> QED
        BY <2>2, <2>5, <2>7, <2>9, <4>4, <4>5
    <3> QED
      BY <2>4, <2>5, <3>1, <3>2, HandleMoved DEF j
  <2>10. CASE k.obj # h.obj /\ Named(k) = Named(h)
    <3>1. ~SoleNext(j.obj)
      BY <1>1, <2>2, <2>4, <2>5, <2>10 DEF NamesFixed, SoleNext, Named
    <3>2. j.moved
      BY <2>4, <2>5, <2>10 DEF Good, UnmovedIsCurrent
    <3> QED
      BY <2>4, <2>5, <3>1, <3>2, HandleMoved DEF j
  <2>11. CASE k.obj # h.obj /\ Named(k) # Named(h)
    <3>1. j.moved <=> k.moved
      BY <2>4, <2>8, <2>11 DEF Named
    <3>2. tasks'[Named(k)] = tasks[Named(k)]
      BY <2>5, <2>6, <2>11 DEF TypeOK
    <3>3. heap'[k.obj].generation = heap[k.obj].generation
      BY <2>5, <2>7, <2>11
    <3>4. GoodNext(k)
      BY <1>1, <2>5, <3>2, <3>3, HandleKept
    <3> QED
      BY <2>4, <3>1, <3>4 DEF GoodNext, NameNext, j
  <2> QED
    BY <2>9, <2>10, <2>11
<1>9. ASSUME NEW d \in Controllers, BatchUpdate(d),
             BatchAccepted(d, held[d][1], held[d][2])
      PROVE  GoodNext(held'[c][i])
  <2> DEFINE g == held[d][1]
             h == held[d][2]
             k == held[c][i]
             j == held'[c][i]
  <2>1. 1 \in DOMAIN held[d] /\ 2 \in DOMAIN held[d]
    BY <1>9 DEF BatchUpdate, TypeOK
  <2>2. /\ Good(g) /\ g.obj \in Allocated /\ Named(g) \in Names
        /\ g.generation \in Nat
        /\ Good(h) /\ h.obj \in Allocated /\ Named(h) \in Names
        /\ h.generation \in Nat
    BY <1>2, <2>1
  <2>3. c # d
    BY SMTT(20), <1>9 DEF BatchAccepted
  <2>4. /\ i \in DOMAIN held[c]
        /\ j.obj = k.obj /\ j.generation = k.generation
        /\ j.moved <=> \/ k.moved
                       \/ k.obj \in {g.obj, h.obj, tasks[Named(g)],
                                     tasks[Named(h)]}
    <3>1. held'[c] = MarkMoved(held[c], TouchedBoth(g, h))
      BY <1>9, <2>3 DEF BatchAccepted, TouchedBoth
    <3> HIDE DEF g, h
    <3>2. i \in DOMAIN held[c]
      BY <3>1, MovedHandles
    <3>3. /\ j.obj = k.obj /\ j.generation = k.generation
          /\ j.moved <=> k.moved \/ k.obj \in TouchedBoth(g, h)
      BY SMTT(20), <3>1, <3>2, MovedHandles
    <3> QED
      BY <3>2, <3>3 DEF TouchedBoth, Touched
  <2>5. /\ Good(k) /\ k.obj \in Allocated /\ Named(k) \in Names
        /\ k.generation \in Nat /\ NameNext(k) = Named(k)
        /\ heap[k.obj].generation \in Nat
        /\ heap'[k.obj].generation \in Nat
    BY <1>2, <2>4
  <2>6. /\ Held(Named(g)) /\ Current(g) /\ Held(Named(h)) /\ Current(h)
        /\ tasks' = [tasks EXCEPT ![Named(g)] = g.obj, ![Named(h)] = h.obj]
        /\ heap' = [heap EXCEPT ![g.obj].generation = g.generation + 1,
                                ![h.obj].generation = h.generation + 1]
    BY <1>9 DEF BatchAccepted
  <2>7. /\ heap'[h.obj].generation = h.generation + 1
        /\ g.obj # h.obj => heap'[g.obj].generation = g.generation + 1
        /\ \A o \in Allocated : o \notin {g.obj, h.obj} => heap'[o] = heap[o]
    BY <2>2, <2>6 DEF TypeOK, Task
  <2> HIDE DEF g, h, k, j
  <2>8. \A x \in {g, h} :
           tasks[Named(x)] \in Allocated /\ heap[tasks[Named(x)]].name = Named(x)
    BY <2>2, <2>6 DEF TypeOK, NameOfHeld, Held
  <2>9. CASE k.obj \in {g.obj, h.obj}
    <3>1. j.moved
      BY <2>4, <2>9
    <3>2. SoleNext(j.obj) => j.generation < heap'[j.obj].generation
      <4>1. SUFFICES ASSUME SoleNext(k.obj)
                     PROVE  k.generation < heap'[k.obj].generation
        BY <2>4
      <4>2. Unreused(k.obj)
        BY <1>1, <2>5, <4>1, SoleWasSole
      <4>3. k.generation <= heap[k.obj].generation
        BY <2>5, <4>2 DEF Good, MovedIsOlder
      <4>4. PICK x \in {g, h} : k.obj = x.obj /\ heap'[x.obj].generation
                                                   = x.generation + 1
        BY <2>7, <2>9
      <4>5. tasks[Named(x)] = x.obj
        BY <2>8, <4>2, <4>4 DEF Unreused, Named
      <4>6. heap[x.obj].generation = x.generation
        BY <2>6, <4>5 DEF Current
      <4>7. x.generation \in Nat
        BY <2>2
      <4> QED
        BY <2>5, <4>3, <4>4, <4>6, <4>7
    <3> QED
      BY <2>4, <2>5, <3>1, <3>2, HandleMoved DEF j
  <2>10. CASE k.obj \notin {g.obj, h.obj} /\ Named(k) \in {Named(g), Named(h)}
    <3>1. ~SoleNext(j.obj)
      BY <1>1, <2>2, <2>4, <2>5, <2>10 DEF NamesFixed, SoleNext, Named
    <3>2. j.moved
      BY <2>4, <2>5, <2>10 DEF Good, UnmovedIsCurrent
    <3> QED
      BY <2>4, <2>5, <3>1, <3>2, HandleMoved DEF j
  <2>11. CASE k.obj \notin {g.obj, h.obj} /\ Named(k) \notin {Named(g), Named(h)}
    <3>1. j.moved <=> k.moved
      BY <2>4, <2>8, <2>11 DEF Named
    <3>2. tasks'[Named(k)] = tasks[Named(k)]
      BY <2>5, <2>6, <2>11 DEF TypeOK
    <3>3. heap'[k.obj].generation = heap[k.obj].generation
      BY <2>5, <2>7, <2>11
    <3>4. GoodNext(k)
      BY <1>1, <2>5, <3>2, <3>3, HandleKept
    <3> QED
      BY <2>4, <3>1, <3>4 DEF GoodNext, NameNext, j
  <2> QED
    BY <2>9, <2>10, <2>11
<1>10. ASSUME NEW d \in Controllers, NEW x \in DOMAIN held[d], NEW p \in Phases,
              Edit(d, x, p)
       PROVE  GoodNext(held'[c][i])
  <2>1. \A o \in Allocated : heap'[o].generation = heap[o].generation
    BY <1>10, HandleTyped DEF Edit, TypeOK, Task
  <2> QED
    BY <1>7, <1>10, <2>1 DEF Edit, clientVars
<1>11. ASSUME NEW d \in Controllers, Update(d) PROVE GoodNext(held'[c][i])
  <2> DEFINE h == Head(held[d])
  <2>1. UpdateAccepted(d, h) => GoodNext(held'[c][i])
    BY <1>8, <1>11
  <2>2. Named(h) \in Names
    BY <1>11, HandleTyped DEF Update, TypeOK
  <2>3. UpdateAccepted(d, h) \/ UpdateRefused(d, h) \/ UpdateMissing(d, h)
    BY <1>11 DEF Update
  <2> HIDE DEF h
  <2>4. CASE UpdateRefused(d, h)
    BY <1>6, <1>7, <2>2, <2>4 DEF UpdateRefused, storeVars
  <2>5. CASE UpdateMissing(d, h)
    BY <1>7, <2>5 DEF UpdateMissing, storeVars
  <2> QED
    BY <2>1, <2>3, <2>4, <2>5
<1>12. ASSUME NEW d \in Controllers, BatchUpdate(d) PROVE GoodNext(held'[c][i])
  <2>1. CASE BatchRefused(d, held[d][1], held[d][2])
    BY <1>7, <2>1 DEF BatchRefused, storeVars
  <2> QED
    BY <1>9, <1>12, <2>1 DEF BatchUpdate
<1>13. ASSUME NEW d \in Controllers, NEW n \in Names, Read(d, n)
       PROVE  GoodNext(held'[c][i])
  BY <1>6, <1>13 DEF Read
<1>14. CASE UNCHANGED vars
  BY <1>7, <1>14 DEF vars, storeVars, clientVars
<1>15. ASSUME NEW m \in NodeNames, AddNode(m) \/ RemoveNode(m)
       PROVE  GoodNext(held'[c][i])
  BY <1>7, <1>15 DEF AddNode, RemoveNode, clientVars
<1> QED
  BY <1>4, <1>5, <1>10, <1>11, <1>12, <1>13, <1>14, <1>15 DEF Next

\* The invariant of the store and its handles.
LEMMA HandleInvHolds ==
    ASSUME StoreAssumption
    PROVE  Spec => [](TypeOK /\ NameOfHeld /\ HandleInv)
<1>1. Init => TypeOK /\ NameOfHeld /\ HandleInv
  <2>1. Init => NameOfHeld /\ HandleInv
    BY DEF Init, NameOfHeld, HandleInv, Held
  <2> QED
    BY <2>1, InitType
<1>2. TypeOK /\ NameOfHeld /\ HandleInv /\ [Next]_vars
        => (TypeOK /\ NameOfHeld /\ HandleInv)'
  BY NextType, NameOfHeldNext, HandleInvNext
<1> QED
  BY <1>1, <1>2, PTL DEF Spec

\* No lost update: while a task name is not reused, update_task accepts a
\* write only from a writer that has seen every write before it.
THEOREM NoLostUpdate ==
    ASSUME StoreAssumption PROVE Spec => []FreshWhileNameUnreused
<1>1. TypeOK /\ NameOfHeld /\ HandleInv => FreshWhileNameUnreused
  <2> SUFFICES ASSUME TypeOK, NameOfHeld, HandleInv,
                      NEW c \in Controllers, NEW i \in DOMAIN held[c],
                      WouldLand(c, i), Unreused(held[c][i].obj)
               PROVE  ~held[c][i].moved
    BY DEF FreshWhileNameUnreused
  <2> DEFINE k == held[c][i]
  <2>1. /\ k.obj \in Allocated /\ k.generation \in Nat
        /\ Named(k) \in Names /\ MovedIsOlder(k)
    BY HandleTyped DEF HandleInv
  <2>2. Held(Named(k)) /\ Current(k)
    BY DEF WouldLand
  <2> HIDE DEF k
  <2>3. tasks[Named(k)] \in Allocated /\ heap[tasks[Named(k)]].name = Named(k)
    BY <2>1, <2>2 DEF TypeOK, NameOfHeld, Held
  <2>4. tasks[Named(k)] = k.obj
    BY <2>1, <2>3 DEF Unreused, Named, k
  <2> QED
    BY <2>1, <2>2, <2>4 DEF Current, MovedIsOlder, k
<1> QED
  BY <1>1, HandleInvHolds, PTL

\* No spurious Conflict: a writer is refused only if the task moved, or was
\* removed, after it was read.
THEOREM ConflictsAreReal ==
    ASSUME StoreAssumption PROVE Spec => []NoSpuriousRefusal
<1>1. HandleInv => NoSpuriousRefusal
  BY DEF HandleInv, NoSpuriousRefusal, UnmovedIsCurrent, Current
<1> QED
  BY <1>1, HandleInvHolds, PTL

\* No rewind: while a name stays in the store its generation never goes down,
\* and a replaced object always comes with a later generation.
THEOREM NoRewind ==
    ASSUME StoreAssumption PROVE Spec => GenerationNeverRewinds
<1>1. TypeOK /\ NameOfHeld /\ [Next]_vars => [GenerationClimbs]_vars
  <2> SUFFICES ASSUME TypeOK, NameOfHeld, Next PROVE GenerationClimbs
    BY DEF vars
  <2>1. \A n \in Names :
          Held(n) => /\ tasks[n] \in Allocated
                     /\ heap[tasks[n]] \in Task
                     /\ heap[tasks[n]].name = n
                     /\ GenerationOf(n) \in Nat
    BY DEF TypeOK, NameOfHeld, Held, GenerationOf, Task
  <2>2. ASSUME \A n \in Names : Held(n) /\ Held(n)' =>
                  /\ tasks'[n] = tasks[n]
                  /\ heap'[tasks[n]].generation = heap[tasks[n]].generation
        PROVE  GenerationClimbs
    BY <2>1, <2>2 DEF GenerationOf, GenerationClimbs
  <2>3. ASSUME NEW n \in Names, AddTask(n) PROVE GenerationClimbs
    BY <2>1, <2>2, <2>3 DEF AddTask, Held, TypeOK, Allocated
  <2>4. ASSUME NEW n \in Names, RemoveTask(n) PROVE GenerationClimbs
    BY <2>2, <2>4 DEF RemoveTask, Held, TypeOK
  <2>5. ASSUME NEW c \in Controllers, NEW i \in DOMAIN held[c],
               NEW p \in Phases, Edit(c, i, p)
        PROVE  GenerationClimbs
    <3>1. \A o \in Allocated : heap'[o].generation = heap[o].generation
      BY <2>5, HandleTyped DEF Edit, TypeOK, Task
    <3> QED
      BY <2>1, <2>2, <2>5, <3>1 DEF Edit
  <2>6. ASSUME NEW c \in Controllers, Update(c),
               UpdateAccepted(c, Head(held[c]))
        PROVE  GenerationClimbs
    <3> DEFINE h == Head(held[c])
    <3>1. h.obj \in Allocated /\ Named(h) \in Names /\ h.generation \in Nat
      BY <2>6, HandleTyped DEF Update, TypeOK
    <3>2. /\ Current(h)
          /\ tasks' = [tasks EXCEPT ![Named(h)] = h.obj]
          /\ heap' = [heap EXCEPT ![h.obj].generation = h.generation + 1]
      BY <2>6 DEF UpdateAccepted
    <3> HIDE DEF h
    <3>3. /\ heap'[h.obj].generation = h.generation + 1
          /\ \A o \in Allocated : o # h.obj => heap'[o] = heap[o]
      BY <3>1, <3>2 DEF TypeOK, Task
    <3>4. /\ tasks'[Named(h)] = h.obj
          /\ \A n \in Names : n # Named(h) => tasks'[n] = tasks[n]
      BY <3>1, <3>2 DEF TypeOK
    <3>5. ASSUME NEW n \in Names, Held(n), Held(n)'
          PROVE  /\ GenerationOf(n)' >= GenerationOf(n)
                 /\ tasks'[n] # tasks[n] => GenerationOf(n)' > GenerationOf(n)
      <4>1. CASE n = Named(h)
        BY <2>1, <3>1, <3>2, <3>3, <3>4, <3>5, <4>1
        DEF Current, GenerationOf
      <4>2. CASE n # Named(h)
        <5>1. tasks[n] # h.obj
          BY <2>1, <3>5, <4>2 DEF Named
        <5> QED
          BY <2>1, <3>3, <3>4, <3>5, <4>2, <5>1 DEF GenerationOf
      <4> QED
        BY <4>1, <4>2
    <3> QED
      BY <3>5 DEF GenerationClimbs
  <2>7. ASSUME NEW c \in Controllers, BatchUpdate(c),
               BatchAccepted(c, held[c][1], held[c][2])
        PROVE  GenerationClimbs
    <3> DEFINE g == held[c][1]
               h == held[c][2]
    <3>1. /\ g.obj \in Allocated /\ Named(g) \in Names /\ g.generation \in Nat
          /\ h.obj \in Allocated /\ Named(h) \in Names /\ h.generation \in Nat
      BY <2>7, HandleTyped DEF BatchUpdate, TypeOK
    <3>2. /\ Current(g) /\ Current(h)
          /\ tasks' = [tasks EXCEPT ![Named(g)] = g.obj, ![Named(h)] = h.obj]
          /\ heap' = [heap EXCEPT ![g.obj].generation = g.generation + 1,
                                  ![h.obj].generation = h.generation + 1]
      BY <2>7 DEF BatchAccepted
    <3> HIDE DEF g, h
    <3>3. /\ heap'[h.obj].generation = h.generation + 1
          /\ g.obj # h.obj => heap'[g.obj].generation = g.generation + 1
          /\ \A o \in Allocated : o \notin {g.obj, h.obj} => heap'[o] = heap[o]
      BY <3>1, <3>2 DEF TypeOK, Task
    <3>4. /\ tasks'[Named(h)] = h.obj
          /\ Named(g) # Named(h) => tasks'[Named(g)] = g.obj
          /\ \A n \in Names :
                n \notin {Named(g), Named(h)} => tasks'[n] = tasks[n]
      BY <3>1, <3>2 DEF TypeOK
    <3>5. ASSUME NEW n \in Names, Held(n), Held(n)'
          PROVE  /\ GenerationOf(n)' >= GenerationOf(n)
                 /\ tasks'[n] # tasks[n] => GenerationOf(n)' > GenerationOf(n)
      <4>0. /\ tasks[n] \in Allocated /\ heap[tasks[n]].name = n
            /\ GenerationOf(n) \in Nat
            /\ GenerationOf(n) = heap[tasks[n]].generation
            /\ GenerationOf(n)' = heap'[tasks'[n]].generation
        BY <2>1, <3>5 DEF GenerationOf
      <4>1. CASE n = Named(h)
        <5>1. tasks'[n] = h.obj /\ GenerationOf(n) = h.generation
          BY <3>2, <3>4, <4>0, <4>1 DEF Current
        <5> QED
          BY <3>1, <3>3, <4>0, <5>1
      <4>2. CASE n = Named(g) /\ n # Named(h)
        <5>1. g.obj # h.obj
          BY <4>2 DEF Named
        <5>2. tasks'[n] = g.obj /\ GenerationOf(n) = g.generation
          BY <3>2, <3>4, <4>0, <4>2 DEF Current
        <5> QED
          BY <3>1, <3>3, <4>0, <5>1, <5>2
      <4>3. CASE n \notin {Named(g), Named(h)}
        <5>1. tasks[n] \notin {g.obj, h.obj}
          BY <2>1, <3>5, <4>3 DEF Named
        <5> QED
          BY <3>3, <3>4, <4>0, <4>3, <5>1
      <4> QED
        BY <4>1, <4>2, <4>3
    <3> QED
      BY <3>5 DEF GenerationClimbs
  <2>8. CASE UNCHANGED <<tasks, heap>>
    BY <2>2, <2>8
  <2> QED
    BY <2>3, <2>4, <2>5, <2>6, <2>7, <2>8
    DEF Next, AddNode, RemoveNode, Read, Update, BatchUpdate,
        UpdateRefused, UpdateMissing, BatchRefused, storeVars
<1> QED
  BY <1>1, HandleInvHolds, PTL DEF Spec, GenerationNeverRewinds

-----------------------------------------------------------------------------
(* Reading the log.                                                        *)

Kept(q, out, e) == IF e.sequence >= q THEN Append(out, e) ELSE out

\* events_since goes through the log from left to right.
LEMMA SinceGoesRight ==
    ASSUME events \in Seq(Event), NEW q \in Nat
    PROVE  \E f \in [0..Len(events) -> Seq(Event)] :
              /\ f[0] = <<>>
              /\ \A i \in 1..Len(events) : f[i] = Kept(q, f[i - 1], events[i])
              /\ Since(q) = f[Len(events)]
<1>. DEFINE n == Len(events)
            T == Seq(Event)
            step == [p \in (1..n) \X T |-> Kept(q, p[2], events[p[1]])]
            Right(h) == h = [s \in SUBSET (1..n) |->
                               IF s = {} THEN <<>>
                               ELSE Kept(q, h[s \ {Max(s)}], events[Max(s)])]
            iter == CHOOSE h : Right(h)
<1>1. n \in Nat /\ DOMAIN events = 1..n
  OBVIOUS
<1>2. \A i \in 1..n : \A out \in T : step[<<i, out>>] \in T
  <2>1. ASSUME NEW i \in 1..n, NEW out \in T PROVE Kept(q, out, events[i]) \in T
    BY DEF Kept
  <2>. QED
    BY <2>1
<1>3. PICK g : IsLeftFold(n, T, <<>>, step, g)
  <2>1. <<>> \in T
    OBVIOUS
  <2>2. n \in Nat
    BY <1>1
  <2>. HIDE DEF step, T, n
  <2>. QED
    BY ONLY <1>2, <2>1, <2>2, LeftFoldExists
<1>4. ASSUME NEW s \in SUBSET (1..n), s # {}
      PROVE  g[s] = Kept(q, g[s \ {Max(s)}], events[Max(s)])
  <2>1. Max(s) \in 1..n /\ s \ {Max(s)} \in SUBSET (1..n)
    BY <1>3, <1>4 DEF IsLeftFold
  <2>2. <<Max(s), g[s \ {Max(s)}]>> \in (1..n) \X T
    BY <1>3, <2>1 DEF IsLeftFold
  <2>3. g[s] = step[<<Max(s), g[s \ {Max(s)}]>>]
    BY <1>3, <1>4 DEF IsLeftFold
  <2>. HIDE DEF n, T
  <2>. QED
    BY <2>2, <2>3
<1>5. Right(g)
  BY <1>3, <1>4 DEF IsLeftFold
<1>6. Right(iter)
  BY <1>5
<1>7. Since(q) = iter[1..n]
  BY <1>1 DEF Since, FoldLeft, MapThenFoldSet, Kept
<1>. DEFINE f == [i \in 0..n |-> iter[1..i]]
<1>. HIDE DEF iter, n, T
<1>8. iter[{}] = <<>>
  BY <1>6
<1>9. ASSUME NEW i \in 1..n
      PROVE  iter[1..i] = Kept(q, iter[1..(i - 1)], events[i])
  <2>1. /\ 1..i # {} /\ Max(1..i) = i
        /\ (1..i) \ {Max(1..i)} = 1..(i - 1)
    BY LastOfPrefix
  <2>2. 1..i \in SUBSET (1..n)
    BY <1>1
  <2>. QED
    BY <1>6, <2>1, <2>2
<1>10. f[0] = <<>>
  <2>1. 0 \in 0..n /\ 1..0 = {}
    BY <1>1
  <2>. QED
    BY <1>8, <2>1
<1>11. \A i \in 1..n : f[i] = Kept(q, f[i - 1], events[i])
  <2>1. \A i \in 1..n : i \in 0..n /\ i - 1 \in 0..n
    BY <1>1
  <2>. QED
    BY <1>9, <2>1
<1>12. \A i \in 0..n : f[i] \in T
  <2>. DEFINE G == {i \in 0..n : f[i] \in T}
  <2>1. 0 \in G
    <3>1. <<>> \in T
      BY DEF T
    <3>. HIDE DEF f
    <3>. QED
      BY <1>1, <1>10, <3>1
  <2>2. ASSUME NEW i \in 1..n, i - 1 \in G PROVE i \in G
    <3>1. f[i - 1] \in T /\ events[i] \in Event /\ i \in 0..n
      BY <1>1, <2>2 DEF n
    <3>2. Kept(q, f[i - 1], events[i]) \in T
      BY <3>1 DEF Kept, T
    <3>. QED
      BY <1>11, <3>1, <3>2
  <2>. HIDE DEF G, f
  <2>3. 0..n \subseteq G
    BY <1>1, <2>1, <2>2, UpTo
  <2>. QED
    BY <2>3 DEF G
<1>13. f \in [0..n -> T]
  BY <1>12
<1>14. Since(q) = f[n]
  BY <1>1, <1>7
<1>. QED
  BY <1>10, <1>11, <1>13, <1>14 DEF n, T

\* Of a log whose last events are the ones from q on, it returns those.
LEMMA SinceIsSuffix ==
    ASSUME events \in Seq(Event), NEW q \in Nat, NEW k \in 0..Len(events),
           \A i \in 1..Len(events) : events[i].sequence >= q <=> i > k
    PROVE  /\ Since(q) \in Seq(Event)
           /\ Len(Since(q)) = Len(events) - k
           /\ \A j \in 1..(Len(events) - k) : Since(q)[j] = events[k + j]
<1>. DEFINE n == Len(events)
<1>1. PICK f \in [0..n -> Seq(Event)] :
         /\ f[0] = <<>>
         /\ \A i \in 1..n : f[i] = Kept(q, f[i - 1], events[i])
         /\ Since(q) = f[n]
  BY SinceGoesRight
<1>2. n \in Nat
  OBVIOUS
<1>. DEFINE G == {i \in 0..n :
                     /\ Len(f[i]) = IF i <= k THEN 0 ELSE i - k
                     /\ \A j \in 1..Len(f[i]) : f[i][j] = events[k + j]}
<1>3. 0 \in G
  BY <1>1, <1>2
<1>4. ASSUME NEW i \in 1..n, i - 1 \in G PROVE i \in G
  <2>1. f[i] = Kept(q, f[i - 1], events[i]) /\ f[i - 1] \in Seq(Event)
    <3>. HIDE DEF n, G
    <3>1. i - 1 \in 0..n
      BY <1>2
    <3>. QED
      BY <1>1, <3>1
  <2>2. CASE i <= k
    BY <1>4, <2>1, <2>2 DEF Kept
  <2>3. CASE i > k
    <3>1. f[i] = Append(f[i - 1], events[i])
      BY <2>1, <2>3 DEF Kept
    <3>2. Len(f[i - 1]) = i - 1 - k
      BY <1>4, <2>3
    <3>3. /\ Len(f[i]) = i - k /\ f[i][i - k] = events[i]
          /\ \A j \in 1..(i - 1 - k) : f[i][j] = f[i - 1][j]
      BY <2>1, <3>1, <3>2
    <3>4. ASSUME NEW j \in 1..(i - k) PROVE f[i][j] = events[k + j]
      <4>1. CASE j = i - k
        BY <1>2, <3>3, <4>1
      <4>2. CASE j # i - k
        <5>1. j \in 1..(i - 1 - k) /\ j \in 1..Len(f[i - 1])
          BY <1>2, <2>3, <3>2, <4>2
        <5>2. f[i - 1][j] = events[k + j]
          BY <1>4, <5>1
        <5>. QED
          BY <3>3, <5>1, <5>2
      <4>. QED
        BY <4>1, <4>2
    <3>5. Len(f[i]) = IF i <= k THEN 0 ELSE i - k
      BY <1>2, <2>3, <3>3
    <3>6. \A j \in 1..Len(f[i]) : f[i][j] = events[k + j]
      BY <3>3, <3>4
    <3>. QED
      BY <1>2, <3>5, <3>6
  <2>4. i <= k \/ i > k
    BY <1>2
  <2>. HIDE DEF n, G
  <2>. QED
    BY <2>2, <2>3, <2>4
<1>5. n \in G
  <2>. HIDE DEF G, n
  <2>1. 0..n \subseteq G
    BY <1>2, <1>3, <1>4, UpTo
  <2>. QED
    BY <1>2, <2>1
<1>. QED
  BY <1>1, <1>2, <1>5

-----------------------------------------------------------------------------
(* What the events of a log say.                                           *)

\* Whether x exists after the first i events of a log, when b tells whether it
\* did before: the last event that adds or removes it decides.
About(trail, i, x, add, rem) ==
    {j \in 1..i : trail[j].name = x /\ trail[j].kind \in {add, rem}}

Says(b, trail, i, x, add, rem) ==
    IF About(trail, i, x, add, rem) = {} THEN b
    ELSE \E j \in About(trail, i, x, add, rem) :
            /\ trail[j].kind = add
            /\ \A k \in About(trail, i, x, add, rem) : k <= j

SaysTask(b, trail, i, n) == Says(b, trail, i, n, "task-added", "task-removed")
SaysNode(b, trail, i, m) == Says(b, trail, i, m, "node-added", "node-removed")

TaskKinds == {"task-added", "task-updated", "task-removed"}

\* The first i events are not about the task n.
Silent(trail, i, n) ==
    \A j \in 1..i : trail[j].kind \in TaskKinds => trail[j].name # n

\* Nothing said changes nothing.
LEMMA SaysNothing ==
    ASSUME NEW b \in BOOLEAN, NEW trail, NEW x, NEW add, NEW rem
    PROVE  Says(b, trail, 0, x, add, rem) <=> b
PROOF BY DEF Says, About

\* One event more decides for what it adds or removes.
LEMMA SaysOneMore ==
    ASSUME NEW b \in BOOLEAN, NEW trail, NEW i \in Nat \ {0}, NEW x,
           NEW add, NEW rem, add # rem
    PROVE  Says(b, trail, i, x, add, rem) <=>
               IF trail[i].name = x /\ trail[i].kind \in {add, rem}
               THEN trail[i].kind = add ELSE Says(b, trail, i - 1, x, add, rem)
<1>. DEFINE A == About(trail, i, x, add, rem)
            B == About(trail, i - 1, x, add, rem)
<1>1. CASE trail[i].name = x /\ trail[i].kind \in {add, rem}
  <2>1. i \in A /\ \A k \in A : k <= i
    BY <1>1 DEF About
  <2>2. A \subseteq Int
    BY DEF About
  <2>. HIDE DEF A
  <2>3. ASSUME NEW j \in A, \A k \in A : k <= j PROVE j = i
    BY <2>1, <2>2, <2>3
  <2>4. Says(b, trail, i, x, add, rem) <=> trail[i].kind = add
    BY <2>1, <2>3 DEF Says, A
  <2>. QED
    BY <1>1, <2>4
<1>2. CASE ~(trail[i].name = x /\ trail[i].kind \in {add, rem})
  <2>1. A = B
    BY <1>2 DEF About
  <2>2. Says(b, trail, i, x, add, rem) <=> Says(b, trail, i - 1, x, add, rem)
    BY <2>1 DEF Says
  <2>. QED
    BY <1>2, <2>2
<1>. QED
  BY <1>1, <1>2

\* Only the events themselves matter.
LEMMA SaysTheSame ==
    ASSUME NEW b \in BOOLEAN, NEW trail, NEW other, NEW i \in Nat, NEW x,
           NEW add, NEW rem, \A j \in 1..i : other[j] = trail[j]
    PROVE  Says(b, other, i, x, add, rem) <=> Says(b, trail, i, x, add, rem)
<1>1. About(other, i, x, add, rem) = About(trail, i, x, add, rem)
  BY DEF About
<1>. QED
  BY <1>1 DEF Says, About

\* What a longer log says is what its end says after its beginning.
LEMMA SaysInTurn ==
    ASSUME NEW b \in BOOLEAN, NEW S, NEW trail \in Seq(S), NEW more \in Seq(S),
           NEW x, NEW add, NEW rem, add # rem
    PROVE  Says(b, trail \o more, Len(trail) + Len(more), x, add, rem) <=>
               Says(Says(b, trail, Len(trail), x, add, rem), more, Len(more), x, add, rem)
<1>. DEFINE n == Len(trail)
            b0 == Says(b, trail, n, x, add, rem)
            G == {i \in 0..Len(more) :
                     Says(b, trail \o more, n + i, x, add, rem) <=>
                         Says(b0, more, i, x, add, rem)}
<1>0. b0 \in BOOLEAN
  BY DEF Says
<1>1. /\ n \in Nat /\ Len(more) \in Nat
      /\ \A j \in 1..n : (trail \o more)[j] = trail[j]
      /\ \A j \in 1..Len(more) : (trail \o more)[n + j] = more[j]
  OBVIOUS
<1>2. 0 \in G
  <2>1. Says(b, trail \o more, n, x, add, rem) <=> b0
    BY <1>1, SaysTheSame
  <2>2. Says(b0, more, 0, x, add, rem) <=> b0
    BY <1>0, SaysNothing
  <2>. QED
    BY <1>1, <2>1, <2>2
<1>3. ASSUME NEW i \in 1..Len(more), i - 1 \in G PROVE i \in G
  <2>1. (trail \o more)[n + i] = more[i] /\ n + i \in Nat \ {0} /\ i \in Nat \ {0}
    BY <1>1
  <2>2. (n + i) - 1 = n + (i - 1)
    BY <1>1
  <2>3. Says(b, trail \o more, n + i, x, add, rem) <=>
            IF more[i].name = x /\ more[i].kind \in {add, rem}
            THEN more[i].kind = add
            ELSE Says(b, trail \o more, n + (i - 1), x, add, rem)
    <3>. DEFINE both == trail \o more
                k == n + i
    <3>1. k \in Nat \ {0} /\ both[k] = more[i] /\ k - 1 = n + (i - 1)
      BY <2>1, <2>2
    <3>. HIDE DEF both, k
    <3>2. Says(b, both, k, x, add, rem) <=>
            IF both[k].name = x /\ both[k].kind \in {add, rem}
            THEN both[k].kind = add ELSE Says(b, both, k - 1, x, add, rem)
      BY <3>1, SaysOneMore
    <3>. QED
      BY <3>1, <3>2 DEF both, k
  <2>4. Says(b0, more, i, x, add, rem) <=>
            IF more[i].name = x /\ more[i].kind \in {add, rem}
            THEN more[i].kind = add ELSE Says(b0, more, i - 1, x, add, rem)
    BY <1>0, <2>1, SaysOneMore
  <2>. QED
    BY <1>1, <1>3, <2>3, <2>4
<1>4. 0..Len(more) \subseteq G
  <2>. HIDE DEF G
  <2>. QED
    BY <1>1, <1>2, <1>3, UpTo
<1>5. Says(b, trail \o more, n + Len(more), x, add, rem) <=>
        Says(b0, more, Len(more), x, add, rem)
  <2>. HIDE DEF n, b0
  <2>. QED
    BY <1>1, <1>4
<1>. QED
  BY <1>5

-----------------------------------------------------------------------------
(* The log is the end of all that was recorded.                            *)

First == nextSequence - Len(events)

\* An event about a task names one, and one about a node names one.
Fits(e) == e.name \in IF e.kind \in TaskKinds THEN Names ELSE NodeNames

LogIsTail ==
    /\ Len(events) <= nextSequence /\ nextSequence <= MaxSequence
    /\ \A i \in DOMAIN events :
          events[i].sequence = First + i - 1 /\ Fits(events[i])
    /\ First <= compactedBelow

\* How many events of the log lie before q.
Before(q) == IF q <= First THEN 0
             ELSE IF q >= nextSequence THEN Len(events) ELSE q - First

\* Reading from q, and where the reader stands then.
LEMMA ReadingTheTail ==
    ASSUME TypeOK, LogIsTail, NEW q \in Nat
    PROVE  /\ Before(q) \in 0..Len(events)
           /\ Since(q) \in Seq(Event)
           /\ Len(Since(q)) = Len(events) - Before(q)
           /\ \A j \in 1..(Len(events) - Before(q)) :
                 Since(q)[j] = events[Before(q) + j]
           /\ After(q) = IF q < nextSequence /\ Len(events) # 0
                         THEN nextSequence ELSE q
<1>1. events \in Seq(Event) /\ nextSequence \in Nat /\ Len(events) \in Nat
  BY DEF TypeOK
<1>2. Before(q) \in 0..Len(events)
  BY <1>1 DEF Before, First, LogIsTail
<1>3. \A i \in 1..Len(events) : events[i].sequence >= q <=> i > Before(q)
  BY <1>1 DEF Before, First, LogIsTail
<1>4. /\ Since(q) \in Seq(Event)
      /\ Len(Since(q)) = Len(events) - Before(q)
      /\ \A j \in 1..(Len(events) - Before(q)) : Since(q)[j] = events[Before(q) + j]
  BY <1>1, <1>2, <1>3, SinceIsSuffix
<1>5. CASE q < nextSequence /\ Len(events) # 0
  <2>1. Len(events) - Before(q) \in Nat \ {0}
    BY <1>1, <1>5 DEF Before, First, LogIsTail
  <2>2. Last(Since(q)) = events[Len(events)]
    BY <1>1, <1>2, <1>4, <2>1 DEF Last
  <2>3. events[Len(events)].sequence = nextSequence - 1
    BY <1>1, <1>5 DEF LogIsTail, First
  <2>4. Since(q) # <<>>
    BY <1>4, <2>1
  <2>. QED
    BY <1>1, <1>2, <1>4, <1>5, <2>2, <2>3, <2>4 DEF After
<1>6. CASE ~(q < nextSequence /\ Len(events) # 0)
  <2>1. Before(q) = Len(events)
    BY <1>1, <1>6 DEF Before, First, LogIsTail
  <2>2. Len(Since(q)) = 0
    BY <1>1, <1>4, <2>1
  <2>3. Since(q) = <<>>
    BY <1>4, <2>2
  <2>. QED
    BY <1>2, <1>4, <1>6, <2>3 DEF After
<1>. QED
  BY <1>2, <1>4, <1>5, <1>6

-----------------------------------------------------------------------------
(* What a step of the store adds to the log.                               *)

\* What the events of one step say is what the step did.
TellsTasks(more) ==
    \A n \in Names :
        /\ Held(n)' <=> SaysTask(Held(n), more, Len(more), n)
        /\ Silent(more, Len(more), n) =>
              /\ tasks'[n] = tasks[n]
              /\ Held(n) /\ n \notin dirty' =>
                    /\ n \notin dirty
                    /\ heap'[tasks[n]].phase = heap[tasks[n]].phase

TellsNodes(more) ==
    \A m \in NodeNames : m \in nodes' <=> SaysNode(m \in nodes, more, Len(more), m)

TellsObjects(more) ==
    \/ nextObject' = nextObject
    \/ /\ nextObject' = nextObject + 1 /\ Len(more) = 1
       /\ more[1].kind = "task-added" /\ more[1].name = heap'[nextObject].name

Adds(more) ==
    /\ events' = events \o more
    /\ nextSequence' = nextSequence + Len(more)
    /\ nextSequence' <= MaxSequence
    /\ \A i \in 1..Len(more) :
          more[i].sequence = nextSequence + i - 1 /\ Fits(more[i])
    /\ TellsTasks(more) /\ TellsNodes(more) /\ TellsObjects(more)

LogGrows == \E more \in Seq(Event) : Adds(more)

\* What a log of one event says.
LEMMA OneEvent ==
    ASSUME NEW e, NEW one, one[1] = e, NEW b \in BOOLEAN, NEW x
    PROVE  /\ SaysTask(b, one, 1, x) <=>
                 IF e.name = x /\ e.kind \in {"task-added", "task-removed"}
                 THEN e.kind = "task-added" ELSE b
           /\ SaysNode(b, one, 1, x) <=>
                 IF e.name = x /\ e.kind \in {"node-added", "node-removed"}
                 THEN e.kind = "node-added" ELSE b
           /\ Silent(one, 1, x) <=> ~(e.kind \in TaskKinds /\ e.name = x)
<1>1. /\ "task-added" # "task-removed" /\ "node-added" # "node-removed"
      /\ 1 \in Nat \ {0} /\ 1 - 1 = 0
  OBVIOUS
<1>2. SaysTask(b, one, 1, x) <=>
         IF e.name = x /\ e.kind \in {"task-added", "task-removed"}
         THEN e.kind = "task-added" ELSE b
  BY <1>1, SaysOneMore, SaysNothing DEF SaysTask
<1>3. SaysNode(b, one, 1, x) <=>
         IF e.name = x /\ e.kind \in {"node-added", "node-removed"}
         THEN e.kind = "node-added" ELSE b
  BY <1>1, SaysOneMore, SaysNothing DEF SaysNode
<1>4. Silent(one, 1, x) <=> ~(e.kind \in TaskKinds /\ e.name = x)
  BY DEF Silent
<1>. QED
  BY <1>2, <1>3, <1>4

\* Every step of the store adds numbered events at the end of the log, and they
\* say what the step did.
LEMMA StoreAppends ==
    ASSUME StoreAssumption, TypeOK, NameOfHeld, [Next]_vars,
           nextSequence <= MaxSequence
    PROVE  LogGrows
<1>1. events \in Seq(Event) /\ nextSequence \in Nat /\ MaxSequence \in Nat
  BY DEF TypeOK, StoreAssumption
<1>2. ASSUME NEW k \in Kinds, NEW x, Record(k, x),
             x \in IF k \in TaskKinds THEN Names ELSE NodeNames,
             \A n \in Names :
                /\ Held(n)' <=> IF n = x /\ k \in {"task-added", "task-removed"}
                                THEN k = "task-added" ELSE Held(n)
                /\ ~(k \in TaskKinds /\ n = x) =>
                      /\ tasks'[n] = tasks[n]
                      /\ Held(n) /\ n \notin dirty' =>
                            /\ n \notin dirty
                            /\ heap'[tasks[n]].phase = heap[tasks[n]].phase,
             \A m \in NodeNames :
                m \in nodes' <=> IF m = x /\ k \in {"node-added", "node-removed"}
                                 THEN k = "node-added" ELSE m \in nodes,
             \/ nextObject' = nextObject
             \/ /\ nextObject' = nextObject + 1
                /\ k = "task-added" /\ x = heap'[nextObject].name
      PROVE  LogGrows
  <2>. DEFINE e == [sequence |-> nextSequence, kind |-> k, name |-> x]
  <2>1. e \in Event /\ e.sequence = nextSequence /\ e.kind = k /\ e.name = x
    BY <1>1, <1>2 DEF Event
  <2>2. /\ events' = Append(events, e) /\ nextSequence' = nextSequence + 1
        /\ nextSequence < MaxSequence
    BY <1>2 DEF Record
  <2>. HIDE DEF e
  <2>. DEFINE one == <<e>>
  <2>3. /\ one \in Seq(Event) /\ Len(one) = 1 /\ one[1] = e
        /\ events' = events \o one
    BY <1>1, <2>1, <2>2
  <2>. HIDE DEF one
  <2>4. TellsTasks(one)
    <3>. SUFFICES ASSUME NEW n \in Names
                  PROVE  /\ Held(n)' <=> SaysTask(Held(n), one, 1, n)
                         /\ Silent(one, 1, n) =>
                               /\ tasks'[n] = tasks[n]
                               /\ Held(n) /\ n \notin dirty' =>
                                     /\ n \notin dirty
                                     /\ heap'[tasks[n]].phase = heap[tasks[n]].phase
      BY <2>3 DEF TellsTasks
    <3>1. Held(n) \in BOOLEAN
      BY DEF Held
    <3>2. /\ SaysTask(Held(n), one, 1, n) <=>
                 IF k \in {"task-added", "task-removed"} /\ n = x
                 THEN k = "task-added" ELSE Held(n)
          /\ Silent(one, 1, n) <=> ~(k \in TaskKinds /\ n = x)
      BY <2>1, <2>3, <3>1, OneEvent
    <3>. QED
      BY <1>2, <3>2
  <2>5. TellsNodes(one)
    <3>1. ASSUME NEW m \in NodeNames
          PROVE  SaysNode(m \in nodes, one, 1, m) <=>
                     IF m = x /\ k \in {"node-added", "node-removed"}
                     THEN k = "node-added" ELSE m \in nodes
      <4>. DEFINE b == m \in nodes
      <4>1. b \in BOOLEAN
        OBVIOUS
      <4>. HIDE DEF b
      <4>2. SaysNode(b, one, 1, m) <=>
               IF m = x /\ k \in {"node-added", "node-removed"}
               THEN k = "node-added" ELSE b
        BY SMTT(20), <2>1, <2>3, <4>1, OneEvent
      <4>. QED
        BY <4>2 DEF b
    <3>. QED
      BY <1>2, <2>3, <3>1 DEF TellsNodes
  <2>6. TellsObjects(one)
    BY <1>2, <2>1, <2>3 DEF TellsObjects
  <2>7. Fits(e)
    BY <1>2, <2>1 DEF Fits
  <2>8. Adds(one)
    BY <1>1, <2>1, <2>2, <2>3, <2>4, <2>5, <2>6, <2>7 DEF Adds
  <2>. QED
    BY <2>3, <2>8 DEF LogGrows
<1>3. ASSUME NEW n \in Names, AddTask(n) PROVE LogGrows
  <2>1. "task-added" \in Kinds /\ "task-added" \in TaskKinds
    BY DEF Kinds, TaskKinds
  <2>2. /\ Record("task-added", n) /\ nodes' = nodes
        /\ nextObject' = nextObject + 1 /\ dirty' = dirty \ {n}
        /\ nextObject \in Objects
        /\ tasks' = [tasks EXCEPT ![n] = nextObject]
        /\ heap' = [o \in 1..nextObject |->
                    IF o = nextObject
                    THEN [name |-> n, generation |-> 1, phase |-> FirstPhase]
                    ELSE heap[o]]
    BY <1>3 DEF AddTask
  <2>3. nextObject \in Nat \ {0} /\ heap'[nextObject].name = n
    BY <2>2 DEF Objects
  <2>4. \A x \in Names : Held(x)' <=> IF x = n THEN TRUE ELSE Held(x)
    BY <2>2, <2>3 DEF Held, TypeOK, Nothing
  <2>5. \A x \in Names : x # n =>
           /\ tasks'[x] = tasks[x]
           /\ Held(x) /\ x \notin dirty' =>
                /\ x \notin dirty
                /\ heap'[tasks[x]].phase = heap[tasks[x]].phase
    BY <2>2, <2>3 DEF Held, TypeOK, Nothing, Allocated
  <2>6. \A m \in NodeNames :
           m \in nodes' <=> IF m = n /\ "task-added" \in {"node-added", "node-removed"}
                            THEN "task-added" = "node-added" ELSE m \in nodes
    BY <2>2
  <2>. QED
    BY <1>2, <2>1, <2>2, <2>3, <2>4, <2>5, <2>6
<1>4. ASSUME NEW n \in Names, RemoveTask(n) PROVE LogGrows
  <2>1. "task-removed" \in Kinds /\ "task-removed" \in TaskKinds
    BY DEF Kinds, TaskKinds
  <2>2. /\ Record("task-removed", n) /\ UNCHANGED <<nodes, heap, nextObject>>
        /\ dirty' = dirty \ {n} /\ tasks' = [tasks EXCEPT ![n] = Nothing]
    BY <1>4 DEF RemoveTask
  <2>3. \A x \in Names : Held(x)' <=> IF x = n THEN FALSE ELSE Held(x)
    BY <2>2 DEF Held, TypeOK
  <2>4. \A x \in Names : x # n =>
           /\ tasks'[x] = tasks[x]
           /\ Held(x) /\ x \notin dirty' =>
                /\ x \notin dirty
                /\ heap'[tasks[x]].phase = heap[tasks[x]].phase
    BY <2>2 DEF TypeOK
  <2>5. \A m \in NodeNames :
           m \in nodes' <=>
               IF m = n /\ "task-removed" \in {"node-added", "node-removed"}
               THEN "task-removed" = "node-added" ELSE m \in nodes
    BY <2>2
  <2>. QED
    BY <1>2, <2>1, <2>2, <2>3, <2>4, <2>5
<1>5. ASSUME NEW m \in NodeNames, AddNode(m) \/ RemoveNode(m) PROVE LogGrows
  <2>1. /\ {"node-added", "node-removed"} \subseteq Kinds
        /\ "node-added" \notin TaskKinds /\ "node-removed" \notin TaskKinds
        /\ TaskKinds \cap {"node-added", "node-removed"} = {}
        /\ {"task-added", "task-removed"} \cap {"node-added", "node-removed"} = {}
    BY DEF Kinds, TaskKinds
  <2>2. UNCHANGED <<tasks, heap, nextObject, dirty>>
    BY <1>5 DEF AddNode, RemoveNode
  <2>3. \A n \in Names : Held(n)' <=> Held(n)
    BY <2>2 DEF Held
  <2>4. CASE AddNode(m)
    <3>1. Record("node-added", m) /\ nodes' = nodes \cup {m}
      BY <2>4 DEF AddNode
    <3>. QED
      BY <1>2, <2>1, <2>2, <2>3, <3>1
  <2>5. CASE RemoveNode(m)
    <3>1. Record("node-removed", m) /\ nodes' = nodes \ {m}
      BY <2>5 DEF RemoveNode
    <3>. QED
      BY <1>2, <2>1, <2>2, <2>3, <3>1
  <2>. QED
    BY <1>5, <2>4, <2>5
<1>6. ASSUME NEW c \in Controllers, Update(c), UpdateAccepted(c, Head(held[c]))
      PROVE  LogGrows
  <2> DEFINE h == Head(held[c])
  <2>1. h = held[c][1] /\ 1 \in DOMAIN held[c]
    BY <1>6 DEF Update, TypeOK
  <2>2. /\ h.obj \in Allocated /\ Named(h) \in Names
        /\ "task-updated" \in Kinds /\ "task-updated" \in TaskKinds
        /\ "task-updated" \notin {"task-added", "task-removed"}
        /\ "task-updated" \notin {"node-added", "node-removed"}
    BY <2>1, HandleTyped DEF Kinds, TaskKinds
  <2>3. /\ tasks' = [tasks EXCEPT ![Named(h)] = h.obj]
        /\ heap' = [heap EXCEPT ![h.obj].generation = h.generation + 1]
        /\ Held(Named(h)) /\ Record("task-updated", Named(h))
        /\ nodes' = nodes /\ nextObject' = nextObject
        /\ dirty' = dirty \ {Named(h)}
    BY <1>6 DEF UpdateAccepted
  <2>. HIDE DEF h
  <2>4. \A n \in Names : Held(n)' <=> Held(n)
    BY <2>2, <2>3 DEF TypeOK, Held, Nothing, Allocated
  <2>5. \A o \in Allocated : heap'[o].phase = heap[o].phase
    BY <2>3 DEF TypeOK, Task
  <2>6. \A n \in Names : n # Named(h) =>
           /\ tasks'[n] = tasks[n]
           /\ Held(n) /\ n \notin dirty' =>
                /\ n \notin dirty
                /\ heap'[tasks[n]].phase = heap[tasks[n]].phase
    BY <2>3, <2>5 DEF TypeOK, Held
  <2>. QED
    BY <1>2, <2>2, <2>3, <2>4, <2>6
<1>7. ASSUME NEW c \in Controllers, BatchUpdate(c),
             BatchAccepted(c, held[c][1], held[c][2])
      PROVE  LogGrows
  <2>. DEFINE g == held[c][1]
              h == held[c][2]
              e == [sequence |-> nextSequence, kind |-> "task-updated",
                    name |-> Named(g)]
              f == [sequence |-> nextSequence + 1, kind |-> "task-updated",
                    name |-> Named(h)]
  <2>1. 1 \in DOMAIN held[c] /\ 2 \in DOMAIN held[c]
    BY <1>7 DEF BatchUpdate, TypeOK
  <2>2. /\ g.obj \in Allocated /\ Named(g) \in Names
        /\ h.obj \in Allocated /\ Named(h) \in Names
    BY <2>1, HandleTyped
  <2>3. /\ e \in Event /\ f \in Event
        /\ e.sequence = nextSequence /\ f.sequence = nextSequence + 1
        /\ e.kind = "task-updated" /\ f.kind = "task-updated"
        /\ e.name = Named(g) /\ f.name = Named(h)
    BY <1>1, <2>2 DEF Event, Kinds
  <2>4. /\ events' = events \o <<e, f>> /\ nextSequence' = nextSequence + 2
        /\ nextSequence + 1 < MaxSequence
        /\ tasks' = [tasks EXCEPT ![Named(g)] = g.obj, ![Named(h)] = h.obj]
        /\ heap' = [heap EXCEPT ![g.obj].generation = g.generation + 1,
                                ![h.obj].generation = h.generation + 1]
        /\ Held(Named(g)) /\ Held(Named(h))
        /\ dirty' = dirty \ {Named(g), Named(h)}
        /\ UNCHANGED <<nextObject, nodes>>
    BY <1>7 DEF BatchAccepted
  <2>. HIDE DEF e, f, g, h
  <2>. DEFINE two == <<e, f>>
  <2>5. /\ two \in Seq(Event) /\ Len(two) = 2
        /\ two[1] = e /\ two[2] = f
    BY <2>3
  <2>. HIDE DEF two
  <2>6. /\ "task-updated" \in TaskKinds
        /\ "task-updated" \notin {"task-added", "task-removed"}
        /\ "task-updated" \notin {"node-added", "node-removed"}
        /\ "task-added" # "task-removed" /\ "node-added" # "node-removed"
        /\ 1 \in Nat \ {0} /\ 2 \in Nat \ {0} /\ 1 - 1 = 0 /\ 2 - 1 = 1
    BY DEF TaskKinds
  <2>7. ASSUME NEW b \in BOOLEAN, NEW x
        PROVE  (SaysTask(b, two, 2, x) <=> b) /\ (SaysNode(b, two, 2, x) <=> b)
    <3>1. (SaysTask(b, two, 1, x) <=> b) /\ (SaysNode(b, two, 1, x) <=> b)
      BY <2>3, <2>5, <2>6, OneEvent
    <3>2. SaysTask(b, two, 2, x) <=> SaysTask(b, two, 1, x)
      BY <2>3, <2>5, <2>6, SaysOneMore DEF SaysTask
    <3>3. SaysNode(b, two, 2, x) <=> SaysNode(b, two, 1, x)
      BY <2>3, <2>5, <2>6, SaysOneMore DEF SaysNode
    <3>. QED
      BY <3>1, <3>2, <3>3
  <2>8. \A n \in Names : Held(n)' <=> Held(n)
    <3>1. /\ tasks' = [tasks EXCEPT ![Named(g)] = g.obj, ![Named(h)] = h.obj]
          /\ Held(Named(g)) /\ Held(Named(h)) /\ DOMAIN tasks = Names
      BY <2>4 DEF TypeOK
    <3>2. g.obj # Nothing /\ h.obj # Nothing
      BY <2>2 DEF Nothing, Allocated
    <3>3. ASSUME NEW n \in Names
          PROVE  tasks'[n] = IF n = Named(h) THEN h.obj
                             ELSE IF n = Named(g) THEN g.obj ELSE tasks[n]
      BY <2>2, <3>1
    <3>. QED
      BY <3>1, <3>2, <3>3 DEF Held
  <2>9. \A o \in Allocated : heap'[o].phase = heap[o].phase
    BY ZenonT(40), <2>4 DEF TypeOK, Task
  <2>10. \A n \in Names : Silent(two, 2, n) => n # Named(g) /\ n # Named(h)
    BY <2>3, <2>5, <2>6 DEF Silent
  <2>11. TellsTasks(two)
    <3>. SUFFICES ASSUME NEW n \in Names
                  PROVE  /\ Held(n)' <=> SaysTask(Held(n), two, 2, n)
                         /\ Silent(two, 2, n) =>
                               /\ tasks'[n] = tasks[n]
                               /\ Held(n) /\ n \notin dirty' =>
                                     /\ n \notin dirty
                                     /\ heap'[tasks[n]].phase = heap[tasks[n]].phase
      BY <2>5 DEF TellsTasks
    <3>1. Held(n) \in BOOLEAN
      BY DEF Held
    <3>2. Held(n)' <=> SaysTask(Held(n), two, 2, n)
      BY <2>7, <2>8, <3>1
    <3>. QED
      BY <2>4, <2>9, <2>10, <3>2 DEF TypeOK, Held
  <2>12. TellsNodes(two)
    <3>1. ASSUME NEW m \in NodeNames
          PROVE  SaysNode(m \in nodes, two, 2, m) <=> m \in nodes
      <4>. DEFINE b == m \in nodes
      <4>1. b \in BOOLEAN
        OBVIOUS
      <4>. HIDE DEF b
      <4>2. SaysNode(b, two, 2, m) <=> b
        BY <2>7, <4>1
      <4>. QED
        BY <4>2 DEF b
    <3>. QED
      BY <2>4, <2>5, <3>1 DEF TellsNodes
  <2>13. TellsObjects(two)
    BY <2>4 DEF TellsObjects
  <2>14. /\ nextSequence' <= MaxSequence /\ Fits(e) /\ Fits(f)
    BY <1>1, <2>2, <2>3, <2>4, <2>6 DEF Fits
  <2>15. \A i \in 1..2 : two[i].sequence = nextSequence + i - 1 /\ Fits(two[i])
    BY <1>1, <2>3, <2>5, <2>14
  <2>16. Adds(two)
    BY <2>4, <2>5, <2>11, <2>12, <2>13, <2>14, <2>15 DEF Adds, two
  <2>. QED
    BY <2>5, <2>16 DEF LogGrows
<1>8. ASSUME UNCHANGED <<tasks, nodes, events, nextSequence, nextObject>>,
             \A n \in Names : Held(n) /\ n \notin dirty' =>
                 n \notin dirty /\ heap'[tasks[n]].phase = heap[tasks[n]].phase
      PROVE  LogGrows
  <2>. DEFINE none == <<>>
  <2>1. none \in Seq(Event) /\ Len(none) = 0 /\ events \o none = events
    BY <1>1
  <2>. HIDE DEF none
  <2>2. \A n \in Names : Held(n) \in BOOLEAN /\ (Held(n)' <=> Held(n))
    BY <1>8 DEF Held
  <2>3. TellsTasks(none)
    BY <1>8, <2>1, <2>2, SaysNothing DEF TellsTasks, SaysTask
  <2>4. TellsNodes(none)
    <3>1. ASSUME NEW m \in NodeNames
          PROVE  SaysNode(m \in nodes, none, 0, m) <=> m \in nodes
      <4>. DEFINE b == m \in nodes
      <4>1. b \in BOOLEAN
        OBVIOUS
      <4>. HIDE DEF b
      <4>2. SaysNode(b, none, 0, m) <=> b
        BY <4>1, SaysNothing DEF SaysNode
      <4>. QED
        BY <4>2 DEF b
    <3>. QED
      BY <1>8, <2>1, <3>1 DEF TellsNodes
  <2>5. Adds(none)
    BY <1>1, <1>8, <2>1, <2>3, <2>4 DEF Adds, TellsObjects
  <2>. QED
    BY <2>1, <2>5 DEF LogGrows
<1>9. ASSUME NEW c \in Controllers, NEW i \in DOMAIN held[c], NEW p \in Phases,
             Edit(c, i, p)
      PROVE  LogGrows
  <2>. DEFINE o == held[c][i].obj
  <2>1. o \in Allocated
    BY HandleTyped
  <2>2. /\ heap' = [heap EXCEPT ![o].phase = p]
        /\ dirty' = IF tasks[heap[o].name] = o THEN dirty \cup {heap[o].name}
                                               ELSE dirty
        /\ UNCHANGED <<tasks, nodes, events, nextSequence, nextObject>>
    BY <1>9 DEF Edit
  <2>. HIDE DEF o
  <2>3. ASSUME NEW n \in Names, Held(n), n \notin dirty'
        PROVE  n \notin dirty /\ heap'[tasks[n]].phase = heap[tasks[n]].phase
    <3>1. tasks[n] # o
      BY <2>2, <2>3 DEF NameOfHeld
    <3>2. tasks[n] \in Allocated
      BY <2>3 DEF TypeOK, Held
    <3>. QED
      BY <2>1, <2>2, <2>3, <3>1, <3>2 DEF TypeOK
  <2>. QED
    BY <1>8, <2>2, <2>3
<1>10. CASE UNCHANGED <<storeVars, dirty>>
  BY <1>8, <1>10 DEF storeVars
<1>11. ASSUME NEW c \in Controllers, Update(c) \/ BatchUpdate(c)
       PROVE  LogGrows
  BY <1>6, <1>7, <1>10, <1>11
  DEF Update, UpdateRefused, UpdateMissing, BatchUpdate, BatchRefused
<1>12. CASE Next
  BY <1>3, <1>4, <1>5, <1>9, <1>10, <1>11, <1>12 DEF Next, Read
<1>. QED
  BY <1>10, <1>12 DEF vars

\* Compaction leaves the end of the log, from keepFrom on.
LEMMA CompactedIsTail ==
    ASSUME TypeOK, LogIsTail, compactedBelow \in Nat, NEW k \in Nat, Compact(k)
    PROVE  /\ events' \in Seq(Event) /\ LogIsTail'
           /\ Len(events') = Len(events) - Before(k)
           /\ \A j \in 1..Len(events') : events'[j] = events[Before(k) + j]
           /\ First' = First + Before(k)
<1>1. events \in Seq(Event) /\ nextSequence \in Nat /\ Len(events) \in Nat
  BY DEF TypeOK
<1>2. /\ events' = Since(k) /\ compactedBelow' = k /\ k > compactedBelow
      /\ nextSequence' = nextSequence
  BY DEF Compact
<1>3. /\ Before(k) \in 0..Len(events)
      /\ Since(k) \in Seq(Event)
      /\ Len(Since(k)) = Len(events) - Before(k)
      /\ \A j \in 1..(Len(events) - Before(k)) : Since(k)[j] = events[Before(k) + j]
  BY ReadingTheTail
<1>4. First' = First + Before(k)
  BY <1>1, <1>2, <1>3 DEF First
<1>5. First' <= k
  BY <1>1, <1>2, <1>3, <1>4 DEF Before, First, LogIsTail
<1>6. LogIsTail'
  <2>1. First' = nextSequence - Len(events')
    BY <1>2 DEF First
  <2>2. Len(events') <= nextSequence
    BY <1>1, <1>2, <1>3 DEF LogIsTail
  <2>3. ASSUME NEW j \in DOMAIN events'
        PROVE  events'[j].sequence = First' + j - 1 /\ Fits(events'[j])
    <3>1. j \in 1..(Len(events) - Before(k)) /\ Before(k) + j \in 1..Len(events)
      BY <1>1, <1>2, <1>3
    <3>2. events'[j] = events[Before(k) + j]
      BY <1>2, <1>3, <3>1
    <3>3. /\ events[Before(k) + j].sequence = First + (Before(k) + j) - 1
          /\ Fits(events[Before(k) + j])
      BY <1>1, <3>1 DEF LogIsTail
    <3>4. First \in Int
      BY <1>1 DEF First
    <3>. QED
      BY <1>3, <1>4, <3>1, <3>2, <3>3, <3>4
  <2>. QED
    BY <1>2, <1>5, <2>2, <2>3 DEF LogIsTail
<1>. QED
  BY <1>2, <1>3, <1>4, <1>6

\* More events at the end keep it one.
LEMMA GrownIsTail ==
    ASSUME TypeOK, LogIsTail, LogGrows, compactedBelow' = compactedBelow,
           compactedBelow \in Nat
    PROVE  LogIsTail' /\ First' = First /\ nextSequence' >= nextSequence
<1>1. events \in Seq(Event) /\ nextSequence \in Nat /\ Len(events) \in Nat
  BY DEF TypeOK
<1>2. PICK more \in Seq(Event) : Adds(more)
  BY DEF LogGrows
<1>3. /\ events' = events \o more
      /\ nextSequence' = nextSequence + Len(more) /\ nextSequence' <= MaxSequence
      /\ \A i \in 1..Len(more) :
            more[i].sequence = nextSequence + i - 1 /\ Fits(more[i])
      /\ Len(more) \in Nat
  BY <1>2 DEF Adds
<1>4. /\ Len(events') = Len(events) + Len(more)
      /\ DOMAIN events' = 1..(Len(events) + Len(more))
      /\ \A i \in 1..Len(events) : events'[i] = events[i]
      /\ \A i \in 1..Len(more) : events'[Len(events) + i] = more[i]
  BY <1>1, <1>3
<1>5. First' = First
  BY <1>1, <1>3, <1>4 DEF First
<1>6. ASSUME NEW i \in DOMAIN events'
      PROVE  events'[i].sequence = First + i - 1
  <2>1. CASE i \in 1..Len(events)
    BY <1>1, <1>4, <2>1 DEF LogIsTail
  <2>2. CASE i \notin 1..Len(events)
    <3>1. i - Len(events) \in 1..Len(more)
      BY <1>1, <1>3, <1>4, <2>2
    <3>2. events'[Len(events) + (i - Len(events))] = more[i - Len(events)]
      BY <1>4, <3>1
    <3>3. events'[i] = more[i - Len(events)]
      BY <1>1, <1>4, <3>2
    <3>4. more[i - Len(events)].sequence = nextSequence + (i - Len(events)) - 1
      BY <1>3, <3>1
    <3>. QED
      BY <1>1, <1>4, <3>3, <3>4 DEF First
  <2>. QED
    BY <2>1, <2>2
<1>. QED
  BY <1>1, <1>3, <1>4, <1>5, <1>6 DEF LogIsTail

\* Whatever happens, the log stays the end of what was recorded, and typed.
LEMMA TailStays ==
    ASSUME StoreAssumption, WatchAssumption, TypeOK, LogIsTail,
           NameOfHeld, compactedBelow \in Nat, [WatchNext]_watchVars
    PROVE  TypeOK' /\ LogIsTail' /\ nextSequence' >= nextSequence /\ First' >= First
<1>1. nextSequence \in Nat /\ Len(events) \in Nat /\ First \in Int
  BY DEF TypeOK, First
<1>2. CASE UNCHANGED <<vars, compactedBelow>>
  BY <1>1, <1>2, NextType DEF vars, storeVars, LogIsTail, First
<1>3. CASE StoreStep
  <2>1. Next /\ compactedBelow' = compactedBelow
    BY <1>3 DEF StoreStep, consumerVars, keeperVars
  <2>2. LogGrows
    BY <2>1, StoreAppends DEF LogIsTail
  <2>. QED
    BY <1>1, <2>1, <2>2, NextType, GrownIsTail
<1>4. ASSUME NEW k \in 1..MaxKeep, Compact(k)
      PROVE  TypeOK' /\ LogIsTail' /\ nextSequence' >= nextSequence /\ First' >= First
  <2>1. k \in Nat
    BY <1>4
  <2>2. events' \in Seq(Event) /\ LogIsTail' /\ First' = First + Before(k)
    BY <1>4, <2>1, CompactedIsTail
  <2>4. Before(k) \in Nat
    BY <2>1, ReadingTheTail
  <2>3. TypeOK'
    BY <1>4, <2>2
    DEF Compact, TypeOK, clientVars, Allocated, Task, Handle
  <2>. QED
    BY <1>1, <1>4, <2>2, <2>3, <2>4 DEF Compact
<1>5. CASE KeeperStep
  BY <1>2, <1>4, <1>5 DEF KeeperStep, Register, Advance, Expel
<1>. QED
  BY <1>2, <1>3, <1>5
  DEF WatchNext, Refresh, RebuildInformer, Pull, SaveCursor, CrashWatcher,
      watchVars, consumerVars, keeperVars

-----------------------------------------------------------------------------
(* Replaying events over a view of the store.                              *)

View == [tasks : Views, nodes : SUBSET NodeNames]

PhaseOf(n) == heap[tasks[n]].phase

\* What one event makes of a view, name by name.
LEMMA ApplyByName ==
    ASSUME TypeOK, NEW view \in View, NEW e \in Event, Fits(e)
    PROVE  /\ Apply(view, e) \in View
           /\ \A n \in Names :
                 Apply(view, e).tasks[n] =
                     IF e.name = n /\ e.kind \in {"task-added", "task-updated"}
                                   /\ Held(n)
                     THEN PhaseOf(n)
                     ELSE IF e.name = n /\ e.kind = "task-removed" THEN Unknown
                     ELSE view.tasks[n]
           /\ \A m \in NodeNames :
                 m \in Apply(view, e).nodes <=>
                     IF e.name = m /\ e.kind \in {"node-added", "node-removed"}
                     THEN e.kind = "node-added" ELSE m \in view.nodes
<1>1. view.tasks \in Views /\ view.nodes \in SUBSET NodeNames
  BY DEF View
<1>2. view = [tasks |-> view.tasks, nodes |-> view.nodes]
  BY DEF View
<1>3. CASE e.kind \in {"task-added", "task-updated"}
  <2>1. e.name \in Names
    BY <1>3 DEF Fits, TaskKinds
  <2>2. CASE Held(e.name)
    <3>1. PhaseOf(e.name) \in Phases
      BY <2>1, <2>2 DEF PhaseOf, TypeOK, Held, Task
    <3>2. Apply(view, e) = [view EXCEPT !.tasks[e.name] = PhaseOf(e.name)]
      BY <1>3, <2>2 DEF Apply, PhaseOf
    <3>3. /\ Apply(view, e).tasks = [view.tasks EXCEPT ![e.name] = PhaseOf(e.name)]
          /\ Apply(view, e).nodes = view.nodes
          /\ Apply(view, e) = [tasks |-> Apply(view, e).tasks,
                               nodes |-> Apply(view, e).nodes]
      BY <1>2, <3>2
    <3>4. Apply(view, e) \in View
      BY <1>1, <3>1, <3>3 DEF View, Views
    <3>. QED
      BY <1>1, <1>3, <2>1, <2>2, <3>3, <3>4 DEF Views
  <2>3. CASE ~Held(e.name)
    <3>1. Apply(view, e) = view
      BY <1>3, <2>3 DEF Apply
    <3>. QED
      BY <1>3, <2>3, <3>1
  <2>. QED
    BY <2>2, <2>3
<1>4. CASE e.kind = "task-removed"
  <2>1. e.name \in Names
    BY <1>4 DEF Fits, TaskKinds
  <2>2. Apply(view, e) = [view EXCEPT !.tasks[e.name] = Unknown]
    BY <1>4 DEF Apply
  <2>3. /\ Apply(view, e).tasks = [view.tasks EXCEPT ![e.name] = Unknown]
        /\ Apply(view, e).nodes = view.nodes
        /\ Apply(view, e) = [tasks |-> Apply(view, e).tasks,
                             nodes |-> Apply(view, e).nodes]
    BY <1>2, <2>2
  <2>4. Apply(view, e) \in View
    BY <1>1, <2>3 DEF View, Views
  <2>. QED
    BY <1>1, <1>4, <2>1, <2>3, <2>4 DEF Views
<1>5. CASE e.kind \in {"node-added", "node-removed"}
  <2>1. e.name \in NodeNames
    BY <1>5 DEF Fits, TaskKinds
  <2>2. /\ Apply(view, e).tasks = view.tasks
        /\ Apply(view, e).nodes = IF e.kind = "node-added"
                                  THEN view.nodes \cup {e.name}
                                  ELSE view.nodes \ {e.name}
        /\ Apply(view, e) = [tasks |-> Apply(view, e).tasks,
                             nodes |-> Apply(view, e).nodes]
    <3>1. CASE e.kind = "node-added"
      BY <1>2, <3>1 DEF Apply
    <3>2. CASE e.kind = "node-removed"
      BY <1>2, <3>2 DEF Apply
    <3>. QED
      BY <1>5, <3>1, <3>2
  <2>3. Apply(view, e) \in View
    BY <1>1, <2>1, <2>2 DEF View
  <2>. QED
    BY <1>5, <2>2, <2>3
<1>6. e.kind \in Kinds
  BY DEF Event
<1>. QED
  BY <1>3, <1>4, <1>5, <1>6 DEF Kinds

\* refresh takes the events one by one.
LEMMA ReplayGoesRight ==
    ASSUME TypeOK, NEW view \in View, NEW q \in Nat, Since(q) \in Seq(Event),
           \A j \in 1..Len(Since(q)) : Fits(Since(q)[j])
    PROVE  \E f \in [0..Len(Since(q)) -> View] :
              /\ f[0] = view
              /\ \A i \in 1..Len(Since(q)) : f[i] = Apply(f[i - 1], Since(q)[i])
              /\ Replay(view, q) = f[Len(Since(q))]
<1>. DEFINE trail == Since(q)
            n == Len(trail)
            step == [p \in (1..n) \X View |-> Apply(p[2], trail[p[1]])]
            Right(h) == h = [s \in SUBSET (1..n) |->
                               IF s = {} THEN view
                               ELSE Apply(h[s \ {Max(s)}], trail[Max(s)])]
            iter == CHOOSE h : Right(h)
<1>1. n \in Nat /\ DOMAIN trail = 1..n /\ \A i \in 1..n : trail[i] \in Event /\ Fits(trail[i])
  OBVIOUS
<1>2. ASSUME NEW i \in 1..n, NEW v \in View PROVE Apply(v, trail[i]) \in View
  <2>. HIDE DEF trail, n
  <2>. QED
    BY <1>1, ApplyByName
<1>3. \A i \in 1..n : \A v \in View : step[<<i, v>>] = Apply(v, trail[i])
  <2>. HIDE DEF trail, n
  <2>. QED
    OBVIOUS
<1>4. PICK g : IsLeftFold(n, View, view, step, g)
  <2>1. \A i \in 1..n : \A v \in View : step[<<i, v>>] \in View
    BY <1>2, <1>3
  <2>2. n \in Nat
    BY <1>1
  <2>. HIDE DEF step, n
  <2>. QED
    BY ONLY <2>1, <2>2, view \in View, LeftFoldExists
<1>5. Right(g)
  <2>1. ASSUME NEW s \in SUBSET (1..n), s # {}
        PROVE  g[s] = Apply(g[s \ {Max(s)}], trail[Max(s)])
    <3>1. Max(s) \in 1..n /\ s \ {Max(s)} \in SUBSET (1..n)
      BY <1>4, <2>1 DEF IsLeftFold
    <3>2. g[s \ {Max(s)}] \in View
      BY <1>4, <3>1 DEF IsLeftFold
    <3>3. g[s] = step[<<Max(s), g[s \ {Max(s)}]>>]
      BY <1>4, <2>1 DEF IsLeftFold
    <3>. HIDE DEF n, step, trail
    <3>. QED
      BY <1>3, <3>1, <3>2, <3>3
  <2>. HIDE DEF n, step, trail
  <2>. QED
    BY <1>4, <2>1 DEF IsLeftFold
<1>6. Right(iter)
  BY <1>5
<1>7. Replay(view, q) = iter[1..n]
  BY <1>1 DEF Replay, FoldLeft, MapThenFoldSet
<1>. DEFINE f == [i \in 0..n |-> iter[1..i]]
<1>. HIDE DEF iter, n, trail
<1>8. ASSUME NEW i \in 1..n
      PROVE  iter[1..i] = Apply(iter[1..(i - 1)], trail[i])
  <2>1. /\ 1..i # {} /\ Max(1..i) = i
        /\ (1..i) \ {Max(1..i)} = 1..(i - 1)
    BY LastOfPrefix
  <2>2. 1..i \in SUBSET (1..n)
    BY <1>1
  <2>. QED
    BY <1>6, <2>1, <2>2
<1>9. f[0] = view
  <2>1. 0 \in 0..n /\ 1..0 = {}
    BY <1>1
  <2>. QED
    BY <1>6, <2>1
<1>10. \A i \in 1..n : f[i] = Apply(f[i - 1], trail[i])
  <2>1. \A i \in 1..n : i \in 0..n /\ i - 1 \in 0..n
    BY <1>1
  <2>. QED
    BY <1>8, <2>1
<1>11. \A i \in 0..n : f[i] \in View
  <2>. DEFINE G == {i \in 0..n : f[i] \in View}
  <2>1. 0 \in G
    <3>. HIDE DEF f
    <3>. QED
      BY <1>1, <1>9
  <2>2. ASSUME NEW i \in 1..n, i - 1 \in G PROVE i \in G
    <3>1. f[i - 1] \in View /\ i \in 0..n
      BY <1>1, <2>2
    <3>. HIDE DEF f
    <3>2. f[i] \in View
      BY <1>2, <1>10, <3>1
    <3>. QED
      BY <3>1, <3>2
  <2>. HIDE DEF G, f
  <2>3. 0..n \subseteq G
    BY <1>1, <2>1, <2>2, UpTo
  <2>. QED
    BY <2>3 DEF G
<1>12. f \in [0..n -> View]
  BY <1>11
<1>13. Replay(view, q) = f[n]
  BY <1>1, <1>7
<1>. QED
  BY <1>9, <1>10, <1>12, <1>13 DEF n, trail

-----------------------------------------------------------------------------
(* A view agrees with the store up to what is still unread.                *)

Agrees(view, q) ==
    /\ \A n \in Names :
          /\ Held(n) <=> SaysTask(view.tasks[n] # Unknown, Since(q), Len(Since(q)), n)
          /\ Held(n) /\ n \notin dirty /\ Silent(Since(q), Len(Since(q)), n) =>
                view.tasks[n] = PhaseOf(n)
    /\ \A m \in NodeNames :
          m \in nodes <=> SaysNode(m \in view.nodes, Since(q), Len(Since(q)), m)

Exact(view) ==
    /\ view.nodes = nodes
    /\ \A n \in Names :
          /\ Held(n) <=> view.tasks[n] # Unknown
          /\ Held(n) /\ n \notin dirty => view.tasks[n] = PhaseOf(n)

\* With nothing left to read it agrees exactly, and the other way round.
LEMMA NothingUnread ==
    ASSUME TypeOK, NEW view \in View, NEW q, Since(q) \in Seq(Event), Len(Since(q)) = 0
    PROVE  Agrees(view, q) <=> Exact(view)
<1>. DEFINE known0(n) == view.tasks[n] # Unknown
            there0(m) == m \in view.nodes
<1>1. ASSUME NEW n
      PROVE  SaysTask(known0(n), Since(q), 0, n) <=> known0(n)
  <2>. DEFINE b == known0(n)
  <2>1. b \in BOOLEAN
    OBVIOUS
  <2>. HIDE DEF b
  <2>2. SaysTask(b, Since(q), 0, n) <=> b
    BY <2>1, SaysNothing DEF SaysTask
  <2>. QED
    BY <2>2 DEF b
<1>2. ASSUME NEW m
      PROVE  SaysNode(there0(m), Since(q), 0, m) <=> there0(m)
  <2>. DEFINE b == there0(m)
  <2>1. b \in BOOLEAN
    OBVIOUS
  <2>. HIDE DEF b
  <2>2. SaysNode(b, Since(q), 0, m) <=> b
    BY <2>1, SaysNothing DEF SaysNode
  <2>. QED
    BY <2>2 DEF b
<1>3. \A n : Silent(Since(q), 0, n)
  BY DEF Silent
<1>4. (\A m \in NodeNames : m \in nodes <=> m \in view.nodes) <=> view.nodes = nodes
  BY DEF View, TypeOK
<1>. QED
  BY <1>1, <1>2, <1>3, <1>4 DEF Agrees, Exact

\* Replaying what is unread makes it exact: names, nodes, and the phase of every
\* task no one has edited in place.
LEMMA ReplayIsExact ==
    ASSUME WatchAssumption, TypeOK, LogIsTail, NEW view \in View, NEW q \in Nat,
           Agrees(view, q)
    PROVE  Replay(view, q) \in View /\ Exact(Replay(view, q))
<1>. DEFINE trail == Since(q)
            L == Len(trail)
<1>1. /\ trail \in Seq(Event) /\ L \in Nat
      /\ \A j \in 1..L : trail[j] \in Event /\ Fits(trail[j])
  <2>1. /\ Before(q) \in 0..Len(events) /\ trail \in Seq(Event)
        /\ L = Len(events) - Before(q)
        /\ \A j \in 1..L : trail[j] = events[Before(q) + j]
    BY ReadingTheTail
  <2>2. Len(events) \in Nat /\ DOMAIN events = 1..Len(events)
    BY DEF TypeOK
  <2>3. \A j \in 1..L : Before(q) + j \in 1..Len(events)
    BY <2>1, <2>2
  <2>4. \A j \in 1..L : Fits(trail[j])
    BY <2>1, <2>2, <2>3 DEF LogIsTail
  <2>. QED
    BY <2>1, <2>4
<1>2. PICK f \in [0..L -> View] :
         /\ f[0] = view
         /\ \A i \in 1..L : f[i] = Apply(f[i - 1], trail[i])
         /\ Replay(view, q) = f[L]
  BY <1>1, ReplayGoesRight
<1>. HIDE DEF trail, L
<1>3. ASSUME NEW i \in 1..L
      PROVE  /\ i \in Nat \ {0} /\ i \in 0..L /\ i - 1 \in 0..L
             /\ f[i - 1] \in View /\ trail[i] \in Event /\ Fits(trail[i])
             /\ f[i] = Apply(f[i - 1], trail[i])
  BY <1>1, <1>2
<1>4. ASSUME NEW n \in Names
      PROVE  /\ Held(n) <=> f[L].tasks[n] # Unknown
             /\ Held(n) /\ n \notin dirty => f[L].tasks[n] = PhaseOf(n)
  <2>. DEFINE b == view.tasks[n] # Unknown
  <2>1. b \in BOOLEAN /\ (b <=> view.tasks[n] # Unknown)
    OBVIOUS
  <2>2. Held(n) <=> SaysTask(b, trail, L, n)
    BY DEF Agrees, trail, L
  <2>3. Held(n) /\ n \notin dirty /\ Silent(trail, L, n) => view.tasks[n] = PhaseOf(n)
    BY DEF Agrees, trail, L
  <2>. HIDE DEF b
  <2>. DEFINE GoodUpTo(i) ==
          /\ Held(n) /\ SaysTask(b, trail, i, n) => f[i].tasks[n] # Unknown
          /\ ~Held(n) /\ ~SaysTask(b, trail, i, n) => f[i].tasks[n] = Unknown
          /\ Held(n) /\ SaysTask(b, trail, i, n) /\ ~Silent(trail, i, n) =>
                f[i].tasks[n] = PhaseOf(n)
          /\ Silent(trail, i, n) => f[i].tasks[n] = view.tasks[n]
  <2>4. GoodUpTo(0)
    <3>1. SaysTask(b, trail, 0, n) <=> b
      BY <2>1, SaysNothing DEF SaysTask
    <3>2. Silent(trail, 0, n)
      BY DEF Silent
    <3>. QED
      BY <1>2, <2>1, <3>1, <3>2
  <2>5. ASSUME NEW i \in 1..L, GoodUpTo(i - 1) PROVE GoodUpTo(i)
    <3>. DEFINE e == trail[i]
    <3>1. f[i].tasks[n] =
             IF e.name = n /\ e.kind \in {"task-added", "task-updated"} /\ Held(n)
             THEN PhaseOf(n)
             ELSE IF e.name = n /\ e.kind = "task-removed" THEN Unknown
             ELSE f[i - 1].tasks[n]
      BY <1>3, ApplyByName
    <3>2. SaysTask(b, trail, i, n) <=>
             IF e.name = n /\ e.kind \in {"task-added", "task-removed"}
             THEN e.kind = "task-added" ELSE SaysTask(b, trail, i - 1, n)
      <4>1. "task-added" # "task-removed"
        OBVIOUS
      <4>. QED
        BY <1>3, <2>1, <4>1, SaysOneMore DEF SaysTask
    <3>3. Silent(trail, i, n) <=>
             Silent(trail, i - 1, n) /\ ~(e.kind \in TaskKinds /\ e.name = n)
      BY <1>3 DEF Silent
    <3>4. Held(n) => PhaseOf(n) # Unknown
      <4>1. ASSUME Held(n) PROVE PhaseOf(n) \in Phases
        BY <4>1 DEF PhaseOf, TypeOK, Held, Task
      <4>. QED
        BY <4>1 DEF WatchAssumption
    <3>. HIDE DEF e
    <3>. QED
      BY <2>5, <3>1, <3>2, <3>3, <3>4 DEF TaskKinds
  <2>6. GoodUpTo(L)
    <3>. DEFINE G == {i \in 0..L : GoodUpTo(i)}
    <3>1. 0 \in G
      BY <1>1, <2>4
    <3>2. \A i \in 1..L : i - 1 \in G => i \in G
      BY <1>3, <2>5
    <3>3. 0..L \subseteq G
      <4>. HIDE DEF G
      <4>. QED
        BY <1>1, <3>1, <3>2, UpTo
    <3>. QED
      BY <1>1, <3>3
  <2>. QED
    BY <2>2, <2>3, <2>6
<1>5. ASSUME NEW m \in NodeNames
      PROVE  m \in f[L].nodes <=> m \in nodes
  <2>. DEFINE b == m \in view.nodes
  <2>1. b \in BOOLEAN /\ (b <=> m \in view.nodes)
    OBVIOUS
  <2>2. m \in nodes <=> SaysNode(b, trail, L, m)
    BY DEF Agrees, trail, L
  <2>. HIDE DEF b
  <2>. DEFINE G == {i \in 0..L : m \in f[i].nodes <=> SaysNode(b, trail, i, m)}
  <2>3. 0 \in G
    BY <1>1, <1>2, <2>1, SaysNothing DEF SaysNode
  <2>4. ASSUME NEW i \in 1..L, i - 1 \in G PROVE i \in G
    <3>1. m \in f[i].nodes <=>
             IF trail[i].name = m /\ trail[i].kind \in {"node-added", "node-removed"}
             THEN trail[i].kind = "node-added" ELSE m \in f[i - 1].nodes
      BY <1>3, ApplyByName
    <3>2. SaysNode(b, trail, i, m) <=>
             IF trail[i].name = m /\ trail[i].kind \in {"node-added", "node-removed"}
             THEN trail[i].kind = "node-added" ELSE SaysNode(b, trail, i - 1, m)
      <4>1. "node-added" # "node-removed"
        OBVIOUS
      <4>. QED
        BY <1>3, <2>1, <4>1, SaysOneMore DEF SaysNode
    <3>. QED
      BY <1>3, <2>4, <3>1, <3>2
  <2>5. 0..L \subseteq G
    <3>. HIDE DEF G
    <3>. QED
      BY <1>1, <2>3, <2>4, UpTo
  <2>. QED
    BY <1>1, <2>2, <2>5
<1>6. f[L] \in View
  BY <1>1, <1>2
<1>7. f[L].nodes = nodes
  BY <1>5, <1>6 DEF View, TypeOK
<1>. QED
  BY <1>2, <1>4, <1>6, <1>7 DEF Exact

-----------------------------------------------------------------------------
(* Writes, compaction and reading keep a view in agreement.                *)

\* What ReadingTheTail says, of this state and so of the next.
Reads(q) ==
    /\ Before(q) \in 0..Len(events)
    /\ Since(q) \in Seq(Event)
    /\ Len(Since(q)) = Len(events) - Before(q)
    /\ \A j \in 1..(Len(events) - Before(q)) :
          Since(q)[j] = events[Before(q) + j]
    /\ After(q) = IF q < nextSequence /\ Len(events) # 0 THEN nextSequence ELSE q

ReadsWell == \A q \in Nat : TypeOK /\ LogIsTail => Reads(q)

\* Reading works in every state,
LEMMA ReadsNow == ReadsWell
PROOF BY ReadingTheTail DEF ReadsWell, Reads

\* and so in the next.
LEMMA ReadsNext == ReadsWell'
PROOF BY ReadsNow, PTL

\* A reader that stands inside the log sees what a write adds at its end.
LEMMA SinceGrows ==
    ASSUME TypeOK, TypeOK', LogIsTail, LogIsTail', NEW q \in Nat, q <= nextSequence,
           NEW more \in Seq(Event), Adds(more), First' = First
    PROVE  Since(q) \in Seq(Event) /\ Since(q)' = Since(q) \o more
<1>1. Reads(q) /\ Reads(q)'
  BY ReadsNow, ReadsNext DEF ReadsWell
<1>2. /\ events' = events \o more /\ events \in Seq(Event) /\ Len(events) \in Nat
      /\ nextSequence' = nextSequence + Len(more) /\ Len(more) \in Nat
      /\ nextSequence \in Nat
  BY DEF Adds, TypeOK
<1>3. /\ Len(events') = Len(events) + Len(more)
      /\ \A i \in 1..Len(events) : events'[i] = events[i]
      /\ \A i \in 1..Len(more) : events'[Len(events) + i] = more[i]
  BY <1>2
<1>4. Before(q)' = Before(q)
  BY <1>2, <1>3 DEF Before, First, LogIsTail
<1>. DEFINE old == Since(q)
            new == Since(q)'
            b == Before(q)
<1>5. /\ old \in Seq(Event) /\ Len(old) = Len(events) - b /\ b \in 0..Len(events)
      /\ \A j \in 1..(Len(events) - b) : old[j] = events[b + j]
  BY <1>1 DEF Reads
<1>6. /\ new \in Seq(Event) /\ Len(new) = Len(events') - b
      /\ \A j \in 1..(Len(events') - b) : new[j] = events'[b + j]
  BY <1>1, <1>4 DEF Reads
<1>. HIDE DEF old, new, b
<1>. DEFINE both == old \o more
<1>10. old \in Seq(Event) /\ new \in Seq(Event)
  BY <1>5, <1>6
<1>11. /\ both \in Seq(Event) /\ Len(both) = Len(old) + Len(more)
       /\ \A j \in 1..Len(old) : both[j] = old[j]
       /\ \A j \in 1..Len(more) : both[Len(old) + j] = more[j]
  BY <1>10
<1>. HIDE DEF both
<1>7. Len(new) = Len(old) + Len(more) /\ Len(old) \in Nat
  BY <1>2, <1>3, <1>5, <1>6
<1>8. ASSUME NEW j \in 1..Len(new) PROVE new[j] = both[j]
  <2>1. CASE j <= Len(old)
    <3>1. b + j \in 1..Len(events) /\ j \in 1..(Len(events) - b)
      BY <1>2, <1>5, <1>7, <2>1
    <3>2. new[j] = events[b + j] /\ old[j] = events[b + j]
      BY <1>2, <1>3, <1>5, <1>6, <3>1
    <3>. QED
      BY <1>7, <1>11, <2>1, <3>2
  <2>2. CASE j > Len(old)
    <3>1. /\ j - Len(old) \in 1..Len(more)
          /\ b + j = Len(events) + (j - Len(old))
      BY <1>2, <1>5, <1>7, <2>2
    <3>2. new[j] = more[j - Len(old)]
      <4>1. j \in 1..(Len(events') - b)
        BY <1>6
      <4>2. new[j] = events'[b + j]
        BY <1>6, <4>1
      <4>. QED
        BY <1>3, <3>1, <4>2
    <3>. QED
      <4>1. both[Len(old) + (j - Len(old))] = more[j - Len(old)]
        BY <1>11, <3>1
      <4>2. Len(old) + (j - Len(old)) = j
        BY <1>7
      <4>. QED
        BY <3>2, <4>1, <4>2
  <2>. QED
    BY <1>7, <2>1, <2>2
<1>9. new = old \o more
  <2>1. Len(both) = Len(new)
    BY <1>7, <1>11
  <2>2. new = both
    BY <1>8, <1>10, <1>11, <2>1, SeqEqual
  <2>. QED
    BY <2>2 DEF both
<1>. QED
  BY <1>10, <1>9 DEF old, new

\* A write is told to whoever has not read it yet.
LEMMA AgreesAfterWrite ==
    ASSUME TypeOK, TypeOK', LogIsTail, LogIsTail', NEW q \in Nat, q <= nextSequence,
           LogGrows, First' = First, NEW view, Agrees(view, q)
    PROVE  Agrees(view, q)'
<1>1. PICK more \in Seq(Event) : Adds(more)
  BY DEF LogGrows
<1>2. Since(q) \in Seq(Event) /\ Since(q)' = Since(q) \o more
  BY <1>1, SinceGrows
<1>. DEFINE s == Since(q)
            L == Len(s)
            M == Len(more)
            new == s \o more
<1>3. /\ s \in Seq(Event) /\ L \in Nat /\ M \in Nat /\ Len(new) = L + M
      /\ \A i \in 1..L : new[i] = s[i]
      /\ \A i \in 1..M : new[L + i] = more[i]
  BY <1>2
<1>4. Since(q)' = new /\ Len(Since(q)') = L + M
  BY <1>2, <1>3
<1>. HIDE DEF new, s, L, M
<1>5. /\ "task-added" # "task-removed" /\ "node-added" # "node-removed"
  OBVIOUS
<1>6. ASSUME NEW b \in BOOLEAN, NEW x
      PROVE  /\ SaysTask(b, new, L + M, x) <=> SaysTask(SaysTask(b, s, L, x), more, M, x)
             /\ SaysNode(b, new, L + M, x) <=> SaysNode(SaysNode(b, s, L, x), more, M, x)
  BY <1>3, <1>5, SaysInTurn DEF SaysTask, SaysNode, new, L, M
<1>7. ASSUME NEW x, Silent(new, L + M, x)
      PROVE  Silent(s, L, x) /\ Silent(more, M, x)
  <2>1. \A j \in 1..L : j \in 1..(L + M) /\ new[j] = s[j]
    BY <1>3
  <2>2. \A j \in 1..M : L + j \in 1..(L + M) /\ new[L + j] = more[j]
    BY <1>3
  <2>. QED
    BY <1>7, <2>1, <2>2 DEF Silent
<1>8. ASSUME NEW n \in Names
      PROVE  /\ Held(n)' <=> SaysTask(view.tasks[n] # Unknown, new, L + M, n)
             /\ Held(n)' /\ n \notin dirty' /\ Silent(new, L + M, n) =>
                   view.tasks[n] = PhaseOf(n)'
  <2>. DEFINE b == view.tasks[n] # Unknown
              h == Held(n)
              said == SaysTask(b, s, L, n)
  <2>1. b \in BOOLEAN /\ h \in BOOLEAN /\ said \in BOOLEAN
    BY DEF Held, SaysTask, Says
  <2>2. h <=> said
    BY DEF Agrees, s, L
  <2>3. h = said
    BY <2>1, <2>2
  <2>4. /\ Held(n)' <=> SaysTask(h, more, M, n)
        /\ Silent(more, M, n) =>
              /\ tasks'[n] = tasks[n]
              /\ Held(n) /\ n \notin dirty' =>
                    n \notin dirty /\ heap'[tasks[n]].phase = heap[tasks[n]].phase
    BY <1>1 DEF Adds, TellsTasks, M
  <2>5. Held(n) /\ n \notin dirty /\ Silent(s, L, n) => view.tasks[n] = PhaseOf(n)
    BY DEF Agrees, s, L
  <2>6. SaysTask(b, new, L + M, n) <=> SaysTask(said, more, M, n)
    <3>. HIDE DEF b
    <3>. QED
      BY <1>6, <2>1
  <2>7. Held(n)' <=> SaysTask(b, new, L + M, n)
    <3>. HIDE DEF b, h, said
    <3>. QED
      BY <2>3, <2>4, <2>6
  <2>8. ASSUME Held(n)', n \notin dirty', Silent(new, L + M, n)
        PROVE  view.tasks[n] = PhaseOf(n)'
    <3>1. Silent(s, L, n) /\ Silent(more, M, n)
      BY <1>7, <2>8
    <3>2. Held(n)
      BY <2>4, <2>8, <3>1 DEF Held
    <3>. QED
      BY <2>4, <2>5, <2>8, <3>1, <3>2 DEF PhaseOf
  <2>. QED
    BY <2>7, <2>8
<1>9. ASSUME NEW m \in NodeNames
      PROVE  m \in nodes' <=> SaysNode(m \in view.nodes, new, L + M, m)
  <2>. DEFINE b == m \in view.nodes
              h == m \in nodes
              said == SaysNode(b, s, L, m)
  <2>1. b \in BOOLEAN /\ h \in BOOLEAN /\ said \in BOOLEAN
    <3>1. b \in BOOLEAN /\ h \in BOOLEAN
      OBVIOUS
    <3>. HIDE DEF b
    <3>. QED
      BY <3>1 DEF SaysNode, Says
  <2>2. h <=> said
    BY DEF Agrees, s, L
  <2>3. h = said
    BY <2>1, <2>2
  <2>4. m \in nodes' <=> SaysNode(h, more, M, m)
    BY <1>1 DEF Adds, TellsNodes, M
  <2>5. SaysNode(b, new, L + M, m) <=> SaysNode(said, more, M, m)
    <3>. HIDE DEF b
    <3>. QED
      BY <1>6, <2>1
  <2>. HIDE DEF b, h, said
  <2>6. m \in nodes' <=> SaysNode(b, new, L + M, m)
    BY <2>3, <2>4, <2>5
  <2>. QED
    BY <2>6 DEF b
<1>. QED
  BY <1>4, <1>8, <1>9 DEF Agrees

\* Compaction takes nothing from a reader that stands behind the line.
LEMMA AgreesAfterCompact ==
    ASSUME TypeOK, LogIsTail, compactedBelow \in Nat, NEW k \in Nat, Compact(k),
           NEW q \in Nat, First' <= q, NEW view, Agrees(view, q),
           TypeOK'
    PROVE  Agrees(view, q)'
<1>1. /\ events' \in Seq(Event) /\ LogIsTail'
      /\ Len(events') = Len(events) - Before(k)
      /\ \A j \in 1..Len(events') : events'[j] = events[Before(k) + j]
      /\ First' = First + Before(k)
  BY CompactedIsTail
<1>2. Reads(q) /\ Reads(q)' /\ Reads(k)
  BY <1>1, ReadsNow, ReadsNext DEF ReadsWell
<1>3. /\ nextSequence' = nextSequence /\ nextSequence \in Nat
      /\ Len(events) \in Nat /\ Before(k) \in 0..Len(events)
  BY <1>2 DEF Compact, TypeOK, Reads
<1>4. Before(k) + Before(q)' = Before(q)
  <2>. DEFINE F == First
              L == Len(events)
              N == nextSequence
              G == First'
              M == Len(events')
  <2>1. /\ F = N - L /\ G = F + Before(k) /\ M = L - Before(k)
        /\ N \in Nat /\ L \in Nat /\ Before(k) \in 0..L /\ G <= q
    BY <1>1, <1>3 DEF First
  <2>2. Before(q)' = IF q <= G THEN 0 ELSE IF q >= N THEN M ELSE q - G
    BY <1>3 DEF Before
  <2>3. Before(q) = IF q <= F THEN 0 ELSE IF q >= N THEN L ELSE q - F
    BY DEF Before
  <2>. HIDE DEF F, L, N, G, M
  <2>. QED
    BY <2>1, <2>2, <2>3
<1>. DEFINE old == Since(q)
            new == Since(q)'
            b == Before(q)
            c == Before(q)'
<1>5. /\ old \in Seq(Event) /\ Len(old) = Len(events) - b /\ b \in 0..Len(events)
      /\ \A j \in 1..(Len(events) - b) : old[j] = events[b + j]
  BY <1>2 DEF Reads
<1>6. /\ new \in Seq(Event) /\ Len(new) = Len(events') - c /\ c \in 0..Len(events')
      /\ \A j \in 1..(Len(events') - c) : new[j] = events'[c + j]
  BY <1>2 DEF Reads
<1>. HIDE DEF old, new, b, c
<1>11. b = Before(k) + c
  BY <1>4 DEF b, c
<1>7. Len(new) = Len(old)
  BY <1>11, <1>1, <1>3, <1>4, <1>5, <1>6
<1>8. ASSUME NEW j \in 1..Len(new) PROVE new[j] = old[j]
  <2>1. c + j \in 1..Len(events') /\ Before(k) + (c + j) = b + j
    <3>1. j \in 1..(Len(events') - c) /\ c \in Nat /\ Len(events') \in Nat
      BY <1>1, <1>3, <1>6
    <3>. QED
      BY <1>3, <1>11, <3>1
  <2>2. events'[c + j] = events[b + j]
    BY <1>1, <2>1
  <2>. QED
    BY <1>5, <1>6, <1>7, <2>2
<1>9. Since(q)' = Since(q)
  <2>1. new = old
    BY <1>5, <1>6, <1>7, <1>8, SeqEqual
  <2>. QED
    BY <2>1 DEF old, new
<1>10. UNCHANGED <<tasks, heap, nodes, dirty>>
  BY DEF Compact
<1>. QED
  BY <1>9, <1>10 DEF Agrees, Held, PhaseOf

-----------------------------------------------------------------------------
(* The invariant of the consumers.                                         *)

\* A reader stands inside what was recorded, and comes back behind itself.
CursorsBehind ==
    /\ \A s \in Subscribers : cursor[s] <= nextSequence
    /\ Watcher \in Subscribers => saved <= cursor[Watcher]

\* Who registered in time still holds the keeper back.
SoundHolds ==
    \A s \in sound : /\ registered[s] # Unregistered
                     /\ registered[s] <= Reported(s)

ConsumerInv == SoundNeverStranded /\ CursorsBehind /\ SoundHolds

\* A subscriber is the informer or the watcher, and they are two.
LEMMA TwoSubscribers ==
    ASSUME WatchAssumption, Subscribers \in Crews, NEW s \in Subscribers
    PROVE  s \in {Informer, Watcher} /\ Informer # Watcher
PROOF BY DEF WatchAssumption, Informer, Watcher


\* What is read are typed events of tasks and nodes that exist in the model, and
\* none is newer than the store.
LEMMA SinceFits ==
    ASSUME TypeOK, LogIsTail, NEW q \in Nat
    PROVE  /\ Since(q) \in Seq(Event)
           /\ \A j \in 1..Len(Since(q)) :
                 /\ Since(q)[j] \in Event /\ Fits(Since(q)[j])
                 /\ Since(q)[j].sequence >= q /\ Since(q)[j].sequence >= First
                 /\ Since(q)[j].sequence < nextSequence
<1>1. Reads(q)
  BY ReadsNow DEF ReadsWell
<1>2. /\ Len(events) \in Nat /\ DOMAIN events = 1..Len(events)
      /\ nextSequence \in Nat /\ First \in Int
  BY DEF TypeOK, First
<1>3. ASSUME NEW j \in 1..Len(Since(q))
      PROVE  /\ Since(q)[j] \in Event /\ Fits(Since(q)[j])
             /\ Since(q)[j].sequence >= q /\ Since(q)[j].sequence >= First
             /\ Since(q)[j].sequence < nextSequence
  <2>. DEFINE i == Before(q) + j
  <2>1. i \in 1..Len(events) /\ i > Before(q) /\ Since(q)[j] = events[i]
    BY <1>1, <1>2 DEF Reads
  <2>. HIDE DEF i
  <2>2. events[i].sequence = First + i - 1 /\ Fits(events[i]) /\ events[i] \in Event
    BY SMTT(20), <1>2, <2>1 DEF LogIsTail, TypeOK
  <2>3. First + i - 1 >= q
    BY <1>2, <2>1 DEF Before, First
  <2>4. First + i - 1 < nextSequence /\ First + i - 1 >= First
    BY <1>2, <2>1 DEF First
  <2>. QED
    BY <2>1, <2>2, <2>3, <2>4
<1>. QED
  BY <1>1, <1>3 DEF Reads

\* Reading moves a cursor on, to the end of the log when nothing is missing.
LEMMA AfterMoves ==
    ASSUME TypeOK, LogIsTail, NEW q \in Nat, q <= nextSequence
    PROVE  /\ After(q) \in Nat /\ q <= After(q) /\ After(q) <= nextSequence
           /\ First <= q => After(q) = nextSequence
<1>1. Reads(q)
  BY ReadsNow DEF ReadsWell
<1>2. Len(events) \in Nat /\ nextSequence \in Nat
  BY DEF TypeOK
<1>. QED
  BY <1>1, <1>2 DEF Reads, First

\* A replayed view is a view.
LEMMA ReplayTyped ==
    ASSUME TypeOK, LogIsTail, NEW view \in View, NEW q \in Nat
    PROVE  Replay(view, q).tasks \in Views /\ Replay(view, q).nodes \in SUBSET NodeNames
<1>1. /\ Since(q) \in Seq(Event)
      /\ \A j \in 1..Len(Since(q)) : Fits(Since(q)[j])
  BY SinceFits
<1>2. PICK f \in [0..Len(Since(q)) -> View] : Replay(view, q) = f[Len(Since(q))]
  BY <1>1, ReplayGoesRight
<1>3. Len(Since(q)) \in 0..Len(Since(q))
  BY <1>1
<1>. QED
  BY <1>2, <1>3 DEF View

\* Subscriber r reads from q on: from where it stood, or rebuilt, from a start.
ReadsOn(r, q) ==
    /\ cursor' = [cursor EXCEPT ![r] = After(q)]
    /\ \/ /\ q = cursor[r] /\ sound' = sound
          /\ gapped' = IF Skips(q) THEN gapped \cup {r} ELSE gapped
       \/ /\ r # Watcher /\ sound' = sound \ {r}
          /\ gapped' = IF Skips(q) THEN gapped \cup {r} ELSE gapped \ {r}
    /\ UNCHANGED <<saved, registered, compactedBelow, nextSequence>>

\* A cursor that moves leaves the others where they are.
LEMMA CursorMoves ==
    ASSUME cursor \in [Subscribers -> 0..MaxSequence], NEW r \in Subscribers,
           NEW at \in 0..MaxSequence, cursor' = [cursor EXCEPT ![r] = at]
    PROVE  /\ Subscribers' = Subscribers /\ cursor' \in [Subscribers -> 0..MaxSequence]
           /\ cursor'[r] = at /\ \A s \in Subscribers : s # r => cursor'[s] = cursor[s]
<1>1. Subscribers' = Subscribers
  BY DEF Subscribers
<1>. QED
  BY <1>1

\* Whoever was sound and goes on reading stays sound.
LEMMA ReadingKeeps ==
    ASSUME StoreAssumption, WatchAssumption, TypeOK, LogIsTail, ConsumerInv,
           nextSequence <= MaxSequence, NEW r \in Subscribers, NEW q \in Nat,
           q <= nextSequence, ReadsOn(r, q),
           known' \in Views, knownNodes' \in SUBSET NodeNames,
           delivered' \in SUBSET (0..MaxSequence)
    PROVE  ConsumerInv'
<1>. USE DEF ConsumerInv, SoundNeverStranded
<1>1. /\ MaxSequence \in Nat /\ nextSequence' = nextSequence /\ nextSequence \in Nat
      /\ saved' = saved /\ registered' = registered
      /\ compactedBelow' = compactedBelow
  BY DEF ReadsOn, TypeOK, StoreAssumption
<1>2. /\ cursor \in [Subscribers -> 0..MaxSequence]
      /\ \A s \in Subscribers : cursor[s] \in Nat /\ cursor[s] <= nextSequence
  BY DEF WatchTypeOK, CursorsBehind
<1>3. After(q) \in Nat /\ After(q) >= q /\ After(q) <= nextSequence
  BY AfterMoves
<1>4. After(q) \in 0..MaxSequence
  BY <1>1, <1>3
<1>5. /\ Subscribers' = Subscribers /\ cursor'[r] = After(q)
      /\ \A s \in Subscribers : s # r => cursor'[s] = cursor[s]
      /\ cursor' \in [Subscribers -> 0..MaxSequence]
  BY <1>2, <1>4, CursorMoves DEF ReadsOn
<1>6. gapped' \in SUBSET Subscribers /\ sound' \in SUBSET Subscribers /\ sound' \subseteq sound
  BY DEF ReadsOn, WatchTypeOK
<1>7. WatchTypeOK'
  BY <1>1, <1>5, <1>6 DEF WatchTypeOK
<1>8. CursorsBehind'
  <2>1. Watcher \in Subscribers => saved <= cursor'[Watcher]
    <3>1. CASE r = Watcher
      <4>1. q = cursor[r] /\ saved <= cursor[r] /\ saved \in Nat
        BY <3>1 DEF ReadsOn, CursorsBehind, WatchTypeOK
      <4>. QED
        BY <1>3, <1>5, <3>1, <4>1
    <3>2. CASE r # Watcher
      BY <1>5, <3>2 DEF CursorsBehind
    <3>. QED
      BY <3>1, <3>2
  <2>. QED
    BY <1>1, <1>2, <1>3, <1>5, <2>1 DEF CursorsBehind
<1>9. ASSUME NEW s \in sound'
      PROVE  /\ s \notin gapped' /\ s \in sound /\ Reported(s)' >= Reported(s)
             /\ Reported(s) \in Nat /\ Reported(s)' \in Nat
  <2>1. /\ s \in sound /\ s \in Subscribers /\ s \notin gapped /\ saved \in Nat
        /\ compactedBelow \in Nat /\ Reported(s) >= compactedBelow
    BY <1>6 DEF WatchTypeOK, WatchAssumption
  <2>2. CASE s # r
    BY <1>1, <1>2, <1>5, <2>1, <2>2 DEF Reported, ReadsOn
  <2>3. CASE s = r
    <3>1. q = cursor[r] /\ gapped' = (IF Skips(q) THEN gapped \cup {r} ELSE gapped)
      BY <2>3 DEF ReadsOn
    <3>2. cursor[r] >= Reported(r) /\ Reported(r) \in Nat
      BY <1>2, <2>1, <2>3 DEF Reported, CursorsBehind
    <3>3. ~Skips(q)
      BY <1>2, <2>1, <2>3, <3>1, <3>2 DEF Skips
    <3>4. Reported(r)' >= Reported(r) /\ Reported(r)' \in Nat
      BY <1>1, <1>3, <1>5, <2>1, <3>1 DEF Reported
    <3>. QED
      BY <2>1, <2>3, <3>1, <3>2, <3>3, <3>4
  <2>. QED
    BY <2>2, <2>3
<1>10. \A s \in sound' : Reported(s)' >= compactedBelow'
  <2>1. compactedBelow \in Nat
    BY DEF WatchTypeOK, WatchAssumption
  <2>. QED
    BY <1>1, <1>9, <2>1
<1>11. SoundHolds'
  <2>. SUFFICES ASSUME NEW s \in sound'
                PROVE  registered'[s] # Unregistered /\ registered'[s] <= Reported(s)'
    BY <1>1 DEF SoundHolds, Unregistered
  <2>1. registered[s] # Unregistered /\ registered[s] <= Reported(s)
    BY <1>9 DEF SoundHolds
  <2>2. registered[s] \in Int
    BY <1>1, <1>6 DEF WatchTypeOK, Unregistered
  <2>. QED
    BY <1>1, <1>9, <2>1, <2>2
<1>. QED
  BY <1>7, <1>8, <1>9, <1>10, <1>11

\* The informer reads on, a rebuilt one reads from the start, the watcher pulls.
LEMMA ReadersKeep ==
    ASSUME StoreAssumption, WatchAssumption, TypeOK, LogIsTail, ConsumerInv,
           nextSequence <= MaxSequence, Refresh \/ RebuildInformer \/ Pull
    PROVE  ConsumerInv'
<1>1. /\ \A s \in Subscribers : cursor[s] \in Nat /\ cursor[s] <= nextSequence
      /\ nextSequence \in Nat /\ 0 <= nextSequence /\ MaxSequence \in Nat
  BY DEF ConsumerInv, SoundNeverStranded, WatchTypeOK, CursorsBehind, TypeOK,
     StoreAssumption
<1>2. WatchTypeOK
  BY DEF ConsumerInv, SoundNeverStranded
<1>3. CASE Refresh
  <2>1. Informer \in Subscribers /\ ReadsOn(Informer, cursor[Informer])
    BY <1>3 DEF Refresh, ReadsOn, watcherVars, keeperVars, vars, storeVars
  <2>2. [tasks |-> known, nodes |-> knownNodes] \in View
    BY <1>2 DEF View, WatchTypeOK
  <2>3. known' \in Views /\ knownNodes' \in SUBSET NodeNames
    BY <1>1, <1>3, <2>1, <2>2, ReplayTyped DEF Refresh
  <2>4. delivered' \in SUBSET (0..MaxSequence)
    BY <1>2, <1>3 DEF Refresh, WatchTypeOK, watcherVars
  <2>. QED
    BY <1>1, <2>1, <2>3, <2>4, ReadingKeeps
<1>4. CASE RebuildInformer
  <2>1. Informer \in Subscribers /\ ReadsOn(Informer, 0)
    BY <1>4 DEF RebuildInformer, ReadsOn, watcherVars, vars, storeVars, Informer, Watcher
  <2>2. Blank \in View
    BY DEF Blank, View, Views
  <2>3. known' \in Views /\ knownNodes' \in SUBSET NodeNames
    BY <1>4, <2>2, ReplayTyped DEF RebuildInformer
  <2>4. delivered' \in SUBSET (0..MaxSequence)
    BY <1>2, <1>4 DEF RebuildInformer, WatchTypeOK, watcherVars
  <2>. QED
    BY <1>1, <2>1, <2>3, <2>4, ReadingKeeps
<1>5. CASE Pull
  <2>1. Watcher \in Subscribers /\ ReadsOn(Watcher, cursor[Watcher])
    BY <1>5 DEF Pull, ReadsOn, keeperVars, vars, storeVars
  <2>2. known' \in Views /\ knownNodes' \in SUBSET NodeNames
    BY <1>2, <1>5 DEF Pull, WatchTypeOK, informerVars
  <2>3. delivered' \in SUBSET (0..MaxSequence)
    <3>. DEFINE q == cursor[Watcher]
    <3>1. /\ Since(q) \in Seq(Event)
          /\ \A j \in 1..Len(Since(q)) :
                /\ Since(q)[j] \in Event
                /\ Since(q)[j].sequence < nextSequence
      BY <1>1, <2>1, SinceFits
    <3>2. ASSUME NEW e \in ToSet(Since(q)) PROVE e.sequence \in 0..MaxSequence
      <4>1. PICK j \in 1..Len(Since(q)) : e = Since(q)[j]
        BY <3>1 DEF ToSet
      <4>. QED
        BY <1>1, <3>1, <4>1 DEF Event
    <3>. QED
      BY <1>2, <1>5, <3>2 DEF Pull, WatchTypeOK
  <2>. QED
    BY <1>1, <2>1, <2>2, <2>3, ReadingKeeps
<1>. QED
  BY <1>3, <1>4, <1>5

\* The keeper and the watcher's disk: who was sound is not stranded.
LEMMA KeepingKeeps ==
    ASSUME StoreAssumption, WatchAssumption, TypeOK, ConsumerInv,
           nextSequence <= MaxSequence,
           SaveCursor \/ CrashWatcher \/ KeeperStep
    PROVE  ConsumerInv'
<1>. USE DEF ConsumerInv, SoundNeverStranded
<1>1. /\ MaxSequence \in Nat /\ nextSequence' = nextSequence /\ nextSequence \in Nat
      /\ MaxKeep \in 0..MaxSequence /\ MaxKeep \in Nat /\ Unregistered \in Nat
      /\ saved \in Nat /\ compactedBelow \in Nat
  BY DEF TypeOK, StoreAssumption, WatchAssumption, SaveCursor, CrashWatcher, KeeperStep,
     Register, Advance, Expel, Compact, vars, storeVars, WatchTypeOK, Unregistered
<1>2. /\ cursor \in [Subscribers -> 0..MaxSequence]
      /\ \A s \in Subscribers : /\ cursor[s] \in Nat /\ cursor[s] <= nextSequence
                                /\ Reported(s) \in Nat /\ registered[s] \in Nat
      /\ sound \subseteq Subscribers
      /\ saved \in 0..MaxSequence /\ saved \in Nat
      /\ \A s \in Subscribers : Reported(s) \in 0..MaxSequence
  BY <1>1 DEF WatchTypeOK, CursorsBehind, Reported
<1>3. CASE SaveCursor
  <2>1. /\ Watcher \in Subscribers /\ saved' = cursor[Watcher] /\ saved <= saved'
        /\ UNCHANGED <<cursor, registered, compactedBelow, sound, gapped, known,
                       knownNodes, delivered>>
    BY <1>3 DEF SaveCursor, CursorsBehind, informerVars, keeperVars
  <2>2. Subscribers' = Subscribers /\ saved' \in 0..MaxSequence
    BY <1>2, <2>1 DEF Subscribers
  <2>3. WatchTypeOK' /\ CursorsBehind'
    BY <1>1, <1>2, <2>1, <2>2 DEF WatchTypeOK, CursorsBehind
  <2>4. \A s \in Subscribers : Reported(s)' \in Nat /\ Reported(s)' >= Reported(s)
    BY <1>1, <1>2, <2>1, <2>2 DEF Reported
  <2>. QED
    BY <1>1, <1>2, <2>1, <2>2, <2>3, <2>4 DEF SoundHolds, Unregistered
<1>4. CASE CrashWatcher
  <2>1. /\ Watcher \in Subscribers /\ saved' = saved /\ saved <= cursor[Watcher]
        /\ delivered' \subseteq delivered
        /\ cursor' = [cursor EXCEPT ![Watcher] = saved]
        /\ UNCHANGED <<registered, compactedBelow, sound, gapped, known, knownNodes>>
    BY <1>4 DEF CrashWatcher, CursorsBehind, informerVars, keeperVars
  <2>2. /\ Subscribers' = Subscribers /\ cursor'[Watcher] = saved
        /\ \A s \in Subscribers : s # Watcher => cursor'[s] = cursor[s]
        /\ cursor' \in [Subscribers -> 0..MaxSequence]
    BY <1>2, <2>1, CursorMoves
  <2>3. WatchTypeOK' /\ CursorsBehind'
    <3>1. saved <= nextSequence
      BY <1>1, <1>2, <2>1
    <3>2. WatchTypeOK'
      BY <2>1, <2>2 DEF WatchTypeOK
    <3>. QED
      BY <1>1, <1>2, <2>1, <2>2, <3>1, <3>2 DEF CursorsBehind
  <2>4. \A s \in Subscribers : Reported(s)' = Reported(s)
    BY <2>1, <2>2 DEF Reported
  <2>. QED
    BY <1>1, <1>2, <2>1, <2>2, <2>3, <2>4 DEF SoundHolds, Unregistered
<1>5. ASSUME NEW s \in Subscribers, Register(s) \/ Advance(s) \/ Expel(s)
      PROVE  ConsumerInv'
  <2>1. /\ UNCHANGED <<cursor, saved, delivered, compactedBelow, gapped, known, knownNodes>>
        /\ Subscribers' = Subscribers
    BY <1>5 DEF Register, Advance, Expel, informerVars, watcherVars, Subscribers
  <2>2. \A t \in Subscribers : Reported(t)' = Reported(t)
    BY <2>1 DEF Reported
  <2>3. \E v \in 0..MaxSequence \cup {Unregistered} :
           /\ registered' = [registered EXCEPT ![s] = v]
           /\ \/ v = Reported(s)
              \/ sound' = sound \ {s}
    BY <1>2, <1>5 DEF Register, Advance, Expel
  <2>4. PICK v \in 0..MaxSequence \cup {Unregistered} :
           /\ registered' = [registered EXCEPT ![s] = v]
           /\ \/ v = Reported(s)
              \/ sound' = sound \ {s}
    BY <2>3
  <2>5. registered \in [Subscribers -> 0..MaxSequence \cup {Unregistered}]
    BY DEF WatchTypeOK
  <2>6. /\ registered' \in [Subscribers -> 0..MaxSequence \cup {Unregistered}]
        /\ registered'[s] = v
        /\ \A t \in Subscribers : t # s => registered'[t] = registered[t]
    BY <2>4, <2>5
  <2>7. \A t \in sound' : \/ t \in sound
                          \/ t = s /\ s \notin gapped /\ Reported(s) >= compactedBelow
    BY <1>1, <1>2, <1>5 DEF Register, Advance, Expel
  <2>8. WatchTypeOK'
    BY <2>1, <2>6, <2>7 DEF WatchTypeOK
  <2>9. CursorsBehind'
    BY <1>1, <2>1 DEF CursorsBehind
  <2>10. SoundHolds'
    <3>. SUFFICES ASSUME NEW t \in sound'
                  PROVE  registered'[t] # Unregistered /\ registered'[t] <= Reported(t)'
      BY DEF SoundHolds, Unregistered
    <3>1. t \in Subscribers
      BY <2>1, <2>8 DEF WatchTypeOK
    <3>2. CASE t = s
      <4>1. v = Reported(s)
        BY <2>4, <3>2
      <4>2. v # Unregistered
        BY <1>1, <1>2, <4>1 DEF Unregistered
      <4>. QED
        BY <1>2, <2>2, <2>6, <3>1, <3>2, <4>1, <4>2
    <3>3. CASE t # s
      <4>1. t \in sound
        BY <2>7, <3>3
      <4>. QED
        BY <1>2, <2>2, <2>6, <3>1, <3>3, <4>1 DEF SoundHolds
    <3>. QED
      BY <3>2, <3>3
  <2>. QED
    BY <1>2, <2>1, <2>2, <2>7, <2>8, <2>9, <2>10
<1>6. ASSUME NEW k \in 1..MaxKeep, Compact(k)
      PROVE  ConsumerInv'
  <2>1. /\ UNCHANGED <<cursor, saved, delivered, registered, sound, gapped, known,
                       knownNodes>>
        /\ Subscribers' = Subscribers /\ compactedBelow' = k
        /\ \A s \in Subscribers : registered[s] >= k
    BY <1>6 DEF Compact, informerVars, watcherVars, Subscribers
  <2>2. k \in Nat /\ k \in 0..MaxKeep
    BY <1>1
  <2>3. \A s \in Subscribers : Reported(s)' = Reported(s)
    BY <2>1 DEF Reported
  <2>4. WatchTypeOK' /\ CursorsBehind'
    BY <1>1, <2>1, <2>2 DEF WatchTypeOK, CursorsBehind
  <2>5. SoundHolds'
    BY <1>2, <2>1, <2>3 DEF SoundHolds, Unregistered
  <2>6. ASSUME NEW s \in sound PROVE Reported(s) >= k
    <3>1. registered[s] >= k /\ registered[s] <= Reported(s)
      BY <1>2, <2>1 DEF SoundHolds
    <3>. QED
      BY <1>2, <2>2, <3>1
  <2>. QED
    BY <1>2, <2>1, <2>3, <2>4, <2>5, <2>6
<1>. QED
  BY <1>3, <1>4, <1>5, <1>6 DEF KeeperStep

\* A write of the store, or nothing: the readers keep their places.
LEMMA WritingKeeps ==
    ASSUME StoreAssumption, WatchAssumption, ConsumerInv, nextSequence \in Nat,
           nextSequence' \in Nat, nextSequence' >= nextSequence, UNCHANGED consumerVars
    PROVE  ConsumerInv'
<1>1. /\ UNCHANGED <<cursor, saved, delivered, registered, compactedBelow, sound, gapped,
                     known, knownNodes>>
      /\ Subscribers' = Subscribers
  BY DEF consumerVars, informerVars, watcherVars, keeperVars, Subscribers
<1>2. WatchTypeOK' /\ SoundHolds' /\ SoundNeverStranded'
  BY <1>1 DEF ConsumerInv, SoundNeverStranded, WatchTypeOK, SoundHolds, Reported,
     Unregistered
<1>3. \A s \in Subscribers : cursor[s] \in Nat
  BY DEF ConsumerInv, SoundNeverStranded, WatchTypeOK
<1>4. CursorsBehind'
  BY <1>1, <1>3 DEF ConsumerInv, CursorsBehind
<1>. QED
  BY <1>2, <1>4 DEF ConsumerInv

-----------------------------------------------------------------------------
(* The invariant of a watched store.                                       *)

Seen == [tasks |-> known, nodes |-> knownNodes]

SeenAgrees == Agrees(Seen, cursor[Informer])

\* An informer that missed nothing agrees with the store up to what is unread.
InformerKnows ==
    Informer \in Subscribers \ gapped /\ cursor[Informer] >= First => SeenAgrees

\* Before the first compaction a cold start can still read everything.
ColdStartWorks == compactedBelow = 0 => Agrees(Blank, 0)

ReadersInv == TypeOK /\ NameOfHeld /\ LogIsTail /\ ConsumerInv
WatchInv == ReadersInv /\ InformerKnows /\ ColdStartWorks

\* It holds of an empty store.
LEMMA WatchInvInit ==
    ASSUME StoreAssumption, WatchAssumption PROVE WatchInit => WatchInv
<1>. SUFFICES ASSUME WatchInit PROVE WatchInv
  OBVIOUS
<1>1. /\ Init /\ events = <<>> /\ nextSequence = 0 /\ compactedBelow = 0 /\ saved = 0
      /\ MaxSequence \in Nat /\ MaxKeep \in Nat /\ MaxKeep \in 0..MaxSequence
      /\ delivered = {} /\ gapped = {} /\ sound = {} /\ knownNodes = {} /\ nodes = {}
      /\ tasks = [n \in Names |-> Nothing] /\ known = [n \in Names |-> Unknown]
  BY DEF WatchInit, Init, StoreAssumption, WatchAssumption
<1>2. TypeOK
  BY <1>1, InitType
<1>3. NameOfHeld
  BY <1>1 DEF NameOfHeld, Held
<1>4. LogIsTail
  BY <1>1 DEF LogIsTail, First
<1>5. ConsumerInv
  <2>1. PICK crew \in Crews : /\ cursor = [s \in crew |-> 0]
                              /\ registered = [s \in crew |-> Unregistered]
    BY DEF WatchInit
  <2>2. Subscribers = crew
    BY <2>1 DEF Subscribers
  <2>3. WatchTypeOK
    BY <1>1, <2>1, <2>2 DEF WatchTypeOK, Views
  <2>4. CursorsBehind
    BY <1>1, <2>1, <2>2 DEF CursorsBehind
  <2>. QED
    BY <1>1, <2>3, <2>4 DEF ConsumerInv, SoundNeverStranded, SoundHolds
<1>6. ASSUME NEW q \in Nat PROVE Agrees(Blank, q)
  <2>1. Since(q) \in Seq(Event) /\ Len(Since(q)) = 0
    BY <1>1, <1>2, <1>4, ReadingTheTail
  <2>2. Blank \in View
    BY DEF Blank, View, Views
  <2>3. Exact(Blank)
    BY <1>1 DEF Exact, Blank, Held
  <2>. QED
    BY <1>2, <2>1, <2>2, <2>3, NothingUnread
<1>7. Seen = Blank
  BY <1>1 DEF Seen, Blank
<1>8. InformerKnows
  <2>1. Informer \in Subscribers => cursor[Informer] \in Nat
    BY <1>5 DEF ConsumerInv, SoundNeverStranded, WatchTypeOK
  <2>. QED
    BY <1>6, <1>7, <2>1 DEF InformerKnows, SeenAgrees
<1>. QED
  BY <1>2, <1>3, <1>4, <1>5, <1>6, <1>8 DEF WatchInv, ReadersInv, ColdStartWorks

\* Every step keeps the log whole and its readers in their places.
LEMMA ReadersNext ==
    ASSUME StoreAssumption, WatchAssumption, ReadersInv, [WatchNext]_watchVars
    PROVE  /\ ReadersInv' /\ nextSequence' >= nextSequence /\ First' >= First
           /\ nextSequence \in Nat /\ First \in Int /\ First' \in Int
<1>. USE DEF ReadersInv
<1>1. /\ nextSequence \in Nat /\ compactedBelow \in Nat /\ nextSequence <= MaxSequence
      /\ First \in Int
  BY DEF TypeOK, ConsumerInv, SoundNeverStranded, WatchTypeOK, WatchAssumption,
     StoreAssumption, LogIsTail, First
<1>2. TypeOK' /\ LogIsTail' /\ nextSequence' >= nextSequence /\ First' >= First
  BY <1>1, TailStays
<1>3. nextSequence' \in Nat /\ First' \in Int
  BY <1>2 DEF TypeOK, First
<1>4. NameOfHeld'
  <2>1. CASE [Next]_vars
    BY <2>1, NameOfHeldNext
  <2>2. CASE UNCHANGED <<tasks, heap>>
    BY <2>2 DEF NameOfHeld, Held
  <2>. QED
    BY <2>1, <2>2
    DEF WatchNext, StoreStep, Refresh, RebuildInformer, Pull, SaveCursor, CrashWatcher,
        KeeperStep, Register, Advance, Expel, Compact, watchVars, vars, storeVars
<1>5. ConsumerInv'
  <2>1. CASE UNCHANGED consumerVars
    BY <1>1, <1>2, <1>3, <2>1, WritingKeeps
  <2>2. CASE Refresh \/ RebuildInformer \/ Pull
    BY <1>1, <2>2, ReadersKeep
  <2>3. CASE SaveCursor \/ CrashWatcher \/ KeeperStep
    BY <1>1, <2>3, KeepingKeeps
  <2>. QED
    BY <2>1, <2>2, <2>3 DEF WatchNext, StoreStep, watchVars
<1>. QED
  BY <1>1, <1>2, <1>3, <1>4, <1>5

\* Reading depends on the log alone.
Reading(trail, q) ==
    FoldLeft(LAMBDA kept, e : IF e.sequence >= q THEN Append(kept, e) ELSE kept,
             <<>>, trail)

ReadsTheLog == \A trail, q : trail = events => Since(q) = Reading(trail, q)

\* So it does in every state,
LEMMA ReadsTheLogNow == ReadsTheLog
PROOF BY Zenon DEF ReadsTheLog, Since, Reading

\* and in the next.
LEMMA ReadsTheLogNext == ReadsTheLog'
PROOF BY ReadsTheLogNow, PTL

\* While the store rests, so does what agrees with it.
LEMMA AgreementRests ==
    ASSUME UNCHANGED vars, NEW q, NEW view, Agrees(view, q)
    PROVE  Agrees(view, q)'
<1>1. Since(q)' = Since(q)
  <2>1. PICK trail : trail = events
    OBVIOUS
  <2>2. Since(q) = Reading(trail, q)
    BY <2>1, ReadsTheLogNow DEF ReadsTheLog
  <2>3. trail = events'
    BY <2>1 DEF vars, storeVars
  <2>4. Since(q)' = Reading(trail, q)
    BY <2>3, ReadsTheLogNext DEF ReadsTheLog
  <2>. QED
    BY <2>2, <2>4
<1>2. UNCHANGED <<tasks, heap, nodes, dirty>>
  BY DEF vars, storeVars
<1>. QED
  BY <1>1, <1>2 DEF Agrees, Held, PhaseOf

\* A view that agrees with the store from q on goes on agreeing, as long as the
\* log still reaches back to q.
LEMMA AgreementLasts ==
    ASSUME StoreAssumption, WatchAssumption, ReadersInv, [WatchNext]_watchVars,
           NEW q \in Nat, q <= nextSequence, First' <= q, NEW view, Agrees(view, q)
    PROVE  Agrees(view, q)'
<1>. USE DEF ReadersInv
<1>1. TypeOK' /\ LogIsTail' /\ compactedBelow \in Nat
  BY ReadersNext
  DEF ConsumerInv, SoundNeverStranded, WatchTypeOK, WatchAssumption
<1>2. CASE UNCHANGED vars
  BY <1>2, AgreementRests
<1>3. CASE StoreStep
  <2>1. Next /\ compactedBelow' = compactedBelow
    BY <1>3 DEF StoreStep, consumerVars, keeperVars
  <2>2. LogGrows
    BY <2>1, StoreAppends DEF LogIsTail
  <2>3. First' = First
    BY <1>1, <2>1, <2>2, GrownIsTail
  <2>. QED
    BY <1>1, <2>2, <2>3, AgreesAfterWrite
<1>4. ASSUME NEW k \in 1..MaxKeep, Compact(k) PROVE Agrees(view, q)'
  <2>1. k \in Nat
    BY <1>4
  <2>. QED
    BY <1>1, <1>4, <2>1, AgreesAfterCompact
<1>. QED
  BY <1>2, <1>3, <1>4
  DEF WatchNext, Refresh, RebuildInformer, Pull, SaveCursor, CrashWatcher, KeeperStep,
      Register, Advance, Expel, watchVars

\* What the informer has seen is one view, read up to one place.
SeenIsAView ==
    \A view, q : view = Seen /\ q = cursor[Informer] => (Agrees(view, q) <=> SeenAgrees)

\* So it is in every state,
LEMMA SeenNow == SeenIsAView
PROOF BY DEF SeenIsAView, SeenAgrees

\* and in the next.
LEMMA SeenNext == SeenIsAView'
PROOF BY SeenNow, PTL

\* An informer that reads to the end of the log, missing nothing, knows what the
\* store holds.
LEMMA ReadingTellsAll ==
    ASSUME StoreAssumption, WatchAssumption, ReadersInv, UNCHANGED vars,
           NEW q \in Nat, q <= nextSequence, First <= q,
           NEW view \in View, Agrees(view, q),
           known' = Replay(view, q).tasks, knownNodes' = Replay(view, q).nodes,
           Informer \in Subscribers, cursor' = [cursor EXCEPT ![Informer] = After(q)]
    PROVE  SeenAgrees'
<1>. USE DEF ReadersInv
<1>1. /\ nextSequence \in Nat /\ MaxSequence \in Nat /\ nextSequence <= MaxSequence
      /\ cursor \in [Subscribers -> 0..MaxSequence]
  BY DEF TypeOK, StoreAssumption, LogIsTail, ConsumerInv, SoundNeverStranded, WatchTypeOK
<1>2. After(q) = nextSequence
  BY AfterMoves
<1>3. cursor'[Informer] = nextSequence
  BY <1>1, <1>2, CursorMoves
<1>4. PICK seen : seen = Replay(view, q)
  OBVIOUS
<1>5. seen \in View /\ Exact(seen)
  BY <1>4, ReplayIsExact
<1>6. PICK at \in Nat : at = nextSequence
  BY <1>1
<1>7. Since(at) \in Seq(Event) /\ Len(Since(at)) = 0
  <2>1. Before(at) = Len(events) /\ Len(events) \in Nat
    BY <1>1, <1>6 DEF Before, First, LogIsTail, TypeOK
  <2>. QED
    BY <2>1, ReadingTheTail
<1>8. Agrees(seen, at)
  BY <1>5, <1>7, NothingUnread
<1>9. Agrees(seen, at)'
  BY <1>8, AgreementRests
<1>10. Seen' = seen
  BY <1>4, <1>5 DEF Seen, View
<1>. QED
  BY <1>3, <1>6, <1>9, <1>10, SeenNext DEF SeenIsAView

\* What the informer knows stays what the log says.
LEMMA InformerKnowsNext ==
    ASSUME StoreAssumption, WatchAssumption, WatchInv, [WatchNext]_watchVars
    PROVE  InformerKnows'
<1>. USE DEF WatchInv
<1>. SUFFICES ASSUME Informer \in Subscribers' \ gapped', cursor'[Informer] >= First'
              PROVE  SeenAgrees'
  BY DEF InformerKnows
<1>1. /\ First' >= First /\ First \in Int /\ First' \in Int /\ nextSequence \in Nat
  BY ReadersNext
<1>2. /\ WatchTypeOK /\ First <= compactedBelow /\ compactedBelow \in Nat
      /\ \A s \in Subscribers : cursor[s] \in Nat /\ cursor[s] <= nextSequence
      /\ MaxSequence \in Nat
  BY DEF ReadersInv, LogIsTail, ConsumerInv, SoundNeverStranded, WatchTypeOK,
     CursorsBehind, WatchAssumption, StoreAssumption
<1>3. CASE /\ Subscribers' = Subscribers /\ UNCHANGED <<known, knownNodes>>
           /\ cursor'[Informer] = cursor[Informer]
           /\ Informer \in gapped' <=> Informer \in gapped
  <2>1. /\ Informer \in Subscribers \ gapped
        /\ cursor[Informer] \in Nat /\ cursor[Informer] <= nextSequence
    BY <1>2, <1>3
  <2>2. cursor[Informer] >= First' /\ cursor[Informer] >= First
    BY <1>1, <1>3, <2>1
  <2>3. PICK view : view = Seen
    OBVIOUS
  <2>4. PICK q \in Nat : q = cursor[Informer]
    BY <2>1
  <2>5. Agrees(view, q)
    BY <2>1, <2>2, <2>3, <2>4 DEF InformerKnows, SeenAgrees
  <2>6. Agrees(view, q)'
    BY <1>1, <2>1, <2>2, <2>4, <2>5, AgreementLasts
  <2>7. Seen' = view /\ cursor'[Informer] = q
    BY <1>3, <2>3, <2>4 DEF Seen
  <2>. QED
    BY <2>6, <2>7, SeenNext DEF SeenIsAView
<1>4. CASE Refresh
  <2>1. /\ Informer \in Subscribers \ gapped /\ ~Skips(cursor[Informer])
        /\ UNCHANGED vars
    BY <1>4 DEF Refresh
  <2>2. PICK q \in Nat : q = cursor[Informer]
    BY <1>2, <2>1
  <2>3. First <= q /\ q <= nextSequence
    BY <1>1, <1>2, <2>1, <2>2 DEF Skips
  <2>4. PICK view : view = Seen
    OBVIOUS
  <2>5. view \in View
    BY <1>2, <2>4 DEF View, Seen, WatchTypeOK
  <2>6. Agrees(view, q)
    BY <2>1, <2>2, <2>3, <2>4 DEF InformerKnows, SeenAgrees
  <2>7. /\ known' = Replay(view, q).tasks /\ knownNodes' = Replay(view, q).nodes
        /\ cursor' = [cursor EXCEPT ![Informer] = After(q)]
    BY <1>4, <2>2, <2>4 DEF Refresh, Seen
  <2>. QED
    BY <2>1, <2>3, <2>5, <2>6, <2>7, ReadingTellsAll
<1>5. CASE RebuildInformer
  <2>1. Informer \in Subscribers /\ ~Skips(0) /\ UNCHANGED vars
    BY <1>5 DEF RebuildInformer
  <2>2. compactedBelow = 0
    BY <1>2, <2>1 DEF Skips
  <2>3. First <= 0 /\ 0 <= nextSequence
    BY <1>1, <1>2, <2>2
  <2>4. PICK view : view = Blank
    OBVIOUS
  <2>5. view \in View
    BY <2>4 DEF View, Blank, Views
  <2>6. Agrees(view, 0)
    BY <2>2, <2>4 DEF ColdStartWorks
  <2>7. /\ known' = Replay(view, 0).tasks /\ knownNodes' = Replay(view, 0).nodes
        /\ cursor' = [cursor EXCEPT ![Informer] = After(0)]
    BY <1>5, <2>4 DEF RebuildInformer
  <2>. QED
    BY <2>1, <2>3, <2>5, <2>6, <2>7, ReadingTellsAll
<1>6. CASE Pull \/ CrashWatcher
  <2>1. \E at : cursor' = [cursor EXCEPT ![Watcher] = at]
    BY <1>6 DEF Pull, CrashWatcher
  <2>2. /\ Subscribers' = Subscribers /\ cursor'[Informer] = cursor[Informer]
    BY <1>2, <2>1 DEF Subscribers, Informer, Watcher, WatchTypeOK
  <2>3. /\ UNCHANGED <<known, knownNodes>>
        /\ Informer \in gapped' <=> Informer \in gapped
    BY <1>6 DEF Pull, CrashWatcher, informerVars, Informer, Watcher
  <2>. QED
    BY <1>3, <2>2, <2>3
<1>7. CASE UNCHANGED <<known, knownNodes, cursor, gapped>>
  <2>1. Subscribers' = Subscribers
    BY <1>7 DEF Subscribers
  <2>. QED
    BY <1>3, <1>7, <2>1
<1>. QED
  BY <1>4, <1>5, <1>6, <1>7
  DEF WatchNext, StoreStep, SaveCursor, KeeperStep, Register, Advance, Expel, Compact,
      watchVars, consumerVars, informerVars

\* The invariant of a watched store is kept by every step.
LEMMA WatchInvNext ==
    ASSUME StoreAssumption, WatchAssumption, WatchInv, [WatchNext]_watchVars
    PROVE  WatchInv'
<1>. USE DEF WatchInv
<1>1. ReadersInv' /\ First \in Int /\ First' \in Int /\ nextSequence \in Nat
  BY ReadersNext
<1>2. ASSUME compactedBelow' = 0 PROVE Agrees(Blank, 0)'
  <2>1. compactedBelow = 0
    <3>1. compactedBelow \in Nat
      BY DEF ReadersInv, ConsumerInv, SoundNeverStranded, WatchTypeOK, WatchAssumption
    <3>. QED
      BY <1>2, <3>1
      DEF WatchNext, StoreStep, Refresh, RebuildInformer, Pull, SaveCursor, CrashWatcher,
          KeeperStep, Register, Advance, Expel, Compact, watchVars, consumerVars, keeperVars
  <2>2. First' <= 0
    BY <1>1, <1>2 DEF ReadersInv, LogIsTail
  <2>3. PICK view : view = Blank
    OBVIOUS
  <2>4. Agrees(view, 0)
    BY <2>1, <2>3 DEF ColdStartWorks
  <2>5. Agrees(view, 0)'
    BY <1>1, <2>2, <2>4, AgreementLasts
  <2>. QED
    BY <2>3, <2>5
<1>. QED
  BY <1>1, <1>2, InformerKnowsNext DEF ColdStartWorks

-----------------------------------------------------------------------------
(* What the watcher is told of.                                            *)

\* Each object was added by one event, and while the log reaches back to it the
\* event is there.
AddsLogged ==
    /\ addedAt \in Seq(Nat) /\ Len(addedAt) = nextObject - 1
    /\ \A o \in Allocated :
          /\ addedAt[o] < nextSequence
          /\ addedAt[o] >= First =>
                /\ events[addedAt[o] - First + 1].kind = "task-added"
                /\ events[addedAt[o] - First + 1].name = heap[o].name

\* The watcher was told of nothing it has not read.
ToldInTurn == Watcher \in Subscribers => \A q \in delivered : q < cursor[Watcher]

ToldInv == AddsLogged /\ ToldInTurn /\ NoMissedAdd

\* No step of the store puts an object back under a name that nothing holds.
LEMMA GoneIsGone ==
    ASSUME StoreAssumption, TypeOK, NameOfHeld, [Next]_vars, NEW o \in Allocated,
           heap[o].name \in Names, tasks'[heap[o].name] = o
    PROVE  Held(heap[o].name)
<1>. DEFINE n == heap[o].name
<1>1. nextObject \in Nat /\ o # Nothing /\ o # nextObject /\ o < nextObject
  BY DEF TypeOK, Allocated, Nothing
<1>2. CASE tasks' = tasks
  BY <1>1, <1>2 DEF Held
<1>3. ASSUME NEW m \in Names, AddTask(m) \/ RemoveTask(m) PROVE tasks'[n] = tasks[n]
  BY <1>1, <1>3 DEF AddTask, RemoveTask, TypeOK
<1>4. ASSUME NEW c \in Controllers, NEW h, UpdateAccepted(c, h) PROVE Held(n)
  BY <1>1, <1>4 DEF UpdateAccepted, Held, TypeOK
<1>5. ASSUME NEW c \in Controllers, NEW g, NEW h, BatchAccepted(c, g, h) PROVE Held(n)
  BY <1>1, <1>5 DEF BatchAccepted, Held, TypeOK
<1>. QED
  BY <1>1, <1>2, <1>3, <1>4, <1>5
  DEF Held, Next, AddNode, RemoveNode, Read, Edit, Update, UpdateRefused, UpdateMissing,
      BatchUpdate, BatchRefused, vars, storeVars

\* The adds stay logged.
LEMMA AddsLoggedNext ==
    ASSUME StoreAssumption, WatchAssumption, ReadersInv, AddsLogged,
           [WatchNext]_watchVars
    PROVE  AddsLogged'
<1>. USE DEF ReadersInv
<1>1. /\ nextSequence \in Nat /\ nextObject \in Nat /\ First \in Int /\ First' \in Int
      /\ Len(events) \in Nat /\ nextObject >= 1 /\ compactedBelow \in Nat
      /\ First' >= First /\ TypeOK'
  <2>1. TypeOK' /\ First \in Int /\ First' \in Int /\ First' >= First
    BY ReadersNext
  <2>2. /\ nextSequence \in Nat /\ nextObject \in Nat /\ Len(events) \in Nat
        /\ nextObject >= 1
    BY DEF TypeOK
  <2>3. compactedBelow \in Nat
    BY DEF ConsumerInv, SoundNeverStranded, WatchTypeOK, WatchAssumption
  <2>. QED
    BY <2>1, <2>2, <2>3
<1>2. \A o \in Allocated : addedAt[o] \in Nat
  BY <1>1 DEF AddsLogged, Allocated
<1>3. CASE UNCHANGED <<vars, addedAt>>
  BY <1>3 DEF AddsLogged, Allocated, First, vars, storeVars
<1>4. CASE StoreStep
  <2>1. Next /\ compactedBelow' = compactedBelow
    BY <1>4 DEF StoreStep, consumerVars, keeperVars
  <2>2. LogGrows
    BY <2>1, StoreAppends DEF LogIsTail
  <2>3. First' = First
    BY <1>1, <2>1, <2>2, GrownIsTail
  <2>4. PICK more \in Seq(Event) : Adds(more)
    BY <2>2 DEF LogGrows
  <2>5. /\ events' = events \o more /\ nextSequence' = nextSequence + Len(more)
        /\ Len(more) \in Nat /\ TellsObjects(more)
    BY <2>4 DEF Adds
  <2>6. /\ \A i \in 1..Len(events) : events'[i] = events[i]
        /\ \A i \in 1..Len(more) : events'[Len(events) + i] = more[i]
    BY <2>5 DEF TypeOK
  <2>7. NamesFixed
    BY <2>1, NextNames
  <2>8. ASSUME NEW o \in Allocated, addedAt'[o] = addedAt[o]
        PROVE  /\ addedAt'[o] < nextSequence'
               /\ addedAt'[o] >= First' =>
                     /\ events'[addedAt'[o] - First' + 1].kind = "task-added"
                     /\ events'[addedAt'[o] - First' + 1].name = heap'[o].name
    <3>1. addedAt[o] \in Nat /\ addedAt[o] < nextSequence
      BY <1>2 DEF AddsLogged
    <3>2. heap'[o].name = heap[o].name
      BY <2>7 DEF NamesFixed
    <3>3. ASSUME addedAt[o] >= First
          PROVE  events'[addedAt[o] - First + 1] = events[addedAt[o] - First + 1]
      <4>1. addedAt[o] - First + 1 \in 1..Len(events)
        BY <1>1, <3>1, <3>3 DEF First
      <4>. QED
        BY <2>6, <4>1
    <3>4. addedAt[o] < nextSequence'
      BY <1>1, <2>5, <3>1
    <3>5. ASSUME addedAt[o] >= First
          PROVE  /\ events'[addedAt[o] - First + 1].kind = "task-added"
                 /\ events'[addedAt[o] - First + 1].name = heap[o].name
      BY <3>3, <3>5 DEF AddsLogged
    <3>. QED
      BY <2>3, <2>8, <3>2, <3>4, <3>5
  <2>9. CASE nextObject' = nextObject
    <3>1. addedAt' = addedAt /\ Allocated' = Allocated
      BY <1>4, <2>9 DEF StoreStep, Allocated
    <3>. QED
      BY <2>8, <2>9, <3>1 DEF AddsLogged
  <2>10. CASE nextObject' # nextObject
    <3>1. /\ addedAt' = Append(addedAt, nextSequence) /\ nextObject' = nextObject + 1
          /\ Len(more) = 1 /\ more[1].kind = "task-added"
          /\ more[1].name = heap'[nextObject].name
      BY <1>4, <2>5, <2>10 DEF StoreStep, TellsObjects
    <3>2. /\ addedAt' \in Seq(Nat) /\ Len(addedAt') = nextObject' - 1
          /\ addedAt'[nextObject] = nextSequence
          /\ \A o \in Allocated : addedAt'[o] = addedAt[o]
      BY <1>1, <3>1 DEF AddsLogged, Allocated
    <3>3. /\ nextSequence - First' + 1 = Len(events) + 1 /\ 1 \in 1..Len(more)
          /\ nextSequence < nextSequence'
      BY SMTT(20), <1>1, <2>3, <2>5, <3>1 DEF First
    <3>4. events'[nextSequence - First' + 1] = more[1]
      BY <2>6, <3>3
    <3>5. \A o \in Allocated' : o \in Allocated \/ o = nextObject
      BY <1>1, <3>1 DEF Allocated
    <3>. QED
      BY ZenonT(60), <2>8, <3>1, <3>2, <3>3, <3>4, <3>5 DEF AddsLogged
  <2>. QED
    BY <2>9, <2>10
<1>5. ASSUME NEW k \in 1..MaxKeep, Compact(k) PROVE AddsLogged'
  <2>1. k \in Nat
    BY <1>5
  <2>2. /\ Len(events') = Len(events) - Before(k) /\ First' = First + Before(k)
        /\ \A j \in 1..Len(events') : events'[j] = events[Before(k) + j]
    BY <1>1, <1>5, <2>1, CompactedIsTail
  <2>3. Before(k) \in 0..Len(events)
    BY <2>1, ReadingTheTail
  <2>4. /\ UNCHANGED <<heap, nextObject, nextSequence, addedAt>> /\ Allocated' = Allocated
    BY <1>5 DEF Compact, Allocated
  <2>5. ASSUME NEW o \in Allocated, addedAt[o] >= First'
        PROVE  /\ addedAt[o] >= First
               /\ events'[addedAt[o] - First' + 1] = events[addedAt[o] - First + 1]
    <3>1. addedAt[o] \in Nat /\ addedAt[o] < nextSequence
      BY <1>2 DEF AddsLogged
    <3>2. addedAt[o] - First' + 1 \in 1..Len(events')
      BY <1>1, <2>2, <2>3, <2>5, <3>1 DEF First
    <3>3. Before(k) + (addedAt[o] - First' + 1) = addedAt[o] - First + 1
      BY <1>1, <2>2, <2>3, <3>1
    <3>. QED
      BY SMTT(20), <1>1, <2>2, <2>5, <3>1, <3>2, <3>3
  <2>. QED
    BY <2>4, <2>5 DEF AddsLogged
<1>. QED
  BY <1>3, <1>4, <1>5
  DEF WatchNext, Refresh, RebuildInformer, Pull, SaveCursor, CrashWatcher, KeeperStep,
      Register, Advance, Expel, watchVars, AddsLogged, Allocated, First

\* The watcher is told of what it reads, and of nothing it has not read.
LEMMA ToldInTurnNext ==
    ASSUME StoreAssumption, WatchAssumption, ReadersInv, ToldInTurn,
           [WatchNext]_watchVars
    PROVE  ToldInTurn'
<1>. USE DEF ReadersInv
<1>. SUFFICES ASSUME Watcher \in Subscribers', NEW q \in delivered'
              PROVE  q < cursor'[Watcher]
  BY DEF ToldInTurn
<1>1. /\ WatchTypeOK /\ nextSequence \in Nat /\ MaxSequence \in Nat /\ saved \in Nat
      /\ \A s \in Subscribers : cursor[s] \in Nat /\ cursor[s] <= nextSequence
      /\ \A x \in delivered : x \in Nat
      /\ cursor \in [Subscribers -> 0..MaxSequence]
      /\ nextSequence <= MaxSequence
  BY DEF ConsumerInv, SoundNeverStranded, WatchTypeOK, CursorsBehind, TypeOK,
     StoreAssumption, LogIsTail
<1>2. CASE /\ Subscribers' = Subscribers /\ delivered' = delivered
           /\ cursor'[Watcher] = cursor[Watcher]
  BY <1>2 DEF ToldInTurn
<1>3. CASE Refresh \/ RebuildInformer
  <2>1. \E at : cursor' = [cursor EXCEPT ![Informer] = at]
    BY <1>3 DEF Refresh, RebuildInformer
  <2>2. /\ Subscribers' = Subscribers /\ cursor'[Watcher] = cursor[Watcher]
    BY <1>1, <2>1 DEF Subscribers, Informer, Watcher
  <2>3. delivered' = delivered
    BY <1>3 DEF Refresh, RebuildInformer, watcherVars
  <2>. QED
    BY <1>2, <2>2, <2>3
<1>4. CASE Pull
  <2>. DEFINE c == cursor[Watcher]
  <2>1. Watcher \in Subscribers /\ c \in Nat /\ c <= nextSequence
    BY <1>1, <1>4 DEF Pull
  <2>2. After(c) \in Nat /\ c <= After(c) /\ After(c) <= nextSequence
    BY <2>1, AfterMoves
  <2>3. cursor'[Watcher] = After(c)
    <3>1. cursor' = [cursor EXCEPT ![Watcher] = After(c)] /\ After(c) \in 0..MaxSequence
      BY <1>1, <1>4, <2>2 DEF Pull
    <3>. QED
      BY <1>1, <2>1, <3>1, CursorMoves
  <2>4. CASE q \in delivered
    <3>1. q < c /\ q \in Nat
      BY <1>1, <2>1, <2>4 DEF ToldInTurn
    <3>. QED
      BY <2>1, <2>2, <2>3, <3>1
  <2>5. CASE q \notin delivered
    <3>1. PICK e \in ToSet(Since(c)) : q = e.sequence
      BY <1>4, <2>5 DEF Pull
    <3>2. /\ Since(c) \in Seq(Event)
          /\ \A j \in 1..Len(Since(c)) : /\ Since(c)[j].sequence < nextSequence
                                         /\ Since(c)[j] \in Event
      BY <2>1, SinceFits
    <3>3. PICK j \in 1..Len(Since(c)) : e = Since(c)[j]
      BY <3>1, <3>2 DEF ToSet
    <3>4. q < nextSequence
      BY <3>1, <3>2, <3>3
    <3>5. After(c) = nextSequence
      <4>1. Len(Since(c)) # 0 /\ Reads(c) /\ Len(events) \in Nat
        <5>1. Len(Since(c)) # 0
          BY <3>2, <3>3
        <5>2. Reads(c)
          BY <2>1, ReadsNow DEF ReadsWell
        <5>. QED
          BY <5>1, <5>2 DEF TypeOK
      <4>2. (c < nextSequence /\ Len(events) # 0) \/ c = nextSequence
        BY <1>1, <2>1, <4>1 DEF Reads
      <4>. QED
        BY <4>1, <4>2 DEF Reads
    <3>. QED
      BY <2>3, <3>4, <3>5
  <2>. QED
    BY <2>4, <2>5
<1>5. CASE CrashWatcher
  <2>1. /\ Watcher \in Subscribers /\ q < saved /\ saved \in 0..MaxSequence
        /\ cursor' = [cursor EXCEPT ![Watcher] = saved]
    BY <1>1, <1>5 DEF CrashWatcher, WatchTypeOK
  <2>2. cursor'[Watcher] = saved
    BY <1>1, <2>1, CursorMoves
  <2>. QED
    BY <2>1, <2>2
<1>6. CASE UNCHANGED <<delivered, cursor>>
  <2>1. Subscribers' = Subscribers
    BY <1>6 DEF Subscribers
  <2>. QED
    BY <1>2, <1>6, <2>1
<1>. QED
  BY <1>3, <1>4, <1>5, <1>6
  DEF WatchNext, StoreStep, SaveCursor, KeeperStep, Register, Advance, Expel, Compact,
      watchVars, consumerVars, watcherVars

\* What the watcher reads of an object that is served and whose name was never
\* reused tells it, and only it, of the add.
LEMMA PullTells ==
    ASSUME StoreAssumption, WatchAssumption, ReadersInv, AddsLogged, ToldInTurn,
           NoMissedAdd, Pull, Watcher \notin gapped',
           NEW o \in Allocated, tasks[heap[o].name] = o, Unreused(o),
           addedAt[o] < cursor'[Watcher]
    PROVE  addedAt[o] \in delivered' <=> o \in Matching
<1>. USE DEF ReadersInv
<1>. DEFINE c == cursor[Watcher]
            a == addedAt[o]
<1>1. /\ Watcher \in Subscribers \ gapped /\ c \in Nat /\ c <= nextSequence
      /\ c >= compactedBelow /\ nextSequence \in Nat /\ MaxSequence \in Nat
      /\ compactedBelow \in Nat /\ nextSequence <= MaxSequence
      /\ cursor \in [Subscribers -> 0..MaxSequence]
  BY DEF Pull, Skips, ConsumerInv, SoundNeverStranded, WatchTypeOK, CursorsBehind, TypeOK,
     StoreAssumption, LogIsTail, WatchAssumption
<1>2. c >= First /\ First \in Int /\ Len(events) \in Nat
  BY <1>1 DEF LogIsTail, TypeOK, First
<1>3. a \in Nat /\ a < nextSequence
  <2>1. o \in 1..Len(addedAt)
    BY DEF AddsLogged, Allocated
  <2>. QED
    BY <2>1 DEF AddsLogged
<1>4. /\ Since(c) \in Seq(Event) /\ Reads(c)
      /\ \A j \in 1..Len(Since(c)) : /\ Since(c)[j].sequence >= c
                                     /\ Since(c)[j] \in Event
  BY <1>1, ReadsNow, SinceFits DEF ReadsWell
<1>5. delivered' = delivered \cup {e.sequence : e \in {x \in ToSet(Since(c)) : Wants(x)}}
  BY DEF Pull
<1>6. CASE a < c
  <2>1. a \in delivered <=> o \in Matching
    BY <1>1, <1>6 DEF NoMissedAdd
  <2>2. ASSUME NEW e \in ToSet(Since(c)) PROVE e.sequence # a
    <3>1. PICK j \in 1..Len(Since(c)) : e = Since(c)[j]
      BY <1>4 DEF ToSet
    <3>. QED
      BY <1>1, <1>3, <1>4, <1>6, <3>1 DEF Event
  <2>. QED
    BY <1>5, <2>1, <2>2
<1>7. CASE a >= c
  <2>1. a \notin delivered
    BY <1>1, <1>3, <1>7 DEF ToldInTurn, ConsumerInv, SoundNeverStranded, WatchTypeOK
  <2>. DEFINE i == a - First + 1
              e == events[i]
  <2>2. /\ i \in 1..Len(events) /\ a >= First
    BY <1>1, <1>2, <1>3, <1>7 DEF First
  <2>3. e.sequence = a /\ e.kind = "task-added" /\ e.name = heap[o].name
    <3>1. e.sequence = First + i - 1
      BY <2>2 DEF LogIsTail
    <3>. QED
      BY <1>2, <1>3, <2>2, <3>1 DEF AddsLogged
  <2>4. o # Nothing
    BY DEF Allocated, Nothing
  <2>5. Wants(e) <=> o \in Matching
    BY <2>3, <2>4 DEF Wants, Held
  <2>6. e \in ToSet(Since(c))
    <3>1. i > Before(c) /\ Before(c) \in 0..Len(events)
      BY SMTT(20), <1>1, <1>2, <1>3, <1>4, <1>7, <2>2 DEF Before, First, Reads
    <3>2. PICK b \in Nat : b = Before(c)
      BY <3>1
    <3>3. i - b \in 1..(Len(events) - b) /\ b + (i - b) = i
      BY <1>2, <2>2, <3>1, <3>2
    <3>4. Since(c)[i - b] = e /\ i - b \in 1..Len(Since(c))
      BY <1>4, <3>2, <3>3 DEF Reads
    <3>. QED
      BY <1>4, <3>4 DEF ToSet
  <2>7. ASSUME NEW x \in ToSet(Since(c)), x.sequence = a PROVE x = e
    <3>1. PICK j \in 1..Len(Since(c)) : x = Since(c)[j]
      BY <1>4 DEF ToSet
    <3>2. PICK b \in 0..Len(events) : b = Before(c)
      BY <1>4 DEF Reads
    <3>3. x = events[b + j] /\ b + j \in 1..Len(events)
      BY SMTT(20), <1>2, <1>4, <3>1, <3>2 DEF Reads
    <3>4. x.sequence = First + (b + j) - 1
      BY <3>3 DEF LogIsTail
    <3>5. b + j = i
      BY <1>2, <1>3, <2>7, <3>1, <3>2, <3>4
    <3>. QED
      BY <3>3, <3>5
  <2>. HIDE DEF e, i
  <2>8. a \in {y.sequence : y \in {x \in ToSet(Since(c)) : Wants(x)}} <=> Wants(e)
    BY <2>3, <2>6, <2>7
  <2>. QED
    BY <1>5, <2>1, <2>5, <2>8
<1>. QED
  BY <1>1, <1>3, <1>6, <1>7

\* What the watcher was told stays right.
LEMMA NoMissedAddNext ==
    ASSUME StoreAssumption, WatchAssumption, ReadersInv, ToldInv,
           [WatchNext]_watchVars
    PROVE  NoMissedAdd'
<1>. USE DEF ReadersInv, ToldInv
<1>1. /\ WatchTypeOK /\ nextSequence \in Nat /\ MaxSequence \in Nat
      /\ \A s \in Subscribers : cursor[s] \in Nat /\ cursor[s] <= nextSequence
      /\ cursor \in [Subscribers -> 0..MaxSequence] /\ nextObject \in Nat
  BY DEF ConsumerInv, SoundNeverStranded, WatchTypeOK, CursorsBehind, TypeOK,
     StoreAssumption
<1>2. \A o \in Allocated : addedAt[o] \in Nat
  BY <1>1 DEF AddsLogged, Allocated
<1>3. CASE /\ UNCHANGED <<tasks, heap, nextObject, addedAt, delivered>>
           /\ Subscribers' = Subscribers /\ cursor'[Watcher] = cursor[Watcher]
           /\ Watcher \in gapped' <=> Watcher \in gapped
  BY <1>3 DEF NoMissedAdd, Allocated, Unreused
<1>4. CASE Refresh \/ RebuildInformer
  <2>1. \E at : cursor' = [cursor EXCEPT ![Informer] = at]
    BY <1>4 DEF Refresh, RebuildInformer
  <2>2. /\ Subscribers' = Subscribers /\ cursor'[Watcher] = cursor[Watcher]
    BY <1>1, <2>1 DEF Subscribers, Informer, Watcher
  <2>3. /\ UNCHANGED <<tasks, heap, nextObject, addedAt, delivered>>
        /\ Watcher \in gapped' <=> Watcher \in gapped
    BY <1>4 DEF Refresh, RebuildInformer, watcherVars, vars, storeVars, Informer, Watcher
  <2>. QED
    BY <1>3, <2>2, <2>3
<1>5. CASE Pull
  <2>1. UNCHANGED <<tasks, heap, nextObject, addedAt>> /\ Allocated' = Allocated
    BY <1>5 DEF Pull, vars, storeVars, Allocated
  <2>2. ASSUME Watcher \notin gapped', NEW o \in Allocated, tasks[heap[o].name] = o,
               Unreused(o), addedAt[o] < cursor'[Watcher]
        PROVE  addedAt[o] \in delivered' <=> o \in Matching
    BY <1>5, <2>2, PullTells
  <2>. QED
    BY <2>1, <2>2 DEF NoMissedAdd, Unreused
<1>6. CASE CrashWatcher
  <2>1. /\ Watcher \in Subscribers /\ saved \in 0..MaxSequence /\ saved <= cursor[Watcher]
        /\ cursor' = [cursor EXCEPT ![Watcher] = saved]
        /\ delivered' = {q \in delivered : q < saved}
        /\ UNCHANGED <<tasks, heap, nextObject, addedAt, gapped>>
    BY <1>1, <1>6 DEF CrashWatcher, WatchTypeOK, ConsumerInv, CursorsBehind, vars, storeVars
  <2>2. Subscribers' = Subscribers /\ cursor'[Watcher] = saved /\ Allocated' = Allocated
    BY <1>1, <2>1, CursorMoves DEF Allocated
  <2>3. ASSUME NEW o \in Allocated, addedAt[o] < saved
        PROVE  /\ addedAt[o] < cursor[Watcher]
               /\ addedAt[o] \in delivered' <=> addedAt[o] \in delivered
    BY <1>1, <1>2, <2>1, <2>3
  <2>. QED
    BY <2>1, <2>2, <2>3 DEF NoMissedAdd, Unreused
<1>7. CASE StoreStep
  <2>1. Next /\ UNCHANGED <<cursor, gapped, delivered>> /\ Subscribers' = Subscribers
    BY <1>7 DEF StoreStep, consumerVars, watcherVars, Subscribers
  <2>2. NamesFixed
    BY <2>1, NextNames
  <2>. SUFFICES ASSUME Watcher \in Subscribers \ gapped, NEW o \in Allocated',
                       tasks'[heap'[o].name] = o, Unreused(o)',
                       addedAt'[o] < cursor[Watcher]
                PROVE  addedAt'[o] \in delivered <=> o \in Matching
    BY <2>1 DEF NoMissedAdd
  <2>3. CASE o \in Allocated
    <3>1. addedAt'[o] = addedAt[o]
      BY <1>1, <1>7, <2>3 DEF StoreStep, AddsLogged, Allocated
    <3>2. heap'[o].name = heap[o].name /\ Unreused(o)
      BY <2>2, <2>3, ReuseIsForever DEF NamesFixed
    <3>3. heap[o].name \in Names
      BY <2>3 DEF TypeOK, Task
    <3>4. Held(heap[o].name)
      BY <2>1, <2>3, <3>2, <3>3, GoneIsGone
    <3>5. tasks[heap[o].name] \in Allocated
      BY <3>3, <3>4 DEF TypeOK, Held
    <3>6. tasks[heap[o].name] = o
      BY <3>2, <3>3, <3>4, <3>5 DEF NameOfHeld, Unreused
    <3>. QED
      BY <2>3, <3>1, <3>2, <3>6 DEF NoMissedAdd
  <2>4. CASE o \notin Allocated
    <3>1. AddsLogged'
      BY AddsLoggedNext
    <3>2. nextObject' = nextObject \/ nextObject' = nextObject + 1
      <4>1. PICK more \in Seq(Event) : Adds(more)
        BY <2>1, StoreAppends DEF LogIsTail, LogGrows
      <4>. QED
        BY <4>1 DEF Adds, TellsObjects
    <3>3. o = nextObject /\ nextObject' # nextObject
      BY <1>1, <2>4, <3>2 DEF Allocated
    <3>4. addedAt'[o] = nextSequence
      BY <1>1, <1>7, <3>3 DEF StoreStep, AddsLogged
    <3>. QED
      BY <1>1, <3>4
  <2>. QED
    BY <2>3, <2>4
<1>8. CASE UNCHANGED <<tasks, heap, nextObject, addedAt, delivered, cursor, gapped>>
  <2>1. Subscribers' = Subscribers
    BY <1>8 DEF Subscribers
  <2>. QED
    BY <1>3, <1>8, <2>1
<1>. QED
  BY <1>4, <1>5, <1>6, <1>7, <1>8
  DEF WatchNext, SaveCursor, KeeperStep, Register, Advance, Expel, Compact,
      watchVars, consumerVars, watcherVars, vars, storeVars

-----------------------------------------------------------------------------

\* A subscriber the retention keeper took in while it was reading inside the log
\* never reads past a compaction: the keeper refuses to compact beyond the last
\* position it reported, also when it crashes and comes back at that position.
THEOREM RegisteredNeverStranded ==
    ASSUME StoreAssumption, WatchAssumption
    PROVE  WatchSpec => []SoundNeverStranded
<1>1. WatchInit => WatchInv
  BY WatchInvInit
<1>2. WatchInv /\ [WatchNext]_watchVars => WatchInv'
  BY WatchInvNext
<1>3. WatchInv => SoundNeverStranded
  BY DEF WatchInv, ReadersInv, ConsumerInv
<1>. QED
  BY <1>1, <1>2, <1>3, PTL DEF WatchSpec

\* An informer that missed nothing and has read to the end of the log knows
\* exactly the nodes and the tasks of the store, and the phase of every task no
\* controller has edited in place since its last event.
THEOREM InformerKnowsTheStore ==
    ASSUME StoreAssumption, WatchAssumption
    PROVE  WatchSpec => []InformerSynced
<1>1. WatchInit => WatchInv
  BY WatchInvInit
<1>2. WatchInv /\ [WatchNext]_watchVars => WatchInv'
  BY WatchInvNext
<1>3. WatchInv => InformerSynced
  <2>. SUFFICES ASSUME WatchInv, Informer \in Subscribers \ gapped,
                       cursor[Informer] = nextSequence
                PROVE  /\ knownNodes = nodes
                       /\ \A n \in Names :
                             /\ Held(n) <=> known[n] # Unknown
                             /\ Held(n) /\ n \notin dirty => known[n] = heap[tasks[n]].phase
    BY DEF InformerSynced
  <2>. USE DEF WatchInv, ReadersInv
  <2>1. /\ Len(events) \in Nat /\ nextSequence \in Nat /\ First <= nextSequence
        /\ WatchTypeOK
    BY DEF TypeOK, First, ConsumerInv, SoundNeverStranded
  <2>2. Since(nextSequence) \in Seq(Event) /\ Len(Since(nextSequence)) = 0
    <3>1. Before(nextSequence) = Len(events)
      BY <2>1 DEF Before, First, LogIsTail
    <3>. QED
      BY <2>1, <3>1, ReadingTheTail
  <2>3. Agrees(Seen, nextSequence)
    BY <2>1 DEF InformerKnows, SeenAgrees
  <2>4. Seen \in View
    BY <2>1 DEF Seen, View, WatchTypeOK
  <2>5. Exact(Seen)
    BY <2>2, <2>3, <2>4, NothingUnread
  <2>. QED
    BY <2>5 DEF Exact, Seen, PhaseOf
<1>. QED
  BY <1>1, <1>2, <1>3, PTL DEF WatchSpec

\* A subscription that missed nothing was told of the add of exactly the tasks
\* its selector matches, as far as it has read: of every one, also after a crash
\* that sends it back to the place it last wrote down, and of no other.
THEOREM WatcherIsTold ==
    ASSUME StoreAssumption, WatchAssumption
    PROVE  WatchSpec => []NoMissedAdd
<1>1. WatchInit => ReadersInv /\ ToldInv
  <2>. SUFFICES ASSUME WatchInit PROVE ReadersInv /\ ToldInv
    OBVIOUS
  <2>1. ReadersInv
    BY WatchInvInit DEF WatchInv
  <2>2. addedAt = <<>> /\ nextObject = 1 /\ delivered = {} /\ Allocated = {}
    BY DEF WatchInit, Init, Allocated
  <2>. QED
    BY <2>1, <2>2 DEF ToldInv, AddsLogged, ToldInTurn, NoMissedAdd
<1>2. ReadersInv /\ ToldInv /\ [WatchNext]_watchVars => ReadersInv' /\ ToldInv'
  BY ReadersNext, AddsLoggedNext, ToldInTurnNext, NoMissedAddNext DEF ToldInv
<1>3. ReadersInv /\ ToldInv => NoMissedAdd
  BY DEF ToldInv
<1>. QED
  BY <1>1, <1>2, <1>3, PTL DEF WatchSpec

-----------------------------------------------------------------------------
(* Leader election                                                         *)

\* The lease's token counts the handovers, and the last one is its holder.
LeaseInv ==
    /\ token = Len(handovers)
    /\ holder # NoOne => token > 0 /\ handovers[token] = holder

\* A controller holds no token but one it has won.
HeldInv ==
    \A c \in Candidates :
        carried[c] # 0 => carried[c] \in 1..token /\ handovers[carried[c]] = c

\* An entry of the log carries a token its writer has won.
LogInv ==
    \A i \in 1..Len(log) :
        /\ log[i].token \in 1..token
        /\ handovers[log[i].token] = log[i].by
        /\ log[i].token <= highest

\* The highest token seen is the last one written.
HighInv ==
    /\ highest <= token
    /\ log = <<>> => highest = 0
    /\ log # <<>> => highest = log[Len(log)].token

IInv == ElectionTypeOK /\ LeaseInv /\ HeldInv /\ LogInv /\ LogInOrder /\ HighInv

\* FencedLog.write keeps the log in order: whoever writes with a token it owns
\* in a list of owners that has only grown.
LEMMA WriteKeeps ==
    ASSUME IInv,
           NEW c \in Candidates, NEW k \in Nat,
           handovers' \in Seq(Candidates), token' = Len(handovers'),
           token' >= token,
           \A r \in 1..token : handovers'[r] = handovers[r],
           k \in 1..token', handovers'[k] = c,
           Write(c, k) \/ UNCHANGED logVars
    PROVE  /\ highest' \in Nat /\ log' \in Seq(Entry)
           /\ LogInv' /\ LogInOrder' /\ HighInv'
  <1>1. /\ token \in Nat /\ token' \in Nat /\ highest \in Nat
        /\ log \in Seq(Entry)
    BY DEF IInv, ElectionTypeOK
  <1>2. /\ \A i \in 1..Len(log) :
              /\ log[i].token \in 1..token /\ log[i].token \in 1..token'
              /\ log[i].token <= highest
              /\ handovers'[log[i].token] = log[i].by
        /\ highest <= token'
    BY <1>1 DEF IInv, LogInv, HighInv
  <1>3. CASE UNCHANGED logVars
    <2>1. highest' = highest /\ log' = log BY <1>3 DEF logVars
    <2>2. LogInv' BY <1>2, <2>1 DEF LogInv
    <2>3. LogInOrder' BY <2>1 DEF IInv, LogInOrder
    <2>4. HighInv' BY <1>2, <2>1 DEF IInv, HighInv
    <2> QED BY <1>1, <2>1, <2>2, <2>3, <2>4
  <1>4. CASE k >= highest /\ highest' = k
             /\ log' = Append(log, [by |-> c, token |-> k])
    <2> DEFINE e == [by |-> c, token |-> k]
    <2>1. e \in Entry /\ e.by = c /\ e.token = k
      BY DEF Entry
    <2>2. log' = Append(log, e) BY <1>4
    <2> HIDE DEF e
    <2>3. /\ log' \in Seq(Entry) /\ Len(log') = Len(log) + 1
          /\ Len(log) \in Nat
          /\ \A i \in 1..Len(log) : log'[i] = log[i]
          /\ log'[Len(log) + 1] = e
      BY <1>1, <2>1, <2>2
    <2>4. ASSUME NEW i \in 1..Len(log')
          PROVE  i \in 1..Len(log) \/ i = Len(log) + 1
      BY <2>3
    <2>5. ASSUME NEW i \in 1..Len(log)
          PROVE  /\ log'[i].token \in 1..token' /\ log'[i].token <= k
                 /\ handovers'[log'[i].token] = log'[i].by
      <3>1. log'[i] = log[i] BY <2>3
      <3> QED BY <1>1, <1>2, <1>4, <3>1
    <2>6. LogInv'
      <3> SUFFICES ASSUME NEW i \in 1..Len(log')
                   PROVE  /\ log'[i].token \in 1..token'
                          /\ handovers'[log'[i].token] = log'[i].by
                          /\ log'[i].token <= highest'
        BY DEF LogInv
      <3>1. CASE i \in 1..Len(log) BY <1>4, <2>5, <3>1
      <3>2. CASE i = Len(log) + 1
        <4>1. log'[i].token = k /\ log'[i].by = c BY <2>1, <2>3, <3>2
        <4> QED BY <1>4, <4>1
      <3> QED BY <2>4, <3>1, <3>2
    <2>7. LogInOrder'
      <3>1. DOMAIN log' = 1..Len(log') BY <2>3
      <3> SUFFICES ASSUME NEW i \in 1..Len(log'), NEW j \in 1..Len(log'), i < j
                   PROVE  log'[i].token <= log'[j].token
        BY <3>1 DEF LogInOrder
      <3>2. i \in 1..Len(log) BY <2>3
      <3>3. CASE j \in 1..Len(log)
        <4>1. DOMAIN log = 1..Len(log) BY <1>1
        <4>2. log[i].token <= log[j].token
          BY <3>2, <3>3, <4>1 DEF IInv, LogInOrder
        <4> QED BY <2>3, <3>2, <3>3, <4>2
      <3>4. CASE j = Len(log) + 1
        <4>1. log'[j].token = k BY <2>1, <2>3, <3>4
        <4> QED BY <2>5, <3>2, <4>1
      <3> QED BY <2>4, <3>3, <3>4
    <2>8. HighInv'
      <3>1. log' # <<>> /\ log'[Len(log')].token = k BY <2>1, <2>3
      <3> QED BY <1>4, <3>1 DEF HighInv
    <2> QED BY <1>4, <2>3, <2>6, <2>7, <2>8
  <1> QED BY <1>1, <1>3, <1>4 DEF Write

\* The election begins with no reign, no token and an empty log.
LEMMA InitInv == ElectionInit => IInv
  <1> SUFFICES ASSUME ElectionInit PROVE IInv
    OBVIOUS
  <1>1. ElectionTypeOK BY ElectionAssumption DEF ElectionInit, ElectionTypeOK
  <1>2. LeaseInv BY DEF ElectionInit, LeaseInv
  <1>3. HeldInv BY DEF ElectionInit, HeldInv
  <1>4. LogInv /\ LogInOrder /\ HighInv BY DEF ElectionInit, LogInv, LogInOrder, HighInv
  <1> QED BY <1>1, <1>2, <1>3, <1>4 DEF IInv

\* The tick that wins or renews.
LEMMA LeadKeeps ==
    ASSUME IInv, NEW c \in Candidates, Lead(c)
    PROVE  IInv'
  <1> USE ElectionAssumption
  <1>1. /\ token' \in Nat /\ handovers' \in Seq(Candidates)
        /\ token' = Len(handovers') /\ token' >= token /\ token' > 0
        /\ \A r \in 1..token : handovers'[r] = handovers[r]
        /\ handovers'[token'] = c
    <2>1. CASE Win(c)
      BY <2>1 DEF Win, IInv, ElectionTypeOK, LeaseInv
    <2>2. CASE Renew(c)
      BY <2>2 DEF Renew, IInv, ElectionTypeOK, LeaseInv
    <2> QED BY <2>1, <2>2 DEF Lead
  <1>2. /\ holder' = c /\ age' = 0 /\ up' = up
        /\ carried' = [carried EXCEPT ![c] = token']
        /\ Write(c, token') \/ UNCHANGED logVars
    BY DEF Lead
  <1>3. /\ highest' \in Nat /\ log' \in Seq(Entry)
        /\ LogInv' /\ LogInOrder' /\ HighInv'
    <2>1. token' \in 1..token' BY <1>1
    <2> QED BY <1>1, <1>2, <2>1, WriteKeeps
  <1>4. ElectionTypeOK' BY <1>1, <1>2, <1>3 DEF IInv, ElectionTypeOK
  <1>5. LeaseInv' BY <1>1, <1>2 DEF LeaseInv
  <1>6. HeldInv'
    <2> SUFFICES ASSUME NEW d \in Candidates, carried'[d] # 0
                 PROVE  carried'[d] \in 1..token' /\ handovers'[carried'[d]] = d
      BY DEF HeldInv
    <2>1. carried \in [Candidates -> Nat] /\ token \in Nat BY DEF IInv, ElectionTypeOK
    <2>2. CASE d = c BY <1>1, <1>2, <2>1, <2>2
    <2>3. CASE d # c
      <3>1. carried'[d] = carried[d] BY <1>2, <2>1, <2>3
      <3>2. carried[d] \in 1..token /\ handovers[carried[d]] = d
        BY <3>1 DEF IInv, HeldInv
      <3> QED BY <1>1, <2>1, <3>1, <3>2
    <2> QED BY <2>2, <2>3
  <1> QED BY <1>3, <1>4, <1>5, <1>6 DEF IInv

\* Steps that touch neither the handovers nor the token: the log and what the
\* controllers hold may change.
LEMMA WakeKeeps ==
    ASSUME IInv, NEW c \in Candidates, Wake(c)
    PROVE  IInv'
  <1>1. UNCHANGED <<leaseVars, carried>> /\ up' = up \cup {c}
    BY DEF Wake
  <1>2. /\ highest' \in Nat /\ log' \in Seq(Entry)
        /\ LogInv' /\ LogInOrder' /\ HighInv'
    <2>1. CASE carried[c] # 0 /\ Write(c, carried[c])
      <3>1. carried[c] \in 1..token /\ handovers[carried[c]] = c
        BY <2>1 DEF IInv, HeldInv
      <3>2. carried[c] \in Nat BY DEF IInv, ElectionTypeOK
      <3>3. /\ handovers' = handovers /\ token' = token
            /\ handovers \in Seq(Candidates) /\ token \in Nat
            /\ token = Len(handovers)
        BY <1>1 DEF leaseVars, IInv, ElectionTypeOK, LeaseInv
      <3>4. token' >= token BY <3>3
      <3> QED BY <2>1, <3>1, <3>2, <3>3, <3>4, WriteKeeps
    <2>2. CASE UNCHANGED logVars
      BY <1>1, <2>2
         DEF logVars, leaseVars, IInv, ElectionTypeOK, LogInv, LogInOrder, HighInv
    <2> QED BY <2>1, <2>2 DEF Wake
  <1>3. ElectionTypeOK' BY <1>1, <1>2 DEF leaseVars, IInv, ElectionTypeOK
  <1>4. LeaseInv' /\ HeldInv'
    BY <1>1 DEF leaseVars, IInv, LeaseInv, HeldInv
  <1> QED BY <1>2, <1>3, <1>4 DEF IInv

\* Standing by, resigning, stalls and the clock touch neither tokens in use nor the log.
LEMMA RestKeeps ==
    ASSUME IInv,
           \/ \E c \in Candidates : Standby(c) \/ Resign(c) \/ Freeze(c)
           \/ PassTime
           \/ UNCHANGED electionVars
    PROVE  IInv'
  <1> USE ElectionAssumption
  <1>1. UNCHANGED <<holder, token, handovers, logVars>>
    BY DEF Standby, Resign, Freeze, PassTime, electionVars, leaseVars
  <1>2. /\ age' \in 0..LeaseTicks /\ up' \in SUBSET Candidates
        /\ carried' \in [Candidates -> Nat]
        /\ \A c \in Candidates : carried'[c] # 0 => carried'[c] = carried[c]
    <2>1. ASSUME NEW c \in Candidates, Standby(c)
          PROVE  /\ age' = age /\ up' = up
                 /\ carried' = [carried EXCEPT ![c] = 0]
      BY <2>1 DEF Standby, leaseVars
    <2>2. ASSUME NEW c \in Candidates, Resign(c) \/ Freeze(c)
          PROVE  /\ age' \in {age, LeaseTicks} /\ up' \in {up, up \ {c}}
                 /\ carried' = carried
      BY <2>2 DEF Resign, Freeze, leaseVars
    <2>3. ASSUME PassTime
          PROVE  age < LeaseTicks /\ age' = age + 1 /\ up' = up /\ carried' = carried
      BY <2>3 DEF PassTime
    <2>4. ASSUME UNCHANGED electionVars
          PROVE  age' = age /\ up' = up /\ carried' = carried
      BY <2>4 DEF electionVars, leaseVars
    <2> QED BY <2>1, <2>2, <2>3, <2>4 DEF IInv, ElectionTypeOK
  <1>3. ElectionTypeOK' BY <1>1, <1>2 DEF IInv, ElectionTypeOK, logVars
  <1>4. LeaseInv' BY <1>1 DEF IInv, LeaseInv
  <1>5. HeldInv' BY <1>1, <1>2 DEF IInv, HeldInv
  <1>6. LogInv' /\ LogInOrder' /\ HighInv'
    BY <1>1 DEF logVars, IInv, LogInv, LogInOrder, HighInv
  <1> QED BY <1>3, <1>4, <1>5, <1>6 DEF IInv

\* Every step keeps the invariant of leases, tokens and the log.
LEMMA StepInv == IInv /\ [ElectionNext]_electionVars => IInv'
  <1> SUFFICES ASSUME IInv, [ElectionNext]_electionVars PROVE IInv'
    OBVIOUS
  <1>1. ASSUME NEW c \in Candidates, Lead(c) PROVE IInv'
    BY <1>1, LeadKeeps
  <1>2. ASSUME NEW c \in Candidates, Wake(c) PROVE IInv'
    BY <1>2, WakeKeeps
  <1>3. ASSUME NEW c \in Candidates, Standby(c) \/ Resign(c) \/ Freeze(c)
        PROVE  IInv'
    BY <1>3, RestKeeps
  <1>4. ASSUME PassTime \/ UNCHANGED electionVars PROVE IInv'
    BY <1>4, RestKeeps
  <1> QED BY <1>1, <1>2, <1>3, <1>4 DEF ElectionNext, Tick

\* So the invariant holds always.
LEMMA Inductive == ElectionSpec => []IInv
  BY InitInv, StepInv, PTL DEF ElectionSpec

-----------------------------------------------------------------------------

\* The types of the lease, the controllers and the log.
THEOREM ElectionTypeCorrect == ElectionSpec => []ElectionTypeOK
  <1>1. IInv => ElectionTypeOK BY DEF IInv
  <1> QED BY <1>1, Inductive, PTL

\* campaign and tick: a fencing token belongs to one controller, in every hand
\* and in the log, through expiry, resignation, freezes and late wakes.
THEOREM TokensAreUnshared == ElectionSpec => []TokensUnshared
  <1>1. IInv => TokensUnshared
    <2> SUFFICES ASSUME IInv PROVE TokensUnshared
      OBVIOUS
    <2>1. DOMAIN log = 1..Len(log) BY DEF IInv, ElectionTypeOK
    <2>2. \A c \in Candidates : carried[c] # 0 => handovers[carried[c]] = c
      BY DEF IInv, HeldInv
    <2>3. \A i \in DOMAIN log : log[i].token # 0
                                /\ handovers[log[i].token] = log[i].by
      BY <2>1 DEF IInv, LogInv
    <2> QED BY <2>2, <2>3 DEF TokensUnshared
  <1> QED BY <1>1, Inductive, PTL

\* FencedLog.write: the tokens in the log never fall, so reigns do not mix.
THEOREM LogStaysInOrder == ElectionSpec => []LogInOrder
  <1>1. IInv => LogInOrder BY DEF IInv
  <1> QED BY <1>1, Inductive, PTL

\* FencedLog.write never fences the token of the present lease.
THEOREM LeaderStaysWelcome == ElectionSpec => []LeaderIsWelcome
  <1>1. IInv => LeaderIsWelcome
    BY DEF IInv, HighInv, LeaderIsWelcome, ElectionTypeOK
  <1> QED BY <1>1, Inductive, PTL

-----------------------------------------------------------------------------
(* Refinement: election with fencing implements Reigns.                    *)

\* A write by the owner of its token is a write of the abstract log.
LEMMA WriteRefines ==
    ASSUME IInv, NEW c \in Candidates, NEW k \in Nat, k > 0,
           handovers' \in Seq(Candidates),
           k <= Len(handovers'), handovers'[k] = c,
           Write(c, k) \/ UNCHANGED logVars
    PROVE  Abstract!Written
  <1>1. CASE UNCHANGED logVars BY <1>1 DEF logVars, Abstract!Written
  <1>2. CASE k >= highest /\ log' = Append(log, [by |-> c, token |-> k])
    <2>1. Abstract!Latest <= k /\ Abstract!Latest \in Nat
      <3>1. CASE log = <<>> BY <3>1 DEF Abstract!Latest
      <3>2. CASE log # <<>>
        BY <1>2, <3>2 DEF Abstract!Latest, IInv, ElectionTypeOK, HighInv
      <3> QED BY <3>1, <3>2
    <2>2. k \in Abstract!Latest..Len(handovers') BY <2>1
    <2> QED BY <1>2, <2>2 DEF Abstract!Written
  <1> QED BY <1>1, <1>2 DEF Write, IInv, ElectionTypeOK

\* Every step is one of the abstract succession, or none.
LEMMA StepRefines ==
    ASSUME IInv, IInv', [ElectionNext]_electionVars
    PROVE  [Abstract!Next]_<<handovers, log>>
  <1>1. ASSUME NEW c \in Candidates, Lead(c) PROVE Abstract!Next
    <2>1. handovers' = handovers \/ handovers' = Append(handovers, c)
      BY <1>1 DEF Lead, Win, Renew
    <2>2. Abstract!Crowned BY <2>1 DEF Abstract!Crowned
    <2>3. /\ holder' = c /\ c # NoOne
          /\ Write(c, token') \/ UNCHANGED logVars
      BY <1>1, ElectionAssumption DEF Lead
    <2>4. /\ token' \in Nat /\ token' > 0 /\ handovers' \in Seq(Candidates)
          /\ token' <= Len(handovers') /\ handovers'[token'] = c
      BY <2>3 DEF IInv, ElectionTypeOK, LeaseInv
    <2>5. Abstract!Written BY <2>3, <2>4, WriteRefines
    <2> QED BY <2>2, <2>5 DEF Abstract!Next
  <1>2. ASSUME NEW c \in Candidates, Wake(c) PROVE Abstract!Next
    <2>1. handovers' = handovers BY <1>2 DEF Wake, leaseVars
    <2>2. Abstract!Crowned BY <2>1 DEF Abstract!Crowned
    <2>3. Abstract!Written
      <3>1. CASE UNCHANGED log BY <3>1 DEF Abstract!Written
      <3>2. CASE carried[c] # 0 /\ Write(c, carried[c])
        <4>1. /\ carried[c] \in Nat /\ carried[c] > 0 /\ carried[c] <= Len(handovers')
              /\ handovers'[carried[c]] = c /\ handovers' \in Seq(Candidates)
          BY <2>1, <3>2 DEF IInv, ElectionTypeOK, LeaseInv, HeldInv
        <4> QED BY <3>2, <4>1, WriteRefines
      <3> QED BY <1>2, <3>1, <3>2 DEF Wake, logVars
    <2> QED BY <2>2, <2>3 DEF Abstract!Next
  <1>3. ASSUME \/ \E c \in Candidates : Standby(c) \/ Resign(c) \/ Freeze(c)
               \/ PassTime
               \/ UNCHANGED electionVars
        PROVE  UNCHANGED <<handovers, log>>
    BY <1>3 DEF Standby, Resign, Freeze, PassTime, electionVars, leaseVars, logVars
  <1> QED BY <1>1, <1>2, <1>3 DEF ElectionNext, Tick

\* What leader election promises its store: a log of reigns, one owner each,
\* that never goes back to an earlier one.
THEOREM KeepsReigns == ElectionSpec => ReignsAreKept
  <1>1. ElectionInit => Abstract!Init BY DEF ElectionInit, Abstract!Init
  <1>2. IInv /\ IInv' /\ [ElectionNext]_electionVars => [Abstract!Next]_<<handovers, log>>
    BY StepRefines
  <1> QED BY <1>1, <1>2, Inductive, PTL DEF ElectionSpec, ReignsAreKept, Abstract!Spec

\* The whole fence at once, for every step of campaign, tick, resign and write.
THEOREM FenceAlwaysHolds == ElectionSpec => []FenceHolds
  <1>1. ElectionTypeOK /\ TokensUnshared /\ LogInOrder /\ LeaderIsWelcome => FenceHolds
    BY DEF FenceHolds
  <1> QED
    BY <1>1, ElectionTypeCorrect, TokensAreUnshared, LogStaysInOrder,
       LeaderStaysWelcome, PTL

-----------------------------------------------------------------------------
(* Quarantine                                                              *)

\* A node in quarantine has been clean for at least as long as its clock says.
ClockIsClean == \A n \in Nodes : confined[n] # None => confined[n] <= clean[n]

CustodyInv == TaintGuards /\ ClockIsClean

\* A fresh fleet: every node open, trusted and clean.
LEMMA CustodyBegins ==
    ASSUME CustodyAssumption
    PROVE  CustodyInit => CustodyInv
<1>. SUFFICES ASSUME CustodyInit PROVE CustodyInv
  OBVIOUS
<1>1. NoKills \in [Deploys \X Ages -> 0..Threshold]
  BY DEF NoKills, CustodyAssumption
<1>2. kills \in [Nodes -> [Deploys \X Ages -> 0..Threshold]]
  BY <1>1 DEF CustodyInit
<1>3. /\ lease \in [Nodes -> 0..Ttl \cup {None}]
      /\ confined \in [Nodes -> 0..Ceiling \cup {None}]
  BY DEF CustodyInit
<1>4. probation \in [Nodes -> Probation..Ceiling]
  <2>1. Probation \in Probation..Ceiling
    BY DEF CustodyAssumption
  <2>. QED
    BY <2>1 DEF CustodyInit
<1>5. clean \in [Nodes -> 0..Ceiling]
  <2>1. Ceiling \in 0..Ceiling
    BY DEF CustodyAssumption
  <2>. QED
    BY <2>1 DEF CustodyInit
<1>6. CustodyTypeOK
  BY <1>2, <1>3, <1>4, <1>5 DEF CustodyInit, CustodyTypeOK
<1>. QED
  BY <1>6 DEF CustodyInit, CustodyInv, TaintGuards, ClockIsClean

\* Every step keeps the types: counts stop at the threshold, the clocks at the
\* ceiling, and a doubled probation too.
LEMMA TypesStay ==
    ASSUME CustodyAssumption, CustodyTypeOK, [CustodyNext]_custodyVars
    PROVE  CustodyTypeOK'
<1>1. CASE UNCHANGED custodyVars
  BY <1>1 DEF custodyVars, nodeVars, wardenVars, CustodyTypeOK
<1>2. ASSUME NEW n \in Nodes, Cordon(n) \/ Uncordon(n) \/ Walk(n)
      PROVE  CustodyTypeOK'
  BY <1>2 DEF Cordon, Uncordon, Walk, CustodyTypeOK, wardenVars
<1>3. ASSUME NEW n \in Nodes, LeaseCordon(n) \/ RenewCordon(n)
      PROVE  CustodyTypeOK'
  <2>1. Ttl \in 0..Ttl
    BY DEF CustodyAssumption
  <2>2. lease' \in [Nodes -> 0..Ttl \cup {None}]
    BY <1>3, <2>1 DEF LeaseCordon, RenewCordon, CustodyTypeOK
  <2>. QED
    BY <1>3, <2>2 DEF LeaseCordon, RenewCordon, CustodyTypeOK, wardenVars, nodeVars
<1>4. CASE LeaseSweep
  BY <1>4 DEF LeaseSweep, CustodyTypeOK, wardenVars
<1>5. CASE Patrol
  BY <1>5 DEF Patrol, CustodyTypeOK
<1>6. CASE CustodyTime
  <2>1. lease' \in [Nodes -> 0..Ttl \cup {None}]
    BY <1>6 DEF CustodyTime, CustodyTypeOK, None, CustodyAssumption
  <2>2. confined' \in [Nodes -> 0..Ceiling \cup {None}] /\ clean' \in [Nodes -> 0..Ceiling]
    BY <1>6 DEF CustodyTime, CustodyTypeOK, None, Least, CustodyAssumption
  <2>3. kills' \in [Nodes -> [Deploys \X Ages -> 0..Threshold]]
    <3>1. ASSUME NEW n \in Nodes
          PROVE  [c \in Deploys \X Ages |->
                     IF c[2] = 0 THEN 0 ELSE kills[n][<<c[1], c[2] - 1>>]]
                    \in [Deploys \X Ages -> 0..Threshold]
      <4>1. ASSUME NEW d \in Deploys, NEW a \in Ages, a # 0
            PROVE  <<d, a - 1>> \in Deploys \X Ages
        BY <4>1 DEF Ages, CustodyAssumption
      <4>2. ASSUME NEW c \in Deploys \X Ages
            PROVE  (IF c[2] = 0 THEN 0 ELSE kills[n][<<c[1], c[2] - 1>>])
                      \in 0..Threshold
        <5>1. CASE c[2] = 0
          BY <5>1 DEF CustodyAssumption
        <5>2. CASE c[2] # 0
          <6>1. <<c[1], c[2] - 1>> \in Deploys \X Ages
            BY <4>1, <5>2
          <6>. QED
            BY <5>2, <6>1 DEF CustodyTypeOK
        <5>. QED
          BY <5>1, <5>2
      <4>. QED
        BY <4>2
    <3>. QED
      BY <1>6, <3>1 DEF CustodyTime
  <2>. QED
    BY <1>6, <2>1, <2>2, <2>3 DEF CustodyTime, CustodyTypeOK, nodeVars
<1>7. ASSUME NEW n \in Nodes, KillInside(n)
      PROVE  CustodyTypeOK'
  <2>1. Least(Ceiling, 2 * probation[n]) \in Probation..Ceiling
    BY DEF Least, CustodyTypeOK, CustodyAssumption
  <2>2. 0 \in 0..Ceiling
    BY DEF CustodyAssumption
  <2>3. /\ confined' \in [Nodes -> 0..Ceiling \cup {None}]
        /\ clean' \in [Nodes -> 0..Ceiling]
    BY <1>7, <2>2 DEF KillInside, CustodyTypeOK
  <2>4. probation' \in [Nodes -> Probation..Ceiling]
    BY <1>7, <2>1 DEF KillInside, CustodyTypeOK
  <2>. QED
    BY <1>7, <2>3, <2>4 DEF KillInside, CustodyTypeOK, nodeVars
<1>8. ASSUME NEW n \in Nodes, NEW d \in Deploys, KillNoted(n, d)
      PROVE  CustodyTypeOK'
  <2>1. WithKill(n, d) \in [Deploys \X Ages -> 0..Threshold]
    BY DEF WithKill, Least, CustodyTypeOK, Ages, CustodyAssumption
  <2>. QED
    BY <1>8, <2>1 DEF KillNoted, CustodyTypeOK, nodeVars, CustodyAssumption
<1>9. ASSUME NEW n \in Nodes, NEW d \in Deploys, Quarantine(n, d)
      PROVE  CustodyTypeOK'
  <2>1. NoKills \in [Deploys \X Ages -> 0..Threshold]
    BY DEF NoKills, CustodyAssumption
  <2>. QED
    BY <1>9, <2>1 DEF Quarantine, CustodyTypeOK, CustodyAssumption
<1>10. ASSUME NEW n \in Nodes, TakeOut(n) \/ Add(n)
       PROVE  CustodyTypeOK'
  BY <1>10 DEF TakeOut, Add, CustodyTypeOK, wardenVars
<1>. QED
  BY <1>1, <1>2, <1>3, <1>4, <1>5, <1>6, <1>7, <1>8, <1>9, <1>10 DEF CustodyNext

\* Quarantine keeps its taint: only a patrol takes one off a node that stays,
\* and it ends the quarantine in the same step.
LEMMA TaintStays ==
    ASSUME CustodyAssumption, TaintGuards, [CustodyNext]_custodyVars
    PROVE  TaintGuards'
<1>1. CustodyTypeOK'
  BY TypesStay DEF TaintGuards
<1>. SUFFICES ASSUME NEW n \in Nodes \ Leaving, confined'[n] # None
              PROVE  n \in tainted'
  BY <1>1 DEF TaintGuards
<1>2. confined[n] # None => n \in tainted
  BY DEF TaintGuards
<1>3. CASE UNCHANGED custodyVars
  BY <1>2, <1>3 DEF custodyVars, nodeVars, wardenVars
<1>4. CASE Patrol
  BY <1>2, <1>4 DEF Patrol
<1>5. CASE CustodyTime
  BY <1>2, <1>5 DEF CustodyTime, nodeVars
<1>6. CASE LeaseSweep
  BY <1>2, <1>6 DEF LeaseSweep, wardenVars
<1>7. ASSUME NEW m \in Nodes,
             \/ Cordon(m) \/ Uncordon(m) \/ LeaseCordon(m) \/ RenewCordon(m)
             \/ Walk(m) \/ Add(m) \/ TakeOut(m)
      PROVE  n \in tainted'
  BY <1>2, <1>7
     DEF Cordon, Uncordon, LeaseCordon, RenewCordon, Walk, Add, TakeOut, wardenVars, nodeVars
<1>8. ASSUME NEW m \in Nodes, KillInside(m)
      PROVE  n \in tainted'
  BY <1>2, <1>8 DEF KillInside, nodeVars, TaintGuards, CustodyTypeOK
<1>9. ASSUME NEW m \in Nodes, NEW d \in Deploys, KillNoted(m, d) \/ Quarantine(m, d)
      PROVE  n \in tainted'
  BY <1>2, <1>9 DEF KillNoted, Quarantine, nodeVars, TaintGuards, CustodyTypeOK
<1>. QED
  BY <1>3, <1>4, <1>5, <1>6, <1>7, <1>8, <1>9 DEF CustodyNext

\* A kill sets both clocks back, and time moves both.
LEMMA ClockStaysClean ==
    ASSUME CustodyAssumption, CustodyTypeOK, ClockIsClean, [CustodyNext]_custodyVars
    PROVE  ClockIsClean'
<1>. SUFFICES ASSUME NEW n \in Nodes, confined'[n] # None
              PROVE  confined'[n] <= clean'[n]
  BY DEF ClockIsClean
<1>1. /\ confined[n] # None => confined[n] <= clean[n]
      /\ confined[n] \in 0..Ceiling \cup {None} /\ clean[n] \in 0..Ceiling
      /\ Ceiling \in Nat
  BY DEF ClockIsClean, CustodyTypeOK, CustodyAssumption
<1>2. CASE UNCHANGED custodyVars
  BY <1>1, <1>2 DEF custodyVars, wardenVars
<1>3. CASE Patrol
  BY <1>1, <1>3 DEF Patrol
<1>4. CASE CustodyTime
  <2>1. /\ confined[n] # None
        /\ confined'[n] = Least(Ceiling, confined[n] + 1)
        /\ clean'[n] = Least(Ceiling, clean[n] + 1)
    BY <1>4 DEF CustodyTime
  <2>. QED
    BY <1>1, <2>1 DEF Least, None
<1>5. CASE LeaseSweep
  BY <1>1, <1>5 DEF LeaseSweep, wardenVars
<1>6. ASSUME NEW m \in Nodes,
             \/ Cordon(m) \/ Uncordon(m) \/ LeaseCordon(m) \/ RenewCordon(m)
             \/ Walk(m) \/ Add(m) \/ TakeOut(m)
      PROVE  confined'[n] <= clean'[n]
  BY <1>1, <1>6
     DEF Cordon, Uncordon, LeaseCordon, RenewCordon, Walk, Add, TakeOut, wardenVars
<1>7. ASSUME NEW m \in Nodes, KillInside(m)
      PROVE  confined'[n] <= clean'[n]
  <2>1. CASE m = n
    BY <1>7, <2>1 DEF KillInside, CustodyTypeOK
  <2>2. CASE m # n
    BY <1>1, <1>7, <2>2 DEF KillInside, CustodyTypeOK
  <2>. QED
    BY <2>1, <2>2
<1>8. ASSUME NEW m \in Nodes, NEW d \in Deploys, KillNoted(m, d)
      PROVE  confined'[n] <= clean'[n]
  BY <1>1, <1>8 DEF KillNoted, CustodyTypeOK
<1>9. ASSUME NEW m \in Nodes, NEW d \in Deploys, Quarantine(m, d)
      PROVE  confined'[n] <= clean'[n]
  <2>1. CASE m = n
    BY <1>9, <2>1 DEF Quarantine, CustodyTypeOK
  <2>2. CASE m # n
    BY <1>1, <1>9, <2>2 DEF Quarantine, CustodyTypeOK
  <2>. QED
    BY <2>1, <2>2
<1>. QED
  BY <1>2, <1>3, <1>4, <1>5, <1>6, <1>7, <1>8, <1>9 DEF CustodyNext

\* Only a patrol that found the probation over takes a taint off a node that
\* stays in the store.
LEMMA ReleaseIsEarned ==
    ASSUME CustodyAssumption, CustodyTypeOK, ClockIsClean, [CustodyNext]_custodyVars,
           NEW n \in tainted \ tainted', n \in present'
    PROVE  clean[n] >= probation[n]
<1>1. CASE Patrol
  <2>1. n \in Due
    BY <1>1 DEF Patrol, Reached
  <2>2. n \in Nodes /\ confined[n] # None /\ confined[n] >= probation[n]
    BY <2>1 DEF Due
  <2>3. confined[n] <= clean[n]
    BY <2>2 DEF ClockIsClean
  <2>4. confined[n] \in Int /\ clean[n] \in Int /\ probation[n] \in Int
    BY <2>2 DEF CustodyTypeOK, CustodyAssumption, None
  <2>. QED
    BY <2>2, <2>3, <2>4
<1>2. ASSUME NEW m \in Nodes, TakeOut(m)
      PROVE  FALSE
  BY <1>2 DEF TakeOut
<1>3. CASE UNCHANGED custodyVars
  BY <1>3 DEF custodyVars, nodeVars
<1>4. CASE CustodyTime \/ LeaseSweep
  BY <1>4 DEF CustodyTime, LeaseSweep, nodeVars
<1>5. ASSUME NEW m \in Nodes,
             \/ Cordon(m) \/ Uncordon(m) \/ LeaseCordon(m) \/ RenewCordon(m)
             \/ Walk(m) \/ Add(m) \/ KillInside(m)
      PROVE  FALSE
  BY <1>5
     DEF Cordon, Uncordon, LeaseCordon, RenewCordon, Walk, Add, KillInside, nodeVars
<1>6. ASSUME NEW m \in Nodes, NEW d \in Deploys, KillNoted(m, d) \/ Quarantine(m, d)
      PROVE  FALSE
  BY <1>6 DEF KillNoted, Quarantine, nodeVars
<1>. QED
  BY <1>1, <1>2, <1>3, <1>4, <1>5, <1>6 DEF CustodyNext

\* What every state of the custody keeps.
LEMMA CustodyStays ==
    ASSUME CustodyAssumption
    PROVE  CustodySpec => []CustodyInv
<1>1. CustodyInit => CustodyInv
  BY CustodyBegins
<1>2. CustodyInv /\ [CustodyNext]_custodyVars => CustodyInv'
  BY TaintStays, ClockStaysClean DEF CustodyInv, TaintGuards
<1>. QED
  BY <1>1, <1>2, PTL DEF CustodySpec

\* quarantine.py:1: a node that is never replaced carries the taint as long as
\* it is in quarantine, whoever else opens or closes it.
THEOREM QuarantineKeepsItsTaint ==
    ASSUME CustodyAssumption
    PROVE  CustodySpec => []TaintGuards
<1>1. CustodyInv => TaintGuards
  BY DEF CustodyInv
<1>. QED
  BY <1>1, CustodyStays, PTL

\* quarantine.py:6-8: only a probation without a kill gives custody back.
THEOREM CustodyIsEarnedBack ==
    ASSUME CustodyAssumption
    PROVE  CustodySpec => OnlyCleanNodesReturn
<1>1. ASSUME CustodyInv, [CustodyNext]_custodyVars
      PROVE  [\A n \in tainted \ tainted' :
                 n \in present' => clean[n] >= probation[n]]_custodyVars
  BY <1>1, ReleaseIsEarned DEF CustodyInv, TaintGuards
<1>. QED
  BY <1>1, CustodyStays, PTL DEF CustodySpec, OnlyCleanNodesReturn
=============================================================================
