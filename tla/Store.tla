-------------------------------- MODULE Store --------------------------------
(***************************************************************************)
(* The versioned store (fleet/store.py) and the controllers that write it  *)
(* with the read / decide / write protocol of fleet/control/retryloop.py.  *)
(*                                                                         *)
(* get_task returns the LIVE Task object, not a copy, so the model has a   *)
(* heap: tasks maps a name to the identity of the object the store holds,  *)
(* a controller's handle is an object identity plus the generation it      *)
(* read, and an edit through a handle changes the heap before the store    *)
(* has ruled on the write.  A task is abstracted to its phase.             *)
(***************************************************************************)
EXTENDS Naturals, Sequences

CONSTANTS
    Names,            \* task names
    NodeNames,        \* node names
    Controllers,      \* the concurrent writers
    Phases,           \* the values a controller may write into a task
    FirstPhase,       \* the phase a new Task is born with
    MaxObjects,       \* bound: Task objects ever created
    MaxSequence,      \* bound: events ever recorded
    MaxHandles,       \* bound: handles one controller holds (2 for a batch)
    AttemptsAllowed   \* RetryLoop.attempts_allowed

ASSUME StoreAssumption ==
    /\ MaxObjects \in Nat /\ MaxSequence \in Nat
    /\ MaxHandles \in Nat \ {0}
    /\ AttemptsAllowed \in Nat \ {0}
    /\ FirstPhase \in Phases

VARIABLES
    tasks,          \* [Names -> object held under that name, or Nothing]
    heap,           \* every Task object by identity, reachable or not
    nextObject,     \* the identity the next Task object gets
    nodes,          \* the node names present
    events,         \* the event log
    nextSequence,   \* Store.next_sequence
    held,           \* [Controllers -> handles read and not yet written back]
    spent,          \* [Controllers -> attempts of the running RetryLoop.edit]
    dirty           \* history: names edited in place since their last
                    \* accepted write

storeVars == <<tasks, heap, nextObject, nodes, events, nextSequence>>
clientVars == <<held, spent>>
vars == <<storeVars, clientVars, dirty>>

Nothing == 0
Objects == 1..MaxObjects
Allocated == 1..(nextObject - 1)
Kinds == {"task-added", "task-updated", "task-removed",
          "node-added", "node-removed"}

Task == [name : Names, generation : Nat, phase : Phases]
Event == [sequence : Nat, kind : Kinds, name : Names \cup NodeNames]

\* moved is history: the task was written by another controller, removed or
\* replaced after this handle was read.
Handle == [obj : Allocated, generation : Nat, moved : BOOLEAN]

TypeOK ==
    /\ tasks \in [Names -> Allocated \cup {Nothing}]
    /\ nextObject \in 1..(MaxObjects + 1)
    /\ heap \in [Allocated -> Task]
    /\ nodes \in SUBSET NodeNames
    /\ events \in Seq(Event)
    /\ nextSequence \in Nat
    /\ held \in [Controllers -> Seq(Handle)]
    /\ spent \in [Controllers -> 0..(AttemptsAllowed - 1)]
    /\ dirty \in SUBSET Names

-----------------------------------------------------------------------------

Init ==
    /\ tasks = [n \in Names |-> Nothing]
    /\ heap = <<>>
    /\ nextObject = 1
    /\ nodes = {}
    /\ events = <<>>
    /\ nextSequence = 0
    /\ held = [c \in Controllers |-> <<>>]
    /\ spent = [c \in Controllers |-> 0]
    /\ dirty = {}

\* Store._record: one event per accepted write.
Record(kind, name) ==
    /\ nextSequence < MaxSequence
    /\ events' = Append(events, [sequence |-> nextSequence, kind |-> kind,
                                 name |-> name])
    /\ nextSequence' = nextSequence + 1

\* What a write of these objects means to the handles outstanding on them.
MarkMoved(handles, objs) ==
    [i \in DOMAIN handles |->
        IF handles[i].obj \in objs THEN [handles[i] EXCEPT !.moved = TRUE]
                                   ELSE handles[i]]

Held(n) == tasks[n] # Nothing

\* add_task: a fresh Task object under a free name; a taken one is a Conflict.
AddTask(n) ==
    /\ ~Held(n)
    /\ nextObject \in Objects
    /\ heap' = [o \in 1..nextObject |->
                    IF o = nextObject
                    THEN [name |-> n, generation |-> 1, phase |-> FirstPhase]
                    ELSE heap[o]]
    /\ tasks' = [tasks EXCEPT ![n] = nextObject]
    /\ nextObject' = nextObject + 1
    /\ Record("task-added", n)
    /\ dirty' = dirty \ {n}
    /\ UNCHANGED <<nodes, clientVars>>

RemoveTask(n) ==
    /\ Held(n)
    /\ held' = [c \in Controllers |-> MarkMoved(held[c], {tasks[n]})]
    /\ tasks' = [tasks EXCEPT ![n] = Nothing]
    /\ Record("task-removed", n)
    /\ dirty' = dirty \ {n}
    /\ UNCHANGED <<heap, nextObject, nodes, spent>>

AddNode(m) ==
    /\ m \notin nodes
    /\ nodes' = nodes \cup {m}
    /\ Record("node-added", m)
    /\ UNCHANGED <<tasks, heap, nextObject, clientVars, dirty>>

RemoveNode(m) ==
    /\ m \in nodes
    /\ nodes' = nodes \ {m}
    /\ Record("node-removed", m)
    /\ UNCHANGED <<tasks, heap, nextObject, clientVars, dirty>>

-----------------------------------------------------------------------------
(* A controller.                                                           *)

\* get_task: the handle aliases the stored object.
HandleOn(n) == [obj |-> tasks[n],
                generation |-> heap[tasks[n]].generation,
                moved |-> FALSE]

Read(c, n) ==
    /\ Held(n)
    /\ spent[c] = 0
    /\ Len(held[c]) < MaxHandles
    /\ held' = [held EXCEPT ![c] = Append(@, HandleOn(n))]
    /\ UNCHANGED <<storeVars, spent, dirty>>

\* Wrong: the edit itself bumps the generation.
EditBumping(c, i, p) ==
    LET o == held[c][i].obj
    IN  /\ heap[o].phase # p
        /\ heap' = [heap EXCEPT ![o].phase = p, ![o].generation = @ + 1]
        /\ dirty' = IF tasks[heap[o].name] = o THEN dirty \cup {heap[o].name}
                                               ELSE dirty
        /\ UNCHANGED <<tasks, nextObject, nodes, events, nextSequence,
                       clientVars>>

\* RetryLoop.edit calls change(held), which writes through the live handle.
Edit(c, i, p) ==
    LET o == held[c][i].obj
    IN  /\ heap[o].phase # p
        /\ heap' = [heap EXCEPT ![o].phase = p]
        /\ dirty' = IF tasks[heap[o].name] = o THEN dirty \cup {heap[o].name}
                                               ELSE dirty
        /\ UNCHANGED <<tasks, nextObject, nodes, events, nextSequence,
                       clientVars>>

Named(h) == heap[h.obj].name
Current(h) == heap[tasks[Named(h)]].generation = h.generation

\* The objects an accepted write of h replaces and stores.
Touched(h) == {tasks[Named(h)], h.obj}

\* Wrong: an accepted write leaves the generation as it was.
UpdateWithoutBump(c, h) ==
    /\ Held(Named(h))
    /\ Current(h)
    /\ tasks' = [tasks EXCEPT ![Named(h)] = h.obj]
    /\ Record("task-updated", Named(h))
    /\ held' = [d \in Controllers |->
                      IF d = c THEN <<>>
                    ELSE MarkMoved(held[d], Touched(h))]
    /\ spent' = [spent EXCEPT ![c] = 0]
    /\ dirty' = dirty \ {Named(h)}
    /\ UNCHANGED <<heap, nextObject, nodes>>

\* update_task on a name the store still holds at the generation read.
UpdateAccepted(c, h) ==
    /\ Held(Named(h))
    /\ Current(h)
    /\ heap' = [heap EXCEPT ![h.obj].generation = h.generation + 1]
    /\ tasks' = [tasks EXCEPT ![Named(h)] = h.obj]
    /\ Record("task-updated", Named(h))
    /\ held' = [d \in Controllers |->
                      IF d = c THEN <<>>
                    ELSE MarkMoved(held[d], Touched(h))]
    /\ spent' = [spent EXCEPT ![c] = 0]
    /\ dirty' = dirty \ {Named(h)}
    /\ UNCHANGED <<nextObject, nodes>>

\* The Conflict RetryLoop.edit absorbs: one attempt is spent and the loop
\* reads the name again; at the cap it raises the Conflict to its caller.
UpdateRefused(c, h) ==
    /\ Held(Named(h))
    /\ ~Current(h)
    /\ IF spent[c] + 1 < AttemptsAllowed
       THEN /\ held' = [held EXCEPT ![c] = <<HandleOn(Named(h))>>]
            /\ spent' = [spent EXCEPT ![c] = @ + 1]
       ELSE /\ held' = [held EXCEPT ![c] = <<>>]
            /\ spent' = [spent EXCEPT ![c] = 0]
    /\ UNCHANGED <<storeVars, dirty>>

\* NotFound leaves the loop: the caller gets the error.
UpdateMissing(c, h) ==
    /\ ~Held(Named(h))
    /\ held' = [held EXCEPT ![c] = <<>>]
    /\ spent' = [spent EXCEPT ![c] = 0]
    /\ UNCHANGED <<storeVars, dirty>>

Update(c) ==
    /\ Len(held[c]) = 1
    /\ LET h == Head(held[c])
       IN  UpdateAccepted(c, h) \/ UpdateRefused(c, h) \/ UpdateMissing(c, h)

\* Wrong: the batch takes one sequence number for its two events.
BatchNumberedOnce(c, g, h) ==
    /\ Held(Named(g)) /\ Current(g)
    /\ Held(Named(h)) /\ Current(h)
    /\ nextSequence + 1 < MaxSequence
    /\ heap' = [heap EXCEPT ![g.obj].generation = g.generation + 1,
                            ![h.obj].generation = h.generation + 1]
    /\ tasks' = [tasks EXCEPT ![Named(g)] = g.obj, ![Named(h)] = h.obj]
    /\ events' = events \o
          <<[sequence |-> nextSequence, kind |-> "task-updated",
             name |-> Named(g)],
            [sequence |-> nextSequence, kind |-> "task-updated",
             name |-> Named(h)]>>
    /\ nextSequence' = nextSequence + 1
    /\ held' = [d \in Controllers |->
                    IF d = c THEN <<>>
                    ELSE MarkMoved(held[d], Touched(g) \cup Touched(h))]
    /\ dirty' = dirty \ {Named(g), Named(h)}
    /\ UNCHANGED <<nextObject, nodes, spent>>

\* batch_update validates every member before it writes the first one.
BatchAccepted(c, g, h) ==
    /\ Held(Named(g)) /\ Current(g)
    /\ Held(Named(h)) /\ Current(h)
    /\ nextSequence + 1 < MaxSequence
    /\ heap' = [heap EXCEPT ![g.obj].generation = g.generation + 1,
                            ![h.obj].generation = h.generation + 1]
    /\ tasks' = [tasks EXCEPT ![Named(g)] = g.obj, ![Named(h)] = h.obj]
    /\ events' = events \o
          <<[sequence |-> nextSequence, kind |-> "task-updated",
             name |-> Named(g)],
            [sequence |-> nextSequence + 1, kind |-> "task-updated",
             name |-> Named(h)]>>
    /\ nextSequence' = nextSequence + 2
    /\ held' = [d \in Controllers |->
                    IF d = c THEN <<>>
                    ELSE MarkMoved(held[d], Touched(g) \cup Touched(h))]
    /\ dirty' = dirty \ {Named(g), Named(h)}
    /\ UNCHANGED <<nextObject, nodes, spent>>

\* The first stale or missing member refuses the whole batch.
BatchRefused(c, g, h) ==
    /\ \E x \in {g, h} : ~(Held(Named(x)) /\ Current(x))
    /\ held' = [held EXCEPT ![c] = <<>>]
    /\ UNCHANGED <<storeVars, spent, dirty>>

BatchUpdate(c) ==
    /\ Len(held[c]) = 2
    /\ \/ BatchAccepted(c, held[c][1], held[c][2])
       \/ BatchRefused(c, held[c][1], held[c][2])

Next ==
    \/ \E n \in Names : AddTask(n) \/ RemoveTask(n)
    \/ \E m \in NodeNames : AddNode(m) \/ RemoveNode(m)
    \/ \E c \in Controllers :
          \/ \E n \in Names : Read(c, n)
          \/ \E i \in DOMAIN held[c], p \in Phases : Edit(c, i, p)
          \/ Update(c)
          \/ BatchUpdate(c)

Spec == Init /\ [][Next]_vars

-----------------------------------------------------------------------------
(* What the store promises.                                                *)

\* Only one Task object was ever created under the name of object o.
Unreused(o) == \A x \in Allocated : heap[x].name = heap[o].name => x = o

\* Handle i of controller c would pass update_task's generation test.
WouldLand(c, i) ==
    /\ Held(Named(held[c][i]))
    /\ Current(held[c][i])

\* The lost-update promise (store.py:53-62): while a name is not reused, the
\* generation test lets a write through only if no other write to the task was
\* accepted, and the task was not removed, since the writer read it.
FreshWhileNameUnreused ==
    \A c \in Controllers : \A i \in DOMAIN held[c] :
        WouldLand(c, i) /\ Unreused(held[c][i].obj) => ~held[c][i].moved

\* The other direction: a Conflict is never spurious.  A writer is refused only
\* because the task really moved since it read it, so every attempt the retry
\* loop spends is paid for by another writer's progress (retryloop.py:5-9).
NoSpuriousRefusal ==
    \A c \in Controllers : \A i \in DOMAIN held[c] :
        Held(Named(held[c][i])) /\ ~Current(held[c][i]) => held[c][i].moved

\* Store._record: one event per accepted write, numbered without a gap, so a
\* cursor names exactly one place in the log (store.py:38-43).
LogDense ==
    /\ Len(events) = nextSequence
    /\ \A i \in DOMAIN events : events[i].sequence = i - 1

\* The log alone tells which names exist: the last add or remove of a name in
\* it is an add exactly when the store holds the name.  This is what lets a
\* watcher rebuild the store from any prefix of its own.
LastAddOrRemove(n, k) ==
    /\ events[k].name = n
    /\ events[k].kind \in {"task-added", "task-removed"}
    /\ \A j \in DOMAIN events :
          /\ j > k
          /\ events[j].kind \in {"task-added", "task-removed"}
          => events[j].name # n

LogTellsExistence ==
    \A n \in Names :
        Held(n) <=> \E k \in DOMAIN events :
                       /\ LastAddOrRemove(n, k)
                       /\ events[k].kind = "task-added"

\* While a name stays in the store its generation never rewinds, and the
\* object held under it changes only together with the generation: the test
\* in update_task leaves no way to put an older object back in place.
GenerationOf(n) == heap[tasks[n]].generation

GenerationClimbs ==
    \A n \in Names :
        Held(n) /\ Held(n)' =>
            /\ GenerationOf(n)' >= GenerationOf(n)
            /\ tasks[n]' # tasks[n] => GenerationOf(n)' > GenerationOf(n)

GenerationNeverRewinds == [][GenerationClimbs]_vars

\* The store's own state after every call, batches that fail half way included:
\* its types, a log without gaps and a log that tells which tasks exist.
StoreConsistent == TypeOK /\ LogDense /\ LogTellsExistence

-----------------------------------------------------------------------------
(* The inductive strengthening StoreProofs uses.                           *)

\* The object held under a name carries that name.
NameOfHeld == \A n \in Names : Held(n) => heap[tasks[n]].name = n

\* A moved handle on a name used once is older than the object it aliases.
MovedIsOlder(h) ==
    Unreused(h.obj) =>
        /\ h.generation <= heap[h.obj].generation
        /\ h.moved /\ Held(Named(h)) => h.generation < heap[h.obj].generation

\* A handle nobody moved still is the stored object at its generation.
UnmovedIsCurrent(h) ==
    ~h.moved => /\ tasks[Named(h)] = h.obj
                /\ h.generation = heap[h.obj].generation

HandleInv ==
    \A c \in Controllers : \A i \in DOMAIN held[c] :
        MovedIsOlder(held[c][i]) /\ UnmovedIsCurrent(held[c][i])
=============================================================================
