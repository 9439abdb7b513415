-------------------------------- MODULE Watch --------------------------------
(***************************************************************************)
(* The consumers of the store's event log, running beside the writers of   *)
(* Store: an informer (fleet/control/watch.py), a subscription with a      *)
(* label selector (fleet/subscriptions.py), the retention keeper that      *)
(* compacts the log (fleet/eventretention.py), and the informer a control  *)
(* plane rebuilds when it starts cold (fleet/coldstart.py).                *)
(*                                                                         *)
(* Events carry names only, so a consumer that replays an event reads the  *)
(* store as it is NOW, with every edit a controller has made in place.     *)
(***************************************************************************)
EXTENDS Store, FiniteSets, SequencesExt

CONSTANTS
    Crews,         \* the sets of consumers a store may be started with
    Matching,      \* the Task objects whose labels match the selector
    MaxKeep        \* bound: the highest keep_from an operator compacts to

Informer == "informer"
Watcher == "watcher"
Unknown == "unknown"

ASSUME WatchAssumption ==
    /\ Crews \subseteq SUBSET {Informer, Watcher}
    /\ MaxKeep \in 0..MaxSequence
    /\ Unknown \notin Phases

Unregistered == MaxSequence + 1

VARIABLES
    known,           \* Informer.known_tasks: a phase, or Unknown
    knownNodes,      \* Informer.known_nodes
    cursor,          \* [Subscribers -> the next sequence it will read]; its
                     \* domain is who consumes this store
    saved,           \* the watcher's cursor as it last wrote it down
    delivered,       \* sequences pull() has handed to the watcher
    registered,      \* RetentionKeeper.cursors, or Unregistered
    compactedBelow,  \* RetentionKeeper.compacted_below
    addedAt,         \* history: the sequence each Task object was added at
    gapped,          \* history: subscribers that read past a missing event
    sound            \* history: registered at or above compactedBelow, with
                     \* nothing missed before

informerVars == <<known, knownNodes>>
watcherVars == <<saved, delivered>>
keeperVars == <<registered, compactedBelow, sound>>
consumerVars == <<informerVars, watcherVars, keeperVars, cursor, gapped>>
watchVars == <<vars, consumerVars, addedAt>>

Subscribers == DOMAIN cursor

Views == [Names -> Phases \cup {Unknown}]

WatchTypeOK ==
    /\ known \in Views
    /\ knownNodes \in SUBSET NodeNames
    /\ Subscribers \in Crews
    /\ cursor \in [Subscribers -> 0..MaxSequence]
    /\ saved \in 0..MaxSequence
    /\ delivered \in SUBSET (0..MaxSequence)
    /\ registered \in [Subscribers -> 0..MaxSequence \cup {Unregistered}]
    /\ compactedBelow \in 0..MaxKeep
    /\ gapped \in SUBSET Subscribers
    /\ sound \in SUBSET Subscribers

WatchInit ==
    /\ Init
    /\ known = [n \in Names |-> Unknown]
    /\ knownNodes = {}
    /\ \E crew \in Crews :
          /\ cursor = [s \in crew |-> 0]
          /\ registered = [s \in crew |-> Unregistered]
    /\ saved = 0
    /\ delivered = {}
    /\ compactedBelow = 0
    /\ addedAt = <<>>
    /\ gapped = {}
    /\ sound = {}

-----------------------------------------------------------------------------
(* Reading the log.                                                        *)

\* Store.events_since.
Since(q) ==
    FoldLeft(LAMBDA kept, e : IF e.sequence >= q THEN Append(kept, e) ELSE kept,
             <<>>, events)

\* The cursor after reading everything from q on.
After(q) == IF Since(q) = <<>> THEN q ELSE Last(Since(q)).sequence + 1

\* Reading from q skips an event the log no longer holds.
Skips(q) == q < compactedBelow

\* Wrong: a task that was removed stays known.
ApplyKeepingRemoved(view, e) ==
    CASE e.kind \in {"task-added", "task-updated"} ->
            IF Held(e.name)
            THEN [view EXCEPT !.tasks[e.name] = heap[tasks[e.name]].phase]
            ELSE view
      [] e.kind = "task-removed" -> view
      [] e.kind = "node-added" -> [view EXCEPT !.nodes = @ \cup {e.name}]
      [] e.kind = "node-removed" -> [view EXCEPT !.nodes = @ \ {e.name}]

\* One round of Informer.refresh's loop: the event names a task or a node, the
\* phase comes from the store as it is now, an add of a ghost is nothing.
Apply(view, e) ==
    CASE e.kind \in {"task-added", "task-updated"} ->
            IF Held(e.name)
            THEN [view EXCEPT !.tasks[e.name] = heap[tasks[e.name]].phase]
            ELSE view
      [] e.kind = "task-removed" -> [view EXCEPT !.tasks[e.name] = Unknown]
      [] e.kind = "node-added" -> [view EXCEPT !.nodes = @ \cup {e.name}]
      [] e.kind = "node-removed" -> [view EXCEPT !.nodes = @ \ {e.name}]

Replay(view, q) == FoldLeft(Apply, view, Since(q))

Blank == [tasks |-> [n \in Names |-> Unknown], nodes |-> {}]

Refresh ==
    /\ Informer \in Subscribers
    /\ LET view == Replay([tasks |-> known, nodes |-> knownNodes],
                          cursor[Informer])
       IN  known' = view.tasks /\ knownNodes' = view.nodes
    /\ cursor' = [cursor EXCEPT ![Informer] = After(@)]
    /\ gapped' = IF Skips(cursor[Informer]) THEN gapped \cup {Informer}
                                            ELSE gapped
    /\ UNCHANGED <<vars, watcherVars, keeperVars, addedAt>>

\* rebuild_informer: a new Informer at cursor 0, refreshed once.  The keeper
\* may still hold the old one's cursor.
RebuildInformer ==
    /\ Informer \in Subscribers
    /\ LET view == Replay(Blank, 0)
       IN  known' = view.tasks /\ knownNodes' = view.nodes
    /\ cursor' = [cursor EXCEPT ![Informer] = After(0)]
    /\ gapped' = IF Skips(0) THEN gapped \cup {Informer}
                             ELSE gapped \ {Informer}
    /\ sound' = sound \ {Informer}
    /\ UNCHANGED <<vars, watcherVars, registered, compactedBelow, addedAt>>

\* Subscription._wants for a "task" prefix and a label selector: the labels
\* are those of the object the store holds under the name now.
Wants(e) ==
    /\ e.kind \in {"task-added", "task-updated", "task-removed"}
    /\ Held(e.name)
    /\ tasks[e.name] \in Matching

Pull ==
    /\ Watcher \in Subscribers
    /\ delivered' = delivered \cup
          {e.sequence : e \in {x \in ToSet(Since(cursor[Watcher])) : Wants(x)}}
    /\ cursor' = [cursor EXCEPT ![Watcher] = After(@)]
    /\ gapped' = IF Skips(cursor[Watcher]) THEN gapped \cup {Watcher}
                                           ELSE gapped
    /\ UNCHANGED <<vars, informerVars, saved, keeperVars, addedAt>>

\* The watcher writes its cursor down, and comes back from what it wrote: what
\* it was handed after that is forgotten with the crash.
SaveCursor ==
    /\ Watcher \in Subscribers
    /\ saved # cursor[Watcher]
    /\ saved' = cursor[Watcher]
    /\ UNCHANGED <<vars, informerVars, delivered, keeperVars, cursor, gapped,
                   addedAt>>

\* Wrong: what it was handed is forgotten, the cursor is not.
CrashKeepingCursor ==
    /\ Watcher \in Subscribers
    /\ saved # cursor[Watcher]
    /\ delivered' = {q \in delivered : q < saved}
    /\ UNCHANGED <<vars, informerVars, saved, keeperVars, cursor, gapped, addedAt>>

CrashWatcher ==
    /\ Watcher \in Subscribers
    /\ saved # cursor[Watcher]
    /\ cursor' = [cursor EXCEPT ![Watcher] = saved]
    /\ delivered' = {q \in delivered : q < saved}
    /\ UNCHANGED <<vars, informerVars, saved, keeperVars, gapped, addedAt>>

-----------------------------------------------------------------------------
(* The retention keeper.                                                   *)

\* The cursor a subscriber reports: the watcher the one it can come back to.
Reported(s) == IF s = Watcher THEN saved ELSE cursor[s]

\* register: any subscriber, at any cursor.
Register(s) ==
    /\ registered[s] = Unregistered
    /\ registered' = [registered EXCEPT ![s] = Reported(s)]
    /\ sound' = IF s \in gapped \/ Reported(s) < compactedBelow
                THEN sound ELSE sound \cup {s}
    /\ UNCHANGED <<vars, informerVars, watcherVars, compactedBelow, cursor,
                   gapped, addedAt>>

Advance(s) ==
    /\ registered[s] # Unregistered
    /\ registered[s] # Reported(s)
    /\ registered' = [registered EXCEPT ![s] = Reported(s)]
    /\ UNCHANGED <<vars, informerVars, watcherVars, compactedBelow, sound,
                   cursor, gapped, addedAt>>

\* Wrong: the laggard is not asked.
CompactAnyway(keepFrom) ==
    /\ keepFrom > compactedBelow
    /\ events' = Since(keepFrom)
    /\ compactedBelow' = keepFrom
    /\ UNCHANGED <<tasks, heap, nextObject, nodes, nextSequence, clientVars,
                   dirty, informerVars, watcherVars, registered,
                   sound, cursor, gapped, addedAt>>

\* compact: refused while the laggard is behind keep_from; a no-op below the
\* line already drawn.
Compact(keepFrom) ==
    /\ \A s \in Subscribers : registered[s] >= keepFrom
    /\ keepFrom > compactedBelow
    /\ events' = Since(keepFrom)
    /\ compactedBelow' = keepFrom
    /\ UNCHANGED <<tasks, heap, nextObject, nodes, nextSequence, clientVars,
                   dirty, informerVars, watcherVars, registered,
                   sound, cursor, gapped, addedAt>>

Expel(s) ==
    /\ registered[s] # Unregistered
    /\ registered' = [registered EXCEPT ![s] = Unregistered]
    /\ sound' = sound \ {s}
    /\ UNCHANGED <<vars, informerVars, watcherVars, compactedBelow, cursor,
                   gapped, addedAt>>

-----------------------------------------------------------------------------

\* Every action of the store and its writers.
StoreStep ==
    /\ Next
    /\ addedAt' = IF nextObject' = nextObject THEN addedAt
                  ELSE Append(addedAt, nextSequence)
    /\ UNCHANGED consumerVars

KeeperStep ==
    \/ \E s \in Subscribers : Register(s) \/ Advance(s) \/ Expel(s)
    \/ \E k \in 1..MaxKeep : Compact(k)

WatchNext ==
    \/ StoreStep
    \/ Refresh
    \/ RebuildInformer
    \/ Pull
    \/ SaveCursor
    \/ CrashWatcher
    \/ KeeperStep

WatchSpec == WatchInit /\ [][WatchNext]_watchVars

-----------------------------------------------------------------------------
(* What the consumers promise.                                             *)

\* eventretention.py's first line, for subscribers that registered a cursor the
\* log still reached: compaction never strands one, so none of them ever reads
\* past an event that is gone, whatever crashes, saves and expulsions of
\* others happen in between.
SoundNeverStranded ==
    /\ WatchTypeOK
    /\ sound \cap gapped = {}
    /\ \A s \in sound : Reported(s) >= compactedBelow

\* Informer.agrees_with, read after a refresh by an informer that skipped
\* nothing: names and nodes are exact, and phases are exact for every task no
\* controller has edited in place since the store last accepted a write of it.
InformerSynced ==
    Informer \in Subscribers \ gapped /\ cursor[Informer] = nextSequence =>
        /\ knownNodes = nodes
        /\ \A n \in Names :
              /\ Held(n) <=> known[n] # Unknown
              /\ Held(n) /\ n \notin dirty => known[n] = heap[tasks[n]].phase

\* The subscription's resume contract, through its filter: of the objects still
\* stored under a name used once, the watcher that skipped nothing has been
\* handed the add of exactly the matching ones behind its cursor.
NoMissedAdd ==
    Watcher \in Subscribers \ gapped =>
        \A o \in Allocated :
            /\ tasks[heap[o].name] = o
            /\ Unreused(o)
            /\ addedAt[o] < cursor[Watcher]
            => (addedAt[o] \in delivered <=> o \in Matching)
=============================================================================
