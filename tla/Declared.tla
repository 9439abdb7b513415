------------------------------ MODULE Declared ------------------------------
(***************************************************************************)
(* What was declared, and what is there: manifests, their plan and their   *)
(* apply (manifest.py, specdiff.py), the syncer of a repository            *)
(* (gitops.py), drift and its pauses (drift.py), snapshots and the drill   *)
(* that restores one (snapshot.py, backupdrill.py, verify.py), the go or   *)
(* no-go of a drain (preflight.py), the net change of a window of events   *)
(* (whatchanged.py), freeze windows (maintenance.py) and the asset ledger  *)
(* (inventory.py).                                                         *)
(*                                                                         *)
(* A deployment is the tasks of its ordinals: a positive number is a live  *)
(* task of so much cpu.  The parts share no state.                         *)
(***************************************************************************)
EXTENDS Integers, Sequences, FiniteSets, FiniteSetsExt, Functions, SequencesExt

CONSTANTS
    Deploys, Ordinals, DefaultCpu, NoLabel,
    Raws,                       \* manifests as text: sequences of entries, see Parsed
    MaxCommits, MaxDone,        \* bounds; MaxDone: finished tasks kept
    Subjects, Need, Places, Capacity, FloorOf,  \* Subjects and Places are numbers, in name
                                \* order; FloorOf is the one budget, over all of them
    LogNames, MaxLog,              \* MaxLog: bound
    Starts, Ends, MaxWindows,   \* MaxWindows: bound
    Ledger, Sizes               \* [asset -> size]; Sizes that the metal may have, 0 for none

Absent == 0
Done == -1
NoPlace == 0

ASSUME DeclaredAssumption ==
    /\ IsFiniteSet(Deploys) /\ Ordinals \subseteq Nat /\ IsFiniteSet(Ordinals)
    /\ DefaultCpu \in Nat \ {0} /\ MaxDone \in Nat /\ 0 \in Sizes
    /\ Subjects \subseteq Nat \ {0} /\ IsFiniteSet(Subjects) /\ Need \in [Subjects -> Nat]
    /\ Places \subseteq Nat \ {NoPlace} /\ IsFiniteSet(Places) /\ Capacity \in [Places -> Nat]
    /\ Starts \subseteq Nat /\ Ends \subseteq Nat /\ IsFiniteSet(DOMAIN Ledger)
    /\ Ledger \in [DOMAIN Ledger -> Sizes]

VARIABLES
    commits, synced,    \* Repo.commits, Syncer.synced_revision
    applied,            \* Applier.held, the manifests' specs by name
    pausedDrift,             \* Detector.paused
    tasks, saved,       \* [deploy -> [ordinal -> task]], the snapshot kept or <<>>
    scene,              \* [tasks, nodes]: a whole store
    log,                \* <<[name, verb]>>: the store's events
    windows,            \* <<<<start, end>>>>, by start
    metal               \* [asset -> size]

declaredVars == <<commits, synced, applied, pausedDrift, tasks, saved>>

-----------------------------------------------------------------------------
(* Manifests.  An entry holds the keys that were written.                  *)

Keys == {"name", "replicas", "cpu", "label"}
Required == {"name", "replicas"}

Parses(raw) == \A i \in DOMAIN raw : Required \subseteq DOMAIN raw[i] /\ DOMAIN raw[i] \subseteq Keys

Default(entry, key, value) == IF key \in DOMAIN entry THEN entry[key] ELSE value

Parsed(raw) ==
    [i \in DOMAIN raw |-> [name |-> raw[i].name, replicas |-> raw[i].replicas,
                           cpu |-> Default(raw[i], "cpu", DefaultCpu),
                           label |-> Default(raw[i], "label", NoLabel)]]

\* What parses asks for tasks of some cpu.  Bound: the names of the code never run
\* out, so there are ordinals enough beside those of finished tasks.
ASSUME RawsAssumption ==
    \A raw \in Raws : Parses(raw) =>
        /\ raw \in Seq(Range(raw))
        /\ \A i \in DOMAIN raw :
              /\ raw[i].name \in Deploys /\ raw[i].replicas \in Nat
              /\ raw[i].replicas + MaxDone <= Cardinality(Ordinals)
              /\ "cpu" \in DOMAIN raw[i] => raw[i].cpu \in Nat \ {0}

NamesIn(manifest) == {manifest[i].name : i \in DOMAIN manifest}

\* Of two entries of one name the later counts.
Wanted(manifest) ==
    [d \in NamesIn(manifest) |->
        manifest[Max({i \in DOMAIN manifest : manifest[i].name = d})]]

PlanOf(manifest) ==
    LET wanted == Wanted(manifest)
        both == DOMAIN wanted \cap DOMAIN applied
    IN [create |-> DOMAIN wanted \ DOMAIN applied,
        change |-> {d \in both : applied[d] # wanted[d]},
        delete |-> DOMAIN applied \ DOMAIN wanted]

\* What specdiff says of a changed spec.
LabelDiff(before, after) ==
    CASE before = after -> {}
      [] before # after /\ after = NoLabel -> {"label removed"}
      [] before # after /\ before = NoLabel -> {"label added"}
      [] OTHER -> {"label changed"}

SpecDiff(before, after) ==
    {f \in {"replicas", "cpu"} : before[f] # after[f]} \cup LabelDiff(before.label, after.label)

Live(ts, d) == {o \in Ordinals : ts[d][o] > 0}

Children(ts, d) == Live(ts, d)

\* The free names are taken from below, the surplus goes from above.
Scaled(row, spec) ==
    LET children == {o \in Ordinals : row[o] > 0}
        free == {o \in Ordinals : row[o] = Absent}
        missing == spec.replicas - Cardinality(children)
        made == {o \in free : Cardinality({p \in free : p < o}) < missing}
        gone == {o \in children : Cardinality({p \in children : p > o}) < -missing}
    IN [o \in Ordinals |-> IF o \in made THEN spec.cpu
                           ELSE IF o \in gone THEN Absent ELSE row[o]]

Reconciled(ts, spec) == [ts EXCEPT ![spec.name] = Scaled(@, spec)]

\* Each of several deployments once, in any order: they share no task.
Imposed(ts, specs) ==
    [d \in Deploys |-> IF d \in DOMAIN specs THEN Scaled(ts[d], specs[d]) ELSE ts[d]]

DeclaredInit ==
    /\ commits = <<>> /\ synced = 0 /\ applied = <<>> /\ pausedDrift = {}
    /\ tasks = [d \in Deploys |-> [o \in Ordinals |-> Absent]]
    /\ saved = <<>>

Commit(raw) ==
    /\ Len(commits) < MaxCommits /\ Parses(raw)
    /\ commits' = Append(commits, Parsed(raw))
    /\ UNCHANGED <<synced, applied, pausedDrift, tasks, saved>>

\* What is no longer in the repository is left alone.
Sync ==
    /\ commits # <<>>
    /\ tasks' = FoldLeft(Reconciled, tasks, Last(commits))
    /\ synced' = Len(commits)
    /\ UNCHANGED <<commits, applied, pausedDrift, saved>>

\* What is not wanted is scaled to nothing; then all that is wanted is reconciled,
\* whether or not the plan names it.
ApplyManifest(manifest) ==
    LET emptied == [d \in PlanOf(manifest).delete |-> [applied[d] EXCEPT !.replicas = 0]]
    IN /\ tasks' = Imposed(Imposed(tasks, emptied), Wanted(manifest))
       /\ applied' = Wanted(manifest)
       /\ UNCHANGED <<commits, synced, pausedDrift, saved>>

Drifted(ts) == {d \in DOMAIN applied : Cardinality(Children(ts, d)) # applied[d].replicas}

CorrectDrift ==
    LET corrected == Drifted(tasks) \ pausedDrift
    IN /\ Drifted(tasks) # {}
       /\ tasks' = Imposed(tasks, [d \in corrected |-> applied[d]])
       /\ UNCHANGED <<commits, synced, applied, pausedDrift, saved>>

PauseDeploy(d) == pausedDrift' = pausedDrift \cup {d} /\ UNCHANGED <<commits, synced, applied, tasks, saved>>
ResumeDeploy(d) == pausedDrift' = pausedDrift \ {d} /\ UNCHANGED <<commits, synced, applied, tasks, saved>>

\* Bound: one snapshot is kept, taken when something has been applied.
TakeSnapshot ==
    /\ saved = <<>> /\ applied # <<>>
    /\ saved' = <<tasks>>
    /\ UNCHANGED <<commits, synced, applied, pausedDrift, tasks>>

RestoreSnapshot ==
    /\ saved # <<>>
    /\ tasks' = saved[1]
    /\ UNCHANGED <<commits, synced, applied, pausedDrift, saved>>

\* A task ends, or is deleted by hand.
TaskGoes(d, o, left) ==
    /\ tasks[d][o] > 0
    /\ left = Done => Cardinality({c \in Deploys \X Ordinals : tasks[c[1]][c[2]] = Done}) < MaxDone
    /\ tasks' = [tasks EXCEPT ![d][o] = left]
    /\ UNCHANGED <<commits, synced, applied, pausedDrift, saved>>

DeclaredNext ==
    \/ \E raw \in Raws : Commit(raw)
    \/ Sync \/ CorrectDrift \/ TakeSnapshot \/ RestoreSnapshot
    \/ \E i \in DOMAIN commits : ApplyManifest(commits[i])
    \/ \E d \in DOMAIN applied : PauseDeploy(d)    \* bound: nothing else is paused
    \/ \E d \in pausedDrift : ResumeDeploy(d)
    \/ \E d \in Deploys, o \in Ordinals, left \in {Absent, Done} : TaskGoes(d, o, left)

-----------------------------------------------------------------------------
(* A store, what verify says of it, the drill and the preflight            *)

Probe == 0      \* drill-probe: needs 1
Ends4 == {"Succeeded", "Failed", "Evicted"}
IsActive(task) == task.phase \in {"Bound", "Running"}
NeedOf == [t \in Subjects \cup {Probe} |-> IF t = Probe THEN 1 ELSE Need[t]]

SceneInit ==
    /\ scene = [tasks |-> [t \in Subjects |-> [phase |-> "Absent", node |-> NoPlace]],
                nodes |-> [n \in Places |-> "ready"]]

\* Whoever writes to the store, carefully or not.
WriteTask(t, phase, node) ==
    scene' = [scene EXCEPT !.tasks[t] = [phase |-> phase, node |-> node]]
WriteNode(n, state) == scene' = [scene EXCEPT !.nodes[n] = state]

Allocated(s, n) ==
    SumFunctionOnSet(NeedOf, {t \in DOMAIN s.tasks : s.tasks[t].node = n /\ IsActive(s.tasks[t])})

Homeless(s) ==
    {t \in DOMAIN s.tasks : IsActive(s.tasks[t]) /\ s.tasks[t].node \notin {n \in Places : s.nodes[n] # "absent"}}
PendingButHeld(s) == {t \in DOMAIN s.tasks : s.tasks[t].phase = "Pending" /\ s.tasks[t].node # NoPlace}
Overcommitted(s) ==
    {n \in Places : s.nodes[n] # "absent" /\ Allocated(s, n) > Capacity[n]}
FinishedButHeld(s) == {t \in DOMAIN s.tasks : s.tasks[t].phase \in Ends4 /\ s.tasks[t].node # NoPlace}

Clean(s) == Homeless(s) = {} /\ PendingButHeld(s) = {} /\ Overcommitted(s) = {} /\ FinishedButHeld(s) = {}

\* One pass of the plain scheduler: every pending task once, to the first node that has
\* room for it.
Scheduled(s, t) ==
    LET open == {n \in Places : s.nodes[n] = "ready" /\ Allocated(s, n) + NeedOf[t] <= Capacity[n]}
    IN IF s.tasks[t].phase = "Pending" /\ open # {}
       THEN [s EXCEPT !.tasks[t] = [phase |-> "Bound", node |-> Min(open)]] ELSE s
SchedulePending(s) ==
    MapThenFoldSet(LAMBDA t, after : Scheduled(after, t), s, LAMBDA t : t, Max, DOMAIN s.tasks)

\* The drill restores a copy, adds a probe to it and lets it decide.
Drilled(s) ==
    LET twin == [s EXCEPT !.tasks = [t \in Subjects \cup {Probe} |->
                    IF t = Probe THEN [phase |-> "Pending", node |-> NoPlace] ELSE @[t]]]
    IN IF ~Clean(s) THEN "inconsistent"
       ELSE IF ~Clean(SchedulePending(twin)) THEN "broke" ELSE "passed"

Tenants(n) == {t \in Subjects : IsActive(scene.tasks[t]) /\ scene.tasks[t].node = n}
OpenBeside(n) == {m \in Places \ {n} : scene.nodes[m] = "ready"}

Evictees(n) == Tenants(n)
Spare == [m \in Places |-> Capacity[m] - Allocated(scene, m)]

\* Rooms are added up: one that no single node has is not an objection.
DrainObjections(n) ==
    IF scene.nodes[n] = "absent" THEN {"missing"}
    ELSE {o \in {"inconsistent", "floor", "room"} :
            CASE o = "inconsistent" -> ~Clean(scene)
              [] o = "floor" -> Tenants(n) # {} /\
                    Cardinality({t \in Subjects : IsActive(scene.tasks[t])}) - 1 < FloorOf
              [] o = "room" -> SumFunctionOnSet(NeedOf, Evictees(n)) >
                    SumFunctionOnSet(Spare, OpenBeside(n))}

SceneNext ==
    \/ \E t \in Subjects, phase \in {"Absent", "Pending", "Bound", "Running"} \cup Ends4,
          node \in Places \cup {NoPlace} : WriteTask(t, phase, node)
    \/ \E n \in Places, state \in {"ready", "cordoned", "absent"} : WriteNode(n, state)

-----------------------------------------------------------------------------
(* What changed since a cursor *)

LogInit == log = <<>>

ThereAfter(n, k) ==
    \E i \in 1..k : /\ log[i].name = n /\ log[i].verb # "removed"
                    /\ \A j \in (i + 1)..k : log[j].name = n => log[j].verb # "removed"

WriteEvent(n, verb) ==
    /\ Len(log) < MaxLog
    /\ verb = "added" <=> ~ThereAfter(n, Len(log))
    /\ log' = Append(log, [name |-> n, verb |-> verb])

VerbsSince(n, since) == {log[i].verb : i \in {j \in (since + 1)..Len(log) : log[j].name = n}}

\* Wrong: added first, whatever followed.
NetByAdded(verbs) ==
    CASE verbs = {} -> "untouched"
      [] "added" \in verbs -> "created"
      [] "removed" \in verbs /\ "added" \notin verbs -> "deleted"
      [] OTHER -> "updated"

Net(verbs) ==
    CASE verbs = {} -> "untouched"
      [] {"added", "removed"} \subseteq verbs -> "churned"
      [] "added" \in verbs /\ "removed" \notin verbs -> "created"
      [] "removed" \in verbs /\ "added" \notin verbs -> "deleted"
      [] OTHER -> "updated"

-----------------------------------------------------------------------------
(* Freeze windows *)

CalendarInit == windows = <<>>

AddWindow(start, end) ==
    LET before == Cardinality({i \in DOMAIN windows : windows[i][1] <= start})
    IN /\ Len(windows) < MaxWindows
       /\ windows' = SubSeq(windows, 1, before) \o <<<<start, end>>>>
                        \o SubSeq(windows, before + 1, Len(windows))

Covers(w, tick) == w[1] <= tick /\ tick < w[2]
Covering(tick) == {i \in DOMAIN windows : Covers(windows[i], tick)}

NextOpen(tick) ==
    LET opens[t \in Nat] == IF Covering(t) = {} THEN t ELSE opens[windows[Min(Covering(t))][2]]
    IN opens[tick]

-----------------------------------------------------------------------------
(* The asset ledger *)

MetalInit == metal = [a \in DOMAIN Ledger |-> Ledger[a]]

MetalChanges(a, size) == metal[a] # size /\ metal' = [metal EXCEPT ![a] = size]

\* An asset of size 0 is on neither side.
Reconciliation ==
    LET there == {a \in DOMAIN metal : metal[a] # 0}
        billed == {a \in DOMAIN Ledger : Ledger[a] # 0}
    IN [dark |-> billed \ there, ghosts |-> there \ billed,
        swapped |-> {a \in billed \cap there : metal[a] # Ledger[a]},
        matched |-> Cardinality({a \in billed \cap there : metal[a] = Ledger[a]})]

-----------------------------------------------------------------------------
(* Properties *)

\* Reconcilers that know of different declarations, drift, pauses and restores never
\* leave more live tasks of a deployment than some committed manifest asked for.
LiveIsDeclared ==
    \A d \in Deploys :
        Cardinality(Live(tasks, d)) <=
            Max({0} \cup UNION {{m[i].replicas : i \in {j \in DOMAIN m : m[j].name = d}} :
                                   m \in Range(commits)})

\* manifest.py and specdiff.py: the plan names a change exactly when the diff has
\* something to say.
PlanTellsDifference ==
    \A m \in Range(commits) : \A d \in DOMAIN Wanted(m) \cap DOMAIN applied :
        d \in PlanOf(m).change <=> SpecDiff(applied[d], Wanted(m)[d]) # {}

\* gitops.py: "a manual cluster change survives only until the next sync": after one,
\* every deployment of the head has what the head asks for.
SyncImposes ==
    [][declaredVars' # declaredVars /\ Sync => \A d \in NamesIn(Last(commits)) :
                  Cardinality(Live(tasks', d)) = Wanted(Last(commits))[d].replicas]_declaredVars

\* drift.py: what is pausedDrift is left as it is, and what is not is put right.
PausesAreRespected ==
    [][declaredVars' # declaredVars /\ CorrectDrift => \A d \in DOMAIN applied :
          IF d \in pausedDrift THEN tasks'[d] = tasks[d]
          ELSE Cardinality(Live(tasks', d)) = applied[d].replicas]_declaredVars

\* backupdrill.py: the drill finds fault with a snapshot exactly when the store it was
\* taken of is already inconsistent: a pass over a clean store leaves it clean.
DrillIsFair == Drilled(scene) = "passed" <=> Clean(scene)

\* preflight.py: no room is only objected when the evictees have, indeed, no homes.
ObjectionsAreReal ==
    \A n \in Places :
        "room" \in DrainObjections(n) /\ Clean(scene) =>
           ~\E home \in [Tenants(n) -> OpenBeside(n)] : \A m \in OpenBeside(n) :
                Allocated(scene, m) + SumFunctionOnSet(NeedOf, {t \in Tenants(n) : home[t] = m})
                    <= Capacity[m]

\* whatchanged.py: what it reports as created, deleted or updated was so, from before
\* the window to after it.
WindowTellsTruth ==
    \A since \in 0..Len(log), n \in LogNames :
        LET net == Net(VerbsSince(n, since))
            was == ThereAfter(n, since)
            is == ThereAfter(n, Len(log))
        IN /\ net = "created" => ~was /\ is
           /\ net = "deleted" => was /\ ~is
           /\ net \in {"updated", "untouched"} => was = is

\* maintenance.py: "the next open tick so a refused change can sleep precisely": it is
\* the first that no window covers.
NextOpenIsFirst ==
    \A tick \in Starts :
        /\ NextOpen(tick) >= tick /\ Covering(NextOpen(tick)) = {}
        /\ \A t \in tick..(NextOpen(tick) - 1) : Covering(t) # {}

\* inventory.py: every line of the ledger and every node is told once, and nothing is
\* told when they agree.
LedgerAddsUp ==
    LET r == Reconciliation
    IN /\ r.matched + Cardinality(r.dark) + Cardinality(r.swapped) =
             Cardinality({a \in DOMAIN Ledger : Ledger[a] # 0})
       /\ r.matched + Cardinality(r.ghosts) + Cardinality(r.swapped) =
             Cardinality({a \in DOMAIN metal : metal[a] # 0})
       /\ r.dark = {} /\ r.ghosts = {} /\ r.swapped = {} <=> metal = Ledger
=============================================================================
