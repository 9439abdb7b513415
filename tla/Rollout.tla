------------------------------- MODULE Rollout -------------------------------
(***************************************************************************)
(* Rolling updates (fleet/roll/rolling.py) of one deployment: revisions    *)
(* recorded, superseded and rolled back (roll/history.py), the stall watch *)
(* that pauses them (deploystatus.py, roll/autopause.py), and its callers: *)
(* with a disruption guard (control/budget.py), without one, or behind the *)
(* gate of a spent error budget (slofreeze.py), which asks no guard.  The  *)
(* scheduler, the keeper and failures move tasks between the steps.  A     *)
(* task's name is its revision and ordinal.                                *)
(***************************************************************************)
EXTENDS Integers, Sequences, FiniteSets

CONSTANTS
    Replicas,
    MaxSurge,
    MaxUnavailable,
    Floor,         \* min_available of the guard's budget over the deployment
    Keep,          \* History.keep
    Patience,      \* StallWatch.patience
    Builds,        \* templates
    GoodBuilds,    \* those whose tasks come up
    Faults,        \* bound: which of "lose", "end", "vanish", "slo" occur
    MaxRevision,   \* bound: revisions recorded
    MaxLosses      \* bound: tasks lost in all

Revisions == 1..MaxRevision
Names == Revisions \X (0..Replicas - 1)

ASSUME RolloutAssumption ==
    /\ Replicas \in Nat \ {0}
    /\ MaxSurge \in Nat /\ MaxUnavailable \in Nat /\ Floor \in Nat
    /\ Keep \in Nat \ {0} /\ Patience \in Nat \ {0}
    /\ GoodBuilds \subseteq Builds /\ GoodBuilds # {}
    /\ MaxRevision \in Nat \ {0} /\ MaxLosses \in Nat

VARIABLES
    phase,      \* [Names -> phase]
    builds,     \* the templates recorded so far, in order of revision
    rolling,    \* the revision of the rollout in progress
    raised,     \* the last step ended on an exception
    paused,     \* Roller.paused
    watch,      \* StallWatch: last status and for how many observations
    slo,        \* the gate: budget spent, glass broken
    losses

rollVars == <<phase, raised>>
vars == <<rollVars, builds, rolling, paused, watch, slo, losses>>

Active == {"Bound", "Running"}
Held == {"Pending"} \cup Active      \* what _mine counts
NoStatus == [updated |-> -1, available |-> -1, old |-> -1, for |-> 0]
Statuses == [updated : 0..Replicas, available : 0..Replicas,
             old : 0..Replicas + MaxSurge, for : 0..Patience]

TypeOK ==
    /\ phase \in [Names -> {"Absent", "Ended"} \cup Held]
    /\ builds \in Seq(Builds) /\ Len(builds) \in Revisions
    /\ rolling \in 1..Len(builds)
    /\ raised \in BOOLEAN
    /\ paused \in BOOLEAN
    /\ watch \in Statuses \cup {NoStatus}
    /\ slo \in [spent : BOOLEAN, glass : BOOLEAN]
    /\ losses \in 0..MaxLosses

\* The first revision runs, all of it.
Init ==
    /\ phase = [t \in Names |-> IF t[1] = 1 THEN "Running" ELSE "Absent"]
    /\ \E b \in GoodBuilds : builds = <<b>>
    /\ rolling = 1
    /\ raised = FALSE
    /\ paused = FALSE
    /\ watch = NoStatus
    /\ slo = [spent |-> FALSE, glass |-> FALSE]
    /\ losses = 0

-----------------------------------------------------------------------------
(* The populations of Roller.                                              *)

Mine == {t \in Names : phase[t] \in Held}
FreshOnes == {t \in Mine : t[1] = rolling}
Stale == Mine \ FreshOnes
Running(S) == {t \in S : phase[t] = "Running"}
Available == Cardinality(Running(Mine))

\* Wrong: only what runs counts against the surge.
MayGrowByRunning ==
    /\ Cardinality(FreshOnes) < Replicas
    /\ Available < Replicas + MaxSurge

\* Wrong: the surge is not used.
MayGrowWithoutSurge ==
    /\ Cardinality(FreshOnes) < Replicas
    /\ Cardinality(Mine) < Replicas

MayGrow ==
    /\ Cardinality(FreshOnes) < Replicas
    /\ Cardinality(Mine) < Replicas + MaxSurge

MaySpare ==
    /\ Stale # {}
    /\ Available - 1 >= Replicas - MaxUnavailable

\* stale[-1], in name order.
Victim ==
    CHOOSE t \in Stale : \A u \in Stale :
        u[1] < t[1] \/ (u[1] = t[1] /\ u[2] <= t[2])

Cover == Cardinality({t \in Names : phase[t] \in Active})

\* Wrong: one task more may go.
MayEvictToFloor(t) ==
    phase[t] \in Active => Cover >= Floor

\* Guard.may_evict.
MayEvict(t) ==
    phase[t] \in Active => Cover - 1 >= Floor

Finished ==
    Stale = {} /\ Cardinality(Running(FreshOnes)) >= Replicas

-----------------------------------------------------------------------------
(* Roller.step, with a guard or without one.                               *)

\* What step() returns; only whether it returns at all is kept.
Returns(o) == raised' = (o = "raised")

StepDone ==
    /\ Finished
    /\ Returns("done")
    /\ UNCHANGED phase

\* The ordinal is the number of fresh tasks; add_task raises Conflict when a
\* task of that name is still in the store.
StepGrow ==
    /\ ~Finished
    /\ MayGrow
    /\ LET t == <<rolling, Cardinality(FreshOnes)>>
       IN  IF phase[t] = "Absent"
           THEN /\ phase' = [phase EXCEPT ![t] = "Pending"]
                /\ Returns("surged")
           ELSE UNCHANGED phase /\ Returns("raised")

StepRetire(guarded) ==
    /\ ~Finished /\ ~MayGrow
    /\ MaySpare
    /\ guarded => MayEvict(Victim)
    /\ phase' = [phase EXCEPT ![Victim] = "Absent"]
    /\ Returns("retired")

StepStuck(guarded) ==
    /\ ~Finished /\ ~MayGrow
    /\ MaySpare => guarded /\ ~MayEvict(Victim)
    /\ Returns("stuck")
    /\ UNCHANGED phase

RollerStep(guarded) ==
    /\ IF paused THEN Returns("paused") /\ UNCHANGED phase
       ELSE StepDone \/ StepGrow \/ StepRetire(guarded) \/ StepStuck(guarded)
    /\ UNCHANGED <<builds, rolling, paused, watch, losses>>

-----------------------------------------------------------------------------
(* Who calls it.  Only a direct caller can hand a guard over: neither the  *)
(* gate nor the calendar of GatedRoller does.                              *)

GuardedStep == RollerStep(TRUE) /\ UNCHANGED slo

\* A direct caller without a guard, or GatedRoller while its calendar is open.
BareStep == RollerStep(FALSE) /\ UNCHANGED slo

MayShip == slo.spent => slo.glass

\* may_ship puts the glass back once it finds the budget healthy.
GatedStep ==
    /\ IF MayShip THEN RollerStep(FALSE)
       ELSE /\ Returns("frozen")
            /\ UNCHANGED <<phase, builds, rolling, paused, watch, losses>>
    /\ slo' = IF slo.spent THEN slo ELSE [slo EXCEPT !.glass = FALSE]

Step == GuardedStep \/ BareStep \/ GatedStep

-----------------------------------------------------------------------------
(* History.                                                                *)

\* record, then rollout of the current entry.
Apply(b) ==
    /\ Len(builds) < MaxRevision
    /\ builds' = Append(builds, b)
    /\ rolling' = Len(builds) + 1
    /\ UNCHANGED <<rollVars, paused, watch, slo, losses>>

\* find raises NotFound for a revision that has been dropped.
Rollback(r) ==
    /\ r \in 1..Len(builds) /\ r > Len(builds) - Keep
    /\ Apply(builds[r])

-----------------------------------------------------------------------------
(* StallWatch and AutoPauser.                                              *)

Status ==
    [updated |-> Cardinality(FreshOnes),
     available |-> Cardinality(Running(FreshOnes)),
     old |-> Cardinality(Running(Stale))]

AllServing == Status.available >= Replicas /\ Status.old = 0

\* Past patience the count goes on unnoticed, so it is kept at Patience.
Unchanged ==
    LET same == /\ watch.updated = Status.updated
                /\ watch.available = Status.available
                /\ watch.old = Status.old
    IN  IF same /\ ~AllServing THEN watch.for + 1 ELSE 0

Observe ==
    /\ watch' = [updated |-> Status.updated, available |-> Status.available,
                 old |-> Status.old,
                 for |-> IF Unchanged > Patience THEN Patience ELSE Unchanged]
    /\ paused' = (paused \/ Unchanged = Patience)
    /\ UNCHANGED <<rollVars, builds, rolling, slo, losses>>

Resume ==
    /\ paused
    /\ paused' = FALSE
    /\ UNCHANGED <<rollVars, builds, rolling, watch, slo, losses>>

-----------------------------------------------------------------------------
(* What happens between the steps.                                         *)

Others == <<raised, builds, rolling, paused, watch, slo>>

Bind(t) ==
    /\ phase[t] = "Pending"
    /\ phase' = [phase EXCEPT ![t] = "Bound"]
    /\ UNCHANGED <<Others, losses>>

Start(t) ==
    /\ phase[t] = "Bound"
    /\ t[1] \in DOMAIN builds /\ builds[t[1]] \in GoodBuilds
    /\ phase' = [phase EXCEPT ![t] = "Running"]
    /\ UNCHANGED <<Others, losses>>

\* A node dies, a task ends for good, a task is deleted.
Fault(t) ==
    /\ losses < MaxLosses
    /\ losses' = losses + 1
    /\ \/ "lose" \in Faults /\ phase[t] \in Active
          /\ phase' = [phase EXCEPT ![t] = "Pending"]
       \/ "end" \in Faults /\ phase[t] \in Active
          /\ phase' = [phase EXCEPT ![t] = "Ended"]
       \/ "vanish" \in Faults /\ phase[t] # "Absent"
          /\ phase' = [phase EXCEPT ![t] = "Absent"]
    /\ UNCHANGED Others

\* The error budget is spent and recovers; somebody breaks the glass.
Budget ==
    /\ "slo" \in Faults
    /\ \/ slo' = [slo EXCEPT !.spent = ~slo.spent]
       \/ ~slo.glass /\ slo' = [slo EXCEPT !.glass = TRUE]
    /\ UNCHANGED <<rollVars, builds, rolling, paused, watch, losses>>

Next ==
    \/ Step \/ Observe \/ Resume \/ Budget
    \/ \E b \in Builds : Apply(b)
    \/ \E r \in Revisions : Rollback(r)
    \/ \E t \in Names : Bind(t) \/ Start(t) \/ Fault(t)

Spec == Init /\ [][Next]_vars

\* Paused rollouts are resumed by their people, and of the tasks that wait some
\* one is placed and some one started.
FairSpec ==
    /\ Spec
    /\ WF_vars(Resume)
    /\ WF_vars(\E t \in Names : Bind(t)) /\ WF_vars(\E t \in Names : Start(t))

\* Somebody goes on stepping the rollout: with a guard; or without one, be it
\* directly or behind a gate as long as that is open.
OpenStep == MayShip /\ GatedStep
KeepsStepping == WF_vars(GuardedStep) \/ WF_vars(BareStep \/ OpenStep)

-----------------------------------------------------------------------------

\* rolling.py:4-5, "how many extras may exist during the change": the surge is
\* never exceeded, through superseded rollouts, rollbacks, losses and ends.
SurgeKept == Cardinality(Mine) <= Replicas + MaxSurge

\* rolling.py:5, "how many of the wanted count may be missing": unless tasks
\* are lost, enough run at every moment, whatever builds are bad.
ServingKept == losses = 0 => Available >= Replicas - MaxUnavailable

\* rolling.py:5 again, the step itself: it never takes what runs below the
\* limit, also when losses have already taken some.
NeverBelow ==
    [][Available' < Replicas - MaxUnavailable /\ Available' # Available => ~Step]_phase

\* budget.py:3-6: who hands a guard to the step keeps its floor, whatever steps
\* without one, faults and superseding revisions have left of the deployment.
GuardKept ==
    [][Cover >= Floor /\ Cover' < Floor => ~GuardedStep]_phase

\* history.py:5-8: "the cluster only ever moves forward".  A step creates a task
\* only for the newest revision there is.
Born(t) == phase[t] = "Absent" /\ phase'[t] # "Absent"
OnlyForward == [][(\E t \in Names : Born(t) /\ t[1] # Len(builds)) => ~Step]_phase

\* At every moment: surge and serving count.
RolloutConsistent == TypeOK /\ SurgeKept /\ ServingKept

\* Of every step, beside faults, freezes and superseding revisions.
StepsKeep == NeverBelow /\ GuardKept /\ OnlyForward

\* rolling.py:1-6, a rollout ends: as long as no build is bad, the one that stays
\* the last arrives, whoever steps it, with or without a guard, and whatever was
\* superseded, lost, paused or frozen on the way, unless a name is taken for good.
GoodBuildArrives ==
    /\ KeepsStepping
    /\ []({builds[r] : r \in DOMAIN builds} \subseteq GoodBuilds)
    /\ <>[]~raised
    => <>[]Finished
=============================================================================
