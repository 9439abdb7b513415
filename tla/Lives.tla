------------------------------- MODULE Lives -------------------------------
(***************************************************************************)
(* The life of a task beside the engine: the door it comes through         *)
(* (control/nsquota.py, overload.py), its companion (sidecars.py), its     *)
(* stages (stages.py), its restart policy (restartpolicy.py), the moves    *)
(* that are legal (phases.py), and, apart from these, the schedule of its  *)
(* restarts (crashloop.py).                                                *)
(***************************************************************************)
EXTENDS Integers, FiniteSets, FiniteSetsExt, Functions

CONSTANTS
    Homesteads, Nowhere,        \* nodes; no node
    MaxTasks,                   \* of the quota and of the valve
    StageCount, AttemptsAllowed,
    Policies,                   \* the assignments [task -> policy] to begin with
    BackoffCap, HealthyReset, MaxRow     \* MaxRow: bound

ASSUME LivesAssumption ==
    /\ MaxTasks \in Nat /\ StageCount \in Nat \ {0} /\ AttemptsAllowed \in Nat \ {0}
    /\ BackoffCap \in Nat \ {0} /\ HealthyReset \in Nat /\ MaxRow \in Nat \ {0}

VARIABLES
    crew,       \* [task -> [phase, node]]
    door,       \* which of the two admits
    unasked,    \* the tasks that live, but were not asked for at the door
    tracked,    \* whether the keeper knows of the pair
    policies,   \* [task -> restart policy, or "none"]
    stage,      \* [at, attempts]; at StageCount when none is left
    crash       \* [streak, wait, healthy, row, spent]

crewVars == <<crew, door, unasked, tracked, policies, stage>>

Primary == "primary"
Companion == "sidecar"
People == {Primary, Companion, "other"}     \* of one namespace, each needs one

Active == {"Bound", "Running"}
Terminal == {"Succeeded", "Failed"}

LivesInit ==
    /\ crew = [t \in People |-> [phase |-> "gone", node |-> Nowhere]]
    /\ door \in {"quota", "valve"} /\ unasked = {} /\ tracked = FALSE
    /\ policies \in Policies
    /\ stage = [at |-> 0, attempts |-> 0]

\* The task in its new phase, without the keepers' marks of an old life.
Put(t, phase, node) == crew' = [crew EXCEPT ![t] = [phase |-> phase, node |-> node]]

There(t) == crew[t].phase # "gone"

-----------------------------------------------------------------------------
(* The door                                                                *)

Used == {t \in People : There(t) /\ crew[t].phase \notin Terminal}

Admits == IF door = "quota" THEN Cardinality(Used) + 1 <= MaxTasks
          ELSE Cardinality({t \in People : There(t)}) < MaxTasks

AdmitTask(t) ==
    /\ ~There(t) /\ Admits
    /\ Put(t, "Pending", Nowhere)
    /\ unasked' = unasked \ {t}
    /\ UNCHANGED <<door, tracked, policies, stage>>

-----------------------------------------------------------------------------
(* The engine and the operator, of whom the keepers know nothing           *)

LegalMoves ==
    {<<"Pending", "Bound">>, <<"Bound", "Running">>, <<"Bound", "Pending">>,
     <<"Bound", "Failed">>, <<"Bound", "Evicted">>, <<"Running", "Succeeded">>,
     <<"Running", "Failed">>, <<"Running", "Pending">>, <<"Running", "Evicted">>,
     <<"Evicted", "Pending">>}

Move(t, phase, node) ==
    /\ <<crew[t].phase, phase>> \in LegalMoves
    /\ Put(t, phase, node)
    /\ unasked' = IF phase \in Terminal THEN unasked \ {t} ELSE unasked
    /\ UNCHANGED <<door, tracked, policies, stage>>

EngineMoves(t) ==
    \/ \E n \in Homesteads : Move(t, "Bound", n)
    \/ \E phase \in {"Running", "Succeeded", "Failed"} : Move(t, phase, crew[t].node)
    \/ \E phase \in {"Pending", "Evicted"} : Move(t, phase, Nowhere)

RemoveTask(t) ==
    /\ There(t)
    /\ Put(t, "gone", Nowhere)
    /\ unasked' = unasked \ {t}
    /\ UNCHANGED <<door, tracked, policies, stage>>

-----------------------------------------------------------------------------
(* The companion                                                           *)

\* It comes into the store by no door; a taken name is a conflict.
AttachSidecar ==
    /\ There(Primary) /\ ~There(Companion)
    /\ Put(Companion, "Pending", Nowhere)
    /\ unasked' = unasked \union {Companion}
    /\ tracked' = TRUE
    /\ UNCHANGED <<door, policies, stage>>

Orphaned == ~There(Primary) \/ crew[Primary].phase \in Terminal

CompanyKept ==
    LET primary == crew[Primary]
        leads == primary.phase \in Active
    IN /\ tracked
       /\ \/ /\ ~There(Companion)
             /\ tracked' = FALSE
             /\ UNCHANGED <<crew, unasked>>
          \/ /\ There(Companion) /\ Orphaned
             /\ Put(Companion, "gone", Nowhere)
             /\ tracked' = FALSE
             /\ unasked' = unasked \ {Companion}
          \/ /\ There(Companion) /\ ~Orphaned
             /\ leads /\ crew[Companion].node # primary.node
             /\ Put(Companion, "Bound", primary.node)
             /\ unasked' = IF crew[Companion].phase \in Terminal
                           THEN unasked \union {Companion} ELSE unasked
             /\ UNCHANGED tracked
          \/ /\ There(Companion) /\ ~Orphaned
             /\ ~leads /\ crew[Companion].phase \in Active
             /\ Put(Companion, "Pending", Nowhere)
             /\ UNCHANGED <<tracked, unasked>>
       /\ UNCHANGED <<door, policies, stage>>

-----------------------------------------------------------------------------
(* Restarts                                                                *)

ShouldRestart(policy, phase) ==
    policy = "always" \/ (policy = "on-failure" /\ phase = "Failed")

\* Every task that ended, of the names that have a policy.
RestartSweep ==
    LET again == {t \in People : /\ crew[t].phase \in Terminal
                                 /\ ShouldRestart(policies[t], crew[t].phase)}
    IN /\ crew' = [t \in People |-> IF t \in again THEN [phase |-> "Pending", node |-> Nowhere]
                                    ELSE crew[t]]
       /\ unasked' = unasked \union again
       /\ UNCHANGED <<door, tracked, policies, stage>>

-----------------------------------------------------------------------------
(* Stages of the primary.  The ledger moves before the store is asked.     *)

DeclareStages ==
    /\ stage' = [at |-> 0, attempts |-> 0]
    /\ UNCHANGED <<crew, door, unasked, tracked, policies>>

CompleteStage ==
    /\ stage.at < StageCount
    /\ stage' = [at |-> stage.at + 1, attempts |-> 0]
    /\ IF stage'.at = StageCount /\ There(Primary)
       THEN /\ Put(Primary, "Running", crew[Primary].node)
            /\ unasked' = IF crew[Primary].phase \in Terminal
                          THEN unasked \union {Primary} ELSE unasked
       ELSE UNCHANGED <<crew, unasked>>
    /\ UNCHANGED <<door, tracked, policies>>

\* An attempt beyond the last fails the task again; the count is kept to the bound.
FailStage ==
    /\ stage.at < StageCount
    /\ stage' = [stage EXCEPT !.attempts = Min({@ + 1, AttemptsAllowed})]
    /\ IF stage'.attempts = AttemptsAllowed /\ There(Primary)
       THEN Put(Primary, "Failed", crew[Primary].node) /\ unasked' = unasked \ {Primary}
       ELSE UNCHANGED <<crew, unasked>>
    /\ UNCHANGED <<door, tracked, policies>>

LivesNext ==
    \/ AttachSidecar \/ CompanyKept \/ RestartSweep
    \/ DeclareStages \/ CompleteStage \/ FailStage
    \/ \E t \in People : EngineMoves(t) \/ RemoveTask(t)
    \/ \E t \in People \ {Companion} : AdmitTask(t)

-----------------------------------------------------------------------------
(* The crash tracker, whose callers restart when they may.  row counts     *)
(* the crashes with no healthy stretch between, spent is how long it lasts. *)

NotUp == -1
BackoffAt(streak) ==
    LET doubled[n \in 0..streak] == IF n = 0 THEN 1 ELSE 2 * doubled[n - 1]
    IN Min({BackoffCap, doubled[streak]})
WaitsUpTo(streak) == SumFunction([k \in 1..streak |-> BackoffAt(k)])

CrashInit == crash = [streak |-> 0, wait |-> 0, healthy |-> NotUp, row |-> 0, spent |-> 0]

ResetAfter == HealthyReset

Crashed ==
    LET streak == IF crash.healthy >= ResetAfter THEN 1 ELSE crash.streak + 1
        first == crash.healthy >= HealthyReset
    IN /\ crash.healthy # NotUp
       /\ first \/ crash.row < MaxRow
       /\ crash' = [streak |-> streak, wait |-> BackoffAt(streak), healthy |-> NotUp,
                    row |-> IF first THEN 1 ELSE crash.row + 1,
                    spent |-> IF first THEN 0 ELSE crash.spent]

CrashStarted ==
    /\ crash.healthy = NotUp /\ crash.wait = 0
    /\ crash' = [crash EXCEPT !.healthy = 0]

CrashTime ==
    crash' = [crash EXCEPT !.wait = Max({0, @ - 1}),
                           !.healthy = IF @ = NotUp THEN NotUp ELSE Min({@ + 1, HealthyReset}),
                           !.spent = IF crash.row = 0 THEN 0
                                     ELSE Min({@ + 1, WaitsUpTo(MaxRow)})]

CrashNext == Crashed \/ CrashStarted \/ CrashTime

-----------------------------------------------------------------------------
(* Properties *)

\* nsquota.py, overload.py: of the tasks that count, those asked for at the door
\* fit the cap; a restart, a companion or a revival is all that can exceed it.
DoorHolds == Cardinality(Used \ unasked) <= MaxTasks

\* phases.py: "the terminal phases go nowhere": a phase moves as the table says,
\* but for a restart by policy, a companion that is put where its primary is or
\* shares its fate, and a stage.
MovesAreTold ==
    [][crew' # crew => \A t \in People :
          LET was == crew[t].phase
              is == crew'[t].phase
          IN was # is /\ "gone" \notin {was, is} =>
                \/ <<was, is>> \in LegalMoves
                \/ is = "Pending" /\ ShouldRestart(policies[t], was)
                \/ t = Companion /\ is = "Bound" /\ crew'[t].node = crew[Primary].node
                \/ t = Primary /\ stage' # stage
                   \* the last stage, or an attempt after the last
                \/ t = Primary /\ is = "Failed" /\ stage.attempts = AttemptsAllowed]_crewVars

\* sidecars.py: "placement ... fate ... and cleanup", if the keeper is called ever
\* again: whoever moves the companion or attaches another, beside a primary that
\* stays it comes back to its node, and from one that is over for good it is taken.
CompanyIsKept ==
    /\ \A n \in Homesteads :
          <>[](crew[Primary].phase \in Active /\ crew[Primary].node = n)
              => []<>(tracked => crew[Companion].node = n)
    /\ <>[](~There(Primary) \/ crew[Primary].phase \in Terminal) => []<>~tracked

\* crashloop.py: "backoff turns a restart storm into a restart schedule": crashes
\* with no healthy stretch between them wait, each after the one before, as long as
\* a streak of so many.
BackoffIsPaid == crash.row > 0 => crash.spent >= WaitsUpTo(crash.row - 1)
=============================================================================
