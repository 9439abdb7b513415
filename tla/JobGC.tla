-------------------------------- MODULE JobGC --------------------------------
(***************************************************************************)
(* One job (fleet/control/jobs.py) beside the collector of finished tasks  *)
(* (fleet/control/gc.py).  Both read the same store and neither knows of   *)
(* the other.  A child's name is its index and attempt; Others are tasks   *)
(* of owners that use a name again, as a deployment does.                  *)
(***************************************************************************)
EXTENDS Integers, FiniteSets

CONSTANTS
    Indexes,        \* the completion indexes of the job
    Parallelism,
    Retries,        \* retries_per_index
    KeepSucceeded,
    KeepFailed,
    Ttl,
    Others          \* names <<n, 0>>, n no index

Attempts == 0..Retries
Children == Indexes \X Attempts
Names == Children \cup Others
NoAttempt == -1

ASSUME JobAssumption ==
    /\ Indexes \subseteq Nat /\ IsFiniteSet(Indexes)
    /\ Parallelism \in Nat \ {0}
    /\ Retries \in Nat
    /\ KeepSucceeded \in Nat /\ KeepFailed \in Nat
    /\ Ttl \in Nat \ {0}
    /\ Others \subseteq (Nat \ Indexes) \X {0}

VARIABLES
    task,       \* [Names -> phase]
    succeeded,  \* JobKeeper.state: per index, whether it succeeded,
    attempts,   \*   how many children it was given
    active,     \*   and the attempt it waits for
    outcome,    \* what the last reconcile returned
    finished,   \* Collector.finished_at as the age of the note, NoAttempt without
    ran         \* history: how many children of the index ran to success

jobVars == <<succeeded, attempts, active, outcome>>
jobGCVars == <<task, jobVars, finished, ran>>

Finished == {"Succeeded", "Failed"}

JobTypeOK ==
    /\ task \in [Names -> {"Absent", "Active"} \cup Finished]
    /\ succeeded \in [Indexes -> BOOLEAN]
    /\ attempts \in [Indexes -> 0..Retries + 1]
    /\ active \in [Indexes -> Attempts \cup {NoAttempt}]
    /\ outcome \in {"running", "done", "dead"}
    /\ finished \in [Names -> 0..Ttl \cup {NoAttempt}]
    /\ ran \in [Indexes -> 0..Retries + 1]

JobInit ==
    /\ task = [n \in Names |-> "Absent"]
    /\ succeeded = [i \in Indexes |-> FALSE]
    /\ attempts = [i \in Indexes |-> 0]
    /\ active = [i \in Indexes |-> NoAttempt]
    /\ outcome = "running"
    /\ finished = [n \in Names |-> NoAttempt]
    /\ ran = [i \in Indexes |-> 0]

\* The runtime ends a task.
Complete(n, p) ==
    /\ task[n] = "Active"
    /\ task' = [task EXCEPT ![n] = p]
    /\ ran' = [i \in Indexes |->
                  IF n[1] = i /\ p = "Succeeded" THEN ran[i] + 1 ELSE ran[i]]
    /\ UNCHANGED <<jobVars, finished>>

-----------------------------------------------------------------------------
(* JobKeeper.reconcile.                                                    *)

\* What the store says of the child an index waits for.
Seen(i) == IF active[i] = NoAttempt THEN "None" ELSE task[<<i, active[i]>>]

Won(i) == succeeded[i] \/ Seen(i) = "Succeeded"
Idle(i) == ~Won(i) /\ Seen(i) # "Active"
Spent(i) == Idle(i) /\ attempts[i] > Retries
Abreast == Cardinality({i \in Indexes : Seen(i) = "Active"})

\* The lowest idle indexes, while the parallelism lasts.
Launched ==
    {i \in Indexes :
        Idle(i) /\ Abreast + Cardinality({j \in Indexes : Idle(j) /\ j < i})
                      < Parallelism}

Reaped == {<<i, active[i]>> : i \in {j \in Indexes : Seen(j) \in Finished}}

Verdict ==
    IF \E i \in Indexes : Spent(i) THEN "dead"
    ELSE IF \A i \in Indexes : Won(i) THEN "done" ELSE "running"

Reconcile ==
    LET new == IF Verdict = "running" THEN Launched ELSE {}
    IN  /\ outcome' = Verdict
        /\ succeeded' = [i \in Indexes |-> Won(i)]
        /\ active' = [i \in Indexes |->
                         IF i \in new THEN attempts[i]
                         ELSE IF Seen(i) = "Active" THEN active[i] ELSE NoAttempt]
        /\ attempts' = [i \in Indexes |->
                           IF i \in new THEN attempts[i] + 1 ELSE attempts[i]]
        /\ task' = [n \in Names |->
                       IF n \in Reaped THEN "Absent"
                       ELSE IF \E i \in new : n = <<i, attempts[i]>> THEN "Active"
                       ELSE task[n]]
        /\ UNCHANGED <<finished, ran>>

-----------------------------------------------------------------------------
(* Collector.sweep.                                                        *)

\* Wrong: every task is noted when it is first seen.
NotedOnSight(n) ==
    IF task[n] = "Absent" THEN NoAttempt
    ELSE IF finished[n] = NoAttempt THEN 0 ELSE finished[n]

\* note_finished, then the notes of tasks that are gone are dropped.  A note is
\* kept by name: it is not asked whether the task still is a finished one.
Noted(n) ==
    IF task[n] = "Absent" THEN NoAttempt
    ELSE IF finished[n] = NoAttempt /\ task[n] \in Finished THEN 0 ELSE finished[n]

Expired == {n \in Names : Noted(n) >= Ttl}

NameBefore(m, n) == m[1] < n[1] \/ (m[1] = n[1] /\ m[2] < n[2])

\* (finished_at, name)
SweptBefore(m, n) ==
    Noted(m) > Noted(n) \/ (Noted(m) = Noted(n) /\ NameBefore(m, n))

Excess(p, cap) ==
    LET kept == {n \in Names \ Expired : task[n] = p}
    IN  {n \in kept : Cardinality({m \in kept : SweptBefore(n, m)}) >= cap}

Swept == Expired \cup Excess("Succeeded", KeepSucceeded)
                 \cup Excess("Failed", KeepFailed)

Sweep ==
    /\ task' = [n \in Names |-> IF n \in Swept THEN "Absent" ELSE task[n]]
    /\ finished' = [n \in Names |-> IF n \in Swept THEN NoAttempt ELSE Noted(n)]
    /\ UNCHANGED <<jobVars, ran>>

NoteTick ==
    /\ finished' = [n \in Names |->
                       IF finished[n] \in 0..Ttl - 1 THEN finished[n] + 1
                       ELSE finished[n]]
    /\ UNCHANGED <<task, jobVars, ran>>

\* Owners of other tasks remove a name and use it again.
Create(n) ==
    /\ n \in Others /\ task[n] = "Absent"
    /\ task' = [task EXCEPT ![n] = "Active"]
    /\ UNCHANGED <<jobVars, finished, ran>>

RemoveChild(n) ==
    /\ n \in Others /\ task[n] # "Absent"
    /\ task' = [task EXCEPT ![n] = "Absent"]
    /\ UNCHANGED <<jobVars, finished, ran>>

JobNext ==
    \/ Reconcile \/ Sweep \/ NoteTick
    \/ \E n \in Names : \/ \E p \in Finished : Complete(n, p)
                        \/ Create(n) \/ RemoveChild(n)

-----------------------------------------------------------------------------

\* jobs.py:1, "at most M abreast", whatever finished, failed or was collected
\* between two passes.
ParallelismKept ==
    Cardinality({n \in Children : task[n] = "Active"}) <= Parallelism

\* jobs.py:9-10, "a job that reports success while an index silently gave up":
\* done means that every index ran to success.
DoneIsHonest == outcome = "done" => \A i \in Indexes : ran[i] > 0

\* jobs.py:5, each index is its own story: one child at a time, and never a
\* running child the job does not wait for.
NoStrays ==
    \A n \in Children : task[n] = "Active" => active[n[1]] = n[2]

\* What holds whatever finished, failed or was collected between two passes.
JobConsistent == JobTypeOK /\ ParallelismKept /\ NoStrays /\ DoneIsHonest

\* jobs.py:6-8: the job has ended, done or dead.
JobEnded == outcome # "running"

\* gc.py:4-5, "it never touches anything active": of a name that is used once,
\* although the note is kept by name and nobody looks at the phase again.
ActiveUntouched ==
    [][Sweep => \A n \in Children : task[n] = "Active" => task'[n] = "Active"]_jobGCVars
=============================================================================
