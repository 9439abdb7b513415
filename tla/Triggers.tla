------------------------------ MODULE Triggers ------------------------------
(***************************************************************************)
(* What sets work going: the keeper of cron schedules (control/cron.py),   *)
(* and the runner of a pipeline (control/dagjobs.py) over a graph of needs *)
(* (depends.py).  The two share no state.                                  *)
(***************************************************************************)
EXTENDS Integers, FiniteSets

CONSTANTS
    Schedules,      \* [name -> [every, policy]]
    LastTick,       \* bound: the last tick of cron
    Jobs            \* the names in the graph

ASSUME TriggersAssumption ==
    /\ \A s \in DOMAIN Schedules :
          /\ Schedules[s].every \in Nat \ {0}
          /\ Schedules[s].policy \in {"skip", "catch-up", "one-shot"}
    /\ LastTick \in Nat
    /\ IsFiniteSet(Jobs)

VARIABLES
    seen,       \* the tick at which cron last looked at a schedule, or Never
    launches,   \* [schedule -> [tick -> how often its window was launched]]
    awake,      \* the ticks at which cron ran, by schedule
    needs,      \* the graph: what each name needs
    progress    \* where the pipeline is with each name in the graph

cronVars == <<seen, launches, awake>>
graphVars == <<needs, progress>>

NotYet == -1
Due(s, from, to) == {t \in from..to : t % Schedules[s].every = 0}
LatestOf(S) == {t \in S : \A u \in S : u <= t}

CronInit ==
    /\ seen = [s \in DOMAIN Schedules |-> NotYet]
    /\ launches = [s \in DOMAIN Schedules |-> [t \in 0..LastTick |-> 0]]
    /\ awake = [s \in DOMAIN Schedules |-> {}]

\* Wrong: the tick seen last is looked at again.
MissedAgain(s, now) == Due(s, IF seen[s] = NotYet THEN 0 ELSE seen[s], now - 1)

\* The windows between the tick seen last and this one.
Missed(s, now) == Due(s, seen[s] + 1, now - 1)

\* What a schedule launches: the missed windows as its policy says, then the
\* one of this tick.
Launching(s, now) ==
    Due(s, now, now) \union
        CASE Schedules[s].policy = "catch-up" -> Missed(s, now)
          [] Schedules[s].policy = "one-shot" -> LatestOf(Missed(s, now))
          [] OTHER -> {}

\* The keeper wakes at a later tick than before, with the schedules S it has
\* by then: one that is added late has seen nothing, from the first tick on.
CronTick(now, S) ==
    /\ \A s \in DOMAIN Schedules : /\ seen[s] < now
                                   /\ seen[s] # NotYet => s \in S
    /\ seen' = [s \in DOMAIN Schedules |-> IF s \in S THEN now ELSE seen[s]]
    /\ awake' = [s \in DOMAIN Schedules |->
                    IF s \in S THEN awake[s] \union {now} ELSE awake[s]]
    /\ launches' = [s \in DOMAIN Schedules |->
          IF s \notin S THEN launches[s]
          ELSE [t \in 0..LastTick |->
                   launches[s][t] + (IF t \in Launching(s, now) THEN 1 ELSE 0)]]

CronNext == \E now \in 0..LastTick, S \in SUBSET DOMAIN Schedules : CronTick(now, S)

-----------------------------------------------------------------------------
(* The graph *)

Absent == "absent"
Known == {j \in Jobs : progress[j] # Absent}

GraphInit ==
    /\ needs = [j \in Jobs |-> {}]
    /\ progress = [j \in Jobs |-> Absent]

\* All that a name needs, at any remove.
Upstream(j) ==
    LET up[n \in 0..Cardinality(Jobs)] ==
          IF n = 0 THEN needs[j]
          ELSE up[n - 1] \union UNION {needs[k] : k \in up[n - 1]}
    IN up[Cardinality(Jobs)]

\* A need is refused if it would close a cycle.
MayNeed(j, k) == j # k /\ j \notin Upstream(k)

\* The graph is declared before the pipeline starts.
Declare(j, k) ==
    /\ \A i \in Known : progress[i] = "waiting"
    /\ MayNeed(j, k)
    /\ needs' = [needs EXCEPT ![j] = @ \union {k}]
    /\ progress' = [progress EXCEPT ![j] = "waiting", ![k] = "waiting"]

\* The rounds of start_order: every name comes once all it needs has come.
Started ==
    LET round[n \in 0..Cardinality(Jobs)] ==
          IF n = 0 THEN {}
          ELSE {j \in Known : needs[j] \subseteq round[n - 1]}
    IN round[Cardinality(Jobs)]

BlastRadius(j) == {k \in Known : j \in Upstream(k)}

-----------------------------------------------------------------------------
(* The pipeline *)

Corpses == {j \in Known : progress[j] = "Failed"}
Doomed(j) == Upstream(j) \intersect Corpses # {}
Ready(j) == \A k \in needs[j] : progress[k] = "Succeeded"

\* Asking what can be launched, also by asking for the state, skips what is
\* downstream of a corpse.
AfterLook(launched) ==
    progress' = [j \in Jobs |->
        IF progress[j] # "waiting" THEN progress[j]
        ELSE IF Doomed(j) THEN "skipped"
        ELSE IF launched /\ Ready(j) THEN "running" ELSE "waiting"]

LaunchReady == AfterLook(TRUE) /\ UNCHANGED needs

AskState == AfterLook(FALSE) /\ UNCHANGED needs

FinishJob(j, end) ==
    /\ progress[j] = "running"
    /\ progress' = [progress EXCEPT ![j] = end]
    /\ UNCHANGED needs

\* What state() says once it has looked.
SettledJob == {"Succeeded", "Failed", "skipped"}
State ==
    IF \E j \in Known : progress[j] \notin SettledJob THEN "running"
    ELSE IF Corpses # {} THEN "failed" ELSE "done"

GraphNext ==
    \/ LaunchReady \/ AskState
    \/ \E j \in Jobs :
          \/ \E k \in Jobs : Declare(j, k)
          \/ \E end \in {"Succeeded", "Failed"} : FinishJob(j, end)

-----------------------------------------------------------------------------
(* Properties *)

\* However long the keeper sleeps and whenever a schedule is added, no window is
\* launched twice; when it has looked, a schedule that catches up has launched
\* every window so far, one with one shot the latest of them and no more late
\* ones than it looked times, and one that skips none it slept through.
CronOnce ==
    \A s \in DOMAIN Schedules :
        LET done == {t \in 0..LastTick : launches[s][t] > 0}
            late == done \ awake[s]
            due == Due(s, 0, seen[s])
        IN /\ \A t \in 0..LastTick : launches[s][t] <= 1
           /\ done \subseteq due
           /\ Schedules[s].policy = "catch-up" => done = due
           /\ Schedules[s].policy = "one-shot" =>
                 /\ LatestOf(due) \subseteq done
                 /\ Cardinality(late) <= Cardinality(awake[s])
           /\ Schedules[s].policy = "skip" => late = {}

\* Declarations in any order leave a graph that can be started, so the error
\* of start_order cannot be met (depends.py: "which should be impossible").
NeverStuck == Started = Known

\* The end of a pipeline is told rightly: it failed if and only if a job did,
\* what is downstream of a corpse was skipped and nothing else was, and every
\* job that ran had all it needs.
VerdictIsRight ==
    /\ \A j \in Known :
          /\ progress[j] = "skipped" => Doomed(j)
          /\ progress[j] \in {"running", "Succeeded", "Failed"} => Ready(j)
    /\ State # "running" =>
          {j \in Known : progress[j] = "skipped"} = UNION {BlastRadius(c) : c \in Corpses}

\* The pipeline has come to one of its ends.
PipelineEnded == State # "running"
=============================================================================
