---------------------------- MODULE MCWorkloads ----------------------------
(***************************************************************************)
(* Ordinal sets, daemon sets, a job with the collector, the ledgers of     *)
(* departures, cron and a pipeline, each by itself: they share no state    *)
(* but the store, of which each keeps to its own tasks.  The first state   *)
(* chooses the one that runs.                                              *)
(***************************************************************************)
EXTENDS ChildSets, Departures, JobGC, Triggers

VARIABLE part   \* the component that runs

vars == <<part, ordinalVars, daemonVars, departureVars, jobGCVars,
          cronVars, graphVars>>

OneOther == {<<9, 0>>}
OneOfEach == [thrice |-> [every |-> 2, policy |-> "catch-up"],
              once |-> [every |-> 2, policy |-> "one-shot"],
              never |-> [every |-> 3, policy |-> "skip"]]

Init ==
    /\ part \in {"ordinals", "daemons", "departures", "job", "cron", "pipeline"}
    /\ OrdinalInit /\ DaemonInit /\ DepartureInit /\ JobInit
    /\ CronInit /\ GraphInit
    /\ part # "ordinals" => wanted.count = 1
    /\ part # "daemons" => machines = {}

\* Unless part p runs, its variables stay.
Still(p, v) == IF part = p THEN UNCHANGED part ELSE UNCHANGED v

\* A step of part p leaves the others alone.
In(p, A) ==
    /\ part = p
    /\ A
    /\ Still("ordinals", ordinalVars) /\ Still("daemons", daemonVars)
    /\ Still("departures", departureVars) /\ Still("job", jobGCVars)
    /\ Still("cron", cronVars) /\ Still("pipeline", graphVars)

Next ==
    \/ In("ordinals", OrdinalNext)
    \/ In("daemons", DaemonNext)
    \/ In("departures", DepartureNext)
    \/ In("job", JobNext)
    \/ In("cron", CronNext)
    \/ In("pipeline", GraphNext)

\* The keepers are called every tick, the engine starts what can start, the
\* children of a job and the jobs of a pipeline end some day, and each janitor
\* gets to its cleanup.  Nothing is asked of edits, faults, owners, the
\* collector and those who declare needs.
Fairness ==
    /\ WF_vars(In("ordinals", KeepOrdinals))
    /\ \A o \in Ordinals : WF_vars(In("ordinals", Start(o)))
    /\ WF_vars(In("daemons", Follow))
    /\ \A t \in Members, j \in Janitors : WF_vars(In("departures", Clear(t, j)))
    /\ WF_vars(In("job", Reconcile))
    /\ WF_vars(In("job", \E n \in Children, p \in Finished : Complete(n, p)))
    /\ WF_vars(In("pipeline", LaunchReady))
    /\ WF_vars(In("pipeline", \E j \in Jobs, p \in Finished : FinishJob(j, p)))

WorkloadsSpec == Init /\ [][Next]_vars /\ Fairness

-----------------------------------------------------------------------------
\* In every state the ordinals, the daemons, the ledgers and the job are in order.
WorkloadsConsistent ==
    /\ OrdinalsInOrder
    /\ DaemonsAtHome
    /\ DeparturesConsistent
    /\ JobConsistent

\* In every state cron and pipeline do what their schedules and needs say.
TriggersRight ==
    /\ CronOnce
    /\ NeverStuck
    /\ VerdictIsRight

\* An ordinal set settles if its spec is edited only finitely often, daemons
\* come to cover the nodes, what was asked to go goes, and a job ends.
WorkloadsSettle ==
    /\ <>[][UNCHANGED wanted]_vars => <>[](part = "ordinals" => OrdinalsSettled)
    /\ <>[](DaemonsCover /\ (part = "job" => JobEnded) /\ (part = "pipeline" => PipelineEnded))
    /\ AskedGo
=============================================================================
