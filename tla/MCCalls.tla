------------------------------ MODULE MCCalls ------------------------------
(***************************************************************************)
(* The valves before a service, its clients, operations of several steps,  *)
(* what is told of those who are silent, slow or broken, and the inner     *)
(* life of a task: each by itself; the first state chooses the one that    *)
(* runs.                                                                   *)
(***************************************************************************)
EXTENDS Valves, Calls, Operations, Requests, Signals, Pages, Lives

VARIABLE part   \* the component that runs

vars == <<part, breakerVars, bulkheadVars, ladderVars, limiterVars,
          keyVars, flightVars, budgetVars, sagaVars, duckVars, move, poolVars,
          dampVars, balanceVars, hedges, limitVars, sampled, seasons, reservoirVars,
          phiVars, deadmanVars, probeVars, pairVars, skewVars, edges, lockVars,
          alertVars, inhibitVars, requests, toil, signals, traces, traceVars,
          crewVars, crash>>

TwoStagesShed == <<3, 4>>
TwoStagesRestore == <<1, 2>>
FourSteps == <<TRUE, TRUE, FALSE, TRUE>>
UpToFiveJobs == UNION {[1..n -> {1, 3}] : n \in 2..5}
Serves(service, joined, coldFor, coldPeriod) ==
    [service |-> service, joined |-> joined, coldFor |-> coldFor, coldPeriod |-> coldPeriod]
ThreeServers == <<Serves(1, 0, 0, 0), Serves(3, 0, 0, 0), Serves(1, 2, 2, 2)>>
Bands == <<1, 2, 3>>
Source(kind, name, scope) == [kind |-> kind, name |-> name, scope |-> scope]
TwoNodesAndZone == {Source("node", "n1", "n1"), Source("node", "n1", "n2"), Source("zone", "z", "z")}
Consequence(kind, within) == [kind |-> kind, within |-> within]
TasksAndNode == {Consequence("task", "n1"), Consequence("task", "n2"), Consequence("node", "z")}
ZoneOverNodeOverTask == {<<"node", "task">>, <<"zone", "node">>}

\* Restart policies: of the primary, of its sidecar.
Under(primary, companion) ==
    [t \in People |-> CASE t = Primary -> primary [] t = Companion -> companion [] OTHER -> "none"]
TwoPolicies == {Under("on-failure", "always"), Under("always", "none")}

\* Where several first states are possible, one will do while another part runs.
OneOf(p, first, A) == \/ part = p /\ A
                      \/ part # p /\ first /\ A

Init ==
    /\ part \in {"breaker", "bulkhead", "ladder", "limiter", "keys", "flight",
                 "budget", "saga", "shutdown", "migration", "pool",
                 "damper", "balance", "hedge", "limit", "sample", "season", "reservoir",
                 "phi", "deadman", "probe", "pair", "skew", "waits", "locks",
                 "alerts", "inhibit", "burn", "toil", "golden", "traces", "spans",
                 "lives", "crash"}
    /\ OneOf("breaker", healthy = TRUE, BreakerInit)
    /\ BulkheadInit /\ LadderInit /\ LimiterInit
    /\ KeyInit /\ FlightInit /\ BudgetInit /\ SagaInit /\ DuckInit
    /\ MigrationInit /\ (part = "migration" \/ (move.memory = 1 /\ move.copy = 1 /\ move.rate = 0))
    /\ PoolInit /\ (part = "pool" \/ (jobs = <<1, 1>> /\ stealing))
    /\ DampInit
    /\ OneOf("balance", balance = [policy |-> "two", slow |-> 0], BalanceInit)
    /\ HedgeInit /\ LimitInit /\ SampleInit /\ SeasonInit /\ ReservoirInit
    /\ PhiInit /\ DeadmanInit /\ ProbeInit /\ PairInit
    /\ OneOf("skew", skew = [p \in Peers |-> 0], SkewInit)
    /\ GraphInit /\ LockInit
    /\ AlertInit /\ InhibitInit /\ SloInit /\ ToilInit /\ SignalInit /\ TraceInit /\ SpanInit
    /\ OneOf("lives", door = "quota" /\ policies = Under("always", "none"), LivesInit)
    /\ CrashInit

\* Unless part p runs, its variables stay.
Still(p, v) == IF part = p THEN UNCHANGED part ELSE UNCHANGED v

\* A step of part p leaves the others alone.
In(p, A) ==
    /\ part = p
    /\ A
    /\ Still("breaker", breakerVars) /\ Still("bulkhead", bulkheadVars)
    /\ Still("ladder", ladderVars) /\ Still("limiter", limiterVars)
    /\ Still("keys", keyVars) /\ Still("flight", flightVars)
    /\ Still("budget", budgetVars) /\ Still("saga", sagaVars)
    /\ Still("shutdown", duckVars) /\ Still("migration", move)
    /\ Still("pool", poolVars)
    /\ Still("damper", dampVars) /\ Still("balance", balanceVars) /\ Still("hedge", hedges)
    /\ Still("limit", limitVars) /\ Still("sample", sampled) /\ Still("season", seasons)
    /\ Still("reservoir", reservoirVars)
    /\ Still("phi", phiVars) /\ Still("deadman", deadmanVars) /\ Still("probe", probeVars)
    /\ Still("pair", pairVars) /\ Still("skew", skewVars) /\ Still("waits", edges)
    /\ Still("locks", lockVars)
    /\ Still("alerts", alertVars) /\ Still("inhibit", inhibitVars) /\ Still("burn", requests)
    /\ Still("toil", toil) /\ Still("golden", signals) /\ Still("traces", traces)
    /\ Still("spans", traceVars)
    /\ Still("lives", crewVars) /\ Still("crash", crash)

Next ==
    \/ In("breaker", BreakerNext)
    \/ In("bulkhead", BulkheadNext)
    \/ In("ladder", LadderNext)
    \/ In("limiter", LimiterNext)
    \/ In("keys", KeyNext)
    \/ In("flight", FlightNext)
    \/ In("budget", BudgetNext)
    \/ In("saga", SagaNext)
    \/ In("shutdown", DuckNext)
    \/ In("migration", CopyRound)
    \/ In("pool", PoolNext)
    \/ In("damper", DampNext)
    \/ In("balance", \E arrivals \in 0..MaxArrivals : BalanceTick(arrivals))
    \/ In("hedge", \E first, second \in Latencies : HedgedCall(first, second))
    \/ In("limit", LimitNext)
    \/ In("sample", \E v \in SampleValues : Sample(v))
    \/ In("season", \E h \in Hours, v \in Readings : Learn(h, v))
    \/ In("reservoir", OfferSample)
    \/ In("phi", PhiNext)
    \/ In("deadman", DeadmanNext)
    \/ In("probe", \E ok \in BOOLEAN : Take(ok))
    \/ In("pair", \E a, b, c \in BOOLEAN : PairTick(a, b, c))
    \/ In("skew", SkewNext)
    \/ In("waits", GraphNext)
    \/ In("locks", LockNext)
    \/ In("alerts", AlertNext)
    \/ In("inhibit", InhibitNext)
    \/ In("burn", UnobservedTick \/ \E failed, total \in {0, 2} :
                                      failed <= total /\ ObserveRequests(failed, total))
    \/ In("toil", ToilNext)
    \/ In("golden", \E v \in SignalValues : PushSignal(v))
    \/ In("traces", \E interesting \in BOOLEAN : OfferTrace(interesting))
    \/ In("spans", SpanNext)
    \/ In("lives", LivesNext)
    \/ In("crash", CrashNext)

\* Time passes, calls are made and answered, the pool is drained, the process
\* is asked to tick, an operation that has begun goes on, the detector goes round
\* while the trouble lasts, the router ticks, and the sidecars' keeper is called.
Fairness ==
    /\ WF_vars(In("breaker", BreakerTick))
    /\ WF_vars(In("breaker", \E c \in Callers : Allow(c)))
    /\ \A c \in Callers : WF_vars(In("breaker", Answer(c)))
    /\ WF_vars(In("bulkhead", BulkheadTick))
    /\ WF_vars(In("bulkhead", Drain))
    /\ WF_vars(In("ladder", LadderTick))
    /\ WF_vars(In("ladder", \E l \in Loads : Observe(l)))
    /\ WF_vars(In("saga", RunSaga \/ ActDone \/ ActFailed \/ Unwind))
    /\ WF_vars(In("shutdown", DuckTick))
    /\ WF_vars(In("shutdown", DuckTime))
    /\ WF_vars(In("migration", CopyRound))
    /\ WF_vars(In("pool", PoolNext))
    /\ WF_vars(In("alerts", FireAlert))
    /\ WF_vars(In("alerts", AlertTime))
    /\ WF_vars(In("alerts", Climb))
    /\ WF_vars(In("lives", CompanyKept))

CallsSpec == Init /\ [][Next]_vars /\ Fairness

-----------------------------------------------------------------------------
\* In every state each valve holds what it promises its callers, each client's
\* ledger is in order, each operation is as whole as its code promises, and a task
\* gets in, and starts again, as the door and the backoff allow.
ValvesHold ==
    /\ BreakerHolds /\ NobodyOvertakes /\ ExpendableFirst /\ PromiseKept
    /\ LandsOnce /\ AboardIsWaiting /\ RetriesAreEarned
    /\ SagaIsWhole /\ OnlyHopelessCut /\ VerdictIsHonest /\ StealingPays
    /\ DoorHolds /\ BackoffIsPaid

\* In every state what is concluded from answers, silences and samples, and what
\* is told of it, agrees with what happened.
SignalsHold ==
    /\ part = "damper" => SteadyIsUntouched
    /\ part = "balance" => BalanceFits
    /\ part = "hedge" => HedgeNeverHurts
    /\ part = "limit" => OneSlotIsOpen
    /\ part = "sample" => MedianHolds
    /\ part = "season" => HolesAreSeen
    /\ part = "reservoir" => ReservoirIsASample
    /\ part = "phi" => SuspicionFits
    /\ part = "deadman" => PagedOncePerSilence
    /\ part = "probe" => VerdictHasEvidence
    /\ part = "pair" => SplitOnlyWhileCut
    /\ part = "skew" => OrderIsTrue
    /\ part = "waits" => DeadlocksFound
    /\ part = "locks" => LoansAreBacked
    /\ part = "alerts" => LadderIsClimbed
    /\ part = "inhibit" => HeldAreCounted
    /\ part = "burn" => AlarmFits
    /\ part = "toil" => ToilIsSeen
    /\ part = "golden" => DirectionsFit
    /\ part = "traces" => EstimateIsHonest
    /\ part = "spans" => SpansAreNested

\* No step takes a flapping endpoint back before it was quiet, promotes a standby
\* without enough failures in a row, or moves a phase otherwise than it is told.
NothingTurnsEarly == BackWhenQuiet /\ PromotedOnFailures /\ MovesAreTold

\* The dependency of the breaker is well.
Undisturbed == part = "breaker" => healthy

\* The breaker is closed; a saga, a shutdown that began, a migration and the work
\* of a pool have ended.
Settled ==
    /\ part = "breaker" => breaker.state = "closed"
    /\ part = "saga" => saga.does \in {"completed", "failed"}
    /\ part = "shutdown" => duck.phase \in {"serving", "closed"}
    /\ part = "migration" => move.verdict # "pending"
    /\ part = "pool" => Over

\* What shut reopens once the dependency stays well, and what began ends, though
\* acts fail and raise, requests last and what is copied is written again; a queued
\* call gets its turn (the calls are alike, one stands for all); features come back
\* in a long calm; trouble that stays reaches a person, also when it returns, and the
\* last of the ladder if nobody takes it; and a sidecar comes to where its primary
\* stays.
CallsSettle ==
    /\ <>[]Undisturbed => <>[]Settled
    /\ LET call == CHOOSE c \in CallIds : TRUE
       IN (\E i \in DOMAIN queued : queued[i].call = call) ~> call \in Running
    /\ <>[][~\E l \in Loads : l >= 1 /\ Observe(l)]_ladderVars => <>[](shed = {})
    /\ part = "alerts" => TroubleIsHeard
    /\ part = "lives" => CompanyIsKept
=============================================================================
