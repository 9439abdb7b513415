# Verification of the fleet scheduler

TLA+ models of `src/fleet`, a cluster scheduler written as a set of small
in-memory parts around one store: what each part keeps, what may happen between
two of its calls, and what must stay true. TLC checks the models on small
instances; TLAPS proves the invariants of the core for every value of the
constants. Paths below are relative to `src/fleet`, line numbers are those of
the source at the modelled commit.

- [The system](#the-system): parts, state, interactions, what is hard
- [Modules](#modules): which module models what, and how
- [Runs](#runs): what TLC checks, bounds, fairness
- [Proofs](#proofs): what holds for every instance, and why
- [Where code and words differ](#where-code-and-words-differ)
- [Not modelled](#not-modelled) and [Plan](#plan)

## The system

Nothing in the code runs on a thread of its own. The concurrency is that of
*calls*: a part reads the store, another part or an operator acts, the first
part acts on what it read; a loop calls the parts tick after tick; nodes fall
silent, tasks end, controllers freeze and wake between any two calls; and an
exception ends a call half way. So the models interleave calls, split a call
into steps where an exception can end it or another part can get between, and
let the environment act between any two calls.

| Part | State | Operations | Meets |
|---|---|---|---|
| Store (`store.py`, `objects.py`, `control/retryloop.py`) | tasks and nodes by name, generation of each, event log | add, update against a read generation, batch, remove, bind; read-decide-write with retries | everybody |
| Watch (`control/watch.py`, `subscriptions.py`, `eventretention.py`, `coldstart.py`) | cursors into the log, an informer's cache, saved cursors, the compaction line | refresh, pull, save, restore, register, compact, expel, rebuild | the log of the store |
| Placement (`sched/placement.py`, `core.py`, `filters.py`, `queue.py`, `preempt.py`, `classes.py`, `control/budget.py`) | the waiting queue with its benches, displacements of the pass | one pass: try, bench, preempt, requeue | store, budgets, facade |
| Facade (`api.py`, `control/deploy.py`) | the store, the engine, the clock | submit, delete, apply a deployment, cordon, drain, retire, step | placement |
| Election (`leaderelect.py`) | lease, token, fenced log, each controller's token | campaign, renew, resign, write | the clock; controllers that freeze |
| Jobs and collector (`control/jobs.py`, `control/gc.py`) | per index: won, attempts, live child; notes of finished tasks | reconcile; sweep | each other, through the store only |
| Rollout (`roll/rolling.py`, `history.py`, `autopause.py`, `deploystatus.py`, `slofreeze.py`) | revision history, pause flag, last status, broken glass | step, record, roll back, observe, resume | budgets, scheduler, keeper |
| Ordinal sets (`control/ordinals.py`) | the spec; children by ordinal, stamped with a revision | reconcile: bear, replace or retire one | engine, probes, whoever removes a child |
| Daemon sets (`control/daemons.py`) | the daemons, by node name | reconcile | nodes that come and go, monitor, scheduler |
| Departures (`control/finalizers.py`, `control/owners.py`) | signatures owed, who is leaving, references | protect, request, clear; link, cascade, orphan | each other, through the store only |
| Triggers (`control/cron.py`, `dagjobs.py`, `depends.py`) | the tick each schedule was looked at; needs; finished, failed, skipped and running jobs | tick; declare; launch, finish, state | the clock; jobs that end |
| Valves (`circuitbreaker.py`, `bulkhead.py`, `brownout.py`, `apiratelimit.py`) | breaker state and failures; pool and queue; shed stages; buckets | allow and answer; submit and drain; observe; allow | their callers, the dependency, the clock |
| Calls (`idempotency.py`, `singleflight.py`, `retrybudget.py`) | remembered keys, flights, successes and retries in a window | begin, finish, abandon; ask, land; succeed, retry | clients that repeat themselves |
| Operations (`sagas.py`, `gracefulshutdown.py`, `migrations.py`, `workstealing.py`) | the steps done; phase and requests in flight; what is dirty; queues of workers | run, unwind; accept, begin, tick; rounds; assign, run | acts that fail or raise, the clock |
| Bookings (`holds.py`, `backfill.py`, `reservations.py`) | holds, loans against them, bookings | book, cancel, expire; borrow, finish, sweep; claim, scale | scavengers, batches, scalers |
| Lending (`quotaborrow.py`, `sched/devices.py`) | usage, debts and calls of teams; devices and their tenants | use, call back, enforce; place, slice, release | teams, tasks |
| Packing (`sched/gang.py`, `defrag.py`, `qos.py`) | tasks on hosts; tenants and what they use | rehearse and admit; move uphill; admit, burst, relieve | the store, scheduler, preemption |
| Delivery (`roll/waves.py`, `channels.py`, `roll/bluegreen.py`, `canary.py`, `traffic.py`) | who has baked; pins and yanks; two colours; counts of a canary; sticky sessions | tick; publish, promote, yank; cut over, retire; note, judge; route, dial | a judge's evidence, users, operators |
| Renewal (`poolrefresh.py`, `burnin.py`, `canaryrefresh.py`, `upgradebook.py`, `skewpolicy.py`, `remediation.py`) | the pool, ledgers of what was refreshed, who burns in, versions, a budget of fixes | replace; enrol, sweep; refresh, admit, upgrade; fix, page | the store, people who meddle with nodes |
| Declared (`manifest.py`, `gitops.py`, `drift.py`, `snapshot.py`, `verify.py`, `backupdrill.py`, `preflight.py`, `maintenance.py`) | the repository, what lives, pauses, a snapshot, freeze windows | plan, apply, sync, correct, dump, restore, verify, may change | deployments, operators who edit |
| Scaling (`autoscale.py`, `scalerules.py`, `prescale.py`, `vertical.py`, `spot.py`, `expander.py`) | orders on their way, idle since when, low since when, rented nodes with a deadline | tick of each dial; evacuate; shop | demand, a calendar, a market |
| Evictions (`taintevict.py`, `pressureloop.py`, `nodepools.py`, `volumes.py`, `imagecache.py`, `cooldowns.py`) | taints with the tick each was put on, volumes on nodes, caches by node name, when a task was last moved | sweep; taint, untaint; migrate; warm; may displace | engine, operators |
| Signals (`phidetect.py`, `deadman.py`, `probes.py`, `failover.py`, `clockskew.py`, `waitgraph.py`, `priorityinversion.py`) | intervals between beats, who was paged, runs of answers, who is primary, measured offsets, edges, loans | beat, sweep; take; tick; measure, order; wait, end; acquire, release | silence, a link that is cut, clocks |
| Requests (`loadbalance.py`, `hedging.py`, `outliers.py`, `flapdamp.py`, `adaptiveconcurrency.py`, `seasonal.py`) | queues, penalties, a limit, samples, readings of each hour of the week | pick; hedge; flap, usable; observe; learn, judge | servers that are slow or cold |
| Pages (`alerts.py`, `alertroute.py`, `inhibitions.py`, `slo.py`, `tickets.py`, `tracing.py`) | incidents, who was told, raised sources, samples in windows, toil, spans | fire, resolve, escalate; raise, offer; observe; record; open, close | people |
| Lives (`control/nsquota.py`, `overload.py`, `sidecars.py`, `stages.py`, `restartpolicy.py`, `crashloop.py`) | quota, pairs, the stage of a task, attempts, a streak of crashes | admit; attach, follow; complete, fail; sweep; crashed, may restart | one task, all through the store |
| Streams (`autosplit.py`, `shardmap.py`, `watermarks.py`, `allocator.py`, `rollup.py`) | ranges, points of a ring, open windows, addresses that cool, rungs | observe; add, remove; accept; assign, release; record, query | loads, late events |
| Identity (`certrotate.py`, `identity.py`, `images.py`, `registrygc.py`, `scrubber.py`, `apiversions.py`) | certificates, documents, tags and digests, a cursor over blocks, the hub's object | rotate, revoke; mint, verify; push, move, collect; scrub; read, write | clients with pins, rollouts, rollbacks |
| Plumbing (`control/hooks.py`, `configs.py`, `readygate.py`, `rbac.py`, `netpolicy.py`) | the chain, contents and stamps, who passes the gate, roles and bindings, policies | admit; put, stamp; gate; may; may reach | declarations on their way in |
| Policies (`sched/deadline.py`, `offline.py`, `quota.py`, `queue.py`, `scorers.py`, `topology.py`, `explain.py`, `federation.py`) | credits of lanes, shares of teams, what each box holds | order, pack, admit, deal, pick, explain, fail over | the engine |
| Ledgers (`mtbf.py`, `redundancymath.py`, `patchcompliance.py`, `changefail.py`, `energy.py`, `admissionlog.py`, `riskscore.py`, `metering.py`, `costanomaly.py`, `schedlatency.py`, `notes.py`, `libyear.py`, `interference.py`) | outages, tiers, advisories, deploys, carbon windows, refusals, bills, waits, beliefs, pins, slowed neighbours | record; publish; ship, fail; place; refuse, admit; score; meter; wait, bind; note; release; sample, cap | whoever reads the numbers |
| Custody (`api.py`, `cordonttl.py`, `quarantine.py`, `upgradewalk.py`) | `node.schedulable`, the quarantine taint, leases, kill lists, probations | cordon, lease, sweep, report a death, patrol, walk | all write one flag |
| Control loop (`sim/cluster.py`, `control/nodes.py`, `control/health.py`, `upgradewalk.py`) | heartbeats, readiness, backoff, startup gate, desired replicas | tick: beat, sweep, converge, place, keep; between ticks: rescale, walk | everything above in one loop |

What makes each correct:

- **Store**: no lost update, no refusal without a rival, a log without gaps that
  tells which tasks exist; also when names are reused and batches fail.
- **Watch**: a subscriber that did nothing wrong is never stranded below the
  compaction line; what it was told agrees with what happened.
- **Placement and facade**: a pending task is never lost, never placed twice,
  never on a node that is gone or full; preemption takes only cheaper tasks; a
  feasible task is placed some day and evictions stop.
- **Election**: one owner per token, accepted writes in the order of reigns, the
  leader never refused, a frozen leader loses its seat.
- **Job and collector**: parallelism and budgets hold whatever is collected
  between two passes, a verdict is honest, active tasks are left alone, the job
  ends.
- **Rollout**: surge and serving count hold through superseded rollouts and
  losses, and the floor of a guard whenever the caller hands one over; a good
  build arrives.
- **Custody**: a node in quarantine stays guarded whoever opens it; only a clean
  probation frees it; no cordon is forgotten.
- **Ordinal and daemon sets**: births in order and retirements in reverse
  wherever nobody interfered; a daemon is on the node it is named for; both
  settle once edits and faults stop.
- **Departures**: nothing leaves before its last signature or waits for nobody;
  references are a forest; what was asked to go goes.
- **Valves and calls**: what is refused, queued or shed is so for the stated
  reason, and a valve that shut opens again; a repeated request lands once.
- **Bookings and lending**: what was promised for later fits when later comes;
  every loan and every device is accounted for.
- **Triggers**: no window launched twice or forgotten against its policy; a
  pipeline's end is told rightly, what is downstream of a failure is skipped.
- **Operations**: what a saga did is done or undone in order; only requests that
  had no chance are cut; a migration's verdict is that of the race; stealing
  pays.
- **Packing**: gangs are whole, moves pay and end, relief takes from no tenant
  that keeps to its request.
- **Delivery and renewal**: every promotion rests on evidence, somebody serves
  all the time, what was rejected stays out, a pool never shrinks below its
  size, a robot stops at its budget.
- **Declared**: after a sync what lives is what was declared, the plan tells the
  difference, pauses are respected, a restore is verified, ledgers add up.
- **Scaling and evictions**: no order is lost or doubled, growing is quick and
  shrinking slow, grace is kept, nobody is bounced about.
- **Signals and requests**: a verdict has evidence, the silent one is paged
  once, two sides serve only over a cut, a deadlock is found, a limit leaves a
  slot.
- **Pages**: trouble that stays climbs the ladder to a person, once a step; what
  is held back is counted; an alarm fits what was observed.
- **Lives**: what passes the door fits, moves are among the legal ones, a
  sidecar comes to where its primary stays, backoff is paid.
- **Streams, identity, plumbing**: keys, points and addresses have one owner,
  what closed stays closed, a client is warned before its pin dies, what may be
  rolled back to is held, what is judged is what is admitted.
- **Policies and ledgers**: orders are optimal by their own measure, weights and
  shares hold, the explainer agrees with the scheduler; a ledger forgets nothing
  that nobody settled.
- **Loop**: no ghosts on silent nodes, no task taken from a node that came back,
  walks end and keep floors, all replicas run again in the end.

`PROJECT.json` lists the hazards of the code one by one, at the line where each
bites, with the properties aimed at it.

## Modules

Each component module declares its constants with a named `ASSUME`, its
variables, one action per operation and, at the end, the properties, each
beneath a comment that names the promise of the code it states. Definitions
whose comment begins with "Wrong:" are plausible mistakes in the code; no
specification uses them, they show that a property would notice. `MC...` modules
give constants values that a configuration cannot write.

| Module | Models | Correspondence |
|---|---|---|
| `Store` | store and retry loop | An object is a record in memory that several names, over time, and several handles refer to; a handle is what a controller read, with the generation it read. An update carries that generation, a batch is checked whole before it is applied, an edit in place changes the live object before the write is ruled on (as `change()` does). The log is a sequence of events. |
| `Watch` | extends Store | A keeper compacts behind registered cursors; `Informer` has a cache, `Watcher` a filtered subscription with a cursor it saves, loses in a crash and restores. |
| `Placement` | one pass of the engine | `BeginPass` takes the due tasks, one step serves the first of them (`Place`, `Bench`, `PreemptAndPlace`, `PreemptInVain`, `HeadGone`), `EndPass` advances the clock. Scorers choose among the nodes the filters admit, so any of these. Two of the steps end the pass on an exception. |
| `Fleet` | the facade over Placement | One action per verb; a drain folds over the tasks in name order because each one asks the budgets while the earlier ones are gone. |
| `Election` / `Reigns` | election / what it promises | A controller's tick is `Lead` or `Standby`; `Freeze` and `Wake` stand for the stalls of `trials/fencerace.py`, waking with work held over. `Reigns` is the abstract succession: owners in order, writes in the order of reigns. |
| `JobGC` | one indexed job beside the collector | `Reconcile` and `Sweep` are whole passes. A note of a finished task ages with the clock and is kept by name, as in the code; `Others` are tasks of owners that use a name again. |
| `Rollout` | one deployment's rollout | A task is named by revision and ordinal. `Step` is `Roller.step`, including the `Conflict` it raises when the next ordinal is taken, from each caller it has: directly with a guard (`GuardedStep`), with none, as the calendar's gate and some direct callers do (`BareStep`), and behind the gate of the error budget, which hands over no guard either (`GatedStep`). |
| `ChildSets` | one ordinal set, one daemon set | `KeepOrdinals` is one `reconcile` of the ordinal set: its three loops are `Bear`, `Replace`, `Retire`, each with the earlier ones idle; the spec is edited at any time. `Follow` is one `reconcile` of the daemon set; the scheduler, the monitor and the runtime act on the daemons in between. |
| `Departures` | finalizers and owners | Two ledgers over one set of names, which may be used again; a cascade asks no janitor. |
| `Valves` | breaker, compartment, ladder, limiter | One instance each. A call is let through in one step and answered in another. Floats are multiples of a fraction of a token. |
| `Calls` | keys, single flight, retry budget | Several attempts of one intent, several askers of one question, windows as counts by age. |
| `Triggers` | cron, pipeline over its graph | A tick of cron comes at any later tick, with any schedules added since. Edges are declared in any order before the pipeline starts; `LaunchReady` and `AskState` both skip what is doomed, as `launchable` does. |
| `Operations` | saga, shutdown, migration, pool | A saga takes an act or a compensation per step, because an exception may come between; a shutdown is asked to tick at any time or not; the pool's loop is one worker per step. |
| `Packing` | gangs and rebalancer; a node under pressure | `AdmitGang` rehearses on the store of now and binds one by one; `Rebalance` is a whole pass of up to `MoveBudget` moves; others add, place, displace and remove tasks in between. The node under pressure has cpu and memory; its tenants are evicted by memory alone. |
| `Bookings` | holds with their loans, the broker | Windows over a short horizon; the broker's capacity changes by scale-ups that asked it and by batches that come for their bookings. |
| `Lending` | the lender, the devices of a node | `Use` keeps what was within the guarantee when the rest is refused, as the code does. |
| `Delivery` | waves, channels, colours, canary, dial | One chain, two channels, one pair. Blue and green may be driven in any order, as nothing in the code checks it; users are numbered as they come, which is what the hash of a session does. |
| `Renewal` | pool refresh, burn-in, cautious refresh, book, robot | The refreshes share one fleet with people who lose, heal or fence nodes. A cautious refresh is one call in rounds (`CautiousRound`), up to the exception that ends it. Versions are minors. |
| `Declared` | manifests, syncer, drift, snapshots, drill, preflight, calendar, ledger of assets | A manifest is parsed and planned as the code does, with defaults and refusals; a deployment is its tasks by ordinal. What is written to the store beside it is `WriteTask`, `WriteNode`. |
| `Scaling` | dials, rules, calendar, truce, rented nodes, shop | One tick per action. `NodeDialTick` is the dial inside the tick of the cluster, with orders that warm up. Loads are multiples of a twentieth. |
| `Evictions` | taints with grace, fences, volumes, caches, cooldowns, surveys | The engine places past taints, as it does. A survey plans all its moves on one reading, which is followed one by one. |
| `Signals` | suspicion, deadman, probes, failover, clocks, waits, lent priority | Mean and deviation are compared as whole numbers, the deviation squared. A wait graph gains and loses an edge at a time; `Cycles` and `BlockedBehind` are what is reported of it. |
| `Requests` | dampener, balancer, hedges, limit, outliers, reservoir, hours of the week | What the code draws at random is any choice. Penalties halve exactly, by fractions of `Flap`. |
| `Pages` | router and pager, inhibition, burn, toil, signals, traces, spans | One alert of one deployment with all three of its ledgers (pager, flap count, ladder); the critical path is the longest chain under the root. |
| `Lives` | a primary and its sidecar beside the engine | The door, the keepers and the engine all write the phases; the ledger of stages moves before the store is asked, as the code does it. |
| `Streams` | splitter, ring, windows, addresses, rungs | Points of two nodes of the ring may collide, then the later one owns it. |
| `Identity` | rotation, documents, registry, scrub, versions, names | A certificate is what it has left; a tag moves while a rollout of it goes on; two editors of different versions read and write one object. |
| `Plumbing` | hooks, configs, gate, roles, flows | A text to be hashed is the sequence of its pieces, so that two contents with one text are found. |
| `Policies` | orders, bins, shares, lanes, one pass, federation | Scores are multiples of 1/`Unit`. `Picked` is the first best by name. |
| `Ledgers` | outages, tiers, advisories, shipping, mirror, watts and grams, refusals, risk, bills, waits, notes, pins, neighbours | Rates are kept as fractions, shares of a processor in multiples of `WorkUnit`. |
| `Custody` | every writer of the cordon flag | The two sweeps and the clock are actions of their own, in any order. A patrol ends where it meets a node that is gone. |
| `ControlLoop` | the loop of the simulator | `stage` says which part of the tick comes next; verbs and walks run at rest. Ages and waits are kept relative to now. |
| `StoreProofs`, `FleetProofs`, `DeliveryProofs`, `WorkloadProofs`, `CallsProofs`, `CapacityProofs`, `PatienceProofs` | theorems | see [Proofs](#proofs) |
| `FoldFacts` | lemmas | what a fold over a set, a function or a sequence is, for the sums and replays of the other proofs |

Abstractions the modules share: one resource stands for cpu and memory (except
on the node under pressure of `Packing`, whose rule treats them apart); labels,
taints and selectors are the set of nodes that admit a task; `Bound` and
`Running` are one phase wherever no rule tells them apart; absolute times are
kept as ages or remaining waits, capped where nothing tells larger ones apart.
Wording, logs and journals are left out.

## Runs

Twelve runs, ten that hold and two that show a divergence. All counts are of
distinct states. `delivery`, `workloads`, `calls` and `capacity` hold several
parts that share no state: the first state chooses the one that runs, and an
invariant of such a run is the conjunction of those of its parts.

| Run | Instance | Shows |
|---|---|---|
| `store` | 2 controllers, 2 names, 3 objects, 2 handles, 5 events, 2 attempts (318 000) | `StoreConsistent`, `FreshWhileNameUnreused`, `NoSpuriousRefusal` |
| `watch` | informer or watcher beside one writer, 2 names, a node, 4 events, keep 0..3 (1.2 million) | `SoundNeverStranded`, `InformerSynced`, `NoMissedAdd` |
| `fleet` | a deployment of two and a cheaper task, nodes of 2 slots and 1, guarded engine with two overlapping floors, all verbs (303 000) | `PlaneConsistent`, `NeverOvercommitted`, `OnlyCheaperDisplaced`, `DrainKeepsFloor`, `FeasibleIsPlaced`, `EvictionsCease` |
| `election` | 3 controllers, lease of 2 ticks, 4 tokens, 3 writes (87 000) | `FenceHolds`, `ReignsAreKept`, `Succession` |
| `workloads` | an ordinal set of up to 3 with 2 revisions and 2 blows; 2 nodes with daemons and 4 moves; 3 names, 2 janitors, 2 births; a job of 2 indexes with a retry, caps of one and a reused name; 3 schedules, one of each policy, over 7 ticks; any graph of 4 jobs (78 700) | `WorkloadsConsistent`, `ActiveUntouched`, `TriggersRight`, `WorkloadsSettle` |
| `calls` | 3 callers of a breaker of 2 failures and 2 probes; pool and queue of 2; 2 stages; 2 clients; 3 attempts; 3 askers; a window of 3; a saga of 4 steps, one of them final, 2 exceptions; 2 requests of up to 5 ticks; migrations of up to 9 pages; 2 to 5 jobs for 3 workers; 3 servers, one cold; samples of 5 values; silences of up to 7; 2 wardens; a pair; 2 clocks; graphs of 4 with 5 edges; 3 users of 2 locks; an alert with a ladder of 3; 3 sources over 3 consequences; 4 spans; a primary, its sidecar and a third task on 2 nodes; crash streaks of 5; 2 hours of the week with 5 readings each (141 000) | `ValvesHold`, `SignalsHold`, `NothingTurnsEarly`, `CallsSettle` |
| `capacity` | 2 holds, 2 scavengers, 2 bookings over 4 ticks; 3 teams; 2 tasks on 2 devices; a gang of two and one of three on 3 hosts with 2 moves a pass and one displacement; 4 tenants, one of each class and two that burst, in cpu, in memory or in both; dials over demands of 3; 2 rented nodes and a stable one; 3 guests on 3 machines; surveys of 4 nodes in 2 racks; 4 shards; a ring of 3 nodes; 6 events; 3 addresses; 24 samples; 3 certificates, 3 digests; 2 editors; texts of up to 6; ledgers of 2 or 3 entries; batches of 4, bins of 10, 3 teams, 3 lanes, 4 boxes in 2 zones, 3 members; up to 2 mutating hooks; 3 services in a chain; 2 roles; 2 policies; bills of 2 namespaces, 2 waiting tasks, notes, pins, neighbours (213 000) | `PromisesFit`, `PackingHolds`, `ScalingHolds`, `LedgersHold`, `NobodyLeavesEarly` |
| `delivery` | a rollout of 2 replicas, surge 1, unavailable 1, floor 2, 3 revisions, one loss; 3 waves; 3 builds in 2 channels; 2 slots of a colour; a canary of 6 requests; 5 users; a pool of 2; 4 minors; 3 findings for 2 fixes; 2 deployments through 2 commits; a store of 2 nodes and 2 tasks; 5 events; 3 windows; 3 assets (284 000) | `RolloutConsistent`, `DeliveryHolds`, `RecordsHold`, `DeliveryMoves`, `RolloutEnds` |
| `custody` | 2 nodes, one of them replaced, threshold 2, window 1, probation 1 up to 2 (293 000) | `TaintGuards`, `OnlyCleanNodesReturn`, `ClosedReopens` |
| `loop` | 2 nodes of one slot and a surge node, 1 or 2 replicas whose first attempt fails; a fleet has a startup gate of two failures or is walked (513 000) | `LoopConsistent`, `TasksAreSpared`, `WalksEnd`, `Recovers` |
| `deploy_wedge` | a deployment scaled down while its children wait | violates `PassesRecover` |
| `shares` | devices asked for by halves and quarters | violates `SharesMatch` |

The `...Consistent` and `...Hold` properties, and the action properties of the
runs of several parts, are conjunctions of named parts (types, and what must
hold of the component's state after every step); each part carries its own
comment in the module that states it, and the `MC...` module says which part of
the run it is about.

Why these sizes are enough to mean something:

- `store`: three objects over two names let a name be removed and taken again
  while a handle on the old object is held; five events are needed for two
  rivals and a batch.
- `watch`: the log is long enough to compact between a save and a crash and to
  refresh after it.
- `fleet`: two nodes and three tasks meet every branch of the pass: a place at
  once, a bench, a preemption that helps and one that does not, a name that is
  gone; the second node is too small for all, so retiring the first one
  overloads it.
- `election`: the third controller can win while two frozen ones hold old
  tokens.
- `workloads`: three ordinals can be short in the middle while the top is
  outdated (`MaxCount` is below 11, where the order of names and of numbers
  part), a node leaves and comes back under a daemon, a name is born twice, the
  second index of the job waits for a slot the collector's deletions may free,
  seven ticks (`LastTick`) let cron sleep through two windows of each schedule,
  and four jobs make every shape from a chain to a diamond.
- `calls`: a third caller is still out when two answers have moved the breaker;
  the third step of the saga cannot be undone, so a walk back goes past it, and
  two exceptions (`MaxRaises`) end a run and its repetition; `LongestRequest` is
  one tick more than the deadline; `MaxMemory` and `MaxRate` are such that a
  migration cuts over, stalls at parity and runs out of rounds. Four waiters
  close a cycle beside a tail, three bands lend twice over one lock, a silence
  of 7 (`MaxGap`) exceeds both thresholds after a steady rhythm and not after a
  ragged one, an alert is resolved and fires again inside and outside the dedup
  window, so that the trouble `TroubleIsHeard` speaks of may be the second one.
- `capacity`: a window is booked beside, across and after another one; debts of
  two teams cover the third one's call; one displacement (`MaxUpsets`) suffices
  for a member whose room is taken, and two moves (`MoveBudget`) for a pass in
  which the second one rests on the first. Six events meet an early, a late and
  a too late window, 24 samples fold twice over, a registry of 3 with 2 kept has
  one to collect, and bins of 10 with sizes of 3 to 7 tell first fit from best
  fit.
- `delivery`: three revisions are one rollout superseded in the middle and its
  rollback; six requests let a canary pass, fail and starve; sessions begun
  under three settings of the dial overlap; a refresh meets a node that is gone
  and a name that is taken; two commits change one deployment and drop the
  other; five events add and remove a name twice.
- `custody`: both owners must kill for a quarantine, and the replaced node
  stumbles the patrol before or after the other one.
- `loop`: the two timers (1 and 2 ticks) leave a node one tick between not ready
  and evicted.

Fairness, and why the code gives it:

- `Fleet`: weak fairness of `Engine`. `Fleet.step` is called in a loop; no
  operator's verb is owed to anyone, so none is fair.
- `Election`: weak fairness of the clock and of the tick of each controller that
  is not frozen. Waking is not fair: a controller may stop for good.
- `MCWorkloads`: weak fairness of the passes of the keepers and of the job, of
  the engine starting each child, of the end of the job's running children, of
  each janitor's work, and of launching and ending the jobs of the pipeline.
  Edits are bounded by the premise of `WorkloadsSettle`, faults by `MaxHarm` and
  `MaxMoves`; nothing is asked of the collector or the owners.
- `MCCalls`: weak fairness of the detector's rounds, of the router's ticks and of
  the clock while an alert lasts (settling the pager is not fair: nobody in the
  code has that duty), and of the sidecars' keeper; of the clock, of new calls and of
  answers at the breaker, of draining the compartment and of observing the load;
  of a saga's run, of the shutdown's clock and ticks, of the rounds of a
  migration and the loop of the pool. A saga is run, and run again after an
  exception, by its caller. That the dependency is well and the load low some
  day are premises.
- `MCDelivery`: in the rollout, weak fairness of resuming what was paused (a
  person's duty), of placing some task that waits and of starting some. Bad
  builds never start. That somebody goes on stepping the rollout is a premise of
  `GoodBuildArrives` (`KeepsStepping`): with a guard; or without one, directly or
  behind the gate of the error budget whenever that is open.
- `Custody`: weak fairness of the clock and of the two sweeps.
- `ControlLoop`: weak fairness of the tick together with the walk that is under
  way.

Deadlock is checked except where the bounds stop the model: `store` and `watch`
(length of the log) and the safety run `deploy_wedge`, and in `delivery`,
`workloads`, `calls` and `capacity`, where births, moves, tries, entries or the
horizon run out.

## Proofs

TLAPS proves, for every value of the constants that meets the assumption of the
module:

- **`StoreProofs`** (from `StoreAssumption`, `WatchAssumption`,
  `ElectionAssumption`, `CustodyAssumption`). Of the store: type correctness;
  `LogIsDense`; `LogTellsExistence`, and with these `StoreConsistent`;
  `NoLostUpdate` (`FreshWhileNameUnreused`), `ConflictsAreReal`
  (`NoSpuriousRefusal`), `NoRewind` (`GenerationNeverRewinds`). The invariant
  behind the last three speaks about every handle: what it holds was the value
  of its name, a handle on an object that has moved on carries an older
  generation, and one that has not moved carries the current one
  (`MovedIsOlder`, `UnmovedIsCurrent`). Without it, equality of generations at
  the write says nothing about what was read. Of the watchers:
  `SoundNeverStranded`: the cursor of whoever missed nothing is never below the
  compaction line (`CursorsBehind`, `SoundHolds`). `InformerSynced`: what a
  replay of the log from a cursor makes of the informer's notes is worked out
  event by event, so that notes plus unread events equal the store
  (`InformerKnows`), through crashes, rebuilding and compaction. `NoMissedAdd`:
  every add the selector matches is delivered or still ahead of the cursor
  (`ToldInTurn`), and it is the log that says which adds there were
  (`AddsLogged`). Of the lease of leadership: type correctness,
  `TokensUnshared`, `LogInOrder`, `LeaderIsWelcome` (together `FenceHolds`), and
  `KeepsReigns`: the election with its log implements `Reigns`. The invariant
  ties tokens to the list of handovers: the lease's token is their number, each
  held token is that of a reign its candidate won, and so is each entry in the
  log. Of the leases on nodes: `TaintGuards` and `OnlyCleanNodesReturn`, with
  `ClockIsClean` (since the clock of a probation was last restarted there was no
  kill), whatever the writers of `schedulable` do to each other.
- **`FleetProofs`** (from `PlacementAssumption`, `FleetAssumption`).
  `PlaneConsistent`: types, `NoneForgotten`, `QueuedNeverActive`, `HomesReal`,
  `TodoStaysDue`; `NeverOvercommitted`; the action properties
  `OnlyCheaperDisplaced` and `DrainKeepsFloor`. The invariant is the conjunction
  of the types, the queue (pending tasks are queued, queued ones hold no node),
  the homes, and the list of the running pass: what it has still to serve is
  queued and due, and an idle engine has no list. `HomesReal` needs the queue
  part, because a place is made for a task that must not hold one yet. A drain
  evicts one by one: `DrainKeepsFloor` follows the chain of states it passes.
- **`DeliveryProofs`** (from `RolloutAssumption`, `DeliveryAssumption`,
  `RenewalAssumption`, `DeclaredAssumption`, `RawsAssumption`).
  `RolloutConsistent`, `DeliveryHolds`, `RecordsHold`, and all of
  `DeliveryMoves`: the superseded builds of the rollout, and its guard at each
  step that was handed one (the gates hand over none, and no theorem says
  anything of a floor there), the soak,
  the sticky users, the rejected nodes, the sync that imposes, the pauses. Each
  component of `delivery` has an invariant of its own (`WavesInv` to
  `RobotInv`, then `DeclaredInv` to `MetalInv`), and a step of one leaves the
  others as they are (`OthersStay`). That the pool is never smaller is an
  injection from the incumbents to the forms of theirs that are in service; the
  robot's budget is a sum over the ages of what it spent. Of what is declared:
  every commit is a manifest that parsed, what is applied is what one of them
  asked for, and a deployment has no more live tasks than that and no more
  finished ones than `MaxDone`, so that there are always names enough
  (`RawsAssumption`: replicas are natural, cpu is positive, and the ordinals of
  the model do not run out, as the code's never do). A verb of the log is
  "added" exactly when the name was not there; the first open tick that the
  recursion over freezes finds is the least one, by the greatest tick at which
  it would not be; a store that verifies clean stays clean along the pass that
  a drill runs on it.
- **`WorkloadProofs`** (from `OrdinalBounds`, `DepartureAssumption`,
  `JobAssumption`, `TriggersAssumption`, and `LoopAssumption` for the loop).
  `WorkloadsConsistent`, `TriggersRight` and `ActiveUntouched`; of the control
  loop `LoopConsistent` and `TasksAreSpared`. `WorkloadsConsistent` has one hypothesis more,
  `MaxCount <= 10`: with eleven ordinals the retirement goes by the names as
  strings and the order is lost. The job needs to know that an attempt not yet
  given has left no child and no note (`AttemptsInOrder`), and that successes
  are no more than attempts (`SuccessesCounted`); then what a reconcile launches
  and what still runs are two separate sets whose sizes add up to the
  parallelism at most. That references form a forest and needs have no cycle
  rests on one fact, that so many steps up as there are names lead to the least
  closed set (`ChainsClose`, `UpstreamsClose`); that a graph can be started on
  its converse: a name with the fewest names upstream, among those the rounds
  leave out, would need one with fewer. Of the loop, `LoopInv` adds that what the
  sweep leaves ready was heard of (`ReadyIsHeard`) and that a closed node is the
  spare or the one the walk is at (`ClosedByWalk`). Slots need a count: the lowest
  `k` of a set of ordinals are at most `k`.
- **`CallsProofs`** (from `ValvesAssumption`, `StagesAreOrdered`,
  `CallsAssumption`, `RatioIsFraction`, `OperationsAssumption`,
  `LivesAssumption`, `RequestsAssumption`, `SignalsAssumption`). `ValvesHold`
  and `NothingTurnsEarly`. `CallsInv` has an invariant for each part
  (`BreakerInv` to `PairInv`), and as parts share no state, a step of one leaves
  the others as they are (`EachRunsAlone`). Few of the properties are inductive
  alone. *Keys*: of the attempts at work all but one were given up while they
  seemed dead, so an effect stands for one that was given up or for what the key
  remembers. *Compartment*: those aboard, counted by a sum, never exceed it, and
  while one fits nobody waits. *Limiter*: a refused client has, with what is
  added until the tick it was told, what a call costs. *Retry budget*: however
  far one looks back, what was granted before was earned before, by a sum over
  the ages of what was noted (`Lately`). *Saga*: as long as no run raised, what
  has been done is what the step it stands at says. *Shutdown*: who is in flight
  can be done by the deadline, but for the hopeless. *Migration*: it is where
  the race of memory against bandwidth is after as many rounds, so
  `VerdictIsHonest` follows from what that race does for ever. *Pool*: while a
  job waits every tick is worked by all, afterwards only the last jobs run,
  which bounds the end by the mean load and the longest job; a theft moves work
  and adds none. *Crash loop*: what a row of crashes has waited, with what it
  must still wait, is what it owes. *Dampener* and *pair* are there for the
  action property: a suppressed endpoint has more noted than it comes back with
  at once, and the watcher has no more misses than the active site failed checks
  in a row.
- **`CapacityProofs`** (from `BookingBounds`, `LendingAssumption`,
  `ScalingAssumption`). `PromisesFit` and `ScalingHolds`. `CapacityInv` has an
  invariant for each of eight components, kept by its own steps and left alone
  by those of the others (`PartsRunAlone`). *Holds*: a window that fits beside
  the peak of those it meets fits at each of its ticks, and what is lent of a
  hold, a sum over the borrowers, grows only into what is left. *Broker*: a name
  that is booked has no batch; what a batch takes is given back by a tick when
  what is booked needs it, also when capacity is scaled away. *Lender*: the sum
  of what called teams owe follows what is lent beyond the idle guarantees,
  through calls, notices and evictions half-way. *Devices*: a slot's tenants are
  each there once and are the tasks that know it, and each has a share no less
  than its place, so equal shares are never oversold. *Nodes*: names of orders
  and nodes are apart and below the next one. *Bursts*: when one fires its
  capacity is planned and not yet given back, which needs `HoldAfter` to be at
  least 1 (`hold_after` is 5). *Rented nodes*: work is a sum over the jobs, and
  who reacts has shut every node whose notice came and left it (`Heeded`), which
  needs the notice to be at least 1 tick (`notice_window` is 4). *Shop*: the sum
  without the largest node is the least of the sums without one.
- **`PatienceProofs`** (from `ScalingAssumption`, `StreamsAssumption`,
  `IdentityAssumption`, `LedgersAssumption`, `PoliciesAssumption`).
  `NobodyLeavesEarly`: all eighteen action properties of `capacity`, from the
  invariant `PatienceInv` (`EmptyInv` to `MemberInv`, one for each component that
  needs one). *Nodes*: how long a node was empty is counted twice, and the count
  that retires is never ahead of the other. *Shards*: the ranges tile the keys, a
  mark is never older than the ticks its range was hot, or its border cold, and
  both loops of an observation keep that: a list of pieces is joined one piece at
  a time, shards are merged one at a time from left to right, and what is split
  in a round is hot, so that it is not merged in it. *Certificates*: what is
  pinned was issued, and a lifetime only falls tick by tick, so a pin that breaks
  unrevoked was listed with one tick left. *Fields*: of what an editor of the old
  version read, all he cannot write was told dropped. *Years*: releases are in
  the order of their ticks, and what is not tail is head, so the two sums are the
  whole. *Pass*: sums over kinds grow with each of their terms, and a cap on the
  skew is asked of the tallies as they would be.
- **`FoldFacts`** holds what these need about sums, folds and orders. A fold is
  not computed by induction here, which the prover does not do: a function that
  meets the recursion is given outright, and the least place at which a fold
  differed from it would contradict the equation of that place. A step that only
  adds, taken as often as its set has members, comes to the least fixpoint
  (`IterationCloses`).

Each invariance proof has an initial step, one step (or lemma) per action, and a
temporal step. The assumptions are those the modules state of their constants,
and TLC evaluates them on every run.

Only model-checked: `SignalsHold` of `calls`, `PackingHolds` and `LedgersHold`
of `capacity`; the refinements other than that of `Reigns`;
liveness and everything with `ENABLED`, which the prover does not do. Parts of
those properties are out of its reach: what is sorted or selected
(`MedianHolds`, `HolesAreSeen`, `HedgeNeverHurts`, `OrdersAreOptimal`,
`BinsAreNeeded`) goes through operators of sequences it knows nothing about, and
what is computed by a recursion over data would need the induction it does not
do. An invariant of a run is the conjunction of its parts, and is proved only
when the last of them is.

## Where code and words differ

Two divergences are kept as runs (`findings` in `PROJECT.json`): a scaled-down
deployment leaves stale names in the queue and every later pass ends with
`NotFound`; and slices of different shares meet on one device.

Others were met while modelling. The models contain the behaviour; where a row
names a property, that one is stated around it:

| Where | What the code does |
|---|---|
| `store.py:55` | A name removed and added again starts at generation 1, so a write decided on the old object can be accepted for the new one. `FreshWhileNameUnreused` says so in its name. |
| `control/retryloop.py:33` | `change()` edits the live object; when the last attempt is refused the edit stays, without an event. |
| `eventretention.py:27` | `register` accepts a cursor below the compaction line: that subscriber is stranded at once. |
| `control/watch.py:38` | A refresh reads the object as it is now under the name of an old event, so replay in two pieces can differ from replay in one after an edit in place. |
| `coldstart.py:31` | An informer rebuilt from a compacted log misses tasks whose events are gone. |
| `subscriptions.py:36` | The filter asks the object of today about an event of yesterday. |
| `sched/placement.py:73` | The guard is asked about each victim of a plan on its own: two victims can break one floor. |
| `sched/placement.py:105`, `:108` | A plan asks no filter: victims may leave a node the mover cannot use, then `Unschedulable` leaves the pass; a task no node admits evicts the same cheap tasks each time its bench expires. `EvictionsCease` is stated for nodes that admit all. |
| `sched/placement.py:108` | The treaty is asked about the plan of any node, the cheapest plan is carried out: a normal task may displace a normal task. `OnlyCheaperDisplaced` is what remains. |
| `coldstart.py:21` | A rebuilt queue has no benches. |
| `leaderelect.py:67` | A straggler's write is accepted until the successor has written. |
| `control/gc.py:40` | The note of a finished task is kept by name: a running task that took the name is deleted with the old one's age. `ActiveUntouched` is stated for names used once. |
| `control/jobs.py:61`, `control/gc.py:40` | A success collected before the job read it counts as a lost child: the index runs and succeeds again. `DoneIsHonest` asks for at least one. |
| `control/ordinals.py:51` | An update replaces the next child when that one runs, whether or not the one replaced before it runs again. With 11 ordinals and more, retirement goes by the order of names as strings, so 9 before 10. |
| `control/daemons.py:44` | A daemon that the monitor unbound is placed anywhere and never brought home; one that failed is never replaced. `DaemonsCover` asks for a daemon by name only. |
| `control/cron.py:47` | A schedule added late has seen nothing: under catch-up it makes up every window from tick 0. |
| `sagas.py:55` | An exception leaves `run` without undoing anything, and a run after it starts from the first step with an empty list: if it fails earlier than the first one did, what that one had done stays. `SagaIsWhole` speaks of runs without exceptions, and of those that complete. |
| `sched/gang.py:69` | At a name that is taken the admission raises half way: the members before it stay bound. The rehearsal asks neither readiness nor cordons. |
| `sched/defrag.py:78` | Moves ask for ready nodes only, not for cordons or selectors; with hosts of different sizes a move may make the largest hole smaller. `EveryMovePays` is stated for equal ones. |
| `sched/qos.py:83` | Pressure is of cpu or memory (:75), the order of eviction looks at memory only. With cpu alone short, two tenants that are level in memory go by name, so one that keeps to its whole request may go before the one that bursts in cpu, against "bursting burstables next" and "their request is a contract" (:6-8). `ContractKept` excepts evictions while cpu alone is short. |
| `control/owners.py:44` | A cascade asks no finalizer. If a name that was leaving goes this way and is used again, the last signature deletes the successor. |
| `control/owners.py:56` | The children are freed before the store is asked for the owner, so a `NotFound` leaves them free. |
| `circuitbreaker.py:42` | Half-open lets everyone through, and late answers of calls made before count as probes. |
| `brownout.py:46` | Stages are checked for the order of `shed_at` only; if a later one has the lower `restore_at`, the essential feature stays off longer. `ExpendableFirst` has the premise. |
| `idempotency.py:38` | A key in progress never expires: a crashed attempt that nobody abandons holds it for ever. |
| `singleflight.py:37` | A leader that crashes leaves its passengers waiting: there is no way to end a flight but landing. |
| `holds.py:77` | `redeems` asks a tuple of labels for `.get`; `admits` compares with what is held now, so a walk-in that stays meets a later window. |
| `holds.py:64`, `:106` | A hold may be cancelled or expire while it is lent, and its name booked anew: `HoldsFit` excepts names that slipped. |
| `quotaborrow.py:48`, `:64`, `:84` | An owner that takes without calling overdraws the pool; a second call gives a new notice; enforcement takes all that is borrowed, not what was called. |
| `sched/devices.py:85` | A task that holds devices and asks for a slice forgets what it held, for good. `SlotsAccounted` excepts those devices. |
| `roll/rolling.py:99` | The surge used up by a build that does not come up, nothing may be retired: a rollback waits for itself under the default limits. `GoodBuildArrives` is stated around it. |
| `roll/rolling.py:92` | The next ordinal is the number of fresh tasks: once a task of the revision has ended under a lower ordinal, every step raises `Conflict`. |
| `slofreeze.py:54`, `maintenance.py:66` | Both gates call `roller.step(store, roll)` with no guard, so a rollout behind a gate may retire past the floor of a budget, though "drains and rollouts consult it" (`control/budget.py:4`). `GuardKept` is about steps that were handed a guard. |
| `slofreeze.py:44` | Glass broken in one freeze serves the next one if no step saw a healthy budget in between. |
| `cordonttl.py:67`, `quarantine.py:97`, `upgradewalk.py:49` | One flag for all: a lease that lapses, a release and a walk open what an operator closed. |
| `quarantine.py:56` | The taint is on the object: a node replaced in quarantine comes back without it. `TaintGuards` is stated for nodes that are not replaced. |
| `upgradewalk.py:48`, `:54` | After six refused drains the walk patches a node that is not empty; a surge node with a protected task stays, closed for good. |
| `control/health.py:58` | What the startup gate absorbed is charged to the name, also to the next task of that name. |
| `roll/canary.py:62` | The canary's share is cut to whole requests tick by tick, so a small one may never see a request and never be ruled on. |
| `channels.py:36` | A release of the build that was already there ends a freeze as well as a fix would. |
| `roll/bluegreen.py:50`, `:65` | Nothing guards the order of the calls: traffic may be cut over to a colour without replicas, and a rollback is promised in one tick when the standby has been retired. `ServingStays` excepts a pair that was cut over cold. |
| `shadow.py:49` | With nothing compared the agreement counts as full, and the verdict is to promote. |
| `burnin.py:52`, `:55` | Failures are kept by name, also for a node that takes the name of a rejected one; graduation wipes all taints of a node, not only the fence. |
| `canaryrefresh.py:39` | A refresh that ended half way cannot be taken up: the name of the successor is taken. Its sweep, at the clock plus the probation, graduates others early. |
| `poolrefresh.py:46` | A replacement whose name is taken leaves the refresh with `Conflict` at every further step. |
| `upgradebook.py:63` | The records of the gate are deleted before the nodes are admitted again: a refusal leaves those behind it unknown. The control plane may also go down a version. |
| `remediation.py:55` | An escalated finding is paged once, and only a fix clears the mark: one that went away by itself and comes back while the budget is spent is not paged again. |
| `scalerules.py:59` | A scale-down does not begin the wait anew: while less is desired still, the next one follows at once. |
| `autoscale.py:29` | `round(raw + 0.5)` rounds halves to even, so an exact multiple may get a replica more than it needs. |
| `vertical.py:74` | The request is cut to a whole number, so the ratio may stay above its target and the replicas go on: the truce rests where it divides. |
| `spot.py:37` | A reclaim nearer than the notice window is never announced; an evacuation does not cordon, so tasks return before the deadline. |
| `capacityplan.py:77` | The largest node is the one of most cpu; losing another one may leave too little memory. |
| `hotspots.py:100` | Two hot nodes plan on one reading: together they may push a partner over the line, which "the plan now spreads" (:8) denies. `PlansStayCool` is stated for one plan. |
| `volumes.py:64`, `imagecache.py` | A volume migrates without its task, which is then stranded; a cache is kept by node name and survives the iron. |
| `taintevict.py:35`, `pressureloop.py:37` | These taints are not those of `node.taints`, so the engine brings the tasks back; an operator who lifts one leaves the loop believing in it. |
| `descheduler.py:43` | The first refusal ends the run; the move had been done before the guard was asked, and is undone. |
| `phidetect.py:38` | A long silence becomes a sample once it ends and widens the model for the next one. |
| `failover.py:49` | A demoted side keeps its count of failures. |
| `waitgraph.py:77` | The distance behind a cycle is taken from what is known at the visit, once and for all, and need not be the least. |
| `priorityinversion.py:44` | One resource per task; a waiter that gives up leaves its loan with the holder. |
| `deadman.py:36` | A controller that dies before its first beat is never paged. |
| `certrotate.py:114`, `:59` | The report says "every client is current" with no certificate valid; when the newest is revoked an older one that overlaps is served again. |
| `identity.py:49` | Name, node and namespace are verified, the service is not: a task of another app under the same name passes. `PaperDies` is about the age of the document. |
| `registrygc.py:63` | A digest that is pushed and tagged, and not yet rolled out, is collected. |
| `apiversions.py:87` | "Deliberately, visibly drop" (:5) holds for the fields the hub has a rule for: selector and repels are lost in both versions without a record, and a write through v1 erases what was set after its read. `LossIsTold` excepts both. |
| `autosplit.py:78` | A split of an odd load loses a key in the books, and a refused one keeps its mark. |
| `watermarks.py:71` | A window that a late event opens stays open until a timely event comes. |
| `rollup.py:73` | A query may be sent to a coarser rung that has not got the newest samples; a rung holds up to a batch less one beyond its capacity. |
| `outliers.py:61` | With half the samples equal, each of the others is an outlier of infinite score. |
| `flapdamp.py:32` | What is left of a half-life at a reading is lost. |
| `adaptiveconcurrency.py:52` | The limit grows without bound while calls are few. |
| `phases.py:5` | The table says that terminal phases go nowhere; restarts, sidecars and the rerun of stages leave them. `MovesAreTold` excepts the keepers that do. |
| `sidecars.py:67` | A sidecar follows without asking room, readiness or quota, and a primary that was removed and comes back is not given another one. |
| `stages.py:59` | The ledger moves before the task is asked for, so a `NotFound` leaves it ahead; the last stage sets `Running` even on no node. |
| `crashloop.py:74` | The verdict `CrashLoopBackOff` stays through a healthy stretch, until the next crash. |
| `control/configs.py:29` | Key and value are joined by signs that may occur in them: `{"a": "1;b=2"}` and `{"a": "1", "b": "2"}` have one hash. `StampsTell` excepts contents with such signs. |
| `control/readygate.py:46` | The gate asks for the endpoints a dependency has, not whether it is gated itself: an outage two steps away does not show. |
| `control/hooks.py:133` | An unknown tag leaves the chain with `NotFound` and no trace; an image that a later hook gives stays a tag. |
| `alertroute.py`, `alerts.py:64` | Nobody settles the pager: after three turns an alert is folded for ever. `TroubleIsHeard` is about an alert that is not held to be flapping, and settling is an action of its own; trouble that comes back inside the dedup window is folded at first and paged once the window is over. |
| `inhibitions.py:53` | What was suppressed is never told after the source has cleared; a raised source is not itself held by a rule. |
| `slo.py:56` | Old samples leave at an observation only, so a budget is stale while nothing is observed. |
| `tickets.py:65` | Toil after an automation does not open the candidate again. |
| `tailsampling.py:60` | The boring ones before the first sample count for nothing: the estimate is short by up to `keep_one_in` less one. |
| `sched/topology.py:52` | A task that would lower the skew is refused while the skew is above the cap, and a full zone holds the minimum down. |
| `federation.py:27`, `:71` | What was promised and does not yet run is not counted, so one room is promised twice; a failover excludes only the member it leaves. |
| `sched/queue.py:45` | A namespace is charged also for a task that is withdrawn, and credited over all bands while dealt within one. |
| `manifest.py:143` | "Apply executes exactly the plan it printed" (:5), and reconciles every wanted deployment besides. |
| `gitops.py:54` | What left the repository is not pruned; templates and the pauses of the detector are ignored. |
| `specdiff.py:19` | Selector, tolerations and repelled labels are not compared. `PlanTellsDifference` is about what is. |
| `snapshot.py:84` | What a task had observed is not restored. |
| `backupdrill.py:47` | A restore on which nothing can be scheduled passes, "a very well-preserved fossil" (:8) or not. |
| `preflight.py:59` | The room for those evicted is added up over nodes, so "go" may have no home for one of them. |
| `whatchanged.py:48` | A node and a task of one name are merged. |
| `mtbf.py:74` | An outage that began before the observation counts in full. |
| `patchcompliance.py:65` | A patched node leaves no exposure behind it; one that becomes exposed counts from the publication. |
| `changefail.py:51` | A failure may be noticed before its deploy has shipped. |
| `energy.py:42` | Consolidation adds up free room, though the tasks may not fit in pieces. |
| `admissionlog.py:69` | A refusal that is admitted within its tick does not count as reversed. |
| `riskscore.py:89` | The higher two bands no longer list the normal pipeline. |
| `costanomaly.py:46` | A namespace that grows by what another one sheds moves no bill: the attribution names nobody (the anomalies do). |
| `schedlatency.py:34` | Percentiles are of the tasks that were bound; one that waits for ever shows only in the list of waiting ones. |

## Not modelled

`PROJECT.json` lists every part with its reason. In short: reports, meters and
forecasts that read the store and print, with floating point where TLC has
integers; text forms and rehearsals; briefs, handoffs and the budget of log
lines; the harness (fuzzing, scenarios, benches, trials, conformance suites),
whose scripts are among the behaviours the models enumerate.

Within modelled parts: the engine's ageing of long-waiting tasks
(`sched/queue.py`, off by default), its scorers (any choice in `Placement`,
worked out in `Policies`), the node scaler in the loop (a part of `Scaling`),
storms of crashes over many records, the error bound of the quantile sketch,
which is a matter of probability, and journals. The parts of `Scaling`,
`Evictions` and `Lives` that act on tasks meet a small store of their own, not
that of `Fleet`; what the engine may do to them there is an action of the
environment.

## Plan

Done, in this order because each rests on the one before: `Store`, `Watch`,
`Placement` and `Fleet`, `Election`, `JobGC`, `Rollout`, `Custody`,
`ControlLoop`; proofs of `Store`, `Fleet`, `Election`; then the workloads with
their triggers, the calls with operations of several steps, and capacity with
packing; then delivery with the renewal of the iron and what is declared, the
scalers and evictions, signals, requests, pages and lives, streams, identity,
plumbing, policies and ledgers.

Next:

1. Proofs of those parts of `SignalsHold` and of the invariants of `capacity`
   that neither sort nor recurse.
2. Proofs of what the parts of `capacity` keep step by step: `Streams`
   (`KeysAreCovered`, `NothingAstray`).
3. Spot, cooldowns and descheduling as further actors over the store of `Fleet`;
   the budget of log lines.
