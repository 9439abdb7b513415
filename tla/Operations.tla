----------------------------- MODULE Operations -----------------------------
(***************************************************************************)
(* Operations of several steps, any of which may go wrong: a saga          *)
(* (sagas.py), a graceful shutdown (gracefulshutdown.py), a live migration *)
(* (migrations.py) and a pool of workers that steal (workstealing.py).     *)
(* They hold no state in common.                                           *)
(***************************************************************************)
EXTENDS Integers, FiniteSets, Sequences, SequencesExt, Functions

CONSTANTS
    SagaSteps,      \* for each step of the saga, whether it can be undone
    MaxRaises,      \* bound: runs of the saga that end with an exception
    Requests,       \* at the process that shuts down
    LongestRequest, \* bound: the ticks a request takes
    LameDuck, DrainDeadline,
    MaxMemory, MaxRate,     \* bounds: of the memory moved and of the rates
    PauseBudget, MaxRounds,
    Workers,        \* 1..n, in the order of the pool
    JobLists        \* lists of the lengths of jobs

\* A saga, a pool and a list of jobs have members, and a job takes a tick at least.
ASSUME OperationsAssumption ==
    /\ SagaSteps \in Seq(BOOLEAN) /\ SagaSteps # <<>>
    /\ LongestRequest \in Nat /\ LameDuck \in Nat
    /\ DrainDeadline \in Nat /\ DrainDeadline > LameDuck
    /\ MaxMemory \in Nat /\ MaxRate \in Nat
    /\ PauseBudget \in Nat \ {0} /\ MaxRounds \in Nat \ {0}
    /\ IsFiniteSet(Workers) /\ Workers # {} /\ Workers = 1..Cardinality(Workers)
    /\ \A list \in JobLists : list \in Seq(Nat \ {0}) /\ list # <<>>

VARIABLES
    saga,       \* what it does, at which step
    effect,     \* the steps whose effects are there
    raises,     \* runs that ended with an exception
    duck,       \* the shutdown: its phase, and ticks since it began
    request,    \* ticks until each request in flight is done, or NotThere
    cut,        \* requests that were cut
    hopeless,   \* requests that could not be done by the deadline
    move,       \* the migration: its plan, what is dirty, rounds, verdict
    jobs,       \* the jobs of the pool, as assigned
    stealing,   \* whether the workers steal
    queue,      \* the jobs before each worker
    busy,       \* ticks until a worker is free
    turn,       \* the worker to be looked at, or one past the last
    clock       \* ticks the pool has run

sagaVars == <<saga, effect, raises>>
duckVars == <<duck, request, cut, hopeless>>
poolVars == <<jobs, stealing, queue, busy, turn, clock>>

-----------------------------------------------------------------------------
(* The saga.  Every act and every compensation is a step, for exceptions   *)
(* come between them.                                                      *)

SagaInit ==
    /\ saga = [does |-> "not started", at |-> 0]
    /\ effect = {}
    /\ raises = 0

\* A run begins with the first step, whatever an earlier run has left.
RunSaga ==
    /\ saga.does \in {"not started", "raised"}
    /\ saga' = [does |-> "forward", at |-> 1]
    /\ UNCHANGED <<effect, raises>>

ActDone ==
    /\ saga.does = "forward"
    /\ effect' = effect \union {saga.at}
    /\ saga' = IF saga.at = Len(SagaSteps)
               THEN [saga EXCEPT !.does = "completed"]
               ELSE [saga EXCEPT !.at = @ + 1]
    /\ UNCHANGED raises

ActFailed ==
    /\ saga.does = "forward"
    /\ saga' = [does |-> "unwinding", at |-> saga.at - 1]
    /\ UNCHANGED <<effect, raises>>

\* The steps of this run are undone from the last one; what cannot be undone
\* stays.
Unwind ==
    /\ saga.does = "unwinding"
    /\ saga' = IF saga.at = 0 THEN [saga EXCEPT !.does = "failed"]
               ELSE [saga EXCEPT !.at = @ - 1]
    /\ effect' = effect \ {i \in {saga.at} \intersect DOMAIN SagaSteps : SagaSteps[i]}
    /\ UNCHANGED raises

\* An act or a compensation raises, and nobody catches it.
Raise ==
    /\ saga.does \in {"forward", "unwinding"}
    /\ raises < MaxRaises
    /\ saga' = [saga EXCEPT !.does = "raised"]
    /\ raises' = raises + 1
    /\ UNCHANGED effect

SagaNext == RunSaga \/ ActDone \/ ActFailed \/ Unwind \/ Raise

-----------------------------------------------------------------------------
(* The shutdown *)

NotThere == -1
InFlight == {r \in Requests : request[r] # NotThere}

DuckInit ==
    /\ duck = [phase |-> "serving", elapsed |-> 0]
    /\ request = [r \in Requests |-> NotThere]
    /\ cut = {}
    /\ hopeless = {}

\* Who asks after the beginning is refused.
Accept(r, takes) ==
    /\ duck.phase = "serving" /\ r \notin InFlight
    /\ request' = [request EXCEPT ![r] = takes]
    /\ UNCHANGED <<duck, cut, hopeless>>

BeginShutdown ==
    /\ duck.phase = "serving"
    /\ duck' = [phase |-> "lame-duck", elapsed |-> 0]
    /\ hopeless' = {r \in InFlight : request[r] > DrainDeadline}
    /\ UNCHANGED <<request, cut>>

Drains == \/ duck.phase = "draining"
          \/ duck.phase = "lame-duck" /\ duck.elapsed >= LameDuck

\* The duck drains after its act; what is done leaves; and a process that
\* drains closes when it is empty, or cuts what is left at the deadline.
DuckTick ==
    LET held == {r \in InFlight : request[r] > 0}
        late == Drains /\ duck.elapsed >= DrainDeadline
    IN /\ duck.phase # "closed"
       /\ duck' = [duck EXCEPT !.phase = IF Drains /\ (late \/ held = {}) THEN "closed"
                                         ELSE IF Drains THEN "draining" ELSE @]
       /\ cut' = IF late THEN cut \union held ELSE cut
       /\ request' = [r \in Requests |->
                         IF r \in held /\ ~late THEN request[r] ELSE NotThere]
       /\ UNCHANGED hopeless

\* Time passes, whether or not anybody calls tick.
DuckTime ==
    /\ duck' = [duck EXCEPT !.elapsed =
                   IF duck.phase # "serving" /\ @ < DrainDeadline THEN @ + 1 ELSE @]
    /\ request' = [r \in Requests |->
                      IF request[r] > 0 THEN request[r] - 1 ELSE request[r]]
    /\ UNCHANGED <<cut, hopeless>>

DuckNext ==
    \/ BeginShutdown \/ DuckTick \/ DuckTime
    \/ \E r \in Requests, takes \in 0..LongestRequest : Accept(r, takes)

-----------------------------------------------------------------------------
(* The migration *)

MigrationInit ==
    \E memory, copy \in 1..MaxMemory, rate \in 0..MaxRate :
        move = [memory |-> memory, copy |-> copy, rate |-> rate,
                dirty |-> memory, rounds |-> 0, verdict |-> "pending"]

TicksFor(dirty) == (dirty + move.copy - 1) \div move.copy
LeftAfter(dirty) == IF TicksFor(dirty) * move.rate < dirty
                    THEN TicksFor(dirty) * move.rate ELSE dirty

\* What fits the pause is copied with the task stopped; a round that leaves as
\* much as it found shows that there is no end; or the rounds are used up.
CopyRound ==
    /\ move.verdict = "pending"
    /\ move' =
          IF TicksFor(move.dirty) <= PauseBudget
          THEN [move EXCEPT !.verdict = "cut over"]
          ELSE IF LeftAfter(move.dirty) >= move.dirty
          THEN [move EXCEPT !.verdict = "never"]
          ELSE [move EXCEPT !.dirty = LeftAfter(move.dirty), !.rounds = @ + 1,
                            !.verdict = IF move.rounds + 1 = MaxRounds
                                        THEN "gave up" ELSE "pending"]

-----------------------------------------------------------------------------
(* The pool *)

Pool == Cardinality(Workers)
Backlog(w) == SumFunction(queue[w])

PoolInit ==
    /\ jobs \in JobLists
    /\ stealing \in BOOLEAN
    /\ queue = [w \in Workers |->
                   [i \in 1..((Len(jobs) - w + Pool) \div Pool) |-> jobs[w + (i - 1) * Pool]]]
    /\ busy = [w \in Workers |-> 0]
    /\ turn = 1
    /\ clock = 0

\* The worker with the most before it, the first of several.
Victim == CHOOSE v \in Workers :
    \A w \in Workers : Backlog(w) < Backlog(v) \/ (Backlog(w) = Backlog(v) /\ v <= w)

\* The queues once the worker whose turn it is has stolen, if it has nothing
\* and another has: the last job of the victim.
AfterTheft ==
    IF stealing /\ queue[turn] = <<>> /\ Victim # turn /\ queue[Victim] # <<>>
    THEN [queue EXCEPT ![turn] = <<Last(queue[Victim])>>, ![Victim] = Front(@)]
    ELSE queue

\* A worker that is free steals if it must, and starts what is first before it.
Visit ==
    /\ turn \in Workers
    /\ IF busy[turn] > 0 \/ AfterTheft[turn] = <<>>
       THEN UNCHANGED <<queue, busy>>
       ELSE /\ busy' = [busy EXCEPT ![turn] = Head(AfterTheft[turn])]
            /\ queue' = [AfterTheft EXCEPT ![turn] = Tail(@)]
    /\ turn' = turn + 1
    /\ UNCHANGED <<jobs, stealing, clock>>

Over == \A w \in Workers : queue[w] = <<>> /\ busy[w] = 0

PoolTick ==
    /\ turn \notin Workers /\ ~Over
    /\ clock' = clock + 1
    /\ turn' = 1
    /\ busy' = [w \in Workers |-> IF busy[w] > 0 THEN busy[w] - 1 ELSE 0]
    /\ UNCHANGED <<jobs, stealing, queue>>

PoolNext == Visit \/ PoolTick

-----------------------------------------------------------------------------
(* Properties *)

\* Without an exception the effects that can be undone are those of the first
\* steps at every moment of a run, and none once it failed; after exceptions and
\* runs from the start, a saga that completes still has all its effects.
SagaIsWhole ==
    LET undoable == {i \in effect : SagaSteps[i]}
    IN /\ raises = 0 =>
             /\ \A i \in DOMAIN SagaSteps, j \in undoable :
                   i < j /\ SagaSteps[i] => i \in undoable
             /\ saga.does = "failed" => undoable = {}
       /\ saga.does = "completed" => effect = DOMAIN SagaSteps

\* Only requests that could not be done by the deadline are cut, however late
\* the process is asked to tick, and a closed process has none.
OnlyHopelessCut ==
    /\ cut \subseteq hopeless
    /\ duck.phase = "closed" => InFlight = {}

\* The verdict on a migration is that of the ideal race, where round follows
\* round without end: it cuts over if and only if some round before the limit
\* fits the pause, and says never only if none ever would.
VerdictIsHonest ==
    LET dirty[n \in 0..move.memory] ==
          IF n = 0 THEN move.memory ELSE LeftAfter(dirty[n - 1])
        fits == {n \in 0..move.memory : TicksFor(dirty[n]) <= PauseBudget}
    IN /\ move.verdict = "cut over" => \E n \in fits : n < MaxRounds
       /\ move.verdict = "never" => fits = {}
       /\ move.verdict = "gave up" => \A n \in fits : n >= MaxRounds

\* With stealing no worker is left idle beside a job that waits, so the pool
\* takes no longer than the mean load and the longest job beside it.
StealingPays ==
    stealing =>
        /\ turn \notin Workers /\ (\E w \in Workers : busy[w] = 0)
              => \A w \in Workers : queue[w] = <<>>
        /\ clock * Pool <= SumFunction(jobs) + (Pool - 1) * Max(Range(jobs))
=============================================================================
