------------------------------- MODULE Valves -------------------------------
(***************************************************************************)
(* What stands between callers and a service that may be ill: the circuit  *)
(* breaker (circuitbreaker.py), a compartment of a bulkhead (bulkhead.py), *)
(* the ladder that sheds features (brownout.py) and the token buckets of   *)
(* the API (apiratelimit.py).  They hold no state in common.  The code     *)
(* stores ticks and compares their differences with now; here the          *)
(* differences are kept, so that time has no end.                          *)
(***************************************************************************)
EXTENDS Integers, Sequences, FiniteSets, Functions

CONSTANTS
    Callers,                \* those who call through the breaker
    FailureThreshold, FailureWindow, Cooldown, ProbesToClose,
    CallIds,                \* the calls submitted to the compartment
    PoolSize, QueueSize,
    MaxTakes,               \* bound: the longest of those calls
    ShedAt, RestoreAt,      \* the stages of the ladder, expendable first
    Loads, RestoreHold,
    Clients,                \* registered with the limiter
    Token,                  \* one token, in the units of the rates
    Rate, Burst, ReserveRate, ReserveBurst, ReserveFloor

ASSUME StagesAreOrdered ==
    \A s \in DOMAIN ShedAt :
        /\ RestoreAt[s] < ShedAt[s]
        /\ \A t \in DOMAIN ShedAt : s < t => ShedAt[s] <= ShedAt[t]

\* The module constants, and what the buckets and compartments refuse to be built with.
ASSUME ValvesAssumption ==
    /\ FailureThreshold \in Nat \ {0} /\ FailureWindow \in Nat \ {0}
    /\ Cooldown \in Nat /\ ProbesToClose \in Nat \ {0}
    /\ IsFiniteSet(CallIds)
    /\ PoolSize \in Nat \ {0} /\ QueueSize \in Nat /\ MaxTakes \in Nat
    /\ DOMAIN ShedAt \subseteq Nat /\ Loads \subseteq Int /\ RestoreHold \in Nat
    /\ \A s \in DOMAIN ShedAt : ShedAt[s] \in Int /\ RestoreAt[s] \in Int
    /\ Token \in Nat \ {0} /\ Rate \in Nat \ {0} /\ Burst \in Nat \ {0}
    /\ ReserveRate \in Nat \ {0} /\ ReserveBurst \in Nat \ {0} /\ ReserveFloor \in Nat

VARIABLES
    breaker,    \* its state, ticks since it opened, probes passed
    failures,   \* how many failures it noted, by the ticks since
    out,        \* callers whose call has not been answered
    healthy,    \* whether the dependency answers well
    inFlight,   \* the ticks each call in the pool still takes
    queued,     \* the calls that wait for the pool, with the ticks they take
    shed,       \* the stages that are shed
    calm,       \* ticks since the load fell below a shed stage's restore_at
    level,      \* the clients' buckets
    reserve,    \* the shared bucket
    promise     \* ticks until the time a refused client was told

breakerVars == <<breaker, failures, out, healthy>>
bulkheadVars == <<inFlight, queued>>
ladderVars == <<shed, calm>>
limiterVars == <<level, reserve, promise>>

Never == -1
Capped(n, most) == IF n < most THEN n ELSE most
Passes(n, most) == IF n = Never THEN Never ELSE Capped(n + 1, most)

-----------------------------------------------------------------------------
(* The breaker: a caller is let through, and its answer comes later *)

NoFailures == [age \in 0..(FailureWindow - 1) |-> 0]

BreakerInit ==
    /\ breaker = [state |-> "closed", since |-> 0, passed |-> 0]
    /\ failures = NoFailures
    /\ out = {}
    /\ healthy \in BOOLEAN

\* Closed and half-open let every caller through; open lets one through once
\* the cooldown has elapsed, and is half-open from then on.
Allow(c) ==
    /\ c \notin out
    /\ \/ /\ breaker.state # "open"
          /\ UNCHANGED breaker
       \/ /\ breaker.state = "open" /\ breaker.since >= Cooldown
          /\ breaker' = [breaker EXCEPT !.state = "half-open", !.passed = 0]
    /\ out' = out \union {c}
    /\ UNCHANGED <<failures, healthy>>

\* An answer counts for the state it meets, not for the one it left.
Succeeded ==
    IF breaker.state # "half-open"
    THEN UNCHANGED <<breaker, failures>>
    ELSE IF breaker.passed + 1 < ProbesToClose
    THEN /\ breaker' = [breaker EXCEPT !.passed = @ + 1]
         /\ UNCHANGED failures
    ELSE /\ breaker' = [breaker EXCEPT !.state = "closed", !.passed = @ + 1]
         /\ failures' = NoFailures

Failed ==
    CASE breaker.state = "half-open" ->
            /\ breaker' = [breaker EXCEPT !.state = "open", !.since = 0]
            /\ UNCHANGED failures
      [] breaker.state = "closed" ->
            /\ failures' = [failures EXCEPT ![0] = @ + 1]
            /\ breaker' = IF SumFunction(failures) + 1 >= FailureThreshold
                          THEN [breaker EXCEPT !.state = "open", !.since = 0]
                          ELSE breaker
      [] OTHER -> UNCHANGED <<breaker, failures>>

Answer(c) ==
    /\ c \in out
    /\ out' = out \ {c}
    /\ IF healthy THEN Succeeded ELSE Failed
    /\ UNCHANGED healthy

BreakerTick ==
    /\ breaker' = [breaker EXCEPT !.since = Capped(@ + 1, Cooldown)]
    /\ failures' = [age \in DOMAIN failures |->
                       IF age = 0 THEN 0 ELSE failures[age - 1]]
    /\ UNCHANGED <<out, healthy>>

Turn ==
    /\ healthy' = ~healthy
    /\ UNCHANGED <<breaker, failures, out>>

BreakerNext ==
    \/ \E c \in Callers : Allow(c) \/ Answer(c)
    \/ BreakerTick \/ Turn

-----------------------------------------------------------------------------
(* A compartment: a bounded pool and a bounded queue.  A call that is in it *)
(* has an id that no later call of its time shares.                         *)

BulkheadInit ==
    /\ inFlight = [c \in CallIds |-> Never]
    /\ queued = <<>>

Running == {c \in CallIds : inFlight[c] # Never}
HasRoom(flights) ==
    \E n \in 0..(PoolSize - 1) :
        n = SumFunction([c \in CallIds |-> IF flights[c] = Never THEN 0 ELSE 1])

\* The pool first, then the queue; a call that finds both full is refused.
Submit(c, takes) ==
    /\ c \notin Running
    /\ \A i \in DOMAIN queued : queued[i].call # c
    /\ \/ /\ HasRoom(inFlight)
          /\ inFlight' = [inFlight EXCEPT ![c] = takes]
          /\ UNCHANGED queued
       \/ /\ ~HasRoom(inFlight)
          /\ Len(queued) < QueueSize
          /\ queued' = Append(queued, [call |-> c, takes |-> takes])
          /\ UNCHANGED inFlight

\* What the pool holds after n calls of the queue were moved into it.
Moved(flights, n) ==
    [c \in CallIds |->
        IF \E i \in 1..n : queued[i].call = c
        THEN (CHOOSE q \in {queued[i] : i \in 1..n} : q.call = c).takes
        ELSE flights[c]]

\* Calls that are done leave, and queued ones start while there is room.
Drain ==
    LET kept == [c \in CallIds |-> IF inFlight[c] = 0 THEN Never ELSE inFlight[c]]
    IN \E n \in 0..Len(queued) :
          /\ \A k \in 0..(n - 1) : HasRoom(Moved(kept, k))
          /\ n < Len(queued) => ~HasRoom(Moved(kept, n))
          /\ inFlight' = Moved(kept, n)
          /\ queued' = SubSeq(queued, n + 1, Len(queued))

BulkheadTick ==
    /\ inFlight' = [c \in CallIds |->
                       IF inFlight[c] > 0 THEN inFlight[c] - 1 ELSE inFlight[c]]
    /\ UNCHANGED queued

BulkheadNext ==
    \/ \E c \in CallIds, takes \in 0..MaxTakes : Submit(c, takes)
    \/ Drain \/ BulkheadTick

-----------------------------------------------------------------------------
(* The ladder *)

Stages == DOMAIN ShedAt

LadderInit ==
    /\ shed = {}
    /\ calm = [s \in Stages |-> Never]

\* Everything the load calls for is shed; a shed stage whose load stays below
\* its restore_at for the hold comes back.
Observe(load) ==
    LET gone == shed \union {s \in Stages : load >= ShedAt[s]}
        rest == [s \in Stages |->
                    IF s \notin gone \/ load >= RestoreAt[s] THEN Never
                    ELSE IF calm[s] = Never THEN 0 ELSE calm[s]]
        back == {s \in gone : rest[s] >= RestoreHold}
    IN /\ shed' = gone \ back
       /\ calm' = [s \in Stages |-> IF s \in back THEN Never ELSE rest[s]]

LadderTick ==
    /\ calm' = [s \in Stages |-> Passes(calm[s], RestoreHold)]
    /\ UNCHANGED shed

LadderNext == LadderTick \/ \E load \in Loads : Observe(load)

-----------------------------------------------------------------------------
(* The limiter *)

LimiterInit ==
    /\ level = [c \in Clients |-> Burst * Token]
    /\ reserve = ReserveBurst * Token
    /\ promise = [c \in Clients |-> Never]

\* Wrong: the wait is rounded down.
WaitForOneDown(c) == (Token - level[c]) \div Rate

\* Ticks until the client's own bucket holds a token, rounded up.
WaitForOne(c) == (Token - level[c] + Rate - 1) \div Rate

\* One's own bucket, then the reserve above its floor, then a refusal that
\* says when to come back.
AllowClient(c) ==
    \/ /\ level[c] >= Token
       /\ level' = [level EXCEPT ![c] = @ - Token]
       /\ promise' = [promise EXCEPT ![c] = Never]
       /\ UNCHANGED reserve
    \/ /\ level[c] < Token /\ reserve - Token >= ReserveFloor
       /\ reserve' = reserve - Token
       /\ promise' = [promise EXCEPT ![c] = Never]
       /\ UNCHANGED level
    \/ /\ level[c] < Token /\ reserve - Token < ReserveFloor
       /\ promise' = [promise EXCEPT ![c] = WaitForOne(c)]
       /\ UNCHANGED <<level, reserve>>

LimiterTick ==
    /\ level' = [c \in Clients |-> Capped(level[c] + Rate, Burst * Token)]
    /\ reserve' = Capped(reserve + ReserveRate, ReserveBurst * Token)
    /\ promise' = [c \in Clients |->
                      IF promise[c] > 0 THEN promise[c] - 1 ELSE promise[c]]

LimiterNext == LimiterTick \/ \E c \in Clients : AllowClient(c)

-----------------------------------------------------------------------------
(* Properties *)

\* A closed breaker has fewer failures in its window than would open it,
\* whatever answers came late, and one that half-opened has not yet passed.
BreakerHolds ==
    /\ breaker.state = "closed" => SumFunction(failures) < FailureThreshold
    /\ breaker.state = "half-open" => breaker.passed < ProbesToClose

\* A call waits only while the pool is full, so nobody who comes later
\* overtakes it into the pool, and neither bound is passed.
NobodyOvertakes ==
    /\ queued # <<>> => ~HasRoom(inFlight)
    /\ Len(queued) <= QueueSize
    /\ SumFunction([c \in CallIds |-> IF c \in Running THEN 1 ELSE 0]) <= PoolSize

\* If stages that are shed later come back sooner, an essential feature is
\* never off while one more expendable is on, whatever the load does.
ExpendableFirst ==
    (\A s, t \in Stages : s < t => RestoreAt[s] <= RestoreAt[t]) =>
        \A s, t \in Stages : s < t /\ t \in shed => s \in shed

\* A refused client that comes back when it was told to is served from its own
\* bucket, whatever the others did meanwhile; and nobody draws the reserve below its
\* floor.
PromiseKept ==
    /\ \A c \in Clients : promise[c] = 0 => level[c] >= Token
    /\ reserve >= Capped(ReserveFloor, ReserveBurst * Token)
=============================================================================
