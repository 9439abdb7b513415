------------------------------- MODULE Calls -------------------------------
(***************************************************************************)
(* What a client of the control plane relies on when it repeats itself:    *)
(* idempotency keys (idempotency.py), the single flight of a question many *)
(* ask (singleflight.py) and the budget of retries (retrybudget.py).  They *)
(* hold no state in common.  Ages are kept instead of ticks.               *)
(***************************************************************************)
EXTENDS Integers, FiniteSets, Functions

CONSTANTS
    Attempts,       \* the tries of one intent, all with its key
    KeyTtl,
    MaxDoubts,      \* bound: attempts that crash or are given up while alive
    Askers,         \* callers of the single flight, all with one key
    MaxVersion,     \* bound: versions of the answer at the backend
    RetryWindow,
    Num, Den,       \* the ratio of the retry budget
    MaxSuccesses    \* bound: successes of the traffic

ASSUME RatioIsFraction == Den > 0 /\ Num \in 0..Den

ASSUME CallsAssumption ==
    /\ IsFiniteSet(Attempts) /\ KeyTtl \in Nat /\ MaxDoubts \in Nat
    /\ RetryWindow \in Nat \ {0} /\ Den \in Nat /\ MaxSuccesses \in Nat

VARIABLES
    entry,      \* what is remembered under the key
    attempt,    \* where each try is
    effects,    \* how often the request landed since the key last expired
    answers,    \* the responses clients were given since then
    doubts,     \* attempts that crashed or were given up
    flight,     \* the flight of the question, or Grounded
    asker,      \* where each caller is, with the version it was told
    version,    \* the answer the backend would give now
    successes,  \* successes by age
    spent,      \* retries by age
    granted,    \* retries ever granted
    earned      \* successes ever

keyVars == <<entry, attempt, effects, answers, doubts>>
flightVars == <<flight, asker, version>>
budgetVars == <<successes, spent, granted, earned>>

-----------------------------------------------------------------------------
(* Idempotency keys *)

NoEntry == [status |-> "none", response |-> "none", age |-> 0]
NoAnswer == "none"

KeyInit ==
    /\ entry = NoEntry
    /\ attempt = [a \in Attempts |-> "idle"]
    /\ effects = 0
    /\ answers = {}
    /\ doubts = 0

KeyExpired == entry.status = "done" /\ entry.age >= KeyTtl

\* The sweep spares an entry that is in progress.
Swept == IF KeyExpired THEN NoEntry ELSE entry

\* The first attempt runs; one that finds another running is told to wait, and
\* one that finds it finished gets the remembered response.
Begin(a) ==
    /\ attempt[a] \in {"idle", "waiting"}
    /\ effects' = IF Swept # entry THEN 0 ELSE effects
    /\ CASE Swept.status = "none" ->
              /\ entry' = [status |-> "running", response |-> NoAnswer, age |-> 0]
              /\ attempt' = [attempt EXCEPT ![a] = "running"]
              /\ answers' = IF Swept # entry THEN {} ELSE answers
         [] Swept.status = "running" ->
              /\ attempt' = [attempt EXCEPT ![a] = "waiting"]
              /\ UNCHANGED <<entry, answers>>
         [] Swept.status = "done" ->
              /\ attempt' = [attempt EXCEPT ![a] = "told"]
              /\ answers' = answers \union {Swept.response}
              /\ UNCHANGED entry
    /\ UNCHANGED doubts

\* The request of a running attempt lands.
Land(a) ==
    /\ attempt[a] = "running"
    /\ attempt' = [attempt EXCEPT ![a] = "landed"]
    /\ effects' = effects + 1
    /\ UNCHANGED <<entry, answers, doubts>>

\* A response is kept once; an attempt whose key was released or finished by
\* another is refused with an error.
Finish(a) ==
    /\ attempt[a] = "landed"
    /\ IF entry.status = "running"
       THEN /\ entry' = [status |-> "done", response |-> a, age |-> 0]
            /\ attempt' = [attempt EXCEPT ![a] = "told"]
            /\ answers' = answers \union {a}
       ELSE /\ attempt' = [attempt EXCEPT ![a] = "refused"]
            /\ UNCHANGED <<entry, answers>>
    /\ UNCHANGED <<effects, doubts>>

\* An attempt dies before or after it landed, or only seems to; either way
\* somebody releases the key.
Abandon(a) ==
    /\ doubts < MaxDoubts
    /\ attempt[a] \in {"running", "landed"}
    /\ entry.status = "running"
    /\ entry' = NoEntry
    /\ \/ attempt' = [attempt EXCEPT ![a] = "crashed"]
       \/ UNCHANGED attempt
    /\ doubts' = doubts + 1
    /\ UNCHANGED <<effects, answers>>

KeyTick ==
    /\ entry.status # "none"
    /\ entry.age < KeyTtl
    /\ entry' = [entry EXCEPT !.age = @ + 1]
    /\ UNCHANGED <<attempt, effects, answers, doubts>>

\* A client that got its answer repeats the request.
Repeat(a) ==
    /\ attempt[a] = "told"
    /\ attempt' = [attempt EXCEPT ![a] = "idle"]
    /\ UNCHANGED <<entry, effects, answers, doubts>>

KeyNext ==
    \/ KeyTick
    \/ \E a \in Attempts : \/ Begin(a) \/ Land(a) \/ Finish(a)
                           \/ Abandon(a) \/ Repeat(a)

-----------------------------------------------------------------------------
(* The single flight *)

Grounded == [leader |-> NoAnswer, passengers |-> {}, began |-> 0, read |-> 0]

FlightInit ==
    /\ flight = Grounded
    /\ asker = [c \in Askers |-> [at |-> "idle", told |-> 0]]
    /\ version = 1

\* The first caller flies, the others wait for it.
AskBackend(c) ==
    /\ asker[c].at = "idle"
    /\ asker' = [asker EXCEPT ![c].at = "aboard"]
    /\ flight' = IF flight = Grounded
                 THEN [leader |-> c, passengers |-> {}, began |-> version, read |-> 0]
                 ELSE [flight EXCEPT !.passengers = @ \union {c}]
    /\ UNCHANGED version

\* The leader's trip reads the backend.
Read ==
    /\ flight # Grounded /\ flight.read = 0
    /\ flight' = [flight EXCEPT !.read = version]
    /\ UNCHANGED <<asker, version>>

\* The answer ends the flight and is shared with everybody aboard.
LandFlight ==
    /\ flight.read # 0
    /\ asker' = [c \in Askers |-> IF c \in flight.passengers \union {flight.leader}
                                  THEN [at |-> "idle", told |-> flight.read]
                                  ELSE asker[c]]
    /\ flight' = Grounded
    /\ UNCHANGED version

Change ==
    /\ version < MaxVersion
    /\ version' = version + 1
    /\ UNCHANGED <<flight, asker>>

FlightNext ==
    \/ Read \/ LandFlight \/ Change
    \/ \E c \in Askers : AskBackend(c)

-----------------------------------------------------------------------------
(* The budget of retries *)

BudgetInit ==
    /\ successes = [age \in 0..(RetryWindow - 1) |-> 0]
    /\ spent = [age \in 0..(RetryWindow - 1) |-> 0]
    /\ granted = 0
    /\ earned = 0

BudgetSucceeded ==
    /\ earned < MaxSuccesses
    /\ earned' = earned + 1
    /\ successes' = [successes EXCEPT ![0] = @ + 1]
    /\ UNCHANGED <<spent, granted>>

\* A retry is granted while the window holds fewer than its share of the
\* successes in the window.
MayRetry == SumFunction(spent) < (SumFunction(successes) * Num) \div Den

Retry ==
    /\ MayRetry
    /\ spent' = [spent EXCEPT ![0] = @ + 1]
    /\ granted' = granted + 1
    /\ UNCHANGED <<successes, earned>>

BudgetTick ==
    /\ successes' = [age \in DOMAIN successes |->
                        IF age = 0 THEN 0 ELSE successes[age - 1]]
    /\ spent' = [age \in DOMAIN spent |-> IF age = 0 THEN 0 ELSE spent[age - 1]]
    /\ UNCHANGED <<granted, earned>>

BudgetNext == BudgetSucceeded \/ Retry \/ BudgetTick

-----------------------------------------------------------------------------
(* Properties *)

\* While a key is remembered the request lands once, but for the attempts that
\* were given up; everybody is given the same response, whoever was given up;
\* and an attempt at work holds the key, if none was given up.
LandsOnce ==
    /\ effects <= 1 + doubts
    /\ Cardinality(answers) <= 1
    /\ \A a \in Attempts : attempt[a] \in {"running", "landed"} /\ doubts = 0
                              => entry.status = "running"

\* Whoever waits is aboard the flight, and whoever is aboard waits, so the
\* landing tells all of them; the answer is no older than the flight.
AboardIsWaiting ==
    /\ {c \in Askers : asker[c].at = "aboard"} =
          IF flight = Grounded THEN {} ELSE flight.passengers \union {flight.leader}
    /\ flight.read # 0 => flight.read >= flight.began

\* Over any history, the retries granted are at most the configured share of
\* the successes: a success is never spent twice, though both leave the window.
RetriesAreEarned == granted * Den <= earned * Num
=============================================================================
