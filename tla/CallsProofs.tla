----------------------------- MODULE CallsProofs -----------------------------
(***************************************************************************)
(* Theorems about the valves, the clients, the operations of several steps *)
(* and the lives of tasks, for any values of their constants.  Each part   *)
(* has an invariant of its own, which its first state has and its steps    *)
(* keep; in MCCalls the parts share no state, so the conjunction of these  *)
(* holds of all.                                                           *)
(***************************************************************************)
EXTENDS MCCalls, FoldFacts

-----------------------------------------------------------------------------
(* The breaker                                                             *)

Breakers == [state : {"closed", "open", "half-open"}, since : Nat, passed : Nat]

\* The breaker's types, with what it promises.
BreakerInv ==
    /\ breaker \in Breakers
    /\ failures \in [0..(FailureWindow - 1) -> Nat]
    /\ BreakerHolds

\* Failures that grow a tick older are no more than they were.
LEMMA FailuresAge ==
    ASSUME ValvesAssumption, NEW f, f \in [0..(FailureWindow - 1) -> Nat],
           NEW g, g = [age \in DOMAIN f |-> IF age = 0 THEN 0 ELSE f[age - 1]]
    PROVE  /\ g \in [0..(FailureWindow - 1) -> Nat]
           /\ SumFunction(g) <= SumFunction(f)
<1>. DEFINE W == FailureWindow - 1
<1>1. W \in Nat
  BY DEF ValvesAssumption
<1>2. g \in [0..W -> Nat] /\ g[0] = 0 /\ \A i \in 0..W : i # 0 => g[i] = f[i - 1]
  BY <1>1
<1>3. \A i \in 0..W : f[i] \in Nat
  OBVIOUS
<1>4. SumFunction(g) = Total(g, 0..W) /\ SumFunction(f) = Total(f, 0..W)
  BY <1>2, SumIsTotal
<1>5. W \in 0..W
  BY <1>1
<1>. HIDE DEF W
<1>6. /\ Total(f, 0..W) = Total(g, 0..W) + f[W]
      /\ Total(f, 0..W) \in Nat /\ Total(g, 0..W) \in Nat
  BY <1>1, <1>2, <1>3, TotalOfShifted
<1>7. SumFunction(g) <= SumFunction(f)
  BY <1>3, <1>4, <1>5, <1>6
<1>. QED
  BY <1>2, <1>7 DEF W

\* A failure noted is one more, and none are none.
LEMMA FailureNoted ==
    ASSUME ValvesAssumption, NEW f, f \in [0..(FailureWindow - 1) -> Nat]
    PROVE  /\ [f EXCEPT ![0] = @ + 1] \in [0..(FailureWindow - 1) -> Nat]
           /\ SumFunction([f EXCEPT ![0] = @ + 1]) = SumFunction(f) + 1
           /\ SumFunction(f) \in Nat
           /\ NoFailures \in [0..(FailureWindow - 1) -> Nat] /\ SumFunction(NoFailures) = 0
<1>. DEFINE S == 0..(FailureWindow - 1)
            g == [f EXCEPT ![0] = @ + 1]
<1>1. 0 \in S
  BY DEF ValvesAssumption
<1>2. FailureWindow - 1 \in Nat
  BY DEF ValvesAssumption
<1>3. IsFiniteSet(S)
  BY <1>2, Numbers
<1>4. g \in [S -> Nat] /\ g[0] = f[0] + 1 /\ \A s \in S : s # 0 => g[s] = f[s]
  BY <1>1
<1>5. NoFailures \in [S -> Nat] /\ \A s \in S : NoFailures[s] = 0
  BY DEF NoFailures
<1>6. f \in [S -> Nat]
  OBVIOUS
<1>. HIDE DEF S, g
<1>7. Total(g, S) = Total(f, S) + 1
  <2>1. ASSUME NEW x \in S, g[x] = f[x] + 1, \A s \in S : s # x => g[s] = f[s]
        PROVE  Total(g, S) = Total(f, S) + 1
    BY ONLY <1>3, <1>4, <1>6, <2>1, TotalOfOneMore
  <2>. QED
    BY <1>1, <1>4, <2>1
<1>8. Total(f, S) \in Nat /\ f[0] \in Nat
  BY <1>1, <1>3, <1>6, TotalIsNat
<1>9. /\ SumFunction(g) = Total(g, S) /\ SumFunction(f) = Total(f, S)
      /\ SumFunction(NoFailures) = Total(NoFailures, S)
  BY <1>4, <1>5, <1>6, SumIsTotal
<1>10. Total(NoFailures, S) = 0
  BY <1>3, <1>5, TotalOfZeros
<1>11. SumFunction(g) = SumFunction(f) + 1
  BY <1>4, <1>7, <1>8, <1>9
<1>. QED
  BY <1>4, <1>5, <1>8, <1>9, <1>10, <1>11 DEF S, g

\* A new breaker holds.
LEMMA BreakerStarts ==
    ASSUME ValvesAssumption, BreakerInit
    PROVE  BreakerInv
<1>1. NoFailures \in [0..(FailureWindow - 1) -> Nat]
  BY DEF NoFailures
<1>2. SumFunction(NoFailures) = 0
  BY <1>1, FailureNoted
<1>. QED
  BY <1>1, <1>2 DEF BreakerInit, BreakerInv, BreakerHolds, ValvesAssumption, Breakers

\* An answer, late or not, leaves it so.
LEMMA AnswerKeeps ==
    ASSUME ValvesAssumption, BreakerInv, NEW c \in Callers, Answer(c)
    PROVE  BreakerInv'
<1>. DEFINE state == breaker.state
            passed == breaker.passed
<1>1. /\ failures \in [0..(FailureWindow - 1) -> Nat] /\ breaker \in Breakers
      /\ state = "closed" => SumFunction(failures) < FailureThreshold
  BY DEF BreakerInv, BreakerHolds
<1>2. /\ [failures EXCEPT ![0] = @ + 1] \in [0..(FailureWindow - 1) -> Nat]
      /\ SumFunction([failures EXCEPT ![0] = @ + 1]) = SumFunction(failures) + 1
      /\ SumFunction(failures) \in Nat
      /\ NoFailures \in [0..(FailureWindow - 1) -> Nat] /\ SumFunction(NoFailures) = 0
  BY <1>1, FailureNoted
<1>3. ProbesToClose \in Nat \ {0} /\ FailureThreshold \in Nat \ {0}
  BY DEF ValvesAssumption
<1>4. state \in {"closed", "open", "half-open"} /\ passed \in Nat /\ passed + 1 \in Nat
  BY <1>1 DEF Breakers
<1>5. \/ UNCHANGED <<breaker, failures>>
      \/ /\ state = "half-open" /\ passed + 1 < ProbesToClose
         /\ breaker' = [breaker EXCEPT !.passed = passed + 1] /\ UNCHANGED failures
      \/ /\ breaker' = [breaker EXCEPT !.state = "closed", !.passed = passed + 1]
         /\ failures' = NoFailures
      \/ /\ breaker' = [breaker EXCEPT !.state = "open", !.since = 0]
         /\ failures' \in {failures, [failures EXCEPT ![0] = @ + 1]}
      \/ /\ state = "closed" /\ ~(SumFunction(failures) + 1 >= FailureThreshold)
         /\ UNCHANGED breaker /\ failures' = [failures EXCEPT ![0] = @ + 1]
  <2>1. healthy => Succeeded
    BY DEF Answer
  <2>2. ~healthy => Failed
    BY DEF Answer
  <2>. QED
    BY <1>4, <2>1, <2>2 DEF Succeeded, Failed
<1>. HIDE DEF state, passed
<1>6. CASE UNCHANGED <<breaker, failures>>
  BY <1>6 DEF BreakerInv, BreakerHolds
<1>7. CASE /\ state = "half-open" /\ passed + 1 < ProbesToClose
           /\ breaker' = [breaker EXCEPT !.passed = passed + 1] /\ UNCHANGED failures
  <2>1. /\ breaker' \in Breakers /\ breaker'.state = breaker.state
        /\ breaker'.passed = passed + 1
    <3>1. ASSUME NEW k \in Nat, breaker' = [breaker EXCEPT !.passed = k]
          PROVE  /\ breaker' \in Breakers /\ breaker'.state = breaker.state
                 /\ breaker'.passed = k
      BY <1>1, <3>1 DEF Breakers
    <3>. QED
      BY <1>4, <1>7, <3>1
  <2>. QED
    BY <1>1, <1>7, <2>1 DEF BreakerInv, BreakerHolds, state
<1>8. CASE /\ breaker' = [breaker EXCEPT !.state = "closed", !.passed = passed + 1]
           /\ failures' = NoFailures
  <2>1. breaker' \in Breakers /\ breaker'.state = "closed"
    <3>1. ASSUME NEW k \in Nat,
                 breaker' = [breaker EXCEPT !.state = "closed", !.passed = k]
          PROVE  breaker' \in Breakers /\ breaker'.state = "closed"
      BY <1>1, <3>1 DEF Breakers
    <3>. QED
      BY <1>4, <1>8, <3>1
  <2>2. /\ failures' \in [0..(FailureWindow - 1) -> Nat]
        /\ SumFunction(failures') < FailureThreshold
    <3>1. failures' = NoFailures
      BY <1>8
    <3>2. NoFailures \in [0..(FailureWindow - 1) -> Nat] /\ SumFunction(NoFailures) = 0
      BY <1>2
    <3>3. 0 < FailureThreshold
      BY <1>3
    <3>. QED
      BY <3>1, <3>2, <3>3
  <2>. QED
    BY <2>1, <2>2 DEF BreakerInv, BreakerHolds
<1>9. CASE /\ breaker' = [breaker EXCEPT !.state = "open", !.since = 0]
           /\ failures' \in {failures, [failures EXCEPT ![0] = @ + 1]}
  <2>1. failures' \in [0..(FailureWindow - 1) -> Nat]
    BY <1>1, <1>2, <1>9
  <2>2. breaker' \in Breakers /\ breaker'.state = "open"
    BY <1>1, <1>9 DEF Breakers
  <2>. QED
    BY <2>1, <2>2 DEF BreakerInv, BreakerHolds
<1>10. CASE /\ state = "closed" /\ ~(SumFunction(failures) + 1 >= FailureThreshold)
            /\ UNCHANGED breaker /\ failures' = [failures EXCEPT ![0] = @ + 1]
  <2>1. SumFunction(failures') < FailureThreshold
    BY <1>2, <1>3, <1>10
  <2>2. breaker'.state = "closed" /\ breaker' \in Breakers
    BY <1>1, <1>10 DEF state
  <2>. QED
    BY <1>2, <1>10, <2>1, <2>2 DEF BreakerInv, BreakerHolds
<1>. QED
  BY <1>5, <1>6, <1>7, <1>8, <1>9, <1>10

\* Each step of the breaker leaves it so.
LEMMA BreakerSteps ==
    ASSUME ValvesAssumption, BreakerInv, [BreakerNext]_breakerVars
    PROVE  BreakerInv'
<1>1. ASSUME NEW c \in Callers, Allow(c) PROVE BreakerInv'
  <2>1. ProbesToClose \in Nat \ {0}
    BY DEF ValvesAssumption
  <2>2. /\ breaker \in Breakers /\ UNCHANGED failures
        /\ \/ UNCHANGED breaker
           \/ breaker' = [breaker EXCEPT !.state = "half-open", !.passed = 0]
    BY <1>1 DEF Allow, BreakerInv
  <2>3. CASE UNCHANGED breaker
    BY <2>2, <2>3 DEF BreakerInv, BreakerHolds
  <2>4. CASE breaker' = [breaker EXCEPT !.state = "half-open", !.passed = 0]
    <3>1. breaker' \in Breakers /\ breaker'.state = "half-open" /\ breaker'.passed = 0
      BY <2>2, <2>4 DEF Breakers
    <3>. QED
      BY <2>1, <2>2, <3>1 DEF BreakerInv, BreakerHolds
  <2>. QED
    BY <2>2, <2>3, <2>4
<1>2. ASSUME BreakerTick PROVE BreakerInv'
  <2>1. /\ failures \in [0..(FailureWindow - 1) -> Nat]
        /\ failures' = [age \in DOMAIN failures |->
                          IF age = 0 THEN 0 ELSE failures[age - 1]]
        /\ breaker' = [breaker EXCEPT !.since = Capped(@ + 1, Cooldown)]
    BY <1>2 DEF BreakerInv, BreakerTick
  <2>2. /\ failures' \in [0..(FailureWindow - 1) -> Nat]
        /\ SumFunction(failures') <= SumFunction(failures)
    BY <2>1, FailuresAge
  <2>3. SumFunction(failures) \in Nat /\ SumFunction(failures') \in Nat
    BY <2>1, <2>2, FailureNoted
  <2>4. /\ breaker'.state = breaker.state /\ breaker'.passed = breaker.passed
        /\ breaker' \in Breakers
    <3>1. breaker \in Breakers /\ breaker.since \in Nat /\ breaker.since + 1 \in Nat
      BY DEF BreakerInv, Breakers
    <3>2. Capped(breaker.since + 1, Cooldown) \in Nat
      BY <3>1 DEF Capped, ValvesAssumption
    <3>. QED
      <4>1. ASSUME NEW k \in Nat, breaker' = [breaker EXCEPT !.since = k]
            PROVE  /\ breaker'.state = breaker.state /\ breaker'.passed = breaker.passed
                   /\ breaker' \in Breakers
        BY <3>1, <4>1 DEF Breakers
      <4>. QED
        BY <2>1, <3>2, <4>1
  <2>5. FailureThreshold \in Nat
    BY DEF ValvesAssumption
  <2>. QED
    BY <2>2, <2>3, <2>4, <2>5 DEF BreakerInv, BreakerHolds
<1>3. ASSUME Turn PROVE BreakerInv'
  BY <1>3 DEF Turn, BreakerInv, BreakerHolds
<1>4. ASSUME UNCHANGED breakerVars PROVE BreakerInv'
  BY <1>4 DEF breakerVars, BreakerInv, BreakerHolds
<1>. QED
  BY <1>1, <1>2, <1>3, <1>4, AnswerKeeps DEF BreakerNext

-----------------------------------------------------------------------------
(* The bulkhead                                                            *)

\* How many calls the pool holds.
Aboard(flights) == SumFunction([c \in CallIds |-> IF flights[c] = Never THEN 0 ELSE 1])

\* The pool is not full beyond its size, and while it has room nobody waits.
BulkheadInv ==
    /\ inFlight \in [CallIds -> Nat \cup {Never}]
    /\ queued \in Seq([call : CallIds, takes : Nat])
    /\ Aboard(inFlight) <= PoolSize
    /\ Len(queued) <= QueueSize
    /\ queued # <<>> => ~HasRoom(inFlight)

\* There is room while fewer are aboard than the pool takes.
LEMMA RoomIsCounted ==
    ASSUME ValvesAssumption, NEW f
    PROVE  Aboard(f) \in Nat /\ (HasRoom(f) <=> Aboard(f) < PoolSize)
<1>1. Aboard(f) \in Nat
  BY SumIsNat DEF Aboard, ValvesAssumption
<1>. QED
  BY <1>1 DEF HasRoom, Aboard, ValvesAssumption

\* Where all but one were aboard before, at most one more is.
LEMMA OneMoreAboard ==
    ASSUME ValvesAssumption, NEW f, NEW g, NEW x \in CallIds,
           \A c \in CallIds : c # x /\ g[c] # Never => f[c] # Never
    PROVE  Aboard(g) <= Aboard(f) + 1
<1>. DEFINE F == [c \in CallIds |-> IF f[c] = Never THEN 0 ELSE 1]
            G == [c \in CallIds |-> IF g[c] = Never THEN 0 ELSE 1]
<1>1. IsFiniteSet(CallIds)
  BY DEF ValvesAssumption
<1>2. \A c \in CallIds : F[c] \in Nat /\ G[c] \in Nat /\ (c # x => G[c] <= F[c])
  OBVIOUS
<1>3. G[x] <= 1 /\ F[x] >= 0
  OBVIOUS
<1>4. Aboard(f) = Total(F, CallIds) /\ Aboard(g) = Total(G, CallIds)
  BY SumIsTotal DEF Aboard
<1>. HIDE DEF F, G
<1>5. /\ Total(F, CallIds) = F[x] + Total(F, CallIds \ {x})
      /\ Total(F, CallIds \ {x}) \in Nat
  BY <1>1, <1>2, TotalApart
<1>6. /\ Total(G, CallIds) = G[x] + Total(G, CallIds \ {x})
      /\ Total(G, CallIds \ {x}) \in Nat
  BY <1>1, <1>2, TotalApart
<1>7. Total(G, CallIds \ {x}) <= Total(F, CallIds \ {x})
  <2>1. IsFiniteSet(CallIds \ {x})
    BY <1>1, FS_RemoveElement
  <2>. QED
    BY <1>2, <2>1, TotalOfLess
<1>. QED
  BY <1>2, <1>3, <1>4, <1>5, <1>6, <1>7

\* Where all were aboard before, no more are.
LEMMA NoMoreAboard ==
    ASSUME ValvesAssumption, NEW f, NEW g,
           \A c \in CallIds : g[c] # Never => f[c] # Never
    PROVE  Aboard(g) <= Aboard(f)
<1>. DEFINE F == [c \in CallIds |-> IF f[c] = Never THEN 0 ELSE 1]
            G == [c \in CallIds |-> IF g[c] = Never THEN 0 ELSE 1]
<1>1. \A c \in CallIds : F[c] \in Nat /\ G[c] \in Nat /\ G[c] <= F[c]
  OBVIOUS
<1>2. Aboard(f) = Total(F, CallIds) /\ Aboard(g) = Total(G, CallIds)
  BY SumIsTotal DEF Aboard
<1>. QED
  BY <1>1, <1>2, TotalOfLess DEF ValvesAssumption

\* A queued call that is moved in takes one place, and those before it keep theirs.
LEMMA MovedTakesOne ==
    ASSUME NEW kept \in [CallIds -> Nat \cup {Never}],
           queued \in Seq([call : CallIds, takes : Nat]), NEW n \in 1..Len(queued)
    PROVE  /\ Moved(kept, n) \in [CallIds -> Nat \cup {Never}]
           /\ queued[n].call \in CallIds
           /\ \A c \in CallIds : c # queued[n].call /\ Moved(kept, n)[c] # Never
                                    => Moved(kept, n - 1)[c] # Never
<1>. DEFINE Q == [call : CallIds, takes : Nat]
<1>1. \A i \in 1..n : queued[i] \in Q
  <2>1. queued \in Seq(Q) /\ \A i \in 1..n : i \in 1..Len(queued)
    OBVIOUS
  <2>. HIDE DEF Q
  <2>. QED
    BY <2>1, ElementOfSeq
<1>2. ASSUME NEW m \in 0..n, NEW c \in CallIds
      PROVE  /\ (\E i \in 1..m : queued[i].call = c) => Moved(kept, m)[c] \in Nat
             /\ ~(\E i \in 1..m : queued[i].call = c) => Moved(kept, m)[c] = kept[c]
  <2>1. CASE \E i \in 1..m : queued[i].call = c
    <3>. DEFINE q == CHOOSE q \in {queued[i] : i \in 1..m} : q.call = c
    <3>1. \E r \in {queued[i] : i \in 1..m} : r.call = c
      BY <2>1
    <3>2. q \in {queued[i] : i \in 1..m}
      BY <3>1
    <3>3. q.takes \in Nat
      <4>1. PICK i \in 1..m : q = queued[i]
        BY <3>2
      <4>2. queued[i] \in Q
        BY <1>1
      <4>. QED
        BY <4>1, <4>2
    <3>4. Moved(kept, m)[c] = q.takes
      BY <2>1 DEF Moved
    <3>. QED
      BY <2>1, <3>3, <3>4
  <2>2. CASE ~(\E i \in 1..m : queued[i].call = c)
    BY <2>2 DEF Moved
  <2>. QED
    BY <2>1, <2>2
<1>3. n \in 0..n /\ n - 1 \in 0..n
  OBVIOUS
<1>4. Moved(kept, n) \in [CallIds -> Nat \cup {Never}]
  <2>1. \A c \in CallIds : Moved(kept, n)[c] \in Nat \cup {Never}
    BY <1>2, <1>3
  <2>. QED
    BY <2>1 DEF Moved
<1>5. ASSUME NEW c \in CallIds, c # queued[n].call, Moved(kept, n)[c] # Never
      PROVE  Moved(kept, n - 1)[c] # Never
  <2>1. (\E i \in 1..n : queued[i].call = c) <=> (\E i \in 1..(n - 1) : queued[i].call = c)
    <3>1. \A i \in 1..n : i # n => i \in 1..(n - 1)
      OBVIOUS
    <3>2. \A i \in 1..(n - 1) : i \in 1..n
      OBVIOUS
    <3>. QED
      BY <1>5, <3>1, <3>2
  <2>2. \A k \in Nat : k # Never
    BY DEF Never
  <2>. QED
    BY <1>2, <1>3, <1>5, <2>1, <2>2
<1>. QED
  BY <1>1, <1>4, <1>5

\* A new compartment is empty.
LEMMA BulkheadStarts ==
    ASSUME ValvesAssumption, BulkheadInit
    PROVE  BulkheadInv
<1>1. IsFiniteSet(CallIds)
  BY DEF ValvesAssumption
<1>2. Aboard(inFlight) = 0
  <2>. DEFINE F == [c \in CallIds |-> IF inFlight[c] = Never THEN 0 ELSE 1]
  <2>1. \A c \in CallIds : F[c] = 0
    BY DEF BulkheadInit
  <2>2. Aboard(inFlight) = Total(F, CallIds)
    BY SumIsTotal DEF Aboard
  <2>. QED
    BY <1>1, <2>1, <2>2, TotalOfZeros
<1>3. queued = <<>> /\ inFlight \in [CallIds -> Nat \cup {Never}]
  BY DEF BulkheadInit
<1>. QED
  BY <1>2, <1>3 DEF BulkheadInv, ValvesAssumption

\* What leaves the pool and what is moved into it keep the bounds, and what still
\* waits meets a full pool.
LEMMA DrainKeeps ==
    ASSUME ValvesAssumption, BulkheadInv, Drain
    PROVE  BulkheadInv'
<1>. DEFINE kept == [c \in CallIds |-> IF inFlight[c] = 0 THEN Never ELSE inFlight[c]]
            Q == [call : CallIds, takes : Nat]
<1>1. /\ inFlight \in [CallIds -> Nat \cup {Never}] /\ queued \in Seq(Q)
      /\ Aboard(inFlight) <= PoolSize /\ Len(queued) <= QueueSize
      /\ PoolSize \in Nat /\ QueueSize \in Nat
  BY DEF BulkheadInv, ValvesAssumption
<1>2. PICK n \in 0..Len(queued) :
          /\ \A k \in 0..(n - 1) : HasRoom(Moved(kept, k))
          /\ n < Len(queued) => ~HasRoom(Moved(kept, n))
          /\ inFlight' = Moved(kept, n)
          /\ queued' = SubSeq(queued, n + 1, Len(queued))
  BY DEF Drain
<1>3. kept \in [CallIds -> Nat \cup {Never}] /\ Aboard(kept) <= PoolSize
  <2>1. kept \in [CallIds -> Nat \cup {Never}]
    BY <1>1
  <2>2. \A c \in CallIds : kept[c] # Never => inFlight[c] # Never
    BY <1>1
  <2>. HIDE DEF kept
  <2>3. Aboard(kept) <= Aboard(inFlight)
    BY <2>2, NoMoreAboard
  <2>4. Aboard(kept) \in Nat /\ Aboard(inFlight) \in Nat
    BY RoomIsCounted
  <2>. QED
    BY <1>1, <2>1, <2>3, <2>4
<1>. HIDE DEF kept
<1>4. inFlight' \in [CallIds -> Nat \cup {Never}] /\ Aboard(inFlight') <= PoolSize
  <2>1. CASE n = 0
    <3>1. Moved(kept, 0) = kept
      BY <1>3 DEF Moved
    <3>. QED
      BY <1>2, <1>3, <2>1, <3>1
  <2>2. CASE n # 0
    <3>1. n \in 1..Len(queued) /\ n - 1 \in 0..(n - 1)
      BY <1>2, <2>2
    <3>2. /\ Moved(kept, n) \in [CallIds -> Nat \cup {Never}]
          /\ queued[n].call \in CallIds
          /\ \A c \in CallIds : c # queued[n].call /\ Moved(kept, n)[c] # Never
                                   => Moved(kept, n - 1)[c] # Never
      BY <1>1, <1>3, <3>1, MovedTakesOne
    <3>3. Aboard(Moved(kept, n)) <= Aboard(Moved(kept, n - 1)) + 1
      BY <3>2, OneMoreAboard
    <3>4. Aboard(Moved(kept, n - 1)) < PoolSize
      BY <1>2, <3>1, RoomIsCounted
    <3>5. Aboard(Moved(kept, n - 1)) \in Nat /\ Aboard(Moved(kept, n)) \in Nat
      BY RoomIsCounted
    <3>. QED
      BY <1>1, <1>2, <3>2, <3>3, <3>4, <3>5
  <2>. QED
    BY <2>1, <2>2
<1>5. /\ queued' \in Seq(Q) /\ Len(queued') <= QueueSize
      /\ queued' # <<>> => n < Len(queued)
  <2>. HIDE DEF Q
  <2>1. n + 1 \in Nat /\ Len(queued) \in Nat /\ n \in Nat /\ n <= Len(queued)
    BY <1>1, <1>2
  <2>2. \A i \in (n + 1)..Len(queued) : queued[i] \in Q
    BY <1>1, <2>1, ElementOfSeq
  <2>3. /\ SubSeq(queued, n + 1, Len(queued)) \in Seq(Q)
        /\ Len(SubSeq(queued, n + 1, Len(queued)))
              = IF n + 1 <= Len(queued) THEN Len(queued) - (n + 1) + 1 ELSE 0
    BY <2>1, <2>2, SubSeqProperties
  <2>4. n = Len(queued) => SubSeq(queued, n + 1, Len(queued)) = <<>>
    BY <2>1, <2>3, EmptySeq
  <2>. QED
    BY <1>1, <1>2, <2>1, <2>3, <2>4
<1>6. queued' # <<>> => ~HasRoom(inFlight')
  BY <1>2, <1>5
<1>. QED
  BY <1>4, <1>5, <1>6 DEF BulkheadInv, Aboard, HasRoom

\* Each step of the compartment leaves it so.
LEMMA BulkheadSteps ==
    ASSUME ValvesAssumption, BulkheadInv, [BulkheadNext]_bulkheadVars
    PROVE  BulkheadInv'
<1>1. /\ inFlight \in [CallIds -> Nat \cup {Never}]
      /\ queued \in Seq([call : CallIds, takes : Nat])
      /\ Aboard(inFlight) <= PoolSize /\ Len(queued) <= QueueSize
      /\ queued # <<>> => ~HasRoom(inFlight)
      /\ PoolSize \in Nat /\ QueueSize \in Nat
  BY DEF BulkheadInv, ValvesAssumption
<1>2. ASSUME NEW c \in CallIds, NEW takes \in 0..MaxTakes, Submit(c, takes)
      PROVE  BulkheadInv'
  <2>1. takes \in Nat
    BY DEF ValvesAssumption
  <2>2. CASE HasRoom(inFlight) /\ inFlight' = [inFlight EXCEPT ![c] = takes] /\ UNCHANGED queued
    <3>1. inFlight' \in [CallIds -> Nat \cup {Never}]
      BY <1>1, <2>1, <2>2
    <3>2. \A d \in CallIds : d # c /\ inFlight'[d] # Never => inFlight[d] # Never
      BY <1>1, <2>2
    <3>3. Aboard(inFlight') <= Aboard(inFlight) + 1
      BY <3>2, OneMoreAboard
    <3>4. /\ Aboard(inFlight) \in Nat /\ Aboard(inFlight') \in Nat
          /\ Aboard(inFlight) < PoolSize
      BY <2>2, RoomIsCounted
    <3>. QED
      BY <1>1, <2>2, <3>1, <3>3, <3>4 DEF BulkheadInv, Aboard
  <2>3. CASE /\ ~HasRoom(inFlight) /\ Len(queued) < QueueSize
             /\ queued' = Append(queued, [call |-> c, takes |-> takes])
             /\ UNCHANGED inFlight
    <3>1. [call |-> c, takes |-> takes] \in [call : CallIds, takes : Nat]
      BY <2>1
    <3>2. /\ queued' \in Seq([call : CallIds, takes : Nat])
          /\ Len(queued') = Len(queued) + 1
      BY <1>1, <2>3, <3>1, AppendProperties
    <3>. QED
      BY <1>1, <2>3, <3>2 DEF BulkheadInv, Aboard, HasRoom
  <2>. QED
    BY <1>2, <2>2, <2>3 DEF Submit
<1>3. ASSUME BulkheadTick PROVE BulkheadInv'
  <2>1. inFlight' \in [CallIds -> Nat \cup {Never}] /\ UNCHANGED queued
    BY <1>1, <1>3 DEF BulkheadTick, Never
  <2>2. \A c \in CallIds : inFlight'[c] # Never <=> inFlight[c] # Never
    BY <1>1, <1>3 DEF BulkheadTick, Never
  <2>3. Aboard(inFlight') = Aboard(inFlight)
    <3>1. [c \in CallIds |-> IF inFlight'[c] = Never THEN 0 ELSE 1]
             = [c \in CallIds |-> IF inFlight[c] = Never THEN 0 ELSE 1]
      BY <2>2
    <3>. QED
      BY <3>1 DEF Aboard
  <2>4. HasRoom(inFlight') <=> HasRoom(inFlight)
    BY <2>3, RoomIsCounted
  <2>. QED
    BY <1>1, <2>1, <2>3, <2>4 DEF BulkheadInv, Aboard, HasRoom
<1>4. ASSUME UNCHANGED bulkheadVars PROVE BulkheadInv'
  BY <1>4 DEF bulkheadVars, BulkheadInv, Aboard, HasRoom
<1>. QED
  BY <1>2, <1>3, <1>4, DrainKeeps DEF BulkheadNext

\* Who waits in line was not passed by anyone.
LEMMA BulkheadHolds ==
    ASSUME ValvesAssumption, BulkheadInv
    PROVE  NobodyOvertakes
<1>1. [c \in CallIds |-> IF c \in Running THEN 1 ELSE 0]
        = [c \in CallIds |-> IF inFlight[c] = Never THEN 0 ELSE 1]
  BY DEF Running
<1>. QED
  BY <1>1 DEF BulkheadInv, NobodyOvertakes, Aboard

-----------------------------------------------------------------------------
(* The ladder and the buckets                                              *)

\* Stages that are shed later come back sooner.
RestoresInOrder == \A s, t \in Stages : s < t => RestoreAt[s] <= RestoreAt[t]

\* And of two shed stages the one that comes back sooner is calm at least as long.
LadderInv ==
    /\ shed \subseteq Stages
    /\ calm \in [Stages -> Nat \cup {Never}]
    /\ RestoresInOrder => \A s, t \in Stages :
                             s < t /\ t \in shed => s \in shed /\ calm[s] <= calm[t]

\* A new ladder serves everything.
LEMMA LadderStarts ==
    ASSUME LadderInit
    PROVE  LadderInv
BY DEF LadderInit, LadderInv

\* Whatever load is observed, the essential stages are off no longer than the others.
LEMMA ObserveKeeps ==
    ASSUME ValvesAssumption, StagesAreOrdered, LadderInv, NEW load \in Loads, Observe(load)
    PROVE  LadderInv'
<1>. DEFINE gone == shed \cup {s \in Stages : load >= ShedAt[s]}
            rest == [s \in Stages |->
                       IF s \notin gone \/ load >= RestoreAt[s] THEN Never
                       ELSE IF calm[s] = Never THEN 0 ELSE calm[s]]
            back == {s \in gone : rest[s] >= RestoreHold}
<1>1. /\ shed' = gone \ back
      /\ calm' = [s \in Stages |-> IF s \in back THEN Never ELSE rest[s]]
  BY DEF Observe
<1>2. shed \subseteq Stages /\ calm \in [Stages -> Nat \cup {Never}]
  BY DEF LadderInv
<1>3. gone \subseteq Stages /\ rest \in [Stages -> Nat \cup {Never}]
  BY <1>2
<1>4. shed' \subseteq Stages /\ calm' \in [Stages -> Nat \cup {Never}]
  BY <1>1, <1>3
<1>5. /\ load \in Int /\ RestoreHold \in Nat
      /\ \A s \in Stages : s \in Nat /\ ShedAt[s] \in Int /\ RestoreAt[s] \in Int
  BY DEF ValvesAssumption, Stages
<1>6. ASSUME RestoresInOrder, NEW s \in Stages, NEW t \in Stages, s < t, t \in shed'
      PROVE  s \in shed' /\ calm'[s] <= calm'[t]
  <2>1. /\ RestoreAt[s] <= RestoreAt[t] /\ ShedAt[s] <= ShedAt[t]
        /\ RestoreAt[t] < ShedAt[t]
        /\ t \in shed => s \in shed /\ calm[s] <= calm[t]
    BY <1>6 DEF RestoresInOrder, LadderInv, StagesAreOrdered, Stages
  <2>2. t \in gone /\ t \notin back
    BY <1>1, <1>6
  <2>3. s \in gone
    BY <1>5, <2>1, <2>2
  <2>4. ASSUME rest[s] # Never PROVE rest[t] # Never /\ rest[s] <= rest[t]
    <3>1. load < RestoreAt[s]
      BY <1>5, <2>4
    <3>2. load < RestoreAt[t] /\ t \in shed /\ s \in shed
      BY <1>5, <2>1, <2>2, <3>1
    <3>. QED
      BY <1>2, <1>5, <2>1, <2>2, <2>3, <3>1, <3>2 DEF Never
  <2>. HIDE DEF rest, gone
  <2>5. s \notin back
    BY <1>3, <1>5, <2>2, <2>3, <2>4 DEF Never
  <2>6. calm'[s] = rest[s] /\ calm'[t] = rest[t]
    BY <1>1, <2>2, <2>5
  <2>7. rest[s] <= rest[t]
    BY <1>3, <2>4 DEF Never
  <2>. QED
    BY <1>1, <2>3, <2>5, <2>6, <2>7
<1>. QED
  BY <1>4, <1>6 DEF LadderInv, RestoresInOrder

\* Each step of the ladder leaves it so.
LEMMA LadderSteps ==
    ASSUME ValvesAssumption, StagesAreOrdered, LadderInv, [LadderNext]_ladderVars
    PROVE  LadderInv'
<1>1. ASSUME LadderTick PROVE LadderInv'
  <2>1. /\ calm \in [Stages -> Nat \cup {Never}] /\ RestoreHold \in Nat
        /\ UNCHANGED shed
        /\ calm' = [s \in Stages |-> Passes(calm[s], RestoreHold)]
    BY <1>1 DEF LadderTick, LadderInv, ValvesAssumption
  <2>2. \A n \in Nat \cup {Never} : Passes(n, RestoreHold) \in Nat \cup {Never}
    BY <2>1 DEF Passes, Never, Capped
  <2>3. \A m, n \in Nat \cup {Never} :
           m <= n => Passes(m, RestoreHold) <= Passes(n, RestoreHold)
    BY <2>1 DEF Passes, Never, Capped
  <2>. QED
    BY <2>1, <2>2, <2>3 DEF LadderInv, RestoresInOrder
<1>2. ASSUME UNCHANGED ladderVars PROVE LadderInv'
  BY <1>2 DEF LadderInv, RestoresInOrder, ladderVars
<1>. QED
  BY <1>1, <1>2, ObserveKeeps DEF LadderNext

\* What is shed was shed from the least important stage on.
LEMMA LadderHolds == LadderInv => ExpendableFirst
  BY DEF LadderInv, ExpendableFirst, RestoresInOrder

-----------------------------------------------------------------------------
\* A refused client has, with what is added until it was told to come, a token.
LimiterInv ==
    /\ level \in [Clients -> Nat]
    /\ promise \in [Clients -> Nat \cup {Never}]
    /\ \A c \in Clients : promise[c] # Never => level[c] + promise[c] * Rate >= Token
    /\ reserve \in Nat
    /\ reserve >= Capped(ReserveFloor, ReserveBurst * Token)

\* A quotient that is rounded up is enough.
LEMMA RoundedUp ==
    ASSUME NEW x \in Nat, NEW r \in Nat \ {0}
    PROVE  (x + r - 1) \div r \in Nat /\ ((x + r - 1) \div r) * r >= x
OBVIOUS

\* Full buckets hold a token.
LEMMA LimiterStarts ==
    ASSUME ValvesAssumption, LimiterInit
    PROVE  LimiterInv
<1>1. Burst * Token \in Nat /\ ReserveBurst * Token \in Nat /\ ReserveFloor \in Nat
  BY DEF ValvesAssumption
<1>. QED
  BY <1>1 DEF LimiterInit, LimiterInv, Capped

\* A call and a tick keep the promises.
LEMMA LimiterSteps ==
    ASSUME ValvesAssumption, LimiterInv, [LimiterNext]_limiterVars
    PROVE  LimiterInv'
<1>1. /\ Token \in Nat \ {0} /\ Rate \in Nat \ {0} /\ ReserveRate \in Nat
      /\ ReserveFloor \in Nat
      /\ Burst * Token \in Nat /\ ReserveBurst * Token \in Nat /\ Burst * Token >= Token
  BY DEF ValvesAssumption
<1>2. /\ level \in [Clients -> Nat] /\ promise \in [Clients -> Nat \cup {Never}]
      /\ \A c \in Clients : promise[c] # Never => level[c] + promise[c] * Rate >= Token
      /\ reserve \in Nat /\ reserve >= Capped(ReserveFloor, ReserveBurst * Token)
  BY DEF LimiterInv
<1>3. ASSUME NEW c \in Clients, AllowClient(c) PROVE LimiterInv'
  <2>1. CASE /\ level[c] >= Token /\ level' = [level EXCEPT ![c] = @ - Token]
             /\ promise' = [promise EXCEPT ![c] = Never] /\ UNCHANGED reserve
    <3>1. level' \in [Clients -> Nat] /\ promise' \in [Clients -> Nat \cup {Never}]
      BY <1>1, <1>2, <2>1
    <3>. QED
      BY <1>1, <1>2, <2>1, <3>1 DEF LimiterInv
  <2>2. CASE /\ reserve - Token >= ReserveFloor /\ reserve' = reserve - Token
             /\ promise' = [promise EXCEPT ![c] = Never] /\ UNCHANGED level
    <3>1. promise' \in [Clients -> Nat \cup {Never}]
      BY <1>1, <1>2, <2>2
    <3>2. reserve' \in Nat /\ reserve' >= Capped(ReserveFloor, ReserveBurst * Token)
      BY <1>1, <1>2, <2>2 DEF Capped
    <3>. QED
      BY <1>1, <1>2, <2>2, <3>1, <3>2 DEF LimiterInv
  <2>3. CASE /\ level[c] < Token /\ promise' = [promise EXCEPT ![c] = WaitForOne(c)]
             /\ UNCHANGED <<level, reserve>>
    <3>1. level[c] \in Nat /\ Token - level[c] \in Nat
      BY <1>1, <1>2, <2>3
    <3>2. WaitForOne(c) \in Nat /\ WaitForOne(c) * Rate >= Token - level[c]
      BY <1>1, <3>1, RoundedUp DEF WaitForOne
    <3>3. level[c] + WaitForOne(c) * Rate >= Token
      <4>1. WaitForOne(c) * Rate \in Nat
        BY <1>1, <3>2
      <4>. QED
        BY <1>1, <3>1, <3>2, <4>1
    <3>4. /\ promise' \in [Clients -> Nat \cup {Never}] /\ promise'[c] = WaitForOne(c)
          /\ \A d \in Clients : d # c => promise'[d] = promise[d]
      BY <1>2, <2>3, <3>2
    <3>. QED
      BY <1>1, <1>2, <2>3, <3>3, <3>4 DEF LimiterInv
  <2>. QED
    BY <1>3, <2>1, <2>2, <2>3 DEF AllowClient
<1>4. ASSUME LimiterTick PROVE LimiterInv'
  <2>1. /\ level' \in [Clients -> Nat] /\ promise' \in [Clients -> Nat \cup {Never}]
        /\ reserve' \in Nat /\ reserve' >= Capped(ReserveFloor, ReserveBurst * Token)
    BY <1>1, <1>2, <1>4 DEF LimiterTick, Capped, Never
  <2>2. ASSUME NEW c \in Clients, promise'[c] # Never
        PROVE  level'[c] + promise'[c] * Rate >= Token
    <3>. DEFINE p == promise[c]
                l == level[c]
                full == Burst * Token
    <3>1. /\ p \in Nat /\ l \in Nat /\ l + p * Rate >= Token
          /\ promise'[c] = IF p > 0 THEN p - 1 ELSE p
          /\ level'[c] = Capped(l + Rate, full)
      BY <1>2, <1>4, <2>2 DEF LimiterTick, Never
    <3>2. full \in Nat /\ full >= Token
      BY <1>1
    <3>. HIDE DEF p, l, full
    <3>3. CASE p > 0
      <4>1. p - 1 \in Nat /\ (p - 1) * Rate = p * Rate - Rate /\ (p - 1) * Rate \in Nat
        BY <1>1, <3>1, <3>3
      <4>2. p * Rate \in Nat
        BY <1>1, <3>1
      <4>3. promise'[c] = p - 1
        BY <3>1, <3>3
      <4>. QED
        BY <1>1, <3>1, <3>2, <4>1, <4>2, <4>3 DEF Capped
    <3>4. CASE p = 0
      BY <1>1, <3>1, <3>2, <3>4 DEF Capped
    <3>. QED
      BY <3>1, <3>3, <3>4
  <2>. QED
    BY <2>1, <2>2 DEF LimiterInv
<1>5. ASSUME UNCHANGED limiterVars PROVE LimiterInv'
  BY <1>5 DEF limiterVars, LimiterInv
<1>. QED
  BY <1>3, <1>4, <1>5 DEF LimiterNext

\* A client that waited for what it was told finds it in its bucket.
LEMMA LimiterHolds ==
    ASSUME ValvesAssumption, LimiterInv
    PROVE  PromiseKept
<1>1. ASSUME NEW c \in Clients, promise[c] = 0 PROVE level[c] >= Token
  <2>1. level[c] \in Nat /\ level[c] + 0 * Rate >= Token /\ Rate \in Nat
    BY <1>1 DEF LimiterInv, Never, ValvesAssumption
  <2>. QED
    BY <2>1
<1>. QED
  BY <1>1 DEF LimiterInv, PromiseKept

-----------------------------------------------------------------------------
(* The keys                                                                *)

\* The attempts in one of some places.
Where(places) == {a \in Attempts : attempt[a] \in places}

Places == {"idle", "waiting", "running", "landed", "told", "refused", "crashed"}

\* Every attempt at work but one was given up while it seemed dead: the one that
\* holds the key.  So an effect, or an attempt that is to have one, stands for one
\* that was given up or for what the key remembers.
KeyInv ==
    /\ attempt \in [Attempts -> Places]
    /\ entry.status \in {"none", "running", "done"}
    /\ effects \in Nat /\ doubts \in Nat
    /\ Cardinality(Where({"running", "landed"}))
          <= doubts + IF entry.status = "running" THEN 1 ELSE 0
    /\ effects + Cardinality(Where({"running"}))
          <= doubts + IF entry.status = "none" THEN 0 ELSE 1
    /\ answers \subseteq IF entry.status = "done" THEN {entry.response} ELSE {}

\* An attempt goes to a place.
Goes(a, p) == attempt' = [attempt EXCEPT ![a] = p]

\* The attempts in some places are finitely many.
LEMMA FewAreThere ==
    ASSUME CallsAssumption, NEW S
    PROVE  IsFiniteSet(Where(S)) /\ Cardinality(Where(S)) \in Nat
<1>1. Where(S) \subseteq Attempts /\ IsFiniteSet(Attempts)
  BY DEF Where, CallsAssumption
<1>. QED
  BY <1>1, FS_Subset, FS_CardinalityType

\* An attempt that goes elsewhere comes, leaves, stays or stays away.
LEMMA OneMoves ==
    ASSUME CallsAssumption, attempt \in [Attempts -> Places], NEW a \in Attempts, NEW p,
           attempt' = [attempt EXCEPT ![a] = p], NEW S
    PROVE  /\ p \in S /\ attempt[a] \notin S
                 => Cardinality(Where(S)') = Cardinality(Where(S)) + 1
           /\ p \in S /\ attempt[a] \in S => Cardinality(Where(S)') = Cardinality(Where(S))
           /\ p \notin S /\ attempt[a] \in S
                 => Cardinality(Where(S)') = Cardinality(Where(S)) - 1
           /\ p \notin S /\ attempt[a] \notin S
                 => Cardinality(Where(S)') = Cardinality(Where(S))
<1>1. IsFiniteSet(Where(S))
  BY FewAreThere
<1>2. CASE p \in S /\ attempt[a] \notin S
  <2>1. Where(S)' = Where(S) \cup {a} /\ a \notin Where(S)
    BY <1>2 DEF Where
  <2>. QED
    BY <1>1, <1>2, <2>1, FS_AddElement
<1>3. CASE p \notin S /\ attempt[a] \in S
  <2>1. Where(S)' = Where(S) \ {a} /\ a \in Where(S)
    BY <1>3 DEF Where
  <2>. QED
    BY <1>1, <1>3, <2>1, FS_RemoveElement
<1>4. CASE p \in S <=> attempt[a] \in S
  <2>1. Where(S)' = Where(S)
    BY <1>4 DEF Where
  <2>. QED
    BY <1>4, <2>1
<1>. QED
  BY <1>2, <1>3, <1>4

\* A key nobody has used.
LEMMA KeyStarts ==
    ASSUME CallsAssumption, KeyInit
    PROVE  KeyInv
<1>1. Where({"running", "landed"}) = {} /\ Where({"running"}) = {}
  BY DEF KeyInit, Where
<1>2. Cardinality({}) = 0
  BY FS_EmptySet
<1>. QED
  BY <1>1, <1>2 DEF KeyInit, KeyInv, Places, NoEntry

\* What an attempt does to a key.
LEMMA KeySteps ==
    ASSUME CallsAssumption, KeyInv, [KeyNext]_keyVars
    PROVE  KeyInv'
<1>. DEFINE alive == Cardinality(Where({"running", "landed"}))
            toLand == Cardinality(Where({"running"}))
            status == entry.status
<1>1. /\ attempt \in [Attempts -> Places]
      /\ status \in {"none", "running", "done"}
      /\ effects \in Nat /\ doubts \in Nat
      /\ alive <= doubts + IF status = "running" THEN 1 ELSE 0
      /\ effects + toLand <= doubts + IF status = "none" THEN 0 ELSE 1
      /\ answers \subseteq IF status = "done" THEN {entry.response} ELSE {}
  BY DEF KeyInv
<1>2. /\ alive \in Nat /\ toLand \in Nat /\ toLand <= alive
      /\ alive' \in Nat /\ toLand' \in Nat
  <2>1. Where({"running"}) \subseteq Where({"running", "landed"})
    BY DEF Where
  <2>2. /\ IsFiniteSet(Where({"running", "landed"})) /\ alive \in Nat
        /\ IsFiniteSet(Where({"running"})) /\ toLand \in Nat
    BY FewAreThere
  <2>3. alive' \in Nat /\ toLand' \in Nat
    <3>1. \A S : Cardinality(Where(S)) \in Nat
      BY FewAreThere
    <3>2. IsFiniteSet(Where({"running", "landed"})') /\ IsFiniteSet(Where({"running"})')
      <4>1. /\ Where({"running", "landed"})' \subseteq Attempts
            /\ Where({"running"})' \subseteq Attempts /\ IsFiniteSet(Attempts)
        BY DEF Where, CallsAssumption
      <4>. QED
        BY <4>1, FS_Subset
    <3>. QED
      BY <3>2, FS_CardinalityType
  <2>. QED
    BY <2>1, <2>2, <2>3, FS_Subset
<1>3. ASSUME NEW a \in Attempts, NEW p \in Places, Goes(a, p)
      PROVE  /\ attempt' \in [Attempts -> Places]
             /\ alive' = alive + (IF p \in {"running", "landed"} THEN 1 ELSE 0)
                               - (IF attempt[a] \in {"running", "landed"} THEN 1 ELSE 0)
             /\ toLand' = toLand + (IF p = "running" THEN 1 ELSE 0)
                                 - (IF attempt[a] = "running" THEN 1 ELSE 0)
  <2>1. /\ p \in {"running"} /\ attempt[a] \notin {"running"} => toLand' = toLand + 1
        /\ p \in {"running"} /\ attempt[a] \in {"running"} => toLand' = toLand
        /\ p \notin {"running"} /\ attempt[a] \in {"running"} => toLand' = toLand - 1
        /\ p \notin {"running"} /\ attempt[a] \notin {"running"} => toLand' = toLand
    BY <1>1, <1>3, OneMoves DEF Goes
  <2>2. \A S : S = {"running", "landed"} =>
        /\ p \in S /\ attempt[a] \notin S => alive' = alive + 1
        /\ p \in S /\ attempt[a] \in S => alive' = alive
        /\ p \notin S /\ attempt[a] \in S => alive' = alive - 1
        /\ p \notin S /\ attempt[a] \notin S => alive' = alive
    BY <1>1, <1>3, OneMoves DEF Goes
  <2>. QED
    BY <1>1, <1>2, <1>3, <2>1, <2>2 DEF Goes
<1>4. UNCHANGED attempt => alive' = alive /\ toLand' = toLand
  BY DEF Where
<1>. SUFFICES /\ attempt' \in [Attempts -> Places]
              /\ status' \in {"none", "running", "done"}
              /\ effects' \in Nat /\ doubts' \in Nat
              /\ alive' <= doubts' + IF status' = "running" THEN 1 ELSE 0
              /\ effects' + toLand' <= doubts' + IF status' = "none" THEN 0 ELSE 1
              /\ answers' \subseteq IF status' = "done" THEN {entry'.response} ELSE {}
  BY DEF KeyInv
<1>. HIDE DEF alive, toLand, status
<1>5. {"waiting", "running", "landed", "told", "refused", "crashed", "idle"} \subseteq Places
  BY DEF Places
<1>6. CASE KeyTick
  <2>1. /\ entry' = [entry EXCEPT !.age = @ + 1]
        /\ UNCHANGED <<attempt, effects, answers, doubts>>
    BY <1>6 DEF KeyTick
  <2>2. status' = status /\ entry'.response = entry.response
    BY <2>1 DEF status
  <2>. QED
    BY <1>1, <1>4, <2>1, <2>2
<1>7. ASSUME NEW a \in Attempts, Begin(a)
      PROVE  /\ attempt' \in [Attempts -> Places]
             /\ status' \in {"none", "running", "done"}
             /\ effects' \in Nat /\ doubts' \in Nat
             /\ alive' <= doubts' + IF status' = "running" THEN 1 ELSE 0
             /\ effects' + toLand' <= doubts' + IF status' = "none" THEN 0 ELSE 1
             /\ answers' \subseteq IF status' = "done" THEN {entry'.response} ELSE {}
  <2>1. /\ attempt[a] \in {"idle", "waiting"} /\ doubts' = doubts
        /\ effects' = IF Swept # entry THEN 0 ELSE effects
    BY <1>7 DEF Begin
  <2>2. CASE KeyExpired
    <3>1. Swept = NoEntry /\ Swept.status = "none" /\ status = "done" /\ Swept # entry
      BY <2>2 DEF KeyExpired, Swept, NoEntry, status
    <3>2. /\ entry' = [status |-> "running", response |-> NoAnswer, age |-> 0]
          /\ Goes(a, "running")
          /\ answers' = {} /\ effects' = 0
      BY <1>7, <2>1, <3>1 DEF Begin, Goes
    <3>3. status' = "running"
      BY <3>2 DEF status
    <3>4. alive' = alive + 1 /\ toLand' = toLand + 1 /\ attempt' \in [Attempts -> Places]
      BY <1>2, <1>3, <1>5, <2>1, <3>2
    <3>. QED
      BY <1>1, <1>2, <2>1, <3>1, <3>2, <3>3, <3>4
  <2>3. CASE ~KeyExpired
    <3>1. Swept = entry
      BY <2>3 DEF Swept
    <3>2. CASE status = "none"
      <4>1. /\ entry' = [status |-> "running", response |-> NoAnswer, age |-> 0]
            /\ Goes(a, "running")
            /\ answers' = answers /\ effects' = effects
        BY <1>7, <2>1, <3>1, <3>2 DEF Begin, status, Goes
      <4>2. status' = "running"
        BY <4>1 DEF status
      <4>3. alive' = alive + 1 /\ toLand' = toLand + 1 /\ attempt' \in [Attempts -> Places]
        BY <1>2, <1>3, <1>5, <2>1, <4>1
      <4>. QED
        BY <1>1, <1>2, <2>1, <3>2, <4>1, <4>2, <4>3
    <3>3. CASE status = "running"
      <4>1. /\ Goes(a, "waiting")
            /\ UNCHANGED <<entry, answers, effects>>
        BY <1>7, <2>1, <3>1, <3>3 DEF Begin, status, Goes
      <4>2. alive' = alive /\ toLand' = toLand /\ attempt' \in [Attempts -> Places]
        BY <1>2, <1>3, <1>5, <2>1, <4>1
      <4>3. status' = status
        BY <4>1 DEF status
      <4>. QED
        BY <1>1, <1>2, <2>1, <4>1, <4>2, <4>3
    <3>4. CASE status = "done"
      <4>1. /\ Goes(a, "told")
            /\ answers' = answers \cup {entry.response} /\ UNCHANGED <<entry, effects>>
        BY <1>7, <2>1, <3>1, <3>4 DEF Begin, status, Goes
      <4>2. alive' = alive /\ toLand' = toLand /\ attempt' \in [Attempts -> Places]
        BY <1>2, <1>3, <1>5, <2>1, <4>1
      <4>3. status' = status
        BY <4>1 DEF status
      <4>. QED
        BY <1>1, <1>2, <2>1, <3>4, <4>1, <4>2, <4>3
    <3>. QED
      BY <1>1, <3>2, <3>3, <3>4
  <2>. QED
    BY <2>2, <2>3
<1>8. ASSUME NEW a \in Attempts, Land(a)
      PROVE  /\ attempt' \in [Attempts -> Places] /\ UNCHANGED <<entry, answers, doubts>>
             /\ alive' = alive /\ toLand' = toLand - 1 /\ effects' = effects + 1
  <2>1. /\ attempt[a] = "running" /\ Goes(a, "landed") /\ effects' = effects + 1
        /\ UNCHANGED <<entry, answers, doubts>>
    BY <1>8 DEF Land, Goes
  <2>. QED
    BY <1>2, <1>3, <1>5, <2>1
<1>9. ASSUME NEW a \in Attempts, Finish(a)
      PROVE  /\ attempt' \in [Attempts -> Places]
             /\ alive' = alive - 1 /\ toLand' = toLand
             /\ UNCHANGED <<effects, doubts>>
             /\ \/ /\ status = "running" /\ answers' = answers \cup {a}
                   /\ status' = "done" /\ entry'.response = a
                \/ status # "running" /\ UNCHANGED <<entry, answers>>
  <2>1. /\ attempt[a] = "landed" /\ UNCHANGED <<effects, doubts>>
        /\ \/ /\ status = "running" /\ answers' = answers \cup {a}
              /\ entry' = [status |-> "done", response |-> a, age |-> 0]
              /\ Goes(a, "told")
           \/ /\ status # "running" /\ UNCHANGED <<entry, answers>>
              /\ Goes(a, "refused")
    BY <1>9 DEF Finish, status, Goes
  <2>2. alive' = alive - 1 /\ toLand' = toLand /\ attempt' \in [Attempts -> Places]
    BY <1>2, <1>3, <1>5, <2>1
  <2>. QED
    BY <2>1, <2>2 DEF status
<1>10. ASSUME NEW a \in Attempts, Abandon(a)
       PROVE  /\ attempt' \in [Attempts -> Places] /\ UNCHANGED <<effects, answers>>
              /\ alive' <= alive /\ toLand' <= toLand /\ doubts' = doubts + 1
              /\ status = "running" /\ status' = "none"
  <2>1. /\ status = "running" /\ entry' = NoEntry /\ doubts' = doubts + 1
        /\ UNCHANGED <<effects, answers>>
        /\ Goes(a, "crashed") \/ UNCHANGED attempt
    BY <1>10 DEF Abandon, status, Goes
  <2>2. status' = "none"
    BY <2>1 DEF status, NoEntry
  <2>3. CASE Goes(a, "crashed")
    BY <1>2, <1>3, <1>5, <2>1, <2>2, <2>3
  <2>4. CASE UNCHANGED attempt
    BY <1>1, <1>2, <1>4, <2>1, <2>2, <2>4
  <2>. QED
    BY <2>1, <2>3, <2>4
<1>11. ASSUME NEW a \in Attempts, Repeat(a)
       PROVE  /\ attempt' \in [Attempts -> Places]
              /\ UNCHANGED <<entry, effects, answers, doubts>>
              /\ alive' = alive /\ toLand' = toLand
  <2>1. /\ attempt[a] = "told" /\ Goes(a, "idle")
        /\ UNCHANGED <<entry, effects, answers, doubts>>
    BY <1>11 DEF Repeat, Goes
  <2>. QED
    BY <1>2, <1>3, <1>5, <2>1
<1>12. UNCHANGED entry => status' = status
  BY DEF status
<1>13. CASE UNCHANGED keyVars
  BY <1>1, <1>4, <1>12, <1>13 DEF keyVars
<1>14. CASE \E a \in Attempts : Land(a)
  BY <1>1, <1>2, <1>8, <1>12, <1>14
<1>15. CASE \E a \in Attempts : Finish(a)
  BY <1>1, <1>2, <1>9, <1>12, <1>15
<1>16. CASE \E a \in Attempts : Abandon(a)
  BY <1>1, <1>2, <1>10, <1>16
<1>17. CASE \E a \in Attempts : Repeat(a)
  BY <1>1, <1>2, <1>11, <1>12, <1>17
<1>. QED
  BY <1>6, <1>7, <1>13, <1>14, <1>15, <1>16, <1>17 DEF KeyNext

\* An intent lands once, and every attempt that is told something is told that.
LEMMA KeyHolds ==
    ASSUME CallsAssumption, KeyInv
    PROVE  LandsOnce
<1>1. /\ Cardinality(Where({"running", "landed"})) \in Nat
      /\ Cardinality(Where({"running"})) \in Nat
      /\ IsFiniteSet(Where({"running", "landed"}))
  BY FewAreThere
<1>2. effects <= 1 + doubts
  BY <1>1 DEF KeyInv
<1>3. Cardinality(answers) <= 1
  <2>1. answers \subseteq {entry.response}
    BY DEF KeyInv
  <2>2. IsFiniteSet({entry.response}) /\ Cardinality({entry.response}) = 1
    BY FS_Singleton
  <2>3. Cardinality(answers) <= Cardinality({entry.response})
    BY <2>1, <2>2, FS_Subset
  <2>. QED
    BY <2>2, <2>3
<1>4. ASSUME NEW a \in Attempts, attempt[a] \in {"running", "landed"}, doubts = 0
      PROVE  entry.status = "running"
  <2>1. a \in Where({"running", "landed"})
    BY <1>4 DEF Where
  <2>2. Cardinality(Where({"running", "landed"})) # 0
    BY <1>1, <2>1, FS_EmptySet
  <2>. QED
    BY <1>1, <1>4, <2>2 DEF KeyInv
<1>. QED
  BY <1>2, <1>3, <1>4 DEF LandsOnce

-----------------------------------------------------------------------------
(* The flights and the budget of retries                                   *)

Flights == [leader : Askers \cup {NoAnswer}, passengers : SUBSET Askers, began : Nat, read : Nat]

\* A flight that is in the air began with an answer that was current then.
FlightInv ==
    /\ flight \in Flights
    /\ asker \in [Askers -> [at : {"idle", "aboard"}, told : Nat]]
    /\ version \in Nat \ {0}
    /\ flight # Grounded => /\ flight.began \in 1..version
                            /\ flight.leader \in Askers
                            /\ flight.read # 0 => flight.read >= flight.began
    /\ AboardIsWaiting

\* Nobody asks yet.
LEMMA FlightStarts ==
    ASSUME FlightInit
    PROVE  FlightInv
BY DEF FlightInit, FlightInv, Flights, Grounded, AboardIsWaiting

\* Each step of the flight.
LEMMA FlightSteps ==
    ASSUME FlightInv, [FlightNext]_flightVars
    PROVE  FlightInv'
<1>1. /\ flight \in Flights /\ version \in Nat \ {0}
      /\ asker \in [Askers -> [at : {"idle", "aboard"}, told : Nat]]
      /\ flight # Grounded => /\ flight.began \in 1..version
                              /\ flight.leader \in Askers
                              /\ flight.read # 0 => flight.read >= flight.began
      /\ {c \in Askers : asker[c].at = "aboard"} =
            IF flight = Grounded THEN {} ELSE flight.passengers \union {flight.leader}
  BY DEF FlightInv, AboardIsWaiting
<1>2. Grounded \in Flights /\ Grounded.read = 0 /\ Grounded.began = 0
  BY DEF Grounded, Flights
<1>3. ASSUME NEW c \in Askers, AskBackend(c) PROVE FlightInv'
  <2>1. /\ asker' = [asker EXCEPT ![c].at = "aboard"] /\ UNCHANGED version
        /\ asker[c].at = "idle"
        /\ flight' = IF flight = Grounded
                 THEN [leader |-> c, passengers |-> {}, began |-> version, read |-> 0]
                 ELSE [flight EXCEPT !.passengers = @ \union {c}]
    BY <1>3 DEF AskBackend
  <2>2. /\ asker' \in [Askers -> [at : {"idle", "aboard"}, told : Nat]]
        /\ {d \in Askers : asker'[d].at = "aboard"}
              = {d \in Askers : asker[d].at = "aboard"} \cup {c}
    BY <1>1, <2>1
  <2>3. CASE flight = Grounded
    <3>1. /\ flight' \in Flights /\ flight'.began = version /\ flight'.read = 0
          /\ flight'.leader = c /\ flight'.passengers = {}
      BY <1>1, <2>1, <2>3 DEF Flights
    <3>2. flight' # Grounded
      BY <1>1, <1>2, <3>1
    <3>. QED
      BY <1>1, <2>1, <2>2, <2>3, <3>1, <3>2 DEF FlightInv, AboardIsWaiting
  <2>4. CASE flight # Grounded
    <3>1. /\ flight' \in Flights /\ flight'.began = flight.began /\ flight'.read = flight.read
          /\ flight'.leader = flight.leader
          /\ flight'.passengers = flight.passengers \cup {c}
      BY <1>1, <2>1, <2>4 DEF Flights
    <3>2. flight' # Grounded
      BY <1>1, <1>2, <2>4, <3>1
    <3>3. {d \in Askers : asker'[d].at = "aboard"}
             = flight'.passengers \cup {flight'.leader}
      BY <1>1, <2>2, <2>4, <3>1
    <3>4. flight'.read # 0 => flight'.read >= flight'.began
      BY <1>1, <2>4, <3>1
    <3>. QED
      BY <1>1, <2>1, <2>2, <2>4, <3>1, <3>2, <3>3, <3>4 DEF FlightInv, AboardIsWaiting
  <2>. QED
    BY <2>3, <2>4
<1>4. ASSUME Read PROVE FlightInv'
  <2>1. /\ flight # Grounded /\ flight' = [flight EXCEPT !.read = version]
        /\ UNCHANGED <<asker, version>>
    BY <1>4 DEF Read
  <2>2. /\ flight' \in Flights /\ flight'.began = flight.began /\ flight'.read = version
        /\ flight'.leader = flight.leader /\ flight'.passengers = flight.passengers
    BY <1>1, <2>1 DEF Flights
  <2>3. flight' # Grounded
    BY <1>1, <1>2, <2>1, <2>2
  <2>4. flight'.read >= flight'.began
    BY <1>1, <2>1, <2>2
  <2>. QED
    BY <1>1, <2>1, <2>2, <2>3, <2>4 DEF FlightInv, AboardIsWaiting
<1>5. ASSUME LandFlight PROVE FlightInv'
  <2>1. /\ flight.read # 0 /\ flight' = Grounded /\ UNCHANGED version
        /\ asker' = [c \in Askers |-> IF c \in flight.passengers \union {flight.leader}
                                  THEN [at |-> "idle", told |-> flight.read]
                                  ELSE asker[c]]
    BY <1>5 DEF LandFlight
  <2>2. flight # Grounded /\ flight.read \in Nat
    BY <1>1, <1>2, <2>1 DEF Flights
  <2>3. asker' \in [Askers -> [at : {"idle", "aboard"}, told : Nat]]
    BY <1>1, <2>1, <2>2
  <2>4. \A c \in Askers : asker'[c].at # "aboard"
    BY <1>1, <2>1, <2>2
  <2>. QED
    BY <1>1, <1>2, <2>1, <2>3, <2>4 DEF FlightInv, AboardIsWaiting
<1>6. ASSUME Change PROVE FlightInv'
  <2>1. version' = version + 1 /\ UNCHANGED <<flight, asker>>
    BY <1>6 DEF Change
  <2>. QED
    BY <1>1, <2>1 DEF FlightInv, AboardIsWaiting
<1>7. ASSUME UNCHANGED flightVars PROVE FlightInv'
  BY <1>7 DEF flightVars, FlightInv, AboardIsWaiting
<1>. QED
  BY <1>3, <1>4, <1>5, <1>6, <1>7 DEF FlightNext

-----------------------------------------------------------------------------
\* What was noted in the last a ticks.
Lately(f, a) == Total(f, 0..(a - 1))

\* However far one looks back: what was granted before that has been earned before it.
BudgetInv ==
    /\ successes \in [0..(RetryWindow - 1) -> Nat]
    /\ spent \in [0..(RetryWindow - 1) -> Nat]
    /\ granted \in Nat /\ earned \in Nat
    /\ \A a \in 0..RetryWindow :
          (granted - Lately(spent, a)) * Den <= (earned - Lately(successes, a)) * Num

\* Notes that grow older by a tick.
Aged(f) == [age \in DOMAIN f |-> IF age = 0 THEN 0 ELSE f[age - 1]]

\* A note that is made now.
Noted(f) == [f EXCEPT ![0] = @ + 1]

\* What was noted in the last ticks is then one tick further back, and a new note is
\* in every look back but the shortest.
LEMMA LookingBack ==
    ASSUME CallsAssumption, NEW f \in [0..(RetryWindow - 1) -> Nat]
    PROVE  /\ Aged(f) \in [0..(RetryWindow - 1) -> Nat]
           /\ Noted(f) \in [0..(RetryWindow - 1) -> Nat]
           /\ SumFunction(f) = Lately(f, RetryWindow)
           /\ Lately(f, 0) = 0 /\ Lately(Aged(f), 0) = 0
           /\ Lately(Noted(f), 0) = 0
           /\ \A a \in 0..RetryWindow : Lately(f, a) \in Nat
           /\ \A a \in 1..RetryWindow :
                 /\ Lately(Aged(f), a) = Lately(f, a - 1)
                 /\ Lately(Noted(f), a) = Lately(f, a) + 1
<1>. DEFINE W == RetryWindow - 1
            g == Noted(f)
            h == Aged(f)
<1>1. W \in Nat /\ 0 \in 0..W /\ RetryWindow = W + 1
  BY DEF CallsAssumption
<1>2. /\ h \in [0..W -> Nat] /\ h[0] = 0 /\ \A i \in 0..W : i # 0 => h[i] = f[i - 1]
  BY <1>1 DEF Aged
<1>3. g \in [0..W -> Nat] /\ g[0] = f[0] + 1 /\ \A i \in 0..W : i # 0 => g[i] = f[i]
  BY <1>1 DEF Noted
<1>4. f \in [0..W -> Nat]
  OBVIOUS
<1>5. SumFunction(f) = Lately(f, RetryWindow)
  BY <1>4, SumIsTotal DEF Lately
<1>. HIDE DEF W, g, h
<1>6. \A p : Lately(p, 0) = 0
  <2>1. 0..(0 - 1) = {}
    OBVIOUS
  <2>. QED
    BY <2>1, TotalOfNone DEF Lately
<1>7. \A a \in 0..RetryWindow : Lately(f, a) \in Nat
  <2>. SUFFICES ASSUME NEW a \in 0..RetryWindow PROVE Lately(f, a) \in Nat
    OBVIOUS
  <2>. DEFINE S == 0..(a - 1)
  <2>1. IsFiniteSet(S)
    BY <1>1, FS_Interval
  <2>2. \A i \in S : f[i] \in Nat
    BY <1>1, <1>4
  <2>. HIDE DEF S
  <2>3. Total(f, S) \in Nat
    BY <2>1, <2>2, TotalIsNat
  <2>. QED
    BY <2>3 DEF Lately, S
<1>8. ASSUME NEW a \in 1..RetryWindow
      PROVE  Lately(h, a) = Lately(f, a - 1) /\ Lately(g, a) = Lately(f, a) + 1
  <2>. DEFINE n == a - 1
              S == 0..n
  <2>1. n \in Nat /\ n \in 0..W /\ S \subseteq 0..W /\ 0 \in S /\ n \in S
    BY <1>1
  <2>2. S \ {n} = 0..(n - 1)
    OBVIOUS
  <2>3. Lately(f, a - 1) = Total(f, S \ {n}) /\ Lately(f, a) = Total(f, S)
        /\ Lately(h, a) = Total(h, S) /\ Lately(g, a) = Total(g, S)
    BY <2>2 DEF Lately
  <2>4. IsFiniteSet(S)
    BY <2>1, Numbers
  <2>5. \A i \in S : f[i] \in Nat /\ g[i] \in Nat /\ h[i] \in Nat
    BY <1>2, <1>3, <1>4, <2>1
  <2>6. Total(f, S) = Total(h, S) + f[n] /\ Total(f, S) \in Nat /\ Total(h, S) \in Nat
    <3>1. n \in Nat /\ h[0] = 0 /\ \A i \in 0..n : f[i] \in Nat
      BY <1>2, <2>1, <2>5
    <3>2. \A i \in 0..n : i # 0 => h[i] = f[i - 1]
      BY <1>2, <2>1
    <3>. HIDE DEF n
    <3>. QED
      BY <3>1, <3>2, TotalOfShifted
  <2>. HIDE DEF S, n
  <2>7. Total(f, S) = f[n] + Total(f, S \ {n}) /\ Total(f, S \ {n}) \in Nat
    BY <2>1, <2>4, <2>5, TotalApart
  <2>8. Total(g, S) = Total(f, S) + 1
    <3>1. n \in Nat /\ \A i \in 0..n : f[i] \in Nat
      BY <2>1, <2>5 DEF S
    <3>2. g[0] = f[0] + 1 /\ \A i \in 0..n : i # 0 => g[i] = f[i]
      BY <1>3, <2>1 DEF S
    <3>3. Total(g, 0..n) = Total(f, 0..n) + 1
      BY <3>1, <3>2, TotalOfNoted
    <3>. QED
      BY <3>3 DEF S
  <2>9. f[n] \in Nat
    BY <2>1, <2>5
  <2>. QED
    BY <2>3, <2>6, <2>7, <2>8, <2>9
<1>. QED
  BY <1>2, <1>3, <1>5, <1>6, <1>7, <1>8 DEF W, g, h

\* Nothing earned, nothing granted.
LEMMA BudgetStarts ==
    ASSUME CallsAssumption, RatioIsFraction, BudgetInit
    PROVE  BudgetInv
<1>1. /\ successes \in [0..(RetryWindow - 1) -> Nat] /\ spent \in [0..(RetryWindow - 1) -> Nat]
      /\ successes = spent /\ granted = 0 /\ earned = 0
      /\ \A i \in 0..(RetryWindow - 1) : spent[i] = 0
  BY DEF BudgetInit
<1>2. \A a \in 0..RetryWindow : Lately(spent, a) = 0
  <2>. SUFFICES ASSUME NEW a \in 0..RetryWindow PROVE Lately(spent, a) = 0
    OBVIOUS
  <2>. DEFINE S == 0..(a - 1)
  <2>1. IsFiniteSet(S)
    BY FS_Interval DEF CallsAssumption
  <2>2. \A i \in S : spent[i] = 0
    BY <1>1 DEF CallsAssumption
  <2>. HIDE DEF S
  <2>3. Total(spent, S) = 0
    BY <2>1, <2>2, TotalOfZeros
  <2>. QED
    BY <2>3 DEF Lately, S
<1>3. Num \in Nat /\ Den \in Nat
  BY DEF RatioIsFraction, CallsAssumption
<1>. QED
  BY <1>1, <1>2, <1>3 DEF BudgetInv

\* Each step of the budget.
LEMMA BudgetSteps ==
    ASSUME CallsAssumption, RatioIsFraction, BudgetInv, [BudgetNext]_budgetVars
    PROVE  BudgetInv'
<1>. DEFINE W == RetryWindow
<1>1. /\ successes \in [0..(W - 1) -> Nat] /\ spent \in [0..(W - 1) -> Nat]
      /\ granted \in Nat /\ earned \in Nat
      /\ \A a \in 0..W : (granted - Lately(spent, a)) * Den
                            <= (earned - Lately(successes, a)) * Num
  BY DEF BudgetInv
<1>2. W \in Nat \ {0} /\ Num \in Nat /\ Den \in Nat \ {0}
  BY DEF CallsAssumption, RatioIsFraction
<1>3. /\ SumFunction(successes) = Lately(successes, W) /\ SumFunction(spent) = Lately(spent, W)
      /\ Lately(successes, W) \in Nat /\ Lately(spent, W) \in Nat
      /\ Lately(spent, 0) = 0 /\ Lately(successes, 0) = 0
      /\ \A a \in 0..W : Lately(spent, a) \in Nat /\ Lately(successes, a) \in Nat
  <2>1. 0 \in 0..W /\ W \in 0..W
    BY <1>2
  <2>2. \A f : f \in [0..(W - 1) -> Nat] =>
           /\ SumFunction(f) = Lately(f, W) /\ Lately(f, 0) = 0
           /\ \A a \in 0..W : Lately(f, a) \in Nat
    BY LookingBack
  <2>. QED
    BY <1>1, <2>1, <2>2
<1>4. \A f : f \in [0..(W - 1) -> Nat] =>
           /\ Noted(f) \in [0..(W - 1) -> Nat]
           /\ Lately(Noted(f), 0) = 0
           /\ \A a \in 1..W : Lately(Noted(f), a) = Lately(f, a) + 1
           /\ Aged(f) \in [0..(W - 1) -> Nat] /\ Lately(Aged(f), 0) = 0
           /\ \A a \in 1..W : Lately(Aged(f), a) = Lately(f, a - 1)
  BY LookingBack
<1>. SUFFICES /\ successes' \in [0..(W - 1) -> Nat] /\ spent' \in [0..(W - 1) -> Nat]
              /\ granted' \in Nat /\ earned' \in Nat
              /\ \A a \in 0..W : (granted' - Lately(spent', a)) * Den
                                    <= (earned' - Lately(successes', a)) * Num
  BY DEF BudgetInv, Lately
<1>. HIDE DEF W
<1>5. granted * Den <= earned * Num
  <2>1. 0 \in 0..W
    BY <1>2
  <2>2. (granted - 0) * Den <= (earned - 0) * Num
    BY <1>1, <1>3, <2>1
  <2>. QED
    BY <1>1, <2>2
<1>6. CASE BudgetSucceeded
  <2>1. /\ earned' = earned + 1 /\ UNCHANGED <<spent, granted>>
        /\ successes' = Noted(successes)
    BY <1>6 DEF BudgetSucceeded, Noted
  <2>2. /\ successes' \in [0..(W - 1) -> Nat] /\ Lately(successes', 0) = 0
        /\ \A a \in 1..W : Lately(successes', a) = Lately(successes, a) + 1
    BY <1>1, <1>4, <2>1
  <2>3. ASSUME NEW a \in 0..W
        PROVE  (granted' - Lately(spent', a)) * Den <= (earned' - Lately(successes', a)) * Num
    <3>1. CASE a = 0
      <4>1. granted * Den <= (earned + 1) * Num
        BY <1>1, <1>2, <1>5
      <4>. QED
        BY <1>1, <1>3, <2>1, <2>2, <3>1, <4>1
    <3>2. CASE a # 0
      <4>1. a \in 1..W /\ Lately(successes, a) \in Nat
        BY <1>3, <3>2
      <4>2. earned' - Lately(successes', a) = earned - Lately(successes, a)
        <5>1. earned' = earned + 1 /\ Lately(successes', a) = Lately(successes, a) + 1
          BY <2>1, <2>2, <4>1
        <5>2. earned \in Nat
          BY <1>1
        <5>. QED
          BY <4>1, <5>1, <5>2
      <4>3. granted' - Lately(spent', a) = granted - Lately(spent, a)
        BY <2>1
      <4>. QED
        BY <1>1, <4>2, <4>3
    <3>. QED
      BY <3>1, <3>2
  <2>. QED
    <3>1. successes' \in [0..(W - 1) -> Nat] /\ spent' \in [0..(W - 1) -> Nat]
      BY <1>1, <2>1, <2>2
    <3>2. granted' \in Nat /\ earned' \in Nat
      BY <1>1, <2>1
    <3>. QED
      BY <2>3, <3>1, <3>2
<1>7. CASE Retry
  <2>1. /\ granted' = granted + 1 /\ UNCHANGED <<successes, earned>>
        /\ spent' = Noted(spent) /\ MayRetry
    BY <1>7 DEF Retry, Noted
  <2>2. /\ spent' \in [0..(W - 1) -> Nat] /\ Lately(spent', 0) = 0
        /\ \A a \in 1..W : Lately(spent', a) = Lately(spent, a) + 1
    BY <1>1, <1>4, <2>1
  <2>3. (granted + 1) * Den <= earned * Num
    <3>. DEFINE s == Lately(spent, W)
                t == Lately(successes, W)
                x == t * Num
    <3>1. s \in Nat /\ t \in Nat /\ s < x \div Den
      BY <1>3, <2>1 DEF MayRetry
    <3>2. (granted - s) * Den <= (earned - t) * Num
      BY <1>1, <1>2
    <3>3. x \in Nat
      BY <1>2, <3>1
    <3>4. (s + 1) * Den <= x
      <4>. HIDE DEF s, x
      <4>1. \A k \in Nat : \A d \in Nat \ {0} : \A y \in Nat :
                k < y \div d => (k + 1) * d <= y
        <5>. SUFFICES ASSUME NEW k \in Nat, NEW d \in Nat \ {0}, NEW y \in Nat, k < y \div d
                      PROVE  (k + 1) * d <= y
          OBVIOUS
        <5>1. (y \div d) * d <= y /\ y \div d \in Nat
          OBVIOUS
        <5>2. PICK q \in Nat : q = y \div d
          BY <5>1
        <5>3. q >= k + 1 /\ q * d <= y
          BY <5>1, <5>2
        <5>4. (k + 1) * d <= q * d
          BY <5>3
        <5>. QED
          BY <5>3, <5>4
      <4>. QED
        BY <1>2, <3>1, <3>3, <4>1
    <3>. HIDE DEF s, t
    <3>5. (granted - s) * Den = granted * Den - s * Den
      BY <1>1, <1>2, <3>1
    <3>6. (earned - t) * Num = earned * Num - t * Num
      BY <1>1, <1>2, <3>1
    <3>7. (s + 1) * Den = s * Den + Den /\ (granted + 1) * Den = granted * Den + Den
      BY <1>1, <1>2, <3>1
    <3>8. /\ granted * Den \in Int /\ s * Den \in Int /\ earned * Num \in Int
          /\ t * Num \in Int
      BY <1>1, <1>2, <3>1
    <3>. QED
      BY <1>2, <3>2, <3>4, <3>5, <3>6, <3>7, <3>8
  <2>4. ASSUME NEW a \in 0..W
        PROVE  (granted' - Lately(spent', a)) * Den <= (earned' - Lately(successes', a)) * Num
    <3>1. CASE a = 0
      BY <1>1, <1>3, <2>1, <2>2, <2>3, <3>1
    <3>2. CASE a # 0
      <4>1. a \in 1..W /\ Lately(spent, a) \in Nat
        BY <1>3, <3>2
      <4>2. granted' - Lately(spent', a) = granted - Lately(spent, a)
        <5>1. granted' = granted + 1 /\ Lately(spent', a) = Lately(spent, a) + 1
          BY <2>1, <2>2, <4>1
        <5>2. granted \in Nat
          BY <1>1
        <5>. QED
          BY <4>1, <5>1, <5>2
      <4>3. earned' - Lately(successes', a) = earned - Lately(successes, a)
        BY <2>1
      <4>. QED
        BY <1>1, <4>2, <4>3
    <3>. QED
      BY <3>1, <3>2
  <2>. QED
    <3>1. successes' \in [0..(W - 1) -> Nat] /\ spent' \in [0..(W - 1) -> Nat]
      BY <1>1, <2>1, <2>2
    <3>2. granted' \in Nat /\ earned' \in Nat
      BY <1>1, <2>1
    <3>. QED
      BY <2>4, <3>1, <3>2
<1>8. CASE BudgetTick
  <2>1. /\ UNCHANGED <<granted, earned>>
        /\ successes' = Aged(successes) /\ spent' = Aged(spent)
    BY <1>8 DEF BudgetTick, Aged
  <2>2. /\ successes' \in [0..(W - 1) -> Nat] /\ Lately(successes', 0) = 0
        /\ \A a \in 1..W : Lately(successes', a) = Lately(successes, a - 1)
        /\ spent' \in [0..(W - 1) -> Nat] /\ Lately(spent', 0) = 0
        /\ \A a \in 1..W : Lately(spent', a) = Lately(spent, a - 1)
    BY <1>1, <1>4, <2>1
  <2>3. ASSUME NEW a \in 0..W
        PROVE  (granted' - Lately(spent', a)) * Den <= (earned' - Lately(successes', a)) * Num
    <3>1. CASE a = 0
      BY <1>1, <1>3, <1>5, <2>1, <2>2, <3>1
    <3>2. CASE a # 0
      <4>1. a \in 1..W /\ a - 1 \in 0..W
        BY <3>2, <1>2
      <4>2. /\ Lately(successes', a) = Lately(successes, a - 1)
            /\ Lately(spent', a) = Lately(spent, a - 1)
        BY <2>2, <4>1
      <4>. QED
        BY <1>1, <2>1, <4>1, <4>2
    <3>. QED
      BY <3>1, <3>2
  <2>. QED
    BY <1>1, <2>1, <2>2, <2>3
<1>9. CASE UNCHANGED budgetVars
  BY <1>1, <1>9 DEF budgetVars
<1>. QED
  BY <1>6, <1>7, <1>8, <1>9 DEF BudgetNext

\* The retries of a window stay within what its calls and successes earned.
LEMMA BudgetHolds ==
    ASSUME CallsAssumption, RatioIsFraction, BudgetInv
    PROVE  RetriesAreEarned
<1>1. 0 \in 0..RetryWindow /\ granted \in Nat /\ earned \in Nat
  BY DEF BudgetInv, CallsAssumption
<1>2. Lately(spent, 0) = 0 /\ Lately(successes, 0) = 0
  BY LookingBack DEF BudgetInv
<1>3. (granted - 0) * Den <= (earned - 0) * Num
  BY <1>1, <1>2 DEF BudgetInv
<1>. QED
  BY <1>1, <1>3 DEF RetriesAreEarned

-----------------------------------------------------------------------------
(* The door, and the schedule of restarts                                  *)

\* What is known of a task.
Known == [phase : {"gone", "Pending", "Bound", "Running", "Succeeded", "Failed", "Evicted"},
          node : Homesteads \cup {Nowhere}]

\* Those who count at the door and came through it are no more than fit.
DoorInv ==
    /\ crew \in [People -> Known]
    /\ Cardinality(Used \ unasked) <= MaxTasks

\* A task is as it is put, and the others as they were.
LEMMA WhereItIsPut ==
    ASSUME crew \in [People -> Known], NEW t \in People, NEW phase, NEW node,
           [phase |-> phase, node |-> node] \in Known, Put(t, phase, node)
    PROVE  /\ crew' \in [People -> Known]
           /\ crew'[t].phase = phase /\ crew'[t].node = node
           /\ \A u \in People : u # t => crew'[u] = crew[u]
<1>. DEFINE now == [phase |-> phase, node |-> node]
<1>1. now.phase = phase /\ now.node = node /\ now \in Known
  OBVIOUS
<1>2. crew' = [crew EXCEPT ![t] = now]
  BY DEF Put
<1>. HIDE DEF now
<1>. QED
  BY <1>1, <1>2

\* There are few people.
LEMMA PeopleAreFew == IsFiniteSet(People)
<1>1. People = ({Primary} \cup {Companion}) \cup {"other"}
  BY DEF People
<1>2. IsFiniteSet({Primary}) /\ IsFiniteSet({Companion}) /\ IsFiniteSet({"other"})
  BY FS_Singleton
<1>3. IsFiniteSet({Primary} \cup {Companion})
  BY <1>2, FS_Union
<1>4. IsFiniteSet(({Primary} \cup {Companion}) \cup {"other"})
  BY <1>2, <1>3, FS_Union
<1>. QED
  BY <1>1, <1>4

\* While nobody who came through the door begins to count, it holds.
LEMMA DoorKeeps ==
    ASSUME DoorInv, crew' \in [People -> Known],
           \A t \in People : There(t)' /\ crew'[t].phase \notin Terminal /\ t \notin unasked'
              => There(t) /\ crew[t].phase \notin Terminal /\ t \notin unasked
    PROVE  DoorInv'
<1>1. (Used \ unasked)' \subseteq Used \ unasked
  BY DEF Used
<1>2. IsFiniteSet(Used \ unasked)
  <2>1. IsFiniteSet(People) /\ Used \ unasked \subseteq People
    BY PeopleAreFew DEF Used
  <2>. QED
    BY <2>1, FS_Subset
<1>3. /\ Cardinality((Used \ unasked)') \in Nat /\ Cardinality(Used \ unasked) \in Nat
      /\ Cardinality((Used \ unasked)') <= Cardinality(Used \ unasked)
  BY <1>1, <1>2, FS_Subset, FS_CardinalityType
<1>. QED
  BY <1>3, LivesAssumption DEF DoorInv, LivesAssumption

\* One task that comes through the door is one more of those who count.
LEMMA DoorAdmits ==
    ASSUME DoorInv, NEW t \in People, AdmitTask(t)
    PROVE  DoorInv'
<1>1. crew \in [People -> Known] /\ Put(t, "Pending", Nowhere) /\ Admits
  BY DEF DoorInv, AdmitTask
<1>2. /\ crew' \in [People -> Known] /\ crew'[t].phase = "Pending"
      /\ \A u \in People : u # t => crew'[u] = crew[u]
  <2>1. [phase |-> "Pending", node |-> Nowhere] \in Known
    BY DEF Known
  <2>. QED
    BY <1>1, <2>1, WhereItIsPut
<1>. DEFINE S == Used \ unasked
            T == {u \in People : There(u)}
<1>3. (Used \ unasked)' \subseteq S \cup {t}
  BY <1>2 DEF Used, There, AdmitTask
<1>4. S \subseteq Used /\ S \subseteq T /\ T \subseteq People /\ Used \subseteq People
  BY DEF Used
<1>5. IsFiniteSet(People)
  BY PeopleAreFew
<1>6. IsFiniteSet(S) /\ IsFiniteSet(Used) /\ IsFiniteSet(T)
  BY <1>4, <1>5, FS_Subset
<1>7. Cardinality(S) <= Cardinality(Used) /\ Cardinality(S) <= Cardinality(T)
  BY <1>4, <1>6, FS_Subset
<1>8. Cardinality(S) \in Nat /\ Cardinality(Used) \in Nat /\ Cardinality(T) \in Nat
  BY <1>6, FS_CardinalityType
<1>9. Cardinality(S) + 1 <= MaxTasks
  <2>. HIDE DEF S
  <2>. QED
    BY <1>1, <1>7, <1>8, LivesAssumption DEF Admits, LivesAssumption
<1>10. /\ IsFiniteSet(S \cup {t})
       /\ Cardinality(S \cup {t}) <= Cardinality(S) + 1
  <2>. HIDE DEF S
  <2>1. /\ IsFiniteSet(S \cup {t})
        /\ Cardinality(S \cup {t}) = IF t \in S THEN Cardinality(S) ELSE Cardinality(S) + 1
    BY <1>6, FS_AddElement
  <2>. QED
    BY <1>8, <2>1
<1>11. /\ Cardinality((Used \ unasked)') <= Cardinality(S \cup {t})
       /\ Cardinality((Used \ unasked)') \in Nat /\ Cardinality(S \cup {t}) \in Nat
  BY <1>3, <1>10, FS_Subset, FS_CardinalityType
<1>. QED
  BY <1>2, <1>8, <1>9, <1>10, <1>11, LivesAssumption DEF DoorInv, LivesAssumption

\* Nobody is there yet.
LEMMA DoorStarts ==
    ASSUME LivesInit
    PROVE  DoorInv
<1>1. crew \in [People -> Known] /\ Used = {}
  BY DEF LivesInit, Known, Used, There
<1>2. Used \ unasked = {}
  BY <1>1
<1>. QED
  BY <1>1, <1>2, FS_EmptySet, LivesAssumption DEF DoorInv, LivesAssumption

\* Each step in the lives.
LEMMA DoorSteps ==
    ASSUME DoorInv, [LivesNext]_crewVars
    PROVE  DoorInv'
<1>1. crew \in [People -> Known]
  BY DEF DoorInv
<1>2. /\ Primary \in People /\ Companion \in People
      /\ \A t \in People : crew[t].phase \in {"gone", "Pending", "Bound", "Running", "Succeeded",
                                              "Failed", "Evicted"}
      /\ \A t \in People : crew[t].node \in Homesteads \cup {Nowhere}
  BY <1>1 DEF People, Primary, Companion, Known
<1>3. \A phase \in {"gone", "Pending", "Bound", "Running", "Succeeded", "Failed", "Evicted"},
         node \in Homesteads \cup {Nowhere} : [phase |-> phase, node |-> node] \in Known
  BY DEF Known
<1>4. ASSUME NEW t \in People, NEW phase, NEW node, Put(t, phase, node),
             phase \in {"gone", "Pending", "Bound", "Running", "Succeeded", "Failed", "Evicted"},
             node \in Homesteads \cup {Nowhere},
             \A u \in People : u # t => (u \in unasked <=> u \in unasked'),
             \/ phase = "gone" \/ phase \in Terminal \/ t \in unasked'
             \/ There(t) /\ crew[t].phase \notin Terminal /\ t \notin unasked
      PROVE  DoorInv'
  <2>1. [phase |-> phase, node |-> node] \in Known
    BY <1>3, <1>4
  <2>2. /\ crew' \in [People -> Known] /\ crew'[t].phase = phase
        /\ \A u \in People : u # t => crew'[u] = crew[u]
    BY <1>1, <1>4, <2>1, WhereItIsPut
  <2>. QED
    BY <1>4, <2>2, DoorKeeps DEF There
<1>5. ASSUME UNCHANGED <<crew, unasked>> PROVE DoorInv'
  BY <1>1, <1>5, DoorKeeps DEF There
<1>6. ASSUME AttachSidecar PROVE DoorInv'
  <2>1. /\ Put(Companion, "Pending", Nowhere) /\ unasked' = unasked \union {Companion}
    BY <1>6 DEF AttachSidecar
  <2>. QED
    BY <1>2, <1>4, <2>1
<1>7. ASSUME CompanyKept PROVE DoorInv'
  <2>1. CASE UNCHANGED <<crew, unasked>>
    BY <1>5, <2>1
  <2>2. CASE Put(Companion, "gone", Nowhere) /\ unasked' = unasked \ {Companion}
    BY <1>2, <1>4, <2>2
  <2>3. CASE /\ There(Companion) /\ Put(Companion, "Bound", crew[Primary].node)
             /\ unasked' = IF crew[Companion].phase \in Terminal
                           THEN unasked \union {Companion} ELSE unasked
    BY <1>2, <1>4, <2>3
  <2>4. CASE /\ There(Companion) /\ crew[Companion].phase \in Active
             /\ Put(Companion, "Pending", Nowhere) /\ unasked' = unasked
    BY <1>2, <1>4, <2>4 DEF Active, Terminal
  <2>. QED
    BY <1>7, <2>1, <2>2, <2>3, <2>4 DEF CompanyKept
<1>8. ASSUME RestartSweep PROVE DoorInv'
  <2>. DEFINE again == {t \in People : /\ crew[t].phase \in Terminal
                                       /\ ShouldRestart(policies[t], crew[t].phase)}
  <2>1. /\ crew' = [t \in People |-> IF t \in again THEN [phase |-> "Pending", node |-> Nowhere]
                                     ELSE crew[t]]
        /\ unasked' = unasked \union again
    BY <1>8 DEF RestartSweep
  <2>2. [phase |-> "Pending", node |-> Nowhere] \in Known
    BY <1>3
  <2>. HIDE DEF again
  <2>3. crew' \in [People -> Known]
    BY <1>1, <2>1, <2>2
  <2>4. \A t \in People : t \notin again => crew'[t] = crew[t]
    BY <2>1
  <2>. QED
    BY <2>1, <2>3, <2>4, DoorKeeps DEF There
<1>9. ASSUME DeclareStages PROVE DoorInv'
  BY <1>5, <1>9 DEF DeclareStages
<1>10. ASSUME CompleteStage PROVE DoorInv'
  <2>1. CASE UNCHANGED <<crew, unasked>>
    BY <1>5, <2>1
  <2>2. CASE /\ There(Primary) /\ Put(Primary, "Running", crew[Primary].node)
             /\ unasked' = IF crew[Primary].phase \in Terminal
                           THEN unasked \union {Primary} ELSE unasked
    BY <1>2, <1>4, <2>2
  <2>. QED
    BY <1>10, <2>1, <2>2 DEF CompleteStage
<1>11. ASSUME FailStage PROVE DoorInv'
  <2>1. CASE UNCHANGED <<crew, unasked>>
    BY <1>5, <2>1
  <2>2. CASE Put(Primary, "Failed", crew[Primary].node) /\ unasked' = unasked \ {Primary}
    BY <1>2, <1>4, <2>2 DEF Terminal
  <2>. QED
    BY <1>11, <2>1, <2>2 DEF FailStage
<1>12. ASSUME NEW t \in People, RemoveTask(t) PROVE DoorInv'
  <2>1. Put(t, "gone", Nowhere) /\ unasked' = unasked \ {t}
    BY <1>12 DEF RemoveTask
  <2>. QED
    BY <1>4, <2>1
<1>13. ASSUME NEW t \in People, NEW phase, NEW node \in Homesteads \cup {Nowhere},
              Move(t, phase, node)
       PROVE  DoorInv'
  <2>1. /\ Put(t, phase, node) /\ <<crew[t].phase, phase>> \in LegalMoves
        /\ unasked' = IF phase \in Terminal THEN unasked \ {t} ELSE unasked
    BY <1>13 DEF Move
  <2>2. /\ phase \in {"Pending", "Bound", "Running", "Succeeded", "Failed", "Evicted"}
        /\ There(t) /\ crew[t].phase \notin Terminal
    BY <2>1 DEF LegalMoves, There, Terminal
  <2>. QED
    BY <1>4, <2>1, <2>2
<1>14. ASSUME NEW t \in People, EngineMoves(t) PROVE DoorInv'
  BY <1>2, <1>13, <1>14 DEF EngineMoves
<1>15. ASSUME NEW t \in People, AdmitTask(t) PROVE DoorInv'
  BY <1>15, DoorAdmits
<1>16. ASSUME UNCHANGED crewVars PROVE DoorInv'
  BY <1>5, <1>16 DEF crewVars
<1>. QED
  BY <1>6, <1>7, <1>8, <1>9, <1>10, <1>11, <1>12, <1>14, <1>15, <1>16 DEF LivesNext
-----------------------------------------------------------------------------
\* Doubled from one.
LEMMA BackoffIsNat ==
    ASSUME NEW k \in Nat
    PROVE  BackoffAt(k) \in Nat /\ BackoffAt(k) <= BackoffCap
<1>. DEFINE Twice == [x \in Nat |-> 2 * x]
            Doubles(f) == f = [n \in 0..k |-> IF n = 0 THEN 1 ELSE 2 * f[n - 1]]
            d == CHOOSE f : Doubles(f)
<1>1. BackoffCap \in Nat \ {0}
  BY LivesAssumption DEF LivesAssumption
<1>2. PICK f : IsIteration(f, k, 1, Twice)
  <2>1. 1 \in Nat /\ Twice \in [Nat -> Nat]
    OBVIOUS
  <2>. HIDE DEF Twice
  <2>. QED
    BY <2>1, IterationExists
<1>3. \A n \in 0..k : f[n] \in Nat
  <2>1. 1 \in Nat /\ Twice \in [Nat -> Nat]
    OBVIOUS
  <2>. HIDE DEF Twice
  <2>2. Stepwise(f, k, Nat, 1, Twice)
    BY <1>2, <2>1, IterationIsStepwise
  <2>. QED
    BY <2>2, StepwiseStays
<1>4. Doubles(f)
  <2>1. f = [n \in 0..k |-> IF n = 0 THEN 1 ELSE Twice[f[n - 1]]]
    BY <1>2 DEF IsIteration
  <2>2. \A n \in 0..k : (IF n = 0 THEN 1 ELSE Twice[f[n - 1]])
                            = IF n = 0 THEN 1 ELSE 2 * f[n - 1]
    <3>. SUFFICES ASSUME NEW n \in 0..k, n # 0 PROVE Twice[f[n - 1]] = 2 * f[n - 1]
      OBVIOUS
    <3>1. n - 1 \in 0..k
      OBVIOUS
    <3>. QED
      BY <1>3, <3>1
  <2>. QED
    BY <2>1, <2>2
<1>5. Doubles(d)
  <2>. HIDE DEF Doubles
  <2>. QED
    BY <1>4
<1>6. d[k] \in Nat
  <2>1. \A n \in 0..k : d[n] = IF n = 0 THEN 1 ELSE 2 * d[n - 1]
    BY <1>5
  <2>. HIDE DEF d
  <2>2. 1 \in Nat /\ Twice \in [Nat -> Nat]
    OBVIOUS
  <2>3. Stepwise(d, k, Nat, 1, Twice)
    <3>1. 0 \in 0..k /\ \A n \in 1..k : n \in 0..k /\ n # 0
      OBVIOUS
    <3>. QED
      BY <2>1, <2>2, <3>1 DEF Stepwise
  <2>4. k \in 0..k
    OBVIOUS
  <2>. HIDE DEF Twice
  <2>. QED
    BY <2>3, <2>4, StepwiseStays
<1>7. BackoffAt(k) = Min({BackoffCap, d[k]})
  BY DEF BackoffAt
<1>. HIDE DEF d
<1>8. ASSUME NEW a \in Nat, NEW b \in Nat PROVE Min({a, b}) \in Nat /\ Min({a, b}) <= a
  BY LesserOfTwo
<1>. QED
  BY <1>1, <1>6, <1>7, <1>8

\* What a row of crashes waits is what one less does, and the last wait.
LEMMA WaitsAddUp ==
    ASSUME NEW k \in Nat
    PROVE  /\ WaitsUpTo(k) \in Nat /\ WaitsUpTo(0) = 0
           /\ WaitsUpTo(k + 1) = WaitsUpTo(k) + BackoffAt(k + 1)
           /\ \A j \in 0..k : WaitsUpTo(j) <= WaitsUpTo(k)
<1>. DEFINE w(j) == [i \in 1..j |-> BackoffAt(i)]
<1>1. \A i \in Nat : BackoffAt(i) \in Nat
  BY BackoffIsNat
<1>2. ASSUME NEW j \in Nat
      PROVE  /\ WaitsUpTo(j) = Total(w(j), 1..j) /\ IsFiniteSet(1..j)
             /\ \A i \in 1..j : w(j)[i] = BackoffAt(i) /\ w(j)[i] \in Nat
  <2>1. WaitsUpTo(j) = SumFunction(w(j)) /\ DOMAIN w(j) = 1..j
    BY DEF WaitsUpTo
  <2>2. \A i \in 1..j : w(j)[i] = BackoffAt(i) /\ w(j)[i] \in Nat
    BY <1>1
  <2>3. SumFunction(w(j)) = Total(w(j), DOMAIN w(j))
    BY SumIsTotal
  <2>. QED
    BY <2>1, <2>2, <2>3, Numbers
<1>. HIDE DEF w
<1>3. WaitsUpTo(k) \in Nat
  BY <1>2, TotalIsNat
<1>4. WaitsUpTo(0) = 0
  <2>1. WaitsUpTo(0) = Total(w(0), 1..0)
    BY <1>2
  <2>2. 1..0 = {}
    OBVIOUS
  <2>. QED
    BY <2>1, <2>2, TotalOfNone
<1>5. ASSUME NEW j \in 0..k PROVE WaitsUpTo(j) <= WaitsUpTo(k)
  <2>. DEFINE A == 1..j
              B == 1..k
  <2>1. A \subseteq B /\ j \in Nat
    OBVIOUS
  <2>2. /\ WaitsUpTo(j) = Total(w(j), A) /\ WaitsUpTo(k) = Total(w(k), B)
        /\ IsFiniteSet(A) /\ IsFiniteSet(B)
        /\ \A i \in A : w(j)[i] = BackoffAt(i) /\ w(j)[i] \in Nat
        /\ \A i \in B : w(k)[i] = BackoffAt(i) /\ w(k)[i] \in Nat
    BY <1>2, <2>1
  <2>. HIDE DEF A, B
  <2>3. Total(w(j), A) = Total(w(k), A)
    BY <2>1, <2>2, TotalOfSame
  <2>4. Total(w(k), A) <= Total(w(k), B)
    BY <2>1, <2>2, TotalOfSubset
  <2>. QED
    BY <2>2, <2>3, <2>4
<1>6. WaitsUpTo(k + 1) = WaitsUpTo(k) + BackoffAt(k + 1)
  <2>. DEFINE A == 1..k
              B == 1..(k + 1)
              n == k + 1
  <2>1. n \in B /\ B \ {n} = A /\ n \in Nat
    OBVIOUS
  <2>2. /\ WaitsUpTo(k) = Total(w(k), A) /\ WaitsUpTo(n) = Total(w(n), B)
        /\ IsFiniteSet(A) /\ IsFiniteSet(B)
        /\ \A i \in A : w(k)[i] = BackoffAt(i) /\ w(k)[i] \in Nat
        /\ \A i \in B : w(n)[i] = BackoffAt(i) /\ w(n)[i] \in Nat
    BY <1>2, <2>1
  <2>. HIDE DEF A, B, n
  <2>3. /\ Total(w(n), B) = w(n)[n] + Total(w(n), B \ {n})
        /\ Total(w(n), B \ {n}) \in Nat
    BY <2>1, <2>2, TotalApart
  <2>4. Total(w(k), A) = Total(w(n), A)
    BY <2>1, <2>2, TotalOfSame
  <2>5. WaitsUpTo(n) = WaitsUpTo(k) + BackoffAt(n)
    BY <2>1, <2>2, <2>3, <2>4
  <2>. QED
    BY <2>5 DEF n
<1>. QED
  BY <1>3, <1>4, <1>5, <1>6

Crashes == [streak : Nat, wait : Nat, healthy : Nat \cup {NotUp}, row : 0..MaxRow, spent : Nat]

\* What a row of crashes has waited, with what it still must, is what it owes.
CrashInv ==
    /\ crash \in Crashes
    /\ crash.streak = crash.row
    /\ crash.healthy # NotUp => crash.wait = 0
    /\ crash.row = 0 => crash.wait = 0
    /\ crash.wait <= BackoffAt(crash.row)
    /\ WaitsUpTo(crash.row) <= crash.spent + crash.wait

\* No crash yet.
LEMMA CrashStarts ==
    ASSUME CrashInit
    PROVE  CrashInv
<1>1. BackoffAt(0) \in Nat /\ WaitsUpTo(0) = 0
  BY BackoffIsNat, WaitsAddUp
<1>2. /\ crash \in Crashes /\ crash.streak = 0 /\ crash.wait = 0 /\ crash.row = 0
      /\ crash.spent = 0
  BY LivesAssumption DEF CrashInit, Crashes, LivesAssumption
<1>. QED
  BY <1>1, <1>2 DEF CrashInv

\* Each step of the crashes.
LEMMA CrashSteps ==
    ASSUME CrashInv, [CrashNext]_crash
    PROVE  CrashInv'
<1>1. /\ crash \in Crashes /\ crash.streak = crash.row
      /\ crash.healthy # NotUp => crash.wait = 0
      /\ crash.row = 0 => crash.wait = 0
      /\ crash.wait <= BackoffAt(crash.row)
      /\ WaitsUpTo(crash.row) <= crash.spent + crash.wait
  BY DEF CrashInv
<1>2. /\ crash.streak \in Nat /\ crash.wait \in Nat /\ crash.healthy \in Nat \cup {NotUp}
      /\ crash.row \in 0..MaxRow /\ crash.row \in Nat /\ crash.spent \in Nat
      /\ MaxRow \in Nat \ {0} /\ HealthyReset \in Nat
  BY <1>1, LivesAssumption DEF Crashes, LivesAssumption
<1>3. \A k \in Nat : /\ BackoffAt(k) \in Nat /\ WaitsUpTo(k) \in Nat
                     /\ WaitsUpTo(k + 1) = WaitsUpTo(k) + BackoffAt(k + 1)
  BY BackoffIsNat, WaitsAddUp
<1>4. /\ WaitsUpTo(0) = 0 /\ WaitsUpTo(crash.row) <= WaitsUpTo(MaxRow)
      /\ WaitsUpTo(1) = BackoffAt(1)
  <2>1. WaitsUpTo(0) = 0 /\ WaitsUpTo(0 + 1) = WaitsUpTo(0) + BackoffAt(0 + 1)
    BY WaitsAddUp
  <2>2. WaitsUpTo(crash.row) <= WaitsUpTo(MaxRow)
    BY <1>2, WaitsAddUp
  <2>. QED
    BY <1>3, <2>1, <2>2
<1>5. ASSUME Crashed PROVE CrashInv'
  <2>. DEFINE first == crash.healthy >= HealthyReset
              failed == IF first THEN 1 ELSE crash.streak + 1
              row == IF first THEN 1 ELSE crash.row + 1
              waited == IF first THEN 0 ELSE crash.spent
  <2>1. /\ crash' = [streak |-> failed, wait |-> BackoffAt(failed), healthy |-> NotUp,
                     row |-> row, spent |-> waited]
        /\ crash.healthy # NotUp /\ (first \/ crash.row < MaxRow)
    BY <1>5 DEF Crashed, ResetAfter
  <2>2. failed = row /\ row \in 1..MaxRow /\ waited \in Nat
    BY <1>1, <1>2, <2>1
  <2>3. WaitsUpTo(row) <= waited + BackoffAt(row)
    <3>1. CASE first
      BY <1>3, <1>4, <3>1
    <3>2. CASE ~first
      BY <1>1, <1>2, <1>3, <2>1, <3>2
    <3>. QED
      BY <3>1, <3>2
  <2>. HIDE DEF failed, row, waited
  <2>4. BackoffAt(row) \in Nat
    BY <1>3, <2>2
  <2>5. /\ crash' \in Crashes /\ crash'.streak = row /\ crash'.row = row
        /\ crash'.wait = BackoffAt(row) /\ crash'.healthy = NotUp /\ crash'.spent = waited
    BY <2>1, <2>2, <2>4 DEF Crashes
  <2>. QED
    BY <2>2, <2>3, <2>4, <2>5 DEF CrashInv
<1>6. ASSUME CrashStarted PROVE CrashInv'
  <2>1. crash.wait = 0 /\ crash' = [crash EXCEPT !.healthy = 0]
    BY <1>6 DEF CrashStarted
  <2>2. /\ crash' \in Crashes /\ crash'.streak = crash.streak /\ crash'.row = crash.row
        /\ crash'.wait = crash.wait /\ crash'.spent = crash.spent
    BY <1>1, <2>1 DEF Crashes
  <2>. QED
    BY <1>1, <2>1, <2>2 DEF CrashInv
<1>7. ASSUME CrashTime PROVE CrashInv'
  <2>. DEFINE wait == Max({0, crash.wait - 1})
              up == IF crash.healthy = NotUp THEN NotUp
                    ELSE Min({crash.healthy + 1, HealthyReset})
              waited == IF crash.row = 0 THEN 0 ELSE Min({crash.spent + 1, WaitsUpTo(MaxRow)})
  <2>1. crash' = [crash EXCEPT !.wait = wait, !.healthy = up, !.spent = waited]
    BY <1>7 DEF CrashTime
  <2>2. wait = IF crash.wait = 0 THEN 0 ELSE crash.wait - 1
    BY <1>2, GreaterOfTwo
  <2>3. crash.row # 0 => /\ waited \in {crash.spent + 1, WaitsUpTo(MaxRow)}
                         /\ waited \in Nat
    <3>. DEFINE a == crash.spent + 1
                b == WaitsUpTo(MaxRow)
    <3>1. a \in Nat /\ b \in Nat
      BY <1>2, <1>3
    <3>2. crash.row # 0 => waited = Min({a, b})
      OBVIOUS
    <3>. HIDE DEF a, b, waited
    <3>3. Min({a, b}) = IF a <= b THEN a ELSE b
      BY <3>1, LesserOfTwo
    <3>4. crash.row # 0 => waited \in {a, b} /\ waited \in Nat
      BY <3>1, <3>2, <3>3
    <3>. QED
      BY <3>4 DEF a, b
  <2>4. up \in Nat \cup {NotUp} /\ (up # NotUp => crash.healthy # NotUp)
    BY <1>2, LesserOfTwo
  <2>5. wait \in Nat /\ waited \in Nat
    BY <1>2, <2>2, <2>3
  <2>6. crash.row = 0 => waited = 0
    OBVIOUS
  <2>. HIDE DEF wait, up, waited
  <2>7. /\ crash' \in Crashes /\ crash'.streak = crash.streak /\ crash'.row = crash.row
        /\ crash'.wait = wait /\ crash'.spent = waited /\ crash'.healthy = up
    BY <1>1, <2>1, <2>4, <2>5 DEF Crashes
  <2>8. WaitsUpTo(crash.row) <= waited + wait
    <3>1. CASE crash.row = 0
      BY <1>4, <2>5, <3>1
    <3>2. CASE crash.row # 0
      BY <1>1, <1>2, <1>3, <1>4, <2>2, <2>3, <2>5, <3>2
    <3>. QED
      BY <3>1, <3>2
  <2>9. BackoffAt(crash.row) \in Nat
    BY <1>2, <1>3
  <2>. QED
    BY <1>1, <1>2, <2>2, <2>4, <2>7, <2>8, <2>9 DEF CrashInv
<1>8. ASSUME UNCHANGED crash PROVE CrashInv'
  BY <1>1, <1>8 DEF CrashInv, Crashes, BackoffAt, WaitsUpTo
<1>. QED
  BY <1>5, <1>6, <1>7, <1>8 DEF CrashNext

\* What is owed but for the last wait has been waited.
LEMMA CrashHolds ==
    ASSUME CrashInv
    PROVE  BackoffIsPaid
<1>1. ASSUME crash.row > 0 PROVE crash.spent >= WaitsUpTo(crash.row - 1)
  <2>. DEFINE k == crash.row - 1
  <2>1. /\ k \in Nat /\ crash.row = k + 1 /\ crash.wait \in Nat /\ crash.spent \in Nat
        /\ crash.wait <= BackoffAt(crash.row)
        /\ WaitsUpTo(crash.row) <= crash.spent + crash.wait
    BY <1>1 DEF CrashInv, Crashes
  <2>. HIDE DEF k
  <2>2. /\ BackoffAt(k + 1) \in Nat /\ WaitsUpTo(k) \in Nat
        /\ WaitsUpTo(k + 1) = WaitsUpTo(k) + BackoffAt(k + 1)
    <3>1. BackoffAt(k + 1) \in Nat
      BY <2>1, BackoffIsNat
    <3>. QED
      BY <2>1, <3>1, WaitsAddUp
  <2>. QED
    BY <2>1, <2>2 DEF k
<1>. QED
  BY <1>1 DEF BackoffIsPaid

-----------------------------------------------------------------------------
(* The saga and the shutdown                                               *)

\* The places of the steps that can be undone.
Undoable == {i \in DOMAIN SagaSteps : SagaSteps[i]}

SagaStates == [does : {"not started", "forward", "completed", "unwinding", "failed", "raised"},
               at : 0..Len(SagaSteps)]

\* The effects of a run are those of the steps before the one it is at, and while it
\* unwinds those up to it that can be undone, if no run before it has raised.
SagaInv ==
    /\ saga \in SagaStates
    /\ effect \subseteq DOMAIN SagaSteps /\ raises \in Nat
    /\ saga.does = "not started" => effect = {}
    /\ saga.does = "forward" => /\ saga.at # 0 /\ 1..(saga.at - 1) \subseteq effect
                                /\ raises = 0 => effect = 1..(saga.at - 1)
    /\ saga.does = "completed" => effect = DOMAIN SagaSteps
    /\ saga.does = "unwinding" /\ raises = 0 => effect \cap Undoable = Undoable \cap 1..saga.at
    /\ saga.does = "failed" /\ raises = 0 => effect \cap Undoable = {}
    /\ saga.does = "raised" => raises # 0

\* Nothing is done yet.
LEMMA SagaStarts ==
    ASSUME SagaInit
    PROVE  SagaInv
<1>1. Len(SagaSteps) \in Nat
  BY OperationsAssumption DEF OperationsAssumption
<1>2. 0 \in 0..Len(SagaSteps)
  BY <1>1
<1>3. saga \in SagaStates /\ saga.does = "not started"
  BY <1>2 DEF SagaInit, SagaStates
<1>. QED
  BY <1>3 DEF SagaInit, SagaInv

\* Each step of the saga.
LEMMA SagaKeeps ==
    ASSUME SagaInv, [SagaNext]_sagaVars
    PROVE  SagaInv'
<1>. DEFINE L == Len(SagaSteps)
<1>1. /\ L \in Nat \ {0} /\ DOMAIN SagaSteps = 1..L
      /\ \A i \in 1..L : SagaSteps[i] \in BOOLEAN
  BY OperationsAssumption DEF OperationsAssumption
<1>. HIDE DEF L
<1>2. /\ saga \in SagaStates /\ effect \subseteq 1..L /\ raises \in Nat
      /\ saga.does = "not started" => effect = {}
      /\ saga.does = "forward" => /\ saga.at # 0 /\ 1..(saga.at - 1) \subseteq effect
                                  /\ raises = 0 => effect = 1..(saga.at - 1)
      /\ saga.does = "completed" => effect = 1..L
      /\ saga.does = "unwinding" /\ raises = 0 => effect \cap Undoable = Undoable \cap 1..saga.at
      /\ saga.does = "failed" /\ raises = 0 => effect \cap Undoable = {}
      /\ saga.does = "raised" => raises # 0
  BY <1>1 DEF SagaInv
<1>3. saga.at \in 0..L
  BY <1>2 DEF SagaStates, L
<1>4. Undoable = {i \in 1..L : SagaSteps[i]}
  BY <1>1 DEF Undoable
<1>5. \A does \in {"forward", "completed", "unwinding", "failed", "raised"}, at \in 0..L :
         [does |-> does, at |-> at] \in SagaStates
  BY DEF SagaStates, L
<1>6. ASSUME NEW does \in {"completed", "failed", "raised"}, saga' = [saga EXCEPT !.does = does]
      PROVE  saga' \in SagaStates /\ saga'.does = does /\ saga'.at = saga.at
  BY <1>2, <1>6 DEF SagaStates
<1>7. ASSUME NEW at \in 0..L, saga' = [saga EXCEPT !.at = at]
      PROVE  saga' \in SagaStates /\ saga'.at = at /\ saga'.does = saga.does
  BY <1>2, <1>7 DEF SagaStates, L
<1>8. ASSUME RunSaga PROVE SagaInv'
  <2>1. /\ saga.does \in {"not started", "raised"} /\ saga' = [does |-> "forward", at |-> 1]
        /\ effect' = effect /\ raises' = raises
    BY <1>8 DEF RunSaga
  <2>2. saga' \in SagaStates /\ saga'.does = "forward" /\ saga'.at = 1
    <3>1. 1 \in 0..L
      BY <1>1
    <3>2. [does |-> "forward", at |-> 1] \in SagaStates
      BY <1>5, <3>1
    <3>. QED
      BY <2>1, <3>2
  <2>3. raises = 0 => effect = {}
    BY <1>2, <2>1
  <2>4. 1..(saga'.at - 1) = {}
    BY <2>2
  <2>5. /\ effect' \subseteq DOMAIN SagaSteps /\ raises' \in Nat
        /\ raises' = 0 => effect' = {}
    BY <1>1, <1>2, <2>1, <2>3
  <2>6. saga'.at # 0 /\ 1..(saga'.at - 1) \subseteq effect'
    BY <2>2, <2>4
  <2>. QED
    BY <2>2, <2>4, <2>5, <2>6 DEF SagaInv
<1>9. ASSUME ActDone PROVE SagaInv'
  <2>1. /\ saga.does = "forward" /\ effect' = effect \union {saga.at} /\ raises' = raises
        /\ saga' = IF saga.at = L THEN [saga EXCEPT !.does = "completed"]
                   ELSE [saga EXCEPT !.at = saga.at + 1]
    BY <1>9 DEF ActDone, L
  <2>2. saga.at \in 1..L /\ effect' \subseteq 1..L
    BY <1>2, <1>3, <2>1
  <2>3. 1..saga.at = 1..(saga.at - 1) \cup {saga.at}
    BY <2>2
  <2>4. 1..saga.at \subseteq effect' /\ (raises = 0 => effect' = 1..saga.at)
    BY <1>2, <2>1, <2>3
  <2>5. CASE saga.at = L
    <3>1. saga' \in SagaStates /\ saga'.does = "completed"
      BY <1>6, <2>1, <2>5
    <3>2. effect' = 1..L
      BY <2>2, <2>4, <2>5
    <3>. QED
      BY <1>1, <1>2, <2>1, <3>1, <3>2 DEF SagaInv
  <2>6. CASE saga.at # L
    <3>1. saga.at + 1 \in 0..L /\ (saga.at + 1) - 1 = saga.at
      BY <1>1, <2>2, <2>6
    <3>2. saga' \in SagaStates /\ saga'.does = "forward" /\ saga'.at = saga.at + 1
      BY <1>7, <2>1, <2>6, <3>1
    <3>3. saga'.at # 0 /\ 1..(saga'.at - 1) = 1..saga.at
      BY <2>2, <3>1, <3>2
    <3>. QED
      BY <1>1, <1>2, <2>1, <2>2, <2>4, <3>2, <3>3 DEF SagaInv
  <2>. QED
    BY <2>5, <2>6
<1>10. ASSUME ActFailed PROVE SagaInv'
  <2>1. /\ saga.does = "forward" /\ effect' = effect /\ raises' = raises
        /\ saga' = [does |-> "unwinding", at |-> saga.at - 1]
    BY <1>10 DEF ActFailed
  <2>2. saga.at - 1 \in 0..L
    BY <1>1, <1>2, <1>3, <2>1
  <2>3. saga' \in SagaStates /\ saga'.does = "unwinding" /\ saga'.at = saga.at - 1
    BY <1>5, <2>1, <2>2
  <2>4. raises = 0 => effect \cap Undoable = Undoable \cap 1..(saga.at - 1)
    BY <1>2, <2>1
  <2>. QED
    BY <1>1, <1>2, <2>1, <2>3, <2>4 DEF SagaInv, Undoable
<1>11. ASSUME Unwind PROVE SagaInv'
  <2>1. /\ saga.does = "unwinding" /\ raises' = raises
        /\ effect' = effect \ {i \in {saga.at} \intersect 1..L : SagaSteps[i]}
        /\ saga' = IF saga.at = 0 THEN [saga EXCEPT !.does = "failed"]
                   ELSE [saga EXCEPT !.at = saga.at - 1]
    BY <1>1, <1>11 DEF Unwind
  <2>2. /\ effect' \subseteq 1..L
        /\ effect' \cap Undoable = (effect \cap Undoable) \ {saga.at}
    BY <1>2, <1>4, <2>1
  <2>3. CASE saga.at = 0
    <3>1. saga' \in SagaStates /\ saga'.does = "failed"
      BY <1>6, <2>1, <2>3
    <3>2. raises = 0 => effect' \cap Undoable = {}
      <4>1. 1..0 = {}
        OBVIOUS
      <4>. QED
        BY <1>2, <2>1, <2>2, <2>3, <4>1
    <3>. QED
      BY <1>1, <2>1, <2>2, <1>2, <3>1, <3>2 DEF SagaInv, Undoable
  <2>4. CASE saga.at # 0
    <3>1. saga.at - 1 \in 0..L /\ (1..saga.at) \ {saga.at} = 1..(saga.at - 1)
      BY <1>1, <1>3, <2>4
    <3>2. saga' \in SagaStates /\ saga'.does = "unwinding" /\ saga'.at = saga.at - 1
      BY <1>7, <2>1, <2>4, <3>1
    <3>3. raises = 0 => effect' \cap Undoable = Undoable \cap 1..(saga.at - 1)
      <4>1. ASSUME raises = 0 PROVE effect' \cap Undoable = (Undoable \cap 1..saga.at) \ {saga.at}
        BY <1>2, <2>1, <2>2, <4>1
      <4>. QED
        BY <3>1, <4>1
    <3>. QED
      BY <1>1, <1>2, <2>1, <2>2, <3>2, <3>3 DEF SagaInv, Undoable
  <2>. QED
    BY <2>3, <2>4
<1>12. ASSUME Raise PROVE SagaInv'
  <2>1. /\ saga' = [saga EXCEPT !.does = "raised"] /\ raises' = raises + 1 /\ effect' = effect
    BY <1>12 DEF Raise
  <2>2. saga' \in SagaStates /\ saga'.does = "raised" /\ raises' \in Nat /\ raises' # 0
    <3>1. raises \in Nat /\ raises' = raises + 1
      BY <1>2, <2>1
    <3>. QED
      BY <1>6, <2>1, <3>1
  <2>. QED
    BY <1>1, <1>2, <2>1, <2>2 DEF SagaInv
<1>13. ASSUME UNCHANGED sagaVars PROVE SagaInv'
  BY <1>13 DEF sagaVars, SagaInv, SagaStates, Undoable
<1>. QED
  BY <1>8, <1>9, <1>10, <1>11, <1>12, <1>13 DEF SagaNext

\* What is there can be undone from the last step on.
LEMMA SagaHolds ==
    ASSUME SagaInv
    PROVE  SagaIsWhole
<1>1. DOMAIN SagaSteps = 1..Len(SagaSteps) /\ Len(SagaSteps) \in Nat
  BY OperationsAssumption DEF OperationsAssumption
<1>2. saga.at \in 0..Len(SagaSteps) /\ effect \subseteq 1..Len(SagaSteps)
  BY <1>1 DEF SagaInv, SagaStates
<1>3. {i \in effect : SagaSteps[i]} = effect \cap Undoable
  BY <1>1, <1>2 DEF Undoable
<1>4. saga.does = "completed" => effect = DOMAIN SagaSteps
  BY DEF SagaInv
<1>5. ASSUME raises = 0
      PROVE  /\ \A i \in DOMAIN SagaSteps, j \in effect \cap Undoable :
                   i < j /\ SagaSteps[i] => i \in effect \cap Undoable
             /\ saga.does = "failed" => effect \cap Undoable = {}
  <2>1. saga.does \in {"not started", "forward", "completed", "unwinding", "failed"}
    BY <1>5 DEF SagaInv, SagaStates
  <2>2. CASE saga.does \in {"not started", "failed"}
    BY <1>5, <2>2 DEF SagaInv
  <2>3. CASE saga.does = "forward"
    BY <1>1, <1>2, <1>5, <2>3 DEF SagaInv, Undoable
  <2>4. CASE saga.does = "completed"
    BY <1>1, <2>4 DEF SagaInv, Undoable
  <2>5. CASE saga.does = "unwinding"
    <3>1. effect \cap Undoable = Undoable \cap 1..saga.at
      BY <1>5, <2>5 DEF SagaInv
    <3>2. saga.does # "failed"
      BY <2>5
    <3>. QED
      BY <1>1, <1>2, <3>1, <3>2 DEF Undoable
  <2>. QED
    BY <2>1, <2>2, <2>3, <2>4, <2>5
<1>. QED
  BY <1>3, <1>4, <1>5 DEF SagaIsWhole

-----------------------------------------------------------------------------
Ducks == [phase : {"serving", "lame-duck", "draining", "closed"}, elapsed : 0..DrainDeadline]

\* Whoever is still in flight can be done by the deadline, but for the hopeless.
DuckInv ==
    /\ duck \in Ducks
    /\ request \in [Requests -> Nat \cup {NotThere}]
    /\ duck.phase = "serving" => cut = {}
    /\ duck.phase # "serving" =>
          \A r \in InFlight \ hopeless : request[r] + duck.elapsed <= DrainDeadline
    /\ OnlyHopelessCut

\* Nobody has asked yet.
LEMMA DuckStarts ==
    ASSUME DuckInit
    PROVE  DuckInv
<1>1. DrainDeadline \in Nat
  BY OperationsAssumption DEF OperationsAssumption
<1>. QED
  BY <1>1 DEF DuckInit, DuckInv, Ducks, OnlyHopelessCut

\* Each step of the shutdown.
LEMMA DuckSteps ==
    ASSUME DuckInv, [DuckNext]_duckVars
    PROVE  DuckInv'
<1>1. /\ duck \in Ducks /\ request \in [Requests -> Nat \cup {NotThere}]
      /\ duck.phase = "serving" => cut = {}
      /\ duck.phase # "serving" =>
            \A r \in InFlight \ hopeless : request[r] + duck.elapsed <= DrainDeadline
      /\ cut \subseteq hopeless /\ (duck.phase = "closed" => InFlight = {})
  BY DEF DuckInv, OnlyHopelessCut
<1>2. /\ duck.phase \in {"serving", "lame-duck", "draining", "closed"}
      /\ duck.elapsed \in 0..DrainDeadline /\ DrainDeadline \in Nat
      /\ LongestRequest \in Nat
  BY <1>1, OperationsAssumption DEF Ducks, OperationsAssumption
<1>3. \A r \in Requests : (r \in InFlight <=> request[r] # NotThere)
                          /\ (r \in InFlight' <=> request'[r] # NotThere)
  BY DEF InFlight, NotThere
<1>4. InFlight \subseteq Requests /\ InFlight' \subseteq Requests
  BY DEF InFlight
<1>5. ASSUME NEW r \in Requests, NEW takes \in 0..LongestRequest, Accept(r, takes)
      PROVE  DuckInv'
  <2>1. /\ duck.phase = "serving" /\ duck' = duck /\ cut' = cut /\ hopeless' = hopeless
        /\ request' = [request EXCEPT ![r] = takes]
    BY <1>5 DEF Accept
  <2>2. request' \in [Requests -> Nat \cup {NotThere}]
    BY <1>1, <1>2, <2>1
  <2>. QED
    BY <1>1, <2>1, <2>2 DEF DuckInv, OnlyHopelessCut, Ducks, NotThere
<1>6. ASSUME BeginShutdown PROVE DuckInv'
  <2>1. /\ duck.phase = "serving" /\ duck' = [phase |-> "lame-duck", elapsed |-> 0]
        /\ hopeless' = {r \in InFlight : request[r] > DrainDeadline}
        /\ request' = request /\ cut' = cut
    BY <1>6 DEF BeginShutdown
  <2>2. duck' \in Ducks /\ duck'.phase = "lame-duck" /\ duck'.elapsed = 0
    BY <1>2, <2>1 DEF Ducks
  <2>3. InFlight' = InFlight
    BY <2>1 DEF InFlight, NotThere
  <2>4. \A r \in InFlight' \ hopeless' : request'[r] + duck'.elapsed <= DrainDeadline
    BY <1>1, <1>2, <1>3, <1>4, <2>1, <2>2, <2>3
  <2>. QED
    BY <1>1, <2>1, <2>2, <2>4 DEF DuckInv, OnlyHopelessCut, NotThere
<1>7. ASSUME DuckTick PROVE DuckInv'
  <2>. DEFINE held == {r \in InFlight : request[r] > 0}
              late == Drains /\ duck.elapsed >= DrainDeadline
              phase == IF Drains /\ (late \/ held = {}) THEN "closed"
                       ELSE IF Drains THEN "draining" ELSE duck.phase
  <2>1. /\ duck.phase # "closed" /\ duck' = [duck EXCEPT !.phase = phase]
        /\ cut' = IF late THEN cut \union held ELSE cut
        /\ request' = [r \in Requests |-> IF r \in held /\ ~late THEN request[r] ELSE NotThere]
        /\ hopeless' = hopeless
    BY <1>7 DEF DuckTick
  <2>2. Drains => duck.phase # "serving"
    BY DEF Drains
  <2>3. /\ phase \in {"serving", "lame-duck", "draining", "closed"}
        /\ phase = "serving" => duck.phase = "serving" /\ ~late
        /\ phase # "serving" => duck.phase # "serving"
        /\ phase = "closed" => late \/ held = {}
    BY <1>2, <2>1, <2>2
  <2>4. late => held \subseteq hopeless
    BY <1>1, <1>2, <1>3, <1>4, <2>2
  <2>5. \A r \in Requests : request[r] \in Nat \cup {NotThere} /\ NotThere \notin Nat
    BY <1>1 DEF NotThere
  <2>. HIDE DEF held, phase, late
  <2>6. duck' \in Ducks /\ duck'.phase = phase /\ duck'.elapsed = duck.elapsed
    BY <1>1, <2>1, <2>3 DEF Ducks
  <2>7. request' \in [Requests -> Nat \cup {NotThere}]
    BY <2>1, <2>5
  <2>8. InFlight' \subseteq InFlight /\ (late \/ held = {} => InFlight' = {})
    BY <1>3, <1>4, <2>1
  <2>9. \A r \in InFlight' : request'[r] = request[r]
    BY <1>3, <1>4, <2>1
  <2>. QED
    BY <1>1, <2>1, <2>3, <2>4, <2>6, <2>7, <2>8, <2>9 DEF DuckInv, OnlyHopelessCut
<1>8. ASSUME DuckTime PROVE DuckInv'
  <2>. DEFINE elapsed == IF duck.phase # "serving" /\ duck.elapsed < DrainDeadline
                         THEN duck.elapsed + 1 ELSE duck.elapsed
  <2>1. /\ duck' = [duck EXCEPT !.elapsed = elapsed]
        /\ request' = [r \in Requests |-> IF request[r] > 0 THEN request[r] - 1 ELSE request[r]]
        /\ cut' = cut /\ hopeless' = hopeless
    BY <1>8 DEF DuckTime
  <2>2. elapsed \in 0..DrainDeadline
    BY <1>2
  <2>3. duck' \in Ducks /\ duck'.elapsed = elapsed /\ duck'.phase = duck.phase
    BY <1>1, <2>1, <2>2 DEF Ducks
  <2>4. \A r \in Requests : request[r] \in Nat \cup {-1}
    BY <1>1 DEF NotThere
  <2>5. /\ request' \in [Requests -> Nat \cup {NotThere}] /\ InFlight' = InFlight
        /\ \A r \in Requests : request'[r] = IF request[r] > 0 THEN request[r] - 1 ELSE request[r]
    BY <2>1, <2>4 DEF NotThere, InFlight
  <2>6. ASSUME duck'.phase # "serving", NEW r \in InFlight' \ hopeless'
        PROVE  request'[r] + duck'.elapsed <= DrainDeadline
    BY <1>1, <1>2, <1>3, <1>4, <2>1, <2>3, <2>4, <2>5, <2>6 DEF NotThere
  <2>. QED
    BY <1>1, <2>1, <2>3, <2>5, <2>6 DEF DuckInv, OnlyHopelessCut
<1>9. ASSUME UNCHANGED duckVars PROVE DuckInv'
  BY <1>9 DEF duckVars, DuckInv, Ducks, OnlyHopelessCut, InFlight, NotThere
<1>. QED
  BY <1>5, <1>6, <1>7, <1>8, <1>9 DEF DuckNext

-----------------------------------------------------------------------------
(* The migration                                                           *)

\* What a round takes, and leaves, at given rates.
TicksAt(copy, dirty) == (dirty + copy - 1) \div copy
LeftAt(copy, rate, dirty) ==
    IF TicksAt(copy, dirty) * rate < dirty THEN TicksAt(copy, dirty) * rate ELSE dirty

\* Rounds without end.
Race(d, memory, copy, rate) ==
    /\ d[0] = memory
    /\ \A n \in 1..memory : d[n] = LeftAt(copy, rate, d[n - 1])

Moves == [memory : Nat \ {0}, copy : Nat \ {0}, rate : Nat, dirty : Nat, rounds : 0..MaxRounds,
          verdict : {"pending", "cut over", "never", "gave up"}]

\* The migration is where the race is after as many rounds, none of which fits the pause.
MoveInv ==
    /\ move \in Moves
    /\ move.dirty + move.rounds <= move.memory
    /\ \A d : Race(d, move.memory, move.copy, move.rate) =>
          /\ d[move.rounds] = move.dirty
          /\ \A n \in 0..(move.rounds - 1) : TicksAt(move.copy, d[n]) > PauseBudget
    /\ move.verdict = "pending" => move.rounds < MaxRounds
    /\ move.verdict = "cut over" => /\ TicksAt(move.copy, move.dirty) <= PauseBudget
                                    /\ move.rounds < MaxRounds
    /\ move.verdict = "never" => /\ TicksAt(move.copy, move.dirty) > PauseBudget
                                 /\ LeftAt(move.copy, move.rate, move.dirty) = move.dirty
    /\ move.verdict = "gave up" => move.rounds = MaxRounds

\* Rounds take a number of ticks, and leave no more than they find.
LEMMA RoundsAreNumbers ==
    ASSUME NEW copy \in Nat \ {0}, NEW rate \in Nat, NEW dirty \in Nat
    PROVE  /\ TicksAt(copy, dirty) \in Nat
           /\ LeftAt(copy, rate, dirty) \in Nat /\ LeftAt(copy, rate, dirty) <= dirty
<1>1. dirty + copy - 1 \in Nat
  OBVIOUS
<1>2. TicksAt(copy, dirty) \in Nat
  BY <1>1 DEF TicksAt
<1>3. ASSUME NEW k \in Nat PROVE k * rate \in Nat
  BY <1>3
<1>4. TicksAt(copy, dirty) * rate \in Nat
  BY <1>2, <1>3
<1>. QED
  BY <1>2, <1>4 DEF LeftAt

\* No round yet.
LEMMA MoveStarts ==
    ASSUME MigrationInit
    PROVE  MoveInv
<1>1. PICK memory \in 1..MaxMemory, copy \in 1..MaxMemory, rate \in 0..MaxRate :
         move = [memory |-> memory, copy |-> copy, rate |-> rate,
                 dirty |-> memory, rounds |-> 0, verdict |-> "pending"]
  BY DEF MigrationInit
<1>2. MaxRounds \in Nat \ {0} /\ MaxMemory \in Nat /\ MaxRate \in Nat
  BY OperationsAssumption DEF OperationsAssumption
<1>3. memory \in Nat \ {0} /\ copy \in Nat \ {0} /\ rate \in Nat
  BY <1>2
<1>4. /\ move \in Moves /\ move.memory = memory /\ move.dirty = memory /\ move.rounds = 0
      /\ move.verdict = "pending"
  BY <1>1, <1>2, <1>3 DEF Moves
<1>5. 0..(0 - 1) = {}
  OBVIOUS
<1>6. \A d : Race(d, move.memory, move.copy, move.rate) =>
          /\ d[move.rounds] = move.dirty
          /\ \A n \in 0..(move.rounds - 1) : TicksAt(move.copy, d[n]) > PauseBudget
  BY <1>4, <1>5 DEF Race
<1>. QED
  BY <1>2, <1>3, <1>4, <1>6 DEF MoveInv

\* Each round.
LEMMA MoveSteps ==
    ASSUME MoveInv, [CopyRound]_move
    PROVE  MoveInv'
<1>. DEFINE memory == move.memory
            copy == move.copy
            rate == move.rate
            dirty == move.dirty
            rounds == move.rounds
            left == LeftAt(copy, rate, dirty)
            taken == TicksAt(copy, dirty)
<1>1. ASSUME UNCHANGED move PROVE MoveInv'
  BY <1>1 DEF MoveInv, Moves
<1>2. ASSUME CopyRound PROVE MoveInv'
  <2>1. /\ move \in Moves /\ dirty + rounds <= memory /\ move.verdict = "pending"
        /\ rounds < MaxRounds
        /\ \A d : Race(d, memory, copy, rate) =>
              /\ d[rounds] = dirty
              /\ \A n \in 0..(rounds - 1) : TicksAt(copy, d[n]) > PauseBudget
    BY <1>2 DEF MoveInv, CopyRound
  <2>2. /\ memory \in Nat \ {0} /\ copy \in Nat \ {0} /\ rate \in Nat /\ dirty \in Nat
        /\ rounds \in 0..MaxRounds /\ MaxRounds \in Nat \ {0} /\ PauseBudget \in Nat \ {0}
    BY <2>1, OperationsAssumption DEF Moves, OperationsAssumption
  <2>3. /\ taken \in Nat /\ left \in Nat /\ left <= dirty
        /\ TicksFor(dirty) = taken /\ LeftAfter(dirty) = left
    <3>1. TicksFor(dirty) = taken /\ LeftAfter(dirty) = left
      BY DEF TicksFor, LeftAfter, TicksAt, LeftAt
    <3>. QED
      BY <2>2, <3>1, RoundsAreNumbers
  <2>4. ASSUME NEW v \in {"cut over", "never"}, move' = [move EXCEPT !.verdict = v]
        PROVE  /\ move' \in Moves /\ move'.memory = memory /\ move'.copy = copy
               /\ move'.rate = rate /\ move'.dirty = dirty /\ move'.rounds = rounds
               /\ move'.verdict = v
    BY <2>1, <2>4 DEF Moves
  <2>. HIDE DEF left, taken
  <2>5. CASE taken <= PauseBudget
    <3>1. move' = [move EXCEPT !.verdict = "cut over"]
      BY <1>2, <2>3, <2>5 DEF CopyRound
    <3>2. /\ move' \in Moves /\ move'.memory = memory /\ move'.copy = copy
          /\ move'.rate = rate /\ move'.dirty = dirty /\ move'.rounds = rounds
          /\ move'.verdict = "cut over"
      BY <2>4, <3>1
    <3>. QED
      BY <2>1, <2>5, <3>2 DEF MoveInv, taken
  <2>6. CASE ~(taken <= PauseBudget) /\ left >= dirty
    <3>1. move' = [move EXCEPT !.verdict = "never"]
      BY <1>2, <2>3, <2>6 DEF CopyRound
    <3>2. /\ move' \in Moves /\ move'.memory = memory /\ move'.copy = copy
          /\ move'.rate = rate /\ move'.dirty = dirty /\ move'.rounds = rounds
          /\ move'.verdict = "never"
      BY <2>4, <3>1
    <3>3. left = dirty /\ taken > PauseBudget
      BY <2>2, <2>3, <2>6
    <3>. QED
      BY <2>1, <3>2, <3>3 DEF MoveInv, taken, left
  <2>7. CASE ~(taken <= PauseBudget) /\ ~(left >= dirty)
    <3>. DEFINE v == IF rounds + 1 = MaxRounds THEN "gave up" ELSE "pending"
    <3>1. move' = [move EXCEPT !.dirty = left, !.rounds = rounds + 1, !.verdict = v]
      BY <1>2, <2>3, <2>7 DEF CopyRound
    <3>2. /\ rounds + 1 \in 0..MaxRounds /\ left + (rounds + 1) <= memory /\ taken > PauseBudget
          /\ rounds \in Nat /\ rounds + 1 \in 1..memory
      BY <2>1, <2>2, <2>3, <2>7
    <3>3. v \in {"pending", "cut over", "never", "gave up"}
      OBVIOUS
    <3>4. /\ v = "pending" => rounds + 1 < MaxRounds
          /\ v = "gave up" => rounds + 1 = MaxRounds
          /\ v # "cut over" /\ v # "never"
      BY <2>1, <2>2, <3>2
    <3>. HIDE DEF v
    <3>5. /\ move' \in Moves /\ move'.memory = memory /\ move'.copy = copy
          /\ move'.rate = rate /\ move'.dirty = left /\ move'.rounds = rounds + 1
          /\ move'.verdict = v
      BY <2>1, <2>3, <3>1, <3>2, <3>3 DEF Moves
    <3>6. ASSUME NEW d, Race(d, memory, copy, rate)
          PROVE  /\ d[rounds + 1] = left
                 /\ \A n \in 0..rounds : TicksAt(copy, d[n]) > PauseBudget
      <4>1. /\ d[rounds] = dirty
            /\ \A n \in 0..(rounds - 1) : TicksAt(copy, d[n]) > PauseBudget
        BY <2>1, <3>6
      <4>2. d[rounds + 1] = LeftAt(copy, rate, d[rounds])
        <5>1. \A n \in 1..memory : d[n] = LeftAt(copy, rate, d[n - 1])
          BY <3>6 DEF Race
        <5>2. (rounds + 1) - 1 = rounds
          BY <3>2
        <5>. QED
          BY <3>2, <5>1, <5>2
      <4>3. TicksAt(copy, d[rounds]) > PauseBudget
        BY <3>2, <4>1 DEF taken
      <4>4. \A n \in 0..rounds : n \in 0..(rounds - 1) \/ n = rounds
        BY <3>2
      <4>. QED
        BY <4>1, <4>2, <4>3, <4>4 DEF left
    <3>7. (rounds + 1) - 1 = rounds
      BY <3>2
    <3>. QED
      BY <3>2, <3>4, <3>5, <3>6, <3>7 DEF MoveInv
  <2>. QED
    BY <2>5, <2>6, <2>7
<1>. QED
  BY <1>1, <1>2

\* There is a race of every plan, and it is the one the verdict is compared with.
LEMMA RaceIsRun ==
    ASSUME NEW memory \in Nat \ {0}, NEW copy \in Nat \ {0}, NEW rate \in Nat, NEW d,
           d = CHOOSE f : f = [n \in 0..memory |->
                                 IF n = 0 THEN memory ELSE LeftAt(copy, rate, f[n - 1])]
    PROVE  /\ Race(d, memory, copy, rate)
           /\ \A n \in 0..memory : d[n] \in Nat
<1>. DEFINE Step == [x \in Nat |-> LeftAt(copy, rate, x)]
            Runs(f) == f = [n \in 0..memory |->
                               IF n = 0 THEN memory ELSE LeftAt(copy, rate, f[n - 1])]
<1>1. Step \in [Nat -> Nat] /\ memory \in Nat
  BY RoundsAreNumbers
<1>2. PICK f : IsIteration(f, memory, memory, Step)
  <2>. HIDE DEF Step
  <2>. QED
    BY <1>1, IterationExists
<1>3. \A n \in 0..memory : f[n] \in Nat
  <2>. HIDE DEF Step
  <2>1. Stepwise(f, memory, Nat, memory, Step)
    BY <1>1, <1>2, IterationIsStepwise
  <2>. QED
    BY <2>1, StepwiseStays
<1>4. Runs(f)
  <2>1. f = [n \in 0..memory |-> IF n = 0 THEN memory ELSE Step[f[n - 1]]]
    BY <1>2 DEF IsIteration
  <2>2. \A n \in 0..memory : (IF n = 0 THEN memory ELSE Step[f[n - 1]])
                                = IF n = 0 THEN memory ELSE LeftAt(copy, rate, f[n - 1])
    <3>. SUFFICES ASSUME NEW n \in 0..memory, n # 0
                  PROVE  Step[f[n - 1]] = LeftAt(copy, rate, f[n - 1])
      OBVIOUS
    <3>1. n - 1 \in 0..memory
      OBVIOUS
    <3>. QED
      BY <1>3, <3>1
  <2>. QED
    BY <2>1, <2>2
<1>5. Runs(d)
  <2>1. d = CHOOSE g : Runs(g)
    OBVIOUS
  <2>. HIDE DEF Runs
  <2>. QED
    BY <1>4, <2>1
<1>6. \A n \in 0..memory : d[n] = IF n = 0 THEN memory ELSE LeftAt(copy, rate, d[n - 1])
  BY <1>5
<1>7. 0 \in 0..memory /\ \A n \in 1..memory : n \in 0..memory /\ n # 0
  OBVIOUS
<1>8. Race(d, memory, copy, rate)
  BY <1>6, <1>7 DEF Race
<1>9. Stepwise(d, memory, Nat, memory, Step)
  <2>1. \A n \in 1..memory : d[n] = LeftAt(copy, rate, d[n - 1])
    BY <1>6, <1>7
  <2>2. \A x \in Nat : Step[x] = LeftAt(copy, rate, x)
    OBVIOUS
  <2>3. d[0] = memory
    BY <1>6, <1>7
  <2>. HIDE DEF Step
  <2>. QED
    BY ONLY <1>1, <2>1, <2>2, <2>3 DEF Stepwise
<1>10. \A n \in 0..memory : d[n] \in Nat
  <2>. HIDE DEF Step
  <2>. QED
    BY <1>9, StepwiseStays
<1>. QED
  BY <1>8, <1>10

\* So the verdict is that of the race.
LEMMA MoveHolds ==
    ASSUME MoveInv
    PROVE  VerdictIsHonest
<1>. DEFINE memory == move.memory
            copy == move.copy
            rate == move.rate
            rounds == move.rounds
            d == CHOOSE f : f = [n \in 0..memory |->
                                   IF n = 0 THEN memory ELSE LeftAfter(f[n - 1])]
            e == CHOOSE f : f = [n \in 0..memory |->
                                   IF n = 0 THEN memory ELSE LeftAt(copy, rate, f[n - 1])]
            fits == {n \in 0..memory : TicksFor(d[n]) <= PauseBudget}
<1>1. /\ memory \in Nat \ {0} /\ copy \in Nat \ {0} /\ rate \in Nat /\ move.dirty \in Nat
      /\ rounds \in 0..MaxRounds /\ MaxRounds \in Nat \ {0} /\ PauseBudget \in Nat \ {0}
      /\ move.dirty + rounds <= memory
  BY OperationsAssumption DEF MoveInv, Moves, OperationsAssumption
<1>2. d = e
  BY DEF LeftAfter, LeftAt, TicksFor, TicksAt
<1>3. Race(e, memory, copy, rate) /\ \A n \in 0..memory : e[n] \in Nat
  BY <1>1, RaceIsRun
<1>. HIDE DEF d, e
<1>4. Race(d, memory, copy, rate) /\ \A n \in 0..memory : d[n] \in Nat
  BY <1>2, <1>3
<1>5. /\ d[rounds] = move.dirty /\ rounds \in 0..memory
      /\ \A n \in 0..(rounds - 1) : TicksAt(copy, d[n]) > PauseBudget
  <2>1. \A f : Race(f, memory, copy, rate) =>
          /\ f[rounds] = move.dirty
          /\ \A n \in 0..(rounds - 1) : TicksAt(copy, f[n]) > PauseBudget
    BY DEF MoveInv
  <2>2. rounds \in 0..memory
    BY <1>1
  <2>. HIDE DEF memory, copy, rate, rounds
  <2>. QED
    BY <1>4, <2>1, <2>2
<1>6. \A n \in 0..memory : TicksFor(d[n]) = TicksAt(copy, d[n])
  BY DEF TicksFor, TicksAt
<1>7. \A n \in 0..memory : TicksAt(copy, d[n]) \in Nat
  BY <1>1, <1>4, RoundsAreNumbers
<1>8. \A n \in 0..memory : n < rounds => n \notin fits
  <2>. SUFFICES ASSUME NEW n \in 0..memory, n < rounds PROVE n \notin fits
    OBVIOUS
  <2>1. n \in 0..(rounds - 1)
    BY <1>1
  <2>2. TicksAt(copy, d[n]) > PauseBudget
    BY <1>5, <2>1
  <2>. QED
    BY <1>1, <1>6, <1>7, <2>2
<1>9. ASSUME move.verdict = "cut over" PROVE \E n \in fits : n < MaxRounds
  <2>1. TicksAt(copy, move.dirty) <= PauseBudget /\ rounds < MaxRounds
    BY <1>9 DEF MoveInv
  <2>2. rounds \in fits
    BY <1>5, <1>6, <2>1
  <2>. QED
    BY <2>1, <2>2
<1>10. ASSUME move.verdict = "never" PROVE fits = {}
  <2>1. /\ TicksAt(copy, move.dirty) > PauseBudget
        /\ LeftAt(copy, rate, move.dirty) = move.dirty
    BY <1>10 DEF MoveInv
  <2>. DEFINE G == {n \in 0..memory : n >= rounds => d[n] = move.dirty}
  <2>2. 0 \in G
    BY <1>1, <1>5
  <2>3. \A i \in 1..memory : i - 1 \in G => i \in G
    <3>. SUFFICES ASSUME NEW i \in 1..memory, i - 1 \in G, i >= rounds PROVE d[i] = move.dirty
      BY <1>1
    <3>1. CASE i = rounds
      BY <1>5, <3>1
    <3>2. CASE i # rounds
      <4>1. d[i - 1] = move.dirty
        BY <1>1, <3>2
      <4>2. d[i] = LeftAt(copy, rate, d[i - 1])
        BY <1>4 DEF Race
      <4>. QED
        BY <2>1, <4>1, <4>2
    <3>. QED
      BY <3>1, <3>2
  <2>. HIDE DEF G
  <2>4. 0..memory \subseteq G
    BY <1>1, <2>2, <2>3, UpTo
  <2>5. ASSUME NEW n \in 0..memory, n >= rounds PROVE n \notin fits
    <3>1. d[n] = move.dirty
      BY <2>4, <2>5 DEF G
    <3>. QED
      BY <1>1, <1>6, <1>7, <2>1, <3>1
  <2>6. \A n \in 0..memory : n < rounds \/ n >= rounds
    BY <1>1
  <2>. QED
    BY <1>8, <2>5, <2>6
<1>11. ASSUME move.verdict = "gave up" PROVE \A n \in fits : n >= MaxRounds
  <2>1. rounds = MaxRounds
    BY <1>11 DEF MoveInv
  <2>2. \A n \in 0..memory : n < rounds \/ n >= rounds
    BY <1>1
  <2>. QED
    BY <1>8, <2>1, <2>2
<1>. QED
  BY <1>9, <1>10, <1>11 DEF VerdictIsHonest, d

-----------------------------------------------------------------------------
(* The pool                                                                *)

\* The longest job, what waits before each worker, and that nothing does.
Longest == Max(Range(jobs))
Backlogs == [w \in Workers |-> Backlog(w)]
NothingWaits == \A w \in Workers : queue[w] = <<>>

\* What is known of what waits and of what is worked on.
PoolKnown ==
    /\ jobs \in JobLists /\ clock \in Nat /\ turn \in 1..(Pool + 1)
    /\ queue \in [Workers -> Seq(Nat \ {0})] /\ busy \in [Workers -> Nat]
    /\ \A w \in Workers : /\ busy[w] <= Longest
                          /\ \A i \in 1..Len(queue[w]) : queue[w][i] <= Longest

\* While some job waits, every tick has been worked by all; afterwards the last of them
\* are over as soon as the property says.
PoolInv ==
    /\ PoolKnown
    /\ stealing =>
          /\ (\E w \in Workers : w < turn /\ busy[w] = 0) => NothingWaits
          /\ ~NothingWaits =>
                clock * Pool + Total(Backlogs, Workers) + Total(busy, Workers)
                    = SumFunction(jobs)
          /\ NothingWaits =>
                \A w \in Workers :
                    clock * Pool + Pool * busy[w] <= SumFunction(jobs) + (Pool - 1) * Longest

\* The workers are numbered, and the jobs are numbers of ticks.
LEMMA PoolIsThere ==
    /\ Pool \in Nat \ {0} /\ Workers = 1..Pool /\ IsFiniteSet(Workers)
    /\ Cardinality(Workers) = Pool
    /\ \A list \in JobLists :
          /\ list \in Seq(Nat \ {0}) /\ list \in Seq(Nat) /\ Len(list) \in Nat \ {0}
          /\ SumFunction(list) \in Nat /\ Max(Range(list)) \in Nat
          /\ \A i \in 1..Len(list) : list[i] \in Nat \ {0} /\ list[i] <= Max(Range(list))
<1>1. IsFiniteSet(Workers) /\ Workers # {} /\ Workers = 1..Pool
  BY OperationsAssumption DEF OperationsAssumption, Pool
<1>2. Pool \in Nat \ {0}
  <2>1. Pool \in Nat
    BY <1>1, FS_CardinalityType DEF Pool
  <2>2. 1..0 = {}
    OBVIOUS
  <2>. QED
    BY <1>1, <2>1, <2>2
<1>3. ASSUME NEW list \in JobLists
      PROVE  /\ list \in Seq(Nat \ {0}) /\ list \in Seq(Nat) /\ Len(list) \in Nat \ {0}
             /\ SumFunction(list) \in Nat /\ Max(Range(list)) \in Nat
             /\ \A i \in 1..Len(list) : list[i] \in Nat \ {0} /\ list[i] <= Max(Range(list))
  <2>1. list \in Seq(Nat \ {0}) /\ list # <<>>
    BY OperationsAssumption DEF OperationsAssumption
  <2>2. /\ Len(list) \in Nat \ {0} /\ DOMAIN list = 1..Len(list)
        /\ \A i \in 1..Len(list) : list[i] \in Nat \ {0}
    <3>1. Len(list) \in Nat /\ Len(list) # 0 /\ DOMAIN list = 1..Len(list)
      BY <2>1, LenProperties, EmptySeq
    <3>2. \A i \in 1..Len(list) : list[i] \in Nat \ {0}
      BY <2>1, ElementOfSeq
    <3>. QED
      BY <3>1, <3>2
  <2>3. list \in Seq(Nat)
    BY <2>1, <2>2
  <2>4. SumFunction(list) \in Nat
    BY <2>3, SumOfSequence
  <2>5. /\ IsFiniteSet(Range(list)) /\ Range(list) \subseteq Int /\ Range(list) # {}
        /\ Range(list) \subseteq Nat /\ \A i \in 1..Len(list) : list[i] \in Range(list)
    <3>. DEFINE S == 1..Len(list)
    <3>1. IsFiniteSet(S)
      BY <2>2, Numbers
    <3>2. Range(list) = {list[i] : i \in S} /\ S # {}
      <4>1. DOMAIN list = S /\ 1 \in S
        BY <2>2
      <4>2. Range(list) = {list[i] : i \in DOMAIN list}
        BY Zenon DEF Range
      <4>. HIDE DEF S
      <4>. QED
        BY <4>1, <4>2
    <3>3. \A i \in S : list[i] \in Nat
      BY <2>2
    <3>. HIDE DEF S
    <3>4. IsFiniteSet(Range(list))
      BY <3>1, <3>2, ValuesAreFew
    <3>. QED
      BY <3>2, <3>3, <3>4 DEF S
  <2>6. Max(Range(list)) \in Range(list) /\ \A y \in Range(list) : y <= Max(Range(list))
    BY <2>5, MaxIsThere
  <2>. QED
    BY <2>1, <2>2, <2>3, <2>4, <2>5, <2>6
<1>4. Cardinality(Workers) = Pool
  BY DEF Pool
<1>. QED
  BY <1>1, <1>2, <1>3, <1>4

\* What follows of what waits.
BacklogFacts ==
    /\ \A w \in Workers : /\ queue[w] \in Seq(Nat) /\ Backlog(w) \in Nat
                          /\ Backlogs[w] = Backlog(w) /\ Backlogs[w] \in Nat
                          /\ (Backlog(w) = 0 <=> queue[w] = <<>>)
    /\ Total(Backlogs, Workers) \in Nat /\ Total(busy, Workers) \in Nat
    /\ NothingWaits => Total(Backlogs, Workers) = 0
    /\ Longest \in Nat /\ SumFunction(jobs) \in Nat

\* The backlogs are numbers, and where all are none nothing waits.
LEMMA BacklogsAreNumbers == PoolKnown => BacklogFacts
<1>. SUFFICES ASSUME PoolKnown PROVE BacklogFacts
  OBVIOUS
<1>1. /\ queue \in [Workers -> Seq(Nat \ {0})] /\ busy \in [Workers -> Nat]
      /\ jobs \in JobLists
  BY DEF PoolKnown
<1>2. ASSUME NEW w \in Workers
      PROVE  /\ queue[w] \in Seq(Nat) /\ Backlog(w) \in Nat
             /\ Backlogs[w] = Backlog(w) /\ (Backlog(w) = 0 <=> queue[w] = <<>>)
  <2>. DEFINE q == queue[w]
  <2>1. q \in Seq(Nat \ {0})
    BY <1>1
  <2>. HIDE DEF q
  <2>2. Len(q) \in Nat /\ \A i \in 1..Len(q) : q[i] \in Nat \ {0}
    BY <2>1, LenProperties, ElementOfSeq
  <2>3. q \in Seq(Nat)
    BY <2>1, <2>2
  <2>4. /\ SumFunction(q) \in Nat /\ (q = <<>> => SumFunction(q) = 0)
        /\ \A i \in 1..Len(q) : q[i] <= SumFunction(q)
    BY <2>3, SumOfSequence
  <2>5. q # <<>> => SumFunction(q) # 0
    <3>1. q # <<>> => Len(q) # 0
      BY <2>1, EmptySeq
    <3>2. q # <<>> => 1 \in 1..Len(q)
      BY <2>2, <3>1
    <3>. QED
      BY <2>2, <2>4, <3>2
  <2>. QED
    BY <2>3, <2>4, <2>5 DEF q, Backlog, Backlogs
<1>3. Total(Backlogs, Workers) \in Nat /\ Total(busy, Workers) \in Nat
  BY <1>1, <1>2, PoolIsThere, TotalIsNat
<1>4. NothingWaits => Total(Backlogs, Workers) = 0
  BY <1>2, PoolIsThere, TotalOfZeros DEF NothingWaits
<1>5. Longest \in Nat /\ SumFunction(jobs) \in Nat
  BY <1>1, PoolIsThere DEF Longest
<1>. QED
  BY <1>2, <1>3, <1>4, <1>5 DEF BacklogFacts

\* The same after a step.
LEMMA BacklogsStayNumbers == (PoolKnown => BacklogFacts)'
BY BacklogsAreNumbers, PTL

\* The jobs are dealt out to the workers.
LEMMA PoolStarts ==
    ASSUME PoolInit
    PROVE  PoolInv
<1>. DEFINE L == Len(jobs)
            len(w) == Dealt(Pool, L, w)
            place(w, i) == DealtPlace(Pool, w, i)
<1>1. /\ jobs \in JobLists /\ turn = 1 /\ clock = 0
      /\ queue = [w \in Workers |-> [i \in 1..len(w) |-> jobs[place(w, i)]]]
      /\ busy = [w \in Workers |-> 0]
  BY DEF PoolInit, Dealt, DealtPlace
<1>2. /\ Pool \in Nat \ {0} /\ Workers = 1..Pool /\ IsFiniteSet(Workers)
      /\ L \in Nat \ {0} /\ SumFunction(jobs) \in Nat /\ Longest \in Nat
      /\ jobs \in Seq(Nat)
      /\ \A i \in 1..L : jobs[i] \in Nat \ {0} /\ jobs[i] <= Longest
  BY <1>1, PoolIsThere DEF Longest
<1>. HIDE DEF L
<1>3. ASSUME NEW w \in Workers
      PROVE  /\ len(w) \in Nat
             /\ \A i \in 1..len(w) : /\ place(w, i) \in 1..L
                                     /\ DealtTo(Pool, place(w, i)) = w
             /\ \A i, j \in 1..len(w) : place(w, i) = place(w, j) => i = j
             /\ \A k \in 1..L : DealtTo(Pool, k) = w
                   => \E i \in 1..len(w) : place(w, i) = k
  <2>1. w \in 1..Pool /\ L \in Nat /\ Pool \in Nat \ {0}
    BY <1>2
  <2>. QED
    BY <2>1, DealtOut, ZenonT(20)
<1>. HIDE DEF len, place
<1>4. ASSUME NEW w \in Workers
      PROVE  /\ queue[w] \in Seq(Nat \ {0}) /\ queue[w] \in Seq(Nat) /\ Len(queue[w]) = len(w)
             /\ \A i \in 1..len(w) : queue[w][i] = jobs[place(w, i)] /\ queue[w][i] <= Longest
  <2>1. queue[w] = [i \in 1..len(w) |-> jobs[place(w, i)]]
    BY <1>1
  <2>2. \A i \in 1..len(w) : jobs[place(w, i)] \in Nat \ {0} /\ jobs[place(w, i)] <= Longest
    BY <1>2, <1>3
  <2>3. len(w) \in Nat
    BY <1>3
  <2>. QED
    BY <2>1, <2>2, <2>3
<1>5. PoolKnown
  <2>1. queue = [w \in Workers |-> queue[w]]
    BY <1>1
  <2>2. queue \in [Workers -> Seq(Nat \ {0})]
    BY <1>4, <2>1
  <2>3. busy \in [Workers -> Nat] /\ \A w \in Workers : busy[w] = 0
    BY <1>1
  <2>4. turn \in 1..(Pool + 1) /\ clock \in Nat /\ \A w \in Workers : busy[w] <= Longest
    BY <1>1, <1>2, <2>3
  <2>5. \A w \in Workers : \A i \in 1..Len(queue[w]) : queue[w][i] <= Longest
    BY <1>4
  <2>. QED
    BY <1>1, <2>2, <2>3, <2>4, <2>5 DEF PoolKnown
<1>6. Total(Backlogs, Workers) = SumFunction(jobs)
  <2>. DEFINE S == 1..L
              P == [k \in S |-> DealtTo(Pool, k)]
  <2>1. P \in [S -> Workers]
    <3>1. 1 \in 1..Pool /\ L \in Nat
      BY <1>2
    <3>2. \A k \in S : DealtTo(Pool, k) \in 1..Pool
      BY <1>2, <3>1, DealtOut
    <3>. QED
      BY <1>2, <3>2
  <2>2. IsFiniteSet(S) /\ \A k \in S : jobs[k] \in Nat
    BY <1>2, Numbers
  <2>3. ASSUME NEW w \in Workers PROVE Backlogs[w] = Total(jobs, PartOf(S, P, w))
    <3>. DEFINE A == 1..len(w)
                B == PartOf(S, P, w)
                f == [i \in A |-> place(w, i)]
                q == queue[w]
    <3>1. \A i \in A : f[i] \in B /\ q[i] = jobs[f[i]] /\ q[i] \in Nat
      <4>. SUFFICES ASSUME NEW i \in A
                    PROVE  f[i] \in B /\ q[i] = jobs[f[i]] /\ q[i] \in Nat
        OBVIOUS
      <4>1. f[i] = place(w, i) /\ place(w, i) \in S /\ DealtTo(Pool, place(w, i)) = w
        BY <1>3
      <4>2. q[i] = jobs[place(w, i)] /\ jobs[place(w, i)] \in Nat
        BY <1>2, <1>4, <4>1
      <4>. QED
        BY <4>1, <4>2 DEF PartOf
    <3>2. f \in [A -> B] /\ \A i, j \in A : f[i] = f[j] => i = j
      BY <1>3, <3>1
    <3>3. \A k \in B : \E i \in A : f[i] = k
      <4>. SUFFICES ASSUME NEW k \in B PROVE \E i \in A : f[i] = k
        OBVIOUS
      <4>1. k \in 1..L /\ DealtTo(Pool, k) = w
        BY DEF PartOf
      <4>. QED
        BY <1>3, <4>1
    <3>4. f \in Bijection(A, B)
      <4>. HIDE DEF A, B, f
      <4>. QED
        BY <3>2, <3>3 DEF Bijection, Injection, Surjection, IsInjective
    <3>5. IsFiniteSet(A) /\ IsFiniteSet(B)
      <4>1. IsFiniteSet(A)
        BY <1>3, Numbers
      <4>2. B \subseteq S
        BY DEF PartOf
      <4>. HIDE DEF A, B, S
      <4>. QED
        BY <2>2, <4>1, <4>2, FS_Subset
    <3>6. SumFunction(q) = Total(q, A)
      BY <1>4, SumOfSequence
    <3>7. Backlogs[w] = SumFunction(q)
      BY DEF Backlogs, Backlog
    <3>. HIDE DEF A, B, f, q
    <3>8. Total(jobs, B) = Total(q, A)
      BY <3>1, <3>4, <3>5, TotalOfMoved
    <3>. QED
      BY <3>6, <3>7, <3>8 DEF B
  <2>4. SumFunction(jobs) = Total(jobs, S)
    BY <1>2, SumOfSequence DEF L
  <2>5. IsFiniteSet(Workers)
    BY <1>2
  <2>. HIDE DEF S, P
  <2>6. Total(Backlogs, Workers) = Total(jobs, S)
    BY <2>1, <2>2, <2>3, <2>5, TotalOfParts
  <2>. QED
    BY <2>4, <2>6
<1>7. /\ \A w \in Workers : busy[w] = 0 /\ ~(w < turn)
      /\ Total(busy, Workers) = 0
  <2>1. \A w \in Workers : busy[w] = 0 /\ ~(w < turn)
    BY <1>1, <1>2
  <2>2. Total(busy, Workers) = 0
    BY <1>2, <2>1, TotalOfZeros
  <2>. QED
    BY <2>1, <2>2
<1>8. 0 * Pool = 0 /\ Pool * 0 = 0 /\ (Pool - 1) * Longest \in Nat
  BY <1>2
<1>. QED
  BY <1>1, <1>2, <1>5, <1>6, <1>7, <1>8 DEF PoolInv

\* A worker that is free takes a job that waited, its own or another's.
LEMMA JobBegins ==
    ASSUME PoolInv, PoolKnown', UNCHANGED <<jobs, stealing, clock>>, turn' = turn + 1,
           turn \in Workers, busy[turn] = 0, NEW job \in Nat \ {0}, job <= Longest,
           busy' = [busy EXCEPT ![turn] = job],
           NEW from \in Workers, queue[from] # <<>>,
           Backlogs[from] = job + Backlogs'[from],
           \A w \in Workers : w # from => Backlogs'[w] = Backlogs[w]
    PROVE  PoolInv'
<1>1. /\ Pool \in Nat \ {0} /\ Workers = 1..Pool /\ IsFiniteSet(Workers)
      /\ turn \in Nat /\ clock \in Nat /\ busy \in [Workers -> Nat]
  <2>1. turn \in 1..(Pool + 1) /\ clock \in Nat /\ busy \in [Workers -> Nat]
    BY DEF PoolInv, PoolKnown
  <2>. QED
    BY <2>1, PoolIsThere
<1>a. IsFiniteSet(Workers) /\ turn \in Workers
  BY <1>1
<1>2. PoolKnown
  BY DEF PoolInv
<1>3. /\ \A w \in Workers : Backlogs[w] = Backlog(w) /\ Backlogs[w] \in Nat
                            /\ (Backlog(w) = 0 <=> queue[w] = <<>>)
      /\ Total(Backlogs, Workers) \in Nat /\ Total(busy, Workers) \in Nat
      /\ Longest \in Nat /\ SumFunction(jobs) \in Nat
  BY <1>2, BacklogsAreNumbers DEF BacklogFacts
<1>4. /\ \A w \in Workers : Backlogs'[w] = Backlog(w)' /\ Backlogs'[w] \in Nat
      /\ Total(Backlogs, Workers)' = Total(Backlogs', Workers)
      /\ Total(Backlogs', Workers) \in Nat
      /\ NothingWaits' => Total(Backlogs', Workers) = 0
  BY BacklogsStayNumbers DEF BacklogFacts
<1>5. /\ \A w \in Workers : busy'[w] = IF w = turn THEN job ELSE busy[w]
      /\ \A w \in Workers : busy'[w] \in Nat /\ busy[w] \in Nat /\ busy'[w] <= Longest
  <2>1. \A w \in Workers : busy'[w] = IF w = turn THEN job ELSE busy[w]
    BY <1>1
  <2>2. \A w \in Workers : busy'[w] \in Nat /\ busy[w] \in Nat
    BY <1>1, <2>1
  <2>3. \A w \in Workers : busy[w] <= Longest
    BY <1>2 DEF PoolKnown
  <2>. QED
    BY <2>1, <2>2, <2>3
<1>6. Total(busy', Workers) = Total(busy, Workers) + job /\ Total(busy', Workers) \in Nat
  <2>0. /\ \A w \in Workers : busy'[w] \in Nat /\ busy[w] \in Nat
        /\ \A w \in Workers : w # turn => busy'[w] = busy[w]
    BY <1>5
  <2>1. Total(busy', Workers) = Total(busy, Workers) + busy'[turn] - busy[turn]
    BY ONLY <1>a, <2>0, TotalOfChange
  <2>2. busy'[turn] = job
    BY <1>5
  <2>. QED
    BY <1>3, <2>1, <2>2
<1>7. Total(Backlogs, Workers) = Total(Backlogs', Workers) + job
  <2>0. from \in Workers
    OBVIOUS
  <2>1. \A w \in Workers : w # from => Backlogs[w] = Backlogs'[w]
    BY <1>3, <1>4
  <2>2. Total(Backlogs, Workers)
           = Total(Backlogs', Workers) + Backlogs[from] - Backlogs'[from]
    <3>1. \A w \in Workers : Backlogs[w] \in Nat /\ Backlogs'[w] \in Nat
      BY <1>3, <1>4
    <3>. HIDE DEF Backlogs
    <3>. QED
      BY ONLY <1>a, <2>0, <2>1, <3>1, TotalOfChange
  <2>3. Backlogs[from] = job + Backlogs'[from] /\ Backlogs'[from] \in Nat
    BY <1>3, <1>4
  <2>. QED
    BY <1>4, <2>2, <2>3
<1>8. ~NothingWaits
  BY DEF NothingWaits
<1>9. SUFFICES ASSUME stealing
               PROVE  /\ (\E w \in Workers : w < turn' /\ busy'[w] = 0) => NothingWaits'
                      /\ ~NothingWaits' =>
                            clock * Pool + Total(Backlogs', Workers) + Total(busy', Workers)
                               = SumFunction(jobs)
                      /\ NothingWaits' =>
                            \A w \in Workers : clock * Pool + Pool * busy'[w]
                                                 <= SumFunction(jobs) + (Pool - 1) * Longest
  BY <1>4 DEF PoolInv, Longest, Pool
<1>10. ~\E w \in Workers : w < turn' /\ busy'[w] = 0
  <2>1. \A w \in Workers : w < turn => busy[w] # 0
    BY <1>8, <1>9 DEF PoolInv
  <2>. QED
    BY <1>1, <1>5, <2>1
<1>11. clock * Pool + Total(Backlogs', Workers) + Total(busy', Workers) = SumFunction(jobs)
  <2>1. clock * Pool + Total(Backlogs, Workers) + Total(busy, Workers) = SumFunction(jobs)
    BY <1>8, <1>9 DEF PoolInv
  <2>2. clock * Pool \in Nat
    BY <1>1
  <2>. QED
    BY <1>3, <1>4, <1>6, <1>7, <2>1, <2>2
<1>12. ASSUME NothingWaits', NEW w \in Workers
       PROVE  clock * Pool + Pool * busy'[w] <= SumFunction(jobs) + (Pool - 1) * Longest
  <2>. DEFINE b == busy'[w]
  <2>1. b \in Nat /\ b <= Longest /\ b <= Total(busy', Workers)
    <3>1. Total(busy', Workers) = b + Total(busy', Workers \ {w})
          /\ Total(busy', Workers \ {w}) \in Nat
      <4>1. w \in Workers /\ \A t \in Workers : busy'[t] \in Nat
        BY <1>5
      <4>. QED
        BY ONLY <1>a, <4>1, TotalApart
    <3>. QED
      BY <1>5, <3>1
  <2>2. clock * Pool + Total(busy', Workers) = SumFunction(jobs)
    BY <1>1, <1>4, <1>6, <1>11, <1>12
  <2>. HIDE DEF b
  <2>3. (Pool - 1) * b <= (Pool - 1) * Longest
    <3>1. Pool - 1 \in Nat /\ b \in Int /\ Longest \in Int
      BY <1>1, <1>3, <2>1
    <3>. QED
      BY <2>1, <3>1, ManyTimes
  <2>4. /\ Pool * b = b + (Pool - 1) * b /\ (Pool - 1) * b \in Nat
        /\ (Pool - 1) * Longest \in Nat /\ clock * Pool \in Nat
    <3>1. Pool \in Nat \ {0} /\ b \in Nat /\ Longest \in Nat /\ clock \in Nat
      BY <1>1, <1>3, <2>1
    <3>2. /\ Pool * b = b + (Pool - 1) * b /\ (Pool - 1) * b \in Nat
      BY ONLY <3>1
    <3>3. (Pool - 1) * Longest \in Nat /\ clock * Pool \in Nat
      BY ONLY <3>1
    <3>. QED
      BY <3>2, <3>3
  <2>5. clock * Pool + Pool * b <= SumFunction(jobs) + (Pool - 1) * Longest
    <3>. DEFINE worked == clock * Pool
                mine == Pool * b
                others == (Pool - 1) * b
                most == (Pool - 1) * Longest
    <3>1. /\ worked \in Nat /\ others \in Nat /\ most \in Nat /\ b \in Nat
          /\ mine = b + others /\ others <= most
      BY <2>1, <2>3, <2>4
    <3>2. /\ worked + Total(busy', Workers) = SumFunction(jobs)
          /\ Total(busy', Workers) \in Nat /\ b <= Total(busy', Workers)
      BY <1>6, <2>1, <2>2
    <3>. HIDE DEF worked, mine, others, most
    <3>3. worked + mine <= SumFunction(jobs) + most
      BY ONLY <3>1, <3>2
    <3>. QED
      BY <3>3 DEF worked, mine, most
  <2>. QED
    BY <2>5 DEF b
<1>. QED
  BY <1>10, <1>11, <1>12

\* Who has the most before it is somebody.
LEMMA VictimHasMost ==
    ASSUME PoolKnown
    PROVE  Victim \in Workers /\ \A w \in Workers : Backlog(w) <= Backlog(Victim)
<1>1. /\ IsFiniteSet(Workers) /\ Workers = 1..Pool /\ Pool \in Nat \ {0}
      /\ \A w \in Workers : Backlog(w) \in Nat
  BY PoolIsThere, BacklogsAreNumbers DEF BacklogFacts
<1>. DEFINE B == {Backlog(w) : w \in Workers}
            T == {w \in Workers : Backlog(w) = Max(B)}
            Most(v) == \A w \in Workers : Backlog(w) < Backlog(v)
                                           \/ (Backlog(w) = Backlog(v) /\ v <= w)
<1>2. IsFiniteSet(B)
  <2>1. B = {Backlogs[w] : w \in Workers}
    BY DEF Backlogs
  <2>2. IsFiniteSet(Workers)
    BY <1>1
  <2>. HIDE DEF B
  <2>. QED
    BY <2>1, <2>2, ValuesAreFew
<1>3. B \subseteq Int /\ B # {} /\ \A w \in Workers : Backlog(w) \in B
  BY <1>1
<1>4. Max(B) \in B /\ \A y \in B : y <= Max(B)
  <2>. HIDE DEF B
  <2>. QED
    BY <1>2, <1>3, MaxIsThere
<1>5. IsFiniteSet(T) /\ T \subseteq Int /\ T # {}
  <2>1. T \subseteq Workers /\ T # {}
    BY <1>4
  <2>2. Workers \subseteq Int
    BY <1>1
  <2>. HIDE DEF T
  <2>. QED
    BY <1>1, <2>1, <2>2, FS_Subset
<1>6. Min(T) \in T /\ \A y \in T : Min(T) <= y
  <2>. HIDE DEF T
  <2>. QED
    BY <1>5, MinIsThere
<1>7. Min(T) \in Workers /\ Most(Min(T))
  <2>1. \A w \in Workers : Backlog(w) <= Backlog(Min(T)) /\ Backlog(Min(T)) = Max(B)
    BY <1>3, <1>4, <1>6
  <2>2. \A w \in Workers : Backlog(w) = Backlog(Min(T)) => Min(T) <= w
    BY <1>6, <2>1
  <2>. HIDE DEF T, B
  <2>3. Min(T) \in Workers
    BY <1>6 DEF T
  <2>. QED
    BY <1>1, <2>1, <2>2, <2>3
<1>8. Victim = CHOOSE v \in Workers : Most(v)
  BY DEF Victim
<1>9. Victim \in Workers /\ Most(Victim)
  <2>. HIDE DEF Most
  <2>. QED
    BY <1>7, <1>8
<1>. QED
  BY <1>1, <1>9

\* A worker that goes on with what it has, or finds nothing anywhere.
LEMMA VisitPasses ==
    ASSUME PoolInv, turn \in Workers, UNCHANGED <<jobs, stealing, queue, busy, clock>>,
           turn' = turn + 1, busy[turn] = 0 /\ stealing => NothingWaits
    PROVE  PoolInv'
<1>1. /\ Pool \in Nat \ {0} /\ Workers = 1..Pool
      /\ turn \in Nat
  <2>1. turn \in 1..(Pool + 1)
    BY DEF PoolInv, PoolKnown
  <2>. QED
    BY <2>1, PoolIsThere
<1>2. PoolKnown'
  BY <1>1 DEF PoolInv, PoolKnown, Longest
<1>3. \A w \in Workers : w < turn' => w < turn \/ w = turn
  BY <1>1
<1>4. stealing /\ (\E w \in Workers : w < turn' /\ busy[w] = 0) => NothingWaits
  BY <1>3 DEF PoolInv
<1>. QED
  BY <1>2, <1>4 DEF PoolInv, NothingWaits, Backlogs, Backlog, Longest

\* A worker that takes the first of its own jobs.
LEMMA VisitWorks ==
    ASSUME PoolInv, turn \in Workers, UNCHANGED <<jobs, stealing, clock>>, turn' = turn + 1,
           busy[turn] = 0, queue[turn] # <<>>,
           busy' = [busy EXCEPT ![turn] = Head(queue[turn])],
           queue' = [queue EXCEPT ![turn] = Tail(queue[turn])]
    PROVE  PoolInv'
<1>. DEFINE q == queue[turn]
            job == Head(q)
<1>1. /\ PoolKnown /\ queue \in [Workers -> Seq(Nat \ {0})] /\ busy \in [Workers -> Nat]
      /\ \A w \in Workers : /\ busy[w] <= Longest
                            /\ \A i \in 1..Len(queue[w]) : queue[w][i] <= Longest
  BY DEF PoolInv, PoolKnown
<1>2. q \in Seq(Nat \ {0}) /\ q # <<>> /\ q \in Seq(Nat) /\ \A i \in 1..Len(q) : q[i] <= Longest
  BY <1>1, BacklogsAreNumbers DEF BacklogFacts
<1>. HIDE DEF q
<1>3. /\ Tail(q) \in Seq(Nat \ {0}) /\ Len(Tail(q)) = Len(q) - 1 /\ Len(q) \in Nat \ {0}
      /\ \A i \in 1..(Len(q) - 1) : Tail(q)[i] = q[i + 1]
      /\ job = q[1] /\ job \in Nat \ {0} /\ job <= Longest
  <2>1. /\ Tail(q) \in Seq(Nat \ {0}) /\ Len(Tail(q)) = Len(q) - 1
        /\ \A i \in 1..(Len(q) - 1) : Tail(q)[i] = q[i + 1]
    BY <1>2, HeadTailProperties
  <2>2. Len(q) \in Nat /\ Len(q) # 0
    BY <1>2, LenProperties, EmptySeq
  <2>3. job = q[1] /\ 1 \in 1..Len(q)
    BY <1>2, <2>2
  <2>4. q[1] \in Nat \ {0}
    BY <1>2, <2>3, ElementOfSeq
  <2>. QED
    BY <1>2, <2>1, <2>2, <2>3, <2>4
<1>. HIDE DEF job
<1>4. /\ queue'[turn] = Tail(q) /\ \A w \in Workers : w # turn => queue'[w] = queue[w]
      /\ queue' \in [Workers -> Seq(Nat \ {0})]
  BY <1>1, <1>3 DEF q
<1>5. /\ busy' = [busy EXCEPT ![turn] = job]
      /\ busy'[turn] = job /\ \A w \in Workers : w # turn => busy'[w] = busy[w]
      /\ busy' \in [Workers -> Nat]
  BY <1>1, <1>3 DEF job, q
<1>6. PoolKnown'
  <2>1. \A i \in 1..Len(Tail(q)) : Tail(q)[i] <= Longest
    BY <1>2, <1>3
  <2>2. \A w \in Workers : /\ busy'[w] <= Longest
                           /\ \A i \in 1..Len(queue'[w]) : queue'[w][i] <= Longest
    BY <1>1, <1>3, <1>4, <1>5, <2>1
  <2>3. turn' \in 1..(Pool + 1)
    BY PoolIsThere
  <2>4. Longest' = Longest /\ Pool' = Pool
    BY DEF Longest, Pool
  <2>. QED
    BY <1>1, <1>4, <1>5, <2>2, <2>3, <2>4 DEF PoolKnown
<1>7. Backlogs[turn] = job + Backlogs'[turn]
  <2>1. SumFunction(q) = q[1] + SumFunction(Tail(q))
    BY <1>2, SumOfTail
  <2>3. Backlogs[turn] = SumFunction(q) /\ Backlogs'[turn] = SumFunction(Tail(q))
    BY <1>4 DEF Backlogs, Backlog, q
  <2>. QED
    BY <1>3, <2>1, <2>3
<1>8. \A w \in Workers : w # turn => Backlogs'[w] = Backlogs[w]
  BY <1>4 DEF Backlogs, Backlog
<1>9. /\ turn \in Workers /\ queue[turn] # <<>> /\ busy[turn] = 0 /\ turn' = turn + 1
      /\ UNCHANGED <<jobs, stealing, clock>> /\ PoolInv
  OBVIOUS
<1>. QED
  BY ONLY <1>3, <1>5, <1>6, <1>7, <1>8, <1>9, JobBegins

\* A worker that takes the last job of another.
LEMMA VisitSteals ==
    ASSUME PoolInv, turn \in Workers, UNCHANGED <<jobs, stealing, clock>>, turn' = turn + 1,
           busy[turn] = 0, queue[turn] = <<>>,
           NEW v \in Workers, v # turn, queue[v] # <<>>,
           busy' = [busy EXCEPT ![turn] = queue[v][Len(queue[v])]],
           queue' \in [Workers -> Seq(Nat \ {0})],
           queue'[turn] = <<>>, \A w \in Workers : w # v => queue'[w] = queue[w],
           Len(queue'[v]) = Len(queue[v]) - 1,
           \A i \in 1..(Len(queue[v]) - 1) : queue'[v][i] = queue[v][i]
    PROVE  PoolInv'
<1>. DEFINE q == queue[v]
            p == queue'[v]
            job == q[Len(q)]
<1>1. /\ PoolKnown /\ queue \in [Workers -> Seq(Nat \ {0})] /\ busy \in [Workers -> Nat]
      /\ \A w \in Workers : /\ busy[w] <= Longest
                            /\ \A i \in 1..Len(queue[w]) : queue[w][i] <= Longest
  BY DEF PoolInv, PoolKnown
<1>2. q \in Seq(Nat \ {0}) /\ q # <<>> /\ q \in Seq(Nat) /\ \A i \in 1..Len(q) : q[i] <= Longest
  BY <1>1, BacklogsAreNumbers DEF BacklogFacts
<1>3. /\ p \in Seq(Nat \ {0}) /\ Len(p) = Len(q) - 1
      /\ \A i \in 1..(Len(q) - 1) : p[i] = q[i]
  OBVIOUS
<1>4. busy' = [busy EXCEPT ![turn] = job]
  OBVIOUS
<1>. HIDE DEF q, p
<1>5. Len(q) \in Nat \ {0} /\ job \in Nat \ {0} /\ job <= Longest
  <2>1. Len(q) \in Nat /\ Len(q) # 0
    BY <1>2, LenProperties, EmptySeq
  <2>2. Len(q) \in 1..Len(q)
    BY <2>1
  <2>3. q[Len(q)] \in Nat \ {0}
    BY <1>2, <2>2, ElementOfSeq
  <2>. QED
    BY <1>2, <2>1, <2>2, <2>3
<1>6. p \in Seq(Nat)
  <2>1. Len(p) \in Nat /\ \A i \in 1..Len(p) : p[i] \in Nat \ {0}
    BY <1>3, LenProperties, ElementOfSeq
  <2>. QED
    BY <1>3, <2>1
<1>7. SumFunction(q) = job + SumFunction(p)
  BY <1>2, <1>3, <1>6, SumOfFront
<1>. HIDE DEF job
<1>8. /\ busy'[turn] = job /\ \A w \in Workers : w # turn => busy'[w] = busy[w]
      /\ busy' \in [Workers -> Nat]
  BY <1>1, <1>4, <1>5
<1>9. PoolKnown'
  <2>1. \A i \in 1..Len(p) : p[i] <= Longest
    <3>. SUFFICES ASSUME NEW i \in 1..Len(p) PROVE p[i] <= Longest
      OBVIOUS
    <3>1. i \in 1..(Len(q) - 1) /\ i \in 1..Len(q)
      BY <1>3, <1>5
    <3>2. p[i] = q[i] /\ q[i] <= Longest
      BY <1>2, <1>3, <3>1
    <3>. QED
      BY <3>2
  <2>2. \A w \in Workers : busy'[w] <= Longest
    BY <1>1, <1>5, <1>8
  <2>3. \A w \in Workers : \A i \in 1..Len(queue'[w]) : queue'[w][i] <= Longest
    BY <1>1, <2>1 DEF p
  <2>4. turn' \in 1..(Pool + 1)
    BY PoolIsThere
  <2>5. Longest' = Longest /\ Pool' = Pool
    BY DEF Longest, Pool
  <2>. QED
    BY <1>1, <1>8, <2>2, <2>3, <2>4, <2>5 DEF PoolKnown
<1>10. Backlogs[v] = job + Backlogs'[v]
  BY <1>7 DEF Backlogs, Backlog, q, p
<1>11. \A w \in Workers : w # v => Backlogs'[w] = Backlogs[w]
  BY DEF Backlogs, Backlog
<1>12. /\ turn \in Workers /\ v \in Workers /\ queue[v] # <<>> /\ busy[turn] = 0
       /\ turn' = turn + 1 /\ UNCHANGED <<jobs, stealing, clock>> /\ PoolInv
  OBVIOUS
<1>. QED
  BY ONLY <1>4, <1>5, <1>9, <1>10, <1>11, <1>12, JobBegins

\* A visit is one of the three: it passes, works, or steals.
LEMMA VisitKeeps ==
    ASSUME PoolInv, Visit
    PROVE  PoolInv'
<1>1. /\ turn \in Workers /\ turn' = turn + 1 /\ UNCHANGED <<jobs, stealing, clock>>
      /\ \/ UNCHANGED <<queue, busy>> /\ (busy[turn] > 0 \/ AfterTheft[turn] = <<>>)
         \/ /\ ~(busy[turn] > 0) /\ AfterTheft[turn] # <<>>
            /\ busy' = [busy EXCEPT ![turn] = Head(AfterTheft[turn])]
            /\ queue' = [AfterTheft EXCEPT ![turn] = Tail(AfterTheft[turn])]
  BY DEF Visit
<1>2. /\ PoolKnown /\ queue \in [Workers -> Seq(Nat \ {0})] /\ busy \in [Workers -> Nat]
  BY DEF PoolInv, PoolKnown
<1>3. Victim \in Workers /\ \A w \in Workers : Backlog(w) <= Backlog(Victim)
  BY <1>2, VictimHasMost
<1>4. \A w \in Workers : Backlog(w) \in Nat /\ (Backlog(w) = 0 <=> queue[w] = <<>>)
  BY <1>2, BacklogsAreNumbers DEF BacklogFacts
<1>. DEFINE v == Victim
            thieves == stealing /\ queue[turn] = <<>> /\ v # turn /\ queue[v] # <<>>
            last == queue[v][Len(queue[v])]
<1>5. CASE ~thieves
  <2>1. AfterTheft = queue
    BY <1>5 DEF AfterTheft
  <2>2. CASE busy[turn] > 0
    <3>1. busy[turn] # 0
      BY <1>1, <1>2, <2>2
    <3>. QED
      BY <1>1, <2>2, <3>1, VisitPasses
  <2>3. CASE ~(busy[turn] > 0) /\ queue[turn] = <<>>
    <3>1. stealing => queue[v] = <<>>
      BY <1>5, <2>3
    <3>2. stealing => \A w \in Workers : Backlog(w) = 0
      BY <1>3, <1>4, <3>1
    <3>3. stealing => NothingWaits
      BY <1>4, <3>2 DEF NothingWaits
    <3>. QED
      BY <1>1, <2>1, <2>3, <3>3, VisitPasses
  <2>4. CASE ~(busy[turn] > 0) /\ queue[turn] # <<>>
    <3>1. busy[turn] = 0
      BY <1>1, <1>2, <2>4
    <3>2. /\ busy' = [busy EXCEPT ![turn] = Head(queue[turn])]
          /\ queue' = [queue EXCEPT ![turn] = Tail(queue[turn])]
      BY <1>1, <2>1, <2>4
    <3>. QED
      BY <1>1, <2>4, <3>1, <3>2, VisitWorks
  <2>. QED
    BY <2>2, <2>3, <2>4
<1>6. CASE thieves
  <2>1. AfterTheft = [queue EXCEPT ![turn] = <<last>>,
                                   ![v] = SubSeq(queue[v], 1, Len(queue[v]) - 1)]
    BY <1>6 DEF AfterTheft, Front, Last
  <2>2. /\ AfterTheft[turn] = <<last>> /\ DOMAIN AfterTheft = Workers
        /\ AfterTheft[v] = SubSeq(queue[v], 1, Len(queue[v]) - 1)
        /\ \A w \in Workers : w # turn /\ w # v => AfterTheft[w] = queue[w]
    BY <1>1, <1>2, <1>3, <1>6, <2>1
  <2>3. CASE busy[turn] > 0
    <3>1. busy[turn] # 0
      BY <1>1, <1>2, <2>3
    <3>. QED
      BY <1>1, <2>3, <3>1, VisitPasses
  <2>4. CASE ~(busy[turn] > 0)
    <3>. DEFINE q == queue[v]
                p == SubSeq(q, 1, Len(q) - 1)
    <3>1. busy[turn] = 0 /\ Head(<<last>>) = last /\ Tail(<<last>>) = <<>>
      BY <1>1, <1>2, <2>4
    <3>2. /\ busy' = [busy EXCEPT ![turn] = last]
          /\ queue' = [AfterTheft EXCEPT ![turn] = <<>>]
      BY <1>1, <2>2, <2>4, <3>1
    <3>3. q \in Seq(Nat \ {0}) /\ q # <<>>
      BY <1>2, <1>3, <1>6
    <3>4. p \in Seq(Nat \ {0}) /\ Len(p) = Len(q) - 1 /\ \A i \in 1..(Len(q) - 1) : p[i] = q[i]
      <4>. HIDE DEF q
      <4>. QED
        BY <3>3, WithoutLast
    <3>5. /\ queue' = [w \in Workers |-> queue'[w]] /\ queue'[turn] = <<>> /\ queue'[v] = p
          /\ \A w \in Workers : w # turn /\ w # v => queue'[w] = queue[w]
      BY <1>1, <1>3, <1>6, <2>1, <2>2, <3>2
    <3>6. queue' \in [Workers -> Seq(Nat \ {0})]
      <4>1. <<>> \in Seq(Nat \ {0})
        OBVIOUS
      <4>2. \A w \in Workers : queue'[w] \in Seq(Nat \ {0})
        BY <1>2, <3>4, <3>5, <4>1
      <4>. QED
        BY <3>5, <4>2
    <3>7. \A w \in Workers : w # v => queue'[w] = queue[w]
      BY <1>6, <3>5
    <3>8. v \in Workers /\ v # turn /\ queue[turn] = <<>>
      BY <1>3, <1>6
    <3>. HIDE DEF v
    <3>9. Len(queue'[v]) = Len(queue[v]) - 1
          /\ \A i \in 1..(Len(queue[v]) - 1) : queue'[v][i] = queue[v][i]
      BY <3>4, <3>5
    <3>. QED
      BY <1>1, <3>1, <3>2, <3>3, <3>5, <3>6, <3>7, <3>8, <3>9, VisitSteals
  <2>. QED
    BY <2>3, <2>4
<1>. QED
  BY <1>5, <1>6

\* A tick takes one from what every worker has left, and all have some while a job waits.
LEMMA TickWorks ==
    ASSUME PoolInv, PoolTick
    PROVE  PoolInv'
<1>1. /\ turn \notin Workers /\ ~Over /\ clock' = clock + 1 /\ turn' = 1
      /\ busy' = [w \in Workers |-> IF busy[w] > 0 THEN busy[w] - 1 ELSE 0]
      /\ UNCHANGED <<jobs, stealing, queue>>
  BY DEF PoolTick
<1>2. /\ PoolKnown /\ busy \in [Workers -> Nat] /\ clock \in Nat /\ turn \in 1..(Pool + 1)
      /\ \A w \in Workers : busy[w] <= Longest
  BY DEF PoolInv, PoolKnown
<1>3. Pool \in Nat \ {0} /\ Workers = 1..Pool
  BY PoolIsThere
<1>4. IsFiniteSet(Workers) /\ Cardinality(Workers) = Pool
  BY PoolIsThere
<1>5. /\ \A w \in Workers : Backlogs'[w] = Backlogs[w]
      /\ Total(Backlogs, Workers) \in Nat /\ Total(busy, Workers) \in Nat
      /\ Longest \in Nat /\ SumFunction(jobs) \in Nat
  BY <1>1, <1>2, BacklogsAreNumbers DEF BacklogFacts, Backlogs, Backlog
<1>6. \A w \in Workers : /\ busy'[w] \in Nat /\ busy[w] \in Nat
                         /\ busy'[w] = IF busy[w] > 0 THEN busy[w] - 1 ELSE 0
                         /\ busy'[w] <= busy[w]
  BY <1>1, <1>2
<1>7. PoolKnown'
  <2>1. busy' \in [Workers -> Nat]
    BY <1>1, <1>6
  <2>2. \A w \in Workers : busy'[w] <= Longest
    BY <1>2, <1>5, <1>6
  <2>3. Longest' = Longest /\ Pool' = Pool /\ turn' \in 1..(Pool + 1) /\ clock' \in Nat
    BY <1>1, <1>2, <1>3 DEF Longest, Pool
  <2>. QED
    BY <1>1, <1>2, <2>1, <2>2, <2>3 DEF PoolKnown
<1>8. /\ NothingWaits' = NothingWaits /\ Backlogs' = Backlogs /\ Longest' = Longest /\ Pool' = Pool
  BY <1>1 DEF NothingWaits, Backlogs, Backlog, Longest, Pool
<1>9. clock * Pool \in Nat /\ (clock + 1) * Pool = clock * Pool + Pool
      /\ (Pool - 1) * Longest \in Nat
  BY <1>2, <1>3, <1>5
<1>10. ASSUME stealing, ~NothingWaits
       PROVE  (clock + 1) * Pool + Total(Backlogs, Workers) + Total(busy', Workers)
                 = SumFunction(jobs)
  <2>1. \A w \in Workers : busy[w] # 0
    <3>1. \A w \in Workers : w < turn
      BY <1>1, <1>2, <1>3
    <3>. QED
      BY <1>10, <3>1 DEF PoolInv
  <2>2. \A w \in Workers : busy'[w] \in Nat /\ busy[w] = busy'[w] + 1
    BY <1>6, <2>1
  <2>3. Total(busy, Workers) = Total(busy', Workers) + Pool
    BY ONLY <1>4, <2>2, TotalOfMore
  <2>4. Total(busy', Workers) \in Nat
    BY ONLY <1>4, <2>2, TotalIsNat
  <2>5. clock * Pool + Total(Backlogs, Workers) + Total(busy, Workers) = SumFunction(jobs)
    BY <1>10 DEF PoolInv
  <2>. QED
    BY <1>3, <1>5, <1>9, <2>3, <2>4, <2>5
<1>11. ASSUME stealing, NothingWaits, NEW w \in Workers
       PROVE  (clock + 1) * Pool + Pool * busy'[w] <= SumFunction(jobs) + (Pool - 1) * Longest
  <2>1. \A u \in Workers :
           clock * Pool + Pool * busy[u] <= SumFunction(jobs) + (Pool - 1) * Longest
    BY <1>11 DEF PoolInv
  <2>2. PICK u \in Workers : busy[u] # 0
    BY <1>1, <1>11 DEF Over, NothingWaits
  <2>. DEFINE busiest == IF busy[w] > 0 THEN w ELSE u
              b == busy[busiest]
  <2>3. busiest \in Workers /\ b \in Nat /\ b # 0 /\ busy'[w] <= b - 1 /\ busy'[w] \in Nat
    BY <1>6, <2>2
  <2>4. clock * Pool + Pool * b <= SumFunction(jobs) + (Pool - 1) * Longest
    BY <2>1, <2>3
  <2>. DEFINE c == busy'[w]
              d == b - 1
  <2>5. c \in Int /\ d \in Nat /\ c <= d /\ c \in Nat
    BY <2>3
  <2>6. Pool * b = Pool * d + Pool /\ Pool * d \in Nat
    BY <1>3, <2>3
  <2>. HIDE DEF b, c, d
  <2>7. Pool * c <= Pool * d /\ Pool * c \in Nat
    <3>1. Pool \in Nat
      BY <1>3
    <3>. QED
      BY <2>5, <3>1, ManyTimes
  <2>8. (clock + 1) * Pool + Pool * c <= SumFunction(jobs) + (Pool - 1) * Longest
    BY <1>3, <1>5, <1>9, <2>4, <2>6, <2>7
  <2>. QED
    BY <2>8 DEF c
<1>12. ~\E w \in Workers : w < turn'
  BY <1>1, <1>3
<1>. QED
  BY <1>1, <1>7, <1>8, <1>10, <1>11, <1>12 DEF PoolInv

\* Whatever the pool does keeps what is known of it.
LEMMA PoolSteps ==
    ASSUME PoolInv, [PoolNext]_poolVars
    PROVE  PoolInv'
<1>1. CASE Visit
  BY <1>1, VisitKeeps
<1>2. CASE PoolTick
  BY <1>2, TickWorks
<1>3. CASE UNCHANGED poolVars
  BY <1>3 DEF poolVars, PoolInv, PoolKnown, NothingWaits, Backlogs, Backlog, Longest, Pool
<1>. QED
  BY <1>1, <1>2, <1>3 DEF PoolNext

\* A pool of which this is known takes no longer than the mean load and the longest
\* job beside it, and leaves no worker idle beside a job that waits.
LEMMA PoolHolds == PoolInv => StealingPays
<1>. SUFFICES ASSUME PoolInv, stealing
              PROVE  /\ turn \notin Workers /\ (\E w \in Workers : busy[w] = 0) => NothingWaits
                     /\ clock * Pool <= SumFunction(jobs) + (Pool - 1) * Longest
  BY DEF StealingPays, NothingWaits, Longest
<1>1. /\ PoolKnown /\ busy \in [Workers -> Nat] /\ clock \in Nat /\ turn \in 1..(Pool + 1)
  BY DEF PoolInv, PoolKnown
<1>2. Pool \in Nat \ {0} /\ Workers = 1..Pool
  BY PoolIsThere
<1>3. /\ Total(Backlogs, Workers) \in Nat /\ Total(busy, Workers) \in Nat
      /\ Longest \in Nat /\ SumFunction(jobs) \in Nat
  BY <1>1, BacklogsAreNumbers DEF BacklogFacts
<1>4. clock * Pool \in Nat /\ (Pool - 1) * Longest \in Nat
      /\ \A w \in Workers : Pool * busy[w] \in Nat
  BY <1>1, <1>2, <1>3
<1>5. turn \notin Workers /\ (\E w \in Workers : busy[w] = 0) => NothingWaits
  BY <1>1, <1>2 DEF PoolInv
<1>6. CASE NothingWaits
  <2>1. 1 \in Workers
    BY <1>2
  <2>2. clock * Pool + Pool * busy[1] <= SumFunction(jobs) + (Pool - 1) * Longest
    BY <1>6, <2>1 DEF PoolInv
  <2>. QED
    BY <1>3, <1>4, <1>5, <2>1, <2>2
<1>7. CASE ~NothingWaits
  <2>1. clock * Pool + Total(Backlogs, Workers) + Total(busy, Workers) = SumFunction(jobs)
    BY <1>7 DEF PoolInv
  <2>. QED
    BY <1>3, <1>4, <1>5, <2>1
<1>. QED
  BY <1>6, <1>7

-----------------------------------------------------------------------------
(* The dampener                                                            *)

\* Of an endpoint that is suppressed: so much was noted of it that it is not let back
\* at once, however often that is asked.
DampInv ==
    /\ penalty \in Nat /\ quietFor \in 0..LongQuiet /\ suppressed \in BOOLEAN
    /\ suppressed => 5 * penalty > 4 * Flap

\* A penalty decays to a number, and not before a half-life is over.
LEMMA PenaltyDecays ==
    ASSUME DampInv
    PROVE  Decayed \in Nat /\ (quietFor < HalfLife => Decayed = penalty)
<1>. DEFINE Half == [x \in Nat |-> x \div 2]
            Halves(f) == f = [n \in 0..8 |-> IF n = 0 THEN penalty ELSE f[n - 1] \div 2]
            d == CHOOSE f : Halves(f)
            k == quietFor \div HalfLife
<1>1. /\ HalfLife \in Nat \ {0} /\ penalty \in Nat /\ quietFor \in 0..LongQuiet
      /\ 8 \in Nat
  BY RequestsAssumption DEF RequestsAssumption, DampInv
<1>2. Half \in [Nat -> Nat]
  OBVIOUS
<1>3. PICK f : IsIteration(f, 8, penalty, Half)
  <2>. HIDE DEF Half
  <2>. QED
    BY <1>1, <1>2, IterationExists
<1>4. Halves(f)
  <2>1. \A n \in 0..8 : f[n] \in Nat
    <3>. HIDE DEF Half
    <3>1. Stepwise(f, 8, Nat, penalty, Half)
      BY <1>1, <1>2, <1>3, IterationIsStepwise
    <3>. QED
      BY <3>1, StepwiseStays
  <2>2. f = [n \in 0..8 |-> IF n = 0 THEN penalty ELSE Half[f[n - 1]]]
    BY <1>3 DEF IsIteration
  <2>3. \A n \in 0..8 : (IF n = 0 THEN penalty ELSE Half[f[n - 1]])
                            = IF n = 0 THEN penalty ELSE f[n - 1] \div 2
    <3>. SUFFICES ASSUME NEW n \in 0..8, n # 0 PROVE Half[f[n - 1]] = f[n - 1] \div 2
      OBVIOUS
    <3>1. n - 1 \in 0..8
      OBVIOUS
    <3>. QED
      BY <2>1, <3>1
  <2>. QED
    BY <2>2, <2>3
<1>5. Halves(d)
  <2>. HIDE DEF Halves
  <2>. QED
    BY <1>4
<1>6. d[0] = penalty /\ \A n \in 0..8 : d[n] \in Nat
  <2>1. \A n \in 0..8 : d[n] = IF n = 0 THEN penalty ELSE d[n - 1] \div 2
    BY <1>5
  <2>. HIDE DEF d
  <2>2. 0 \in 0..8 /\ \A n \in 1..8 : n \in 0..8 /\ n # 0
    OBVIOUS
  <2>3. d[0] = penalty
    BY <2>1, <2>2
  <2>4. Stepwise(d, 8, Nat, penalty, Half)
    BY <1>1, <1>2, <2>1, <2>2, <2>3 DEF Stepwise
  <2>. HIDE DEF Half
  <2>. QED
    BY <2>3, <2>4, StepwiseStays
<1>7. k \in 0..8 /\ (quietFor < HalfLife => k = 0)
  BY <1>1 DEF LongQuiet
<1>8. Decayed = d[k]
  BY DEF Decayed
<1>. HIDE DEF d, k
<1>. QED
  BY <1>6, <1>7, <1>8

\* Nothing is suppressed at first.
LEMMA DampStarts ==
    ASSUME DampInit
    PROVE  DampInv
<1>1. LongQuiet \in Nat
  BY RequestsAssumption DEF RequestsAssumption, LongQuiet
<1>2. penalty = 0 /\ quietFor = LongQuiet /\ suppressed = FALSE
  BY DEF DampInit
<1>3. penalty \in Nat /\ quietFor \in 0..LongQuiet
  BY <1>1, <1>2
<1>4. suppressed \in BOOLEAN /\ ~suppressed
  BY <1>2, Zenon
<1>. QED
  BY <1>3, <1>4 DEF DampInv

\* A flap leaves a penalty that suppresses, and asking and time take none away.
LEMMA DampSteps ==
    ASSUME DampInv, [DampNext]_dampVars
    PROVE  DampInv' /\ (suppressed /\ ~suppressed' => quietFor >= HalfLife)
<1>1. /\ HalfLife \in Nat \ {0} /\ Flap \in Nat \ {0} /\ LongQuiet \in Nat /\ LongQuiet' = LongQuiet
  BY RequestsAssumption DEF RequestsAssumption, LongQuiet
<1>2. Decayed \in Nat /\ (quietFor < HalfLife => Decayed = penalty)
  BY PenaltyDecays
<1>3. /\ penalty \in Nat /\ quietFor \in 0..LongQuiet /\ suppressed \in BOOLEAN
      /\ suppressed => 5 * penalty > 4 * Flap
  BY DEF DampInv
<1>4. CASE NoteFlap
  <2>1. /\ penalty' = Decayed + Flap /\ quietFor' = 0
        /\ suppressed' = (suppressed \/ 2 * penalty' >= 5 * Flap)
    BY <1>4 DEF NoteFlap
  <2>2. penalty' \in Nat /\ 5 * penalty' > 4 * Flap /\ quietFor' \in 0..LongQuiet
    BY <1>1, <1>2, <2>1
  <2>3. suppressed' \in BOOLEAN /\ (suppressed => suppressed')
    BY <1>3, <2>1
  <2>. QED
    BY <1>1, <2>2, <2>3 DEF DampInv
<1>5. CASE AskRotation
  <2>1. suppressed' = (suppressed /\ 5 * Decayed > 4 * Flap) /\ UNCHANGED <<penalty, quietFor>>
    BY <1>5 DEF AskRotation
  <2>2. suppressed' \in BOOLEAN /\ (suppressed' => suppressed)
    BY <1>3, <2>1
  <2>3. suppressed /\ quietFor < HalfLife => suppressed'
    BY <1>2, <1>3, <2>1
  <2>. QED
    BY <1>1, <1>3, <2>1, <2>2, <2>3 DEF DampInv
<1>6. CASE DampTime
  <2>1. quietFor' = Min({quietFor + 1, LongQuiet}) /\ UNCHANGED <<penalty, suppressed>>
    BY <1>6 DEF DampTime
  <2>. DEFINE a == quietFor + 1
              b == LongQuiet
  <2>2. a \in Nat /\ b \in Nat /\ quietFor' = Min({a, b})
    BY <1>1, <1>3, <2>1
  <2>. HIDE DEF a, b
  <2>3. quietFor' \in {a, b} /\ quietFor' <= b
    BY <2>2, LesserOfTwo
  <2>4. quietFor' \in 0..LongQuiet
    BY <2>2, <2>3 DEF b
  <2>. QED
    BY <1>1, <1>3, <2>1, <2>4 DEF DampInv
<1>7. CASE UNCHANGED dampVars
  BY <1>1, <1>3, <1>7 DEF dampVars, DampInv
<1>. QED
  BY <1>4, <1>5, <1>6, <1>7 DEF DampNext

-----------------------------------------------------------------------------
(* The pair of sites                                                       *)

\* The two sites.
East == [up : BOOLEAN, reachable : BOOLEAN, active : BOOLEAN]
West == [up : BOOLEAN, active : BOOLEAN]

\* The watcher never has more misses than the active site has failed checks in a row.
PairInv ==
    /\ east \in East /\ west \in West
    /\ misses \in Nat /\ failing \in Nat /\ misses <= failing

\* No check has failed at first.
LEMMA PairStarts ==
    ASSUME PairInit
    PROVE  PairInv
BY DEF PairInit, PairInv, East, West

\* A site is promoted when misses are enough, so failures are.
LEMMA PairSteps ==
    ASSUME PairInv, [\E a, b, c \in BOOLEAN : PairTick(a, b, c)]_pairVars
    PROVE  /\ PairInv'
           /\ (east'.active /\ ~east.active) \/ (west'.active /\ ~west.active)
                 => failing' >= PromoteAfter
<1>1. CASE UNCHANGED pairVars
  BY <1>1 DEF pairVars, PairInv
<1>2. ASSUME NEW eastUp \in BOOLEAN, NEW eastReachable \in BOOLEAN, NEW westUp \in BOOLEAN,
             PairTick(eastUp, eastReachable, westUp)
      PROVE  /\ PairInv'
             /\ (east'.active /\ ~east.active) \/ (west'.active /\ ~west.active)
                   => failing' >= PromoteAfter
  <2>. DEFINE w == [west EXCEPT !.up = westUp]
              told == [east EXCEPT !.up = eastUp, !.reachable = eastReachable]
              e == Demoted(told, w)
              fine == IF e.active THEN e.up /\ e.reachable ELSE w.up
              count == IF fine THEN 0 ELSE misses + 1
              promotes == /\ count >= PromoteAfter
                          /\ IF e.active THEN w.up /\ ~w.active ELSE e.up
              one == failing + 1
  <2>1. /\ east' = IF ~promotes THEN e
                   ELSE [e EXCEPT !.active = IF e.active THEN ~e.reachable ELSE TRUE]
        /\ west' = IF promotes THEN [w EXCEPT !.active = e.active] ELSE w
        /\ misses' = IF promotes THEN 0 ELSE Min({count, PromoteAfter})
        /\ failing' = IF fine THEN 0 ELSE Min({one, PromoteAfter})
    BY <1>2 DEF PairTick
  <2>2. /\ PromoteAfter \in Nat \ {0} /\ misses \in Nat /\ failing \in Nat /\ misses <= failing
        /\ east \in East /\ west \in West
    BY SignalsAssumption DEF SignalsAssumption, PairInv
  <2>3. w \in West /\ w.active = west.active /\ told \in East /\ told.active = east.active
    BY <2>2 DEF East, West
  <2>. HIDE DEF w, told
  <2>4. e \in East /\ (e.active => east.active)
    <3>1. [told EXCEPT !.active = FALSE] \in East /\ ~[told EXCEPT !.active = FALSE].active
      BY <2>3 DEF East
    <3>. QED
      BY <2>3, <3>1 DEF Demoted
  <2>. HIDE DEF e
  <2>5. /\ e.active \in BOOLEAN /\ e.reachable \in BOOLEAN
        /\ \A b \in BOOLEAN : [e EXCEPT !.active = b] \in East
        /\ \A b \in BOOLEAN : [w EXCEPT !.active = b] \in West
    BY <2>3, <2>4 DEF East, West
  <2>6. /\ ~promotes => east' = e /\ west' = w
        /\ promotes => count >= PromoteAfter
    BY <2>1
  <2>7. /\ count \in Nat /\ one \in Nat /\ (fine => count = 0) /\ (~fine => count <= one)
        /\ (count >= PromoteAfter => ~fine /\ one >= PromoteAfter)
    BY <2>2
  <2>8. /\ misses' = 0 \/ misses' = Min({count, PromoteAfter})
        /\ promotes => misses' = 0
        /\ fine => failing' = 0
        /\ ~fine => failing' = Min({one, PromoteAfter})
    BY <2>1
  <2>9. east' \in East /\ west' \in West
    <3>1. CASE promotes
      <4>1. west' = [w EXCEPT !.active = e.active]
        BY <2>1, <3>1
      <4>2. east' = [e EXCEPT !.active = IF e.active THEN ~e.reachable ELSE TRUE]
        BY <2>1, <3>1
      <4>3. (IF e.active THEN ~e.reachable ELSE TRUE) \in BOOLEAN
        BY <2>5
      <4>. QED
        BY <2>5, <4>1, <4>2, <4>3
    <3>2. CASE ~promotes
      BY <2>3, <2>4, <2>6, <3>2
    <3>. QED
      BY <3>1, <3>2
  <2>. HIDE DEF fine, count, promotes, one
  <2>10. /\ Min({count, PromoteAfter}) = IF count <= PromoteAfter THEN count ELSE PromoteAfter
         /\ Min({one, PromoteAfter}) = IF one <= PromoteAfter THEN one ELSE PromoteAfter
    BY <2>2, <2>7, LesserOfTwo
  <2>11. misses' \in Nat /\ failing' \in Nat /\ misses' <= failing'
    BY <2>2, <2>7, <2>8, <2>10
  <2>12. promotes => failing' >= PromoteAfter
    BY <2>2, <2>6, <2>7, <2>8, <2>10
  <2>13. (east'.active /\ ~east.active) \/ (west'.active /\ ~west.active) => promotes
    BY <2>3, <2>4, <2>6
  <2>. QED
    BY <2>9, <2>11, <2>12, <2>13 DEF PairInv
<1>. QED
  BY <1>1, <1>2

-----------------------------------------------------------------------------
(* The moves of a task                                                     *)

\* Stages are counted.
StageInv == stage \in [at : Nat, attempts : Nat]

\* None is at first, and each step counts on or anew.
LEMMA StageStarts ==
    ASSUME LivesInit
    PROVE  StageInv
BY DEF LivesInit, StageInv

\* They stay numbers, whatever a step does.
LEMMA StageSteps ==
    ASSUME StageInv, [LivesNext]_crewVars
    PROVE  StageInv'
<1>1. /\ stage \in [at : Nat, attempts : Nat] /\ AttemptsAllowed \in Nat
  BY LivesAssumption DEF LivesAssumption, StageInv
<1>2. ASSUME UNCHANGED stage PROVE StageInv'
  BY <1>1, <1>2 DEF StageInv
<1>3. CASE DeclareStages \/ CompleteStage
  BY <1>1, <1>3 DEF DeclareStages, CompleteStage, StageInv
<1>4. CASE FailStage
  <2>. DEFINE a == stage.attempts + 1
              b == AttemptsAllowed
              c == Min({a, b})
  <2>1. stage' = [stage EXCEPT !.attempts = c]
    BY <1>4 DEF FailStage
  <2>2. a \in Nat /\ b \in Nat
    BY <1>1
  <2>. HIDE DEF a, b
  <2>3. c \in Nat
    BY <2>2, LesserOfTwo
  <2>. HIDE DEF c
  <2>. QED
    BY <1>1, <2>1, <2>3 DEF StageInv
<1>5. CASE ~(DeclareStages \/ CompleteStage \/ FailStage)
  <2>1. UNCHANGED stage
    BY <1>5 DEF LivesNext, crewVars, AttachSidecar, CompanyKept, RestartSweep, EngineMoves,
                Move, RemoveTask, AdmitTask
  <2>. QED
    BY <1>2, <2>1
<1>. QED
  BY <1>3, <1>4, <1>5

\* What the table of moves, and the few exceptions to it, say of a step of task t.
Told(t) ==
    LET was == crew[t].phase
        is == crew'[t].phase
    IN was # is /\ "gone" \notin {was, is} =>
          \/ <<was, is>> \in LegalMoves
          \/ is = "Pending" /\ ShouldRestart(policies[t], was)
          \/ t = Companion /\ is = "Bound" /\ crew'[t].node = crew[Primary].node
          \/ t = Primary /\ stage' # stage
          \/ t = Primary /\ is = "Failed" /\ stage.attempts = AttemptsAllowed

\* Every step of the lives moves each task as it is told.
LEMMA LivesAreTold ==
    ASSUME DoorInv, StageInv, LivesNext
    PROVE  \A t \in People : Told(t)
<1>1. crew \in [People -> Known] /\ Primary \in People /\ Companion \in People
  BY DEF DoorInv, People, Primary, Companion
<1>. DEFINE Phases == {"gone", "Pending", "Bound", "Running", "Succeeded", "Failed", "Evicted"}
<1>2. \A t \in People : crew[t].phase \in Phases /\ crew[t].node \in Homesteads \cup {Nowhere}
  BY <1>1 DEF Known
<1>3. ASSUME NEW t \in People, NEW phase \in Phases, NEW node \in Homesteads \cup {Nowhere},
             Put(t, phase, node)
      PROVE  /\ crew'[t].phase = phase /\ crew'[t].node = node
             /\ \A u \in People : u # t => Told(u)
  <2>1. [phase |-> phase, node |-> node] \in Known
    BY DEF Known
  <2>2. /\ crew'[t].phase = phase /\ crew'[t].node = node
        /\ \A u \in People : u # t => crew'[u] = crew[u]
    BY <1>1, <1>3, <2>1, WhereItIsPut
  <2>. QED
    BY <2>2 DEF Told
<1>4. ASSUME crew' = crew PROVE \A t \in People : Told(t)
  BY <1>4 DEF Told
<1>5. CASE AttachSidecar
  <2>1. Put(Companion, "Pending", Nowhere) /\ ~There(Companion)
    BY <1>5 DEF AttachSidecar
  <2>2. \A u \in People : u # Companion => Told(u)
    BY <1>1, <1>3, <2>1
  <2>3. Told(Companion)
    BY <2>1 DEF Told, There
  <2>. QED
    BY <2>2, <2>3
<1>6. CASE CompanyKept
  <2>1. CASE UNCHANGED crew
    BY <1>4, <2>1
  <2>2. CASE Put(Companion, "gone", Nowhere)
    <3>1. crew'[Companion].phase = "gone" /\ \A u \in People : u # Companion => Told(u)
      BY <1>1, <1>3, <2>2
    <3>. QED
      BY <3>1 DEF Told
  <2>3. CASE Put(Companion, "Bound", crew[Primary].node)
    <3>1. /\ crew'[Companion].phase = "Bound" /\ crew'[Companion].node = crew[Primary].node
          /\ \A u \in People : u # Companion => Told(u)
      BY <1>1, <1>2, <1>3, <2>3
    <3>. QED
      BY <3>1 DEF Told
  <2>4. CASE crew[Companion].phase \in Active /\ Put(Companion, "Pending", Nowhere)
    <3>1. crew'[Companion].phase = "Pending" /\ \A u \in People : u # Companion => Told(u)
      BY <1>1, <1>3, <2>4
    <3>2. \A phase \in Active : <<phase, "Pending">> \in LegalMoves
      BY DEF Active, LegalMoves
    <3>. QED
      BY <2>4, <3>1, <3>2 DEF Told
  <2>. QED
    BY <1>6, <2>1, <2>2, <2>3, <2>4 DEF CompanyKept
<1>7. CASE RestartSweep
  <2>. DEFINE again == {t \in People : /\ crew[t].phase \in Terminal
                                       /\ ShouldRestart(policies[t], crew[t].phase)}
  <2>1. crew' = [t \in People |-> IF t \in again THEN [phase |-> "Pending", node |-> Nowhere]
                                  ELSE crew[t]]
    BY <1>7 DEF RestartSweep
  <2>2. ASSUME NEW t \in People PROVE Told(t)
    <3>1. CASE t \in again
      <4>1. crew'[t].phase = "Pending" /\ ShouldRestart(policies[t], crew[t].phase)
        BY <2>1, <3>1
      <4>. QED
        BY <4>1 DEF Told
    <3>2. CASE t \notin again
      <4>1. crew'[t] = crew[t]
        BY <2>1, <3>2
      <4>. QED
        BY <4>1 DEF Told
    <3>. QED
      BY <3>1, <3>2
  <2>. QED
    BY <2>2
<1>8. CASE DeclareStages
  BY <1>4, <1>8 DEF DeclareStages
<1>9. CASE CompleteStage
  <2>1. stage' = [at |-> stage.at + 1, attempts |-> 0] /\ stage' # stage
    <3>1. stage' = [at |-> stage.at + 1, attempts |-> 0]
      BY <1>9 DEF CompleteStage
    <3>2. stage.at \in Nat
      BY DEF StageInv
    <3>3. stage'.at = stage.at + 1
      BY <3>1
    <3>. QED
      BY <3>1, <3>2, <3>3
  <2>2. CASE UNCHANGED crew
    BY <1>4, <2>2
  <2>3. CASE Put(Primary, "Running", crew[Primary].node)
    <3>1. \A u \in People : u # Primary => Told(u)
      BY <1>1, <1>2, <1>3, <2>3
    <3>. QED
      BY <2>1, <3>1 DEF Told
  <2>. QED
    BY <1>9, <2>2, <2>3 DEF CompleteStage
<1>10. CASE FailStage
  <2>1. CASE UNCHANGED crew
    BY <1>4, <2>1
  <2>2. CASE stage'.attempts = AttemptsAllowed /\ Put(Primary, "Failed", crew[Primary].node)
    <3>1. crew'[Primary].phase = "Failed" /\ \A u \in People : u # Primary => Told(u)
      BY <1>1, <1>2, <1>3, <2>2
    <3>2. stage' = stage => stage.attempts = AttemptsAllowed
      BY <2>2
    <3>. QED
      BY <3>1, <3>2 DEF Told
  <2>. QED
    BY <1>10, <2>1, <2>2 DEF FailStage
<1>11. ASSUME NEW t \in People, RemoveTask(t) PROVE \A u \in People : Told(u)
  <2>1. Put(t, "gone", Nowhere)
    BY <1>11 DEF RemoveTask
  <2>2. crew'[t].phase = "gone" /\ \A u \in People : u # t => Told(u)
    BY <1>3, <2>1
  <2>. QED
    BY <2>2 DEF Told
<1>12. ASSUME NEW t \in People, AdmitTask(t) PROVE \A u \in People : Told(u)
  <2>1. ~There(t) /\ Put(t, "Pending", Nowhere)
    BY <1>12 DEF AdmitTask
  <2>2. \A u \in People : u # t => Told(u)
    BY <1>3, <2>1
  <2>. QED
    BY <2>1, <2>2 DEF Told, There
<1>13. ASSUME NEW t \in People, EngineMoves(t) PROVE \A u \in People : Told(u)
  <2>1. PICK phase \in Phases, node \in Homesteads \cup {Nowhere} : Move(t, phase, node)
    BY <1>2, <1>13 DEF EngineMoves
  <2>2. Put(t, phase, node) /\ <<crew[t].phase, phase>> \in LegalMoves
    BY <2>1 DEF Move
  <2>3. crew'[t].phase = phase /\ \A u \in People : u # t => Told(u)
    BY <1>3, <2>2
  <2>. QED
    BY <2>2, <2>3 DEF Told
<1>. QED
  BY <1>5, <1>6, <1>7, <1>8, <1>9, <1>10, <1>11, <1>12, <1>13 DEF LivesNext

-----------------------------------------------------------------------------
(* All of them                                                             *)

\* What is known of the parts in every state.
CallsInv ==
    /\ BreakerInv /\ BulkheadInv /\ LadderInv /\ LimiterInv /\ KeyInv
    /\ FlightInv /\ BudgetInv /\ SagaInv /\ DuckInv /\ MoveInv
    /\ PoolInv /\ DoorInv /\ StageInv /\ CrashInv /\ DampInv
    /\ PairInv

\* The first state of all is a first state of each part.
LEMMA CallsStart ==
    ASSUME Init
    PROVE  CallsInv
<1>1. /\ BreakerInit /\ BulkheadInit /\ LadderInit /\ LimiterInit /\ KeyInit
      /\ FlightInit /\ BudgetInit /\ SagaInit /\ DuckInit /\ MigrationInit
      /\ PoolInit /\ LivesInit /\ CrashInit /\ DampInit /\ PairInit
  BY DEF Init, OneOf
<1>2. BreakerInv
  BY <1>1, ValvesAssumption, BreakerStarts
<1>3. BulkheadInv
  BY <1>1, ValvesAssumption, BulkheadStarts
<1>4. LadderInv
  BY <1>1, ValvesAssumption, StagesAreOrdered, LadderStarts
<1>5. LimiterInv
  BY <1>1, ValvesAssumption, LimiterStarts
<1>6. KeyInv
  BY <1>1, CallsAssumption, KeyStarts
<1>7. FlightInv
  BY <1>1, FlightStarts
<1>8. BudgetInv
  BY <1>1, CallsAssumption, RatioIsFraction, BudgetStarts
<1>9. SagaInv
  BY <1>1, SagaStarts
<1>10. DuckInv
  BY <1>1, DuckStarts
<1>11. MoveInv
  BY <1>1, MoveStarts
<1>12. PoolInv
  BY <1>1, PoolStarts
<1>13. DoorInv
  BY <1>1, DoorStarts
<1>14. StageInv
  BY <1>1, StageStarts
<1>15. CrashInv
  BY <1>1, CrashStarts
<1>16. DampInv
  BY <1>1, DampStarts
<1>17. PairInv
  BY <1>1, PairStarts
<1>. QED
  BY <1>2, <1>3, <1>4, <1>5, <1>6, <1>7, <1>8, <1>9, <1>10, <1>11,
     <1>12, <1>13, <1>14, <1>15, <1>16, <1>17 DEF CallsInv

\* A step of all is a step of the part that runs, and leaves each of the others alone.
LEMMA EachRunsAlone ==
    ASSUME [Next]_vars
    PROVE  /\ [BreakerNext]_breakerVars /\ [BulkheadNext]_bulkheadVars
           /\ [LadderNext]_ladderVars /\ [LimiterNext]_limiterVars
           /\ [KeyNext]_keyVars /\ [FlightNext]_flightVars
           /\ [BudgetNext]_budgetVars /\ [SagaNext]_sagaVars
           /\ [DuckNext]_duckVars /\ [CopyRound]_move
           /\ [PoolNext]_poolVars /\ [LivesNext]_crewVars
           /\ [CrashNext]_crash /\ [DampNext]_dampVars
           /\ [\E a, b, c \in BOOLEAN : PairTick(a, b, c)]_pairVars
<1>1. [BreakerNext]_breakerVars
  BY DEF Next, In, Still, vars
<1>2. [BulkheadNext]_bulkheadVars
  BY DEF Next, In, Still, vars
<1>3. [LadderNext]_ladderVars
  BY DEF Next, In, Still, vars
<1>4. [LimiterNext]_limiterVars
  BY DEF Next, In, Still, vars
<1>5. [KeyNext]_keyVars
  BY DEF Next, In, Still, vars
<1>6. [FlightNext]_flightVars
  BY DEF Next, In, Still, vars
<1>7. [BudgetNext]_budgetVars
  BY DEF Next, In, Still, vars
<1>8. [SagaNext]_sagaVars
  BY DEF Next, In, Still, vars
<1>9. [DuckNext]_duckVars
  BY DEF Next, In, Still, vars
<1>10. [CopyRound]_move
  BY DEF Next, In, Still, vars
<1>11. [PoolNext]_poolVars
  BY DEF Next, In, Still, vars
<1>12. [LivesNext]_crewVars
  BY DEF Next, In, Still, vars
<1>13. [CrashNext]_crash
  BY DEF Next, In, Still, vars
<1>14. [DampNext]_dampVars
  BY DEF Next, In, Still, vars
<1>15. [\E a, b, c \in BOOLEAN : PairTick(a, b, c)]_pairVars
  BY DEF Next, In, Still, vars
<1>. QED
  BY <1>1, <1>2, <1>3, <1>4, <1>5, <1>6, <1>7, <1>8, <1>9, <1>10,
     <1>11, <1>12, <1>13, <1>14, <1>15

\* So every step keeps what is known of each part.
LEMMA CallsStep ==
    ASSUME CallsInv, [Next]_vars
    PROVE  CallsInv'
<1>1. /\ [BreakerNext]_breakerVars /\ [BulkheadNext]_bulkheadVars
      /\ [LadderNext]_ladderVars /\ [LimiterNext]_limiterVars
      /\ [KeyNext]_keyVars /\ [FlightNext]_flightVars
      /\ [BudgetNext]_budgetVars /\ [SagaNext]_sagaVars
      /\ [DuckNext]_duckVars /\ [CopyRound]_move
      /\ [PoolNext]_poolVars /\ [LivesNext]_crewVars
      /\ [CrashNext]_crash /\ [DampNext]_dampVars
      /\ [\E a, b, c \in BOOLEAN : PairTick(a, b, c)]_pairVars
  BY EachRunsAlone
<1>2. /\ BreakerInv /\ BulkheadInv /\ LadderInv /\ LimiterInv /\ KeyInv
      /\ FlightInv /\ BudgetInv /\ SagaInv /\ DuckInv /\ MoveInv
      /\ PoolInv /\ DoorInv /\ StageInv /\ CrashInv /\ DampInv
      /\ PairInv
  BY DEF CallsInv
<1>3. BreakerInv'
  BY <1>1, <1>2, ValvesAssumption, BreakerSteps
<1>4. BulkheadInv'
  BY <1>1, <1>2, ValvesAssumption, BulkheadSteps
<1>5. LadderInv'
  BY <1>1, <1>2, ValvesAssumption, StagesAreOrdered, LadderSteps
<1>6. LimiterInv'
  BY <1>1, <1>2, ValvesAssumption, LimiterSteps
<1>7. KeyInv'
  BY <1>1, <1>2, CallsAssumption, KeySteps
<1>8. FlightInv'
  BY <1>1, <1>2, FlightSteps
<1>9. BudgetInv'
  BY <1>1, <1>2, CallsAssumption, RatioIsFraction, BudgetSteps
<1>10. SagaInv'
  BY <1>1, <1>2, SagaKeeps
<1>11. DuckInv'
  BY <1>1, <1>2, DuckSteps
<1>12. MoveInv'
  BY <1>1, <1>2, MoveSteps
<1>13. PoolInv'
  BY <1>1, <1>2, PoolSteps
<1>14. DoorInv'
  BY <1>1, <1>2, DoorSteps
<1>15. StageInv'
  BY <1>1, <1>2, StageSteps
<1>16. CrashInv'
  BY <1>1, <1>2, CrashSteps
<1>17. DampInv'
  BY <1>1, <1>2, DampSteps
<1>18. PairInv'
  BY <1>1, <1>2, PairSteps
<1>. QED
  BY <1>3, <1>4, <1>5, <1>6, <1>7, <1>8, <1>9, <1>10, <1>11, <1>12,
     <1>13, <1>14, <1>15, <1>16, <1>17, <1>18 DEF CallsInv
\* What is known of the parts says that each holds what it promises.
LEMMA CallsHold == CallsInv => ValvesHold
<1>. SUFFICES ASSUME CallsInv PROVE ValvesHold
  OBVIOUS
<1>1. /\ BreakerInv /\ BulkheadInv /\ LadderInv /\ LimiterInv /\ KeyInv
      /\ FlightInv /\ BudgetInv /\ SagaInv /\ DuckInv /\ MoveInv
      /\ PoolInv /\ DoorInv /\ CrashInv
  BY DEF CallsInv
<1>2. BreakerHolds
  BY <1>1 DEF BreakerInv
<1>3. NobodyOvertakes
  BY <1>1, ValvesAssumption, BulkheadHolds
<1>4. ExpendableFirst
  BY <1>1, ValvesAssumption, StagesAreOrdered, LadderHolds
<1>5. PromiseKept
  BY <1>1, ValvesAssumption, LimiterHolds
<1>6. LandsOnce
  BY <1>1, CallsAssumption, KeyHolds
<1>7. AboardIsWaiting
  BY <1>1 DEF FlightInv
<1>8. RetriesAreEarned
  BY <1>1, CallsAssumption, RatioIsFraction, BudgetHolds
<1>9. SagaIsWhole
  BY <1>1, SagaHolds
<1>10. OnlyHopelessCut
  BY <1>1 DEF DuckInv
<1>11. VerdictIsHonest
  BY <1>1, MoveHolds
<1>12. StealingPays
  BY <1>1, PoolHolds
<1>13. DoorHolds
  BY <1>1 DEF DoorInv, DoorHolds
<1>14. BackoffIsPaid
  BY <1>1, CrashHolds
<1>. QED
  BY <1>2, <1>3, <1>4, <1>5, <1>6, <1>7, <1>8, <1>9, <1>10, <1>11, <1>12, <1>13, <1>14
  DEF ValvesHold

\* Every state is known of all parts: the steps keep it.
LEMMA CallsKnown == CallsSpec => []CallsInv
<1>1. Init => CallsInv
  BY CallsStart
<1>2. CallsInv /\ [Next]_vars => CallsInv'
  BY CallsStep
<1>. QED
  BY <1>1, <1>2, PTL DEF CallsSpec

\* breaker.py, bulkhead.py, brownout.py, apilimits.py, idempotency.py, singleflight.py,
\* retrybudget.py, sagas.py, shutdown.py, livemigration.py, workstealing.py, nsquota.py,
\* crashloop.py: in every state each valve, client, operation and door holds what it
\* promises.
THEOREM ValvesAlwaysHold == CallsSpec => []ValvesHold
BY CallsKnown, CallsHold, PTL

\* flapdamp.py, failover.py, phases.py: no endpoint is taken back before it was quiet, no
\* site promoted without enough failures in a row, and no task moved otherwise than told.
THEOREM NothingEverTurnsEarly == CallsSpec => NothingTurnsEarly
<1>1. CallsInv /\ [Next]_vars => [suppressed /\ ~suppressed' => quietFor >= HalfLife]_dampVars
  BY EachRunsAlone, DampSteps DEF CallsInv
<1>2. CallsInv /\ [Next]_vars
         => [(east'.active /\ ~east.active) \/ (west'.active /\ ~west.active)
                => failing' >= PromoteAfter]_pairVars
  BY EachRunsAlone, PairSteps DEF CallsInv
<1>3. CallsInv /\ [Next]_vars
         => [crew' # crew => \A t \in People : Told(t)]_crewVars
  BY EachRunsAlone, LivesAreTold DEF CallsInv
<1>4. CallsSpec => BackWhenQuiet
  BY <1>1, CallsKnown, PTL DEF CallsSpec, BackWhenQuiet
<1>5. CallsSpec => PromotedOnFailures
  BY <1>2, CallsKnown, PTL DEF CallsSpec, PromotedOnFailures
<1>6. CallsSpec => MovesAreTold
  BY <1>3, CallsKnown, PTL DEF CallsSpec, MovesAreTold, Told
<1>. QED
  BY <1>4, <1>5, <1>6 DEF NothingTurnsEarly

=============================================================================
