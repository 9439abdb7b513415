--------------------------- MODULE PatienceProofs ---------------------------
(***************************************************************************)
(* What the components beside the engine may never do in one step, for any *)
(* names, timers, windows and sizes: nodes are retired before their time,  *)
(* a dial swings past what it aims at, a guest is swept without its grace, *)
(* a range is split or merged before its dwell, a mark goes back, a client *)
(* breaks unwarned, a field is lost untold.  Most of it follows from what  *)
(* a component keeps beside its state; PatienceInv is all of that.         *)
(***************************************************************************)
EXTENDS MCCapacity, FoldFacts

-----------------------------------------------------------------------------
(* The nodes, the dials and the truce of two scalers                       *)

\* How long a node was empty is told twice, and never later by the second count.
EmptyInv ==
    /\ DOMAIN emptyFor \subseteq DOMAIN quietFor
    /\ \A n \in DOMAIN quietFor : quietFor[n] \in Nat
    /\ \A n \in DOMAIN emptyFor :
          emptyFor[n] \in Nat /\ Least(emptyFor[n] + 1, RetireAfter) <= quietFor[n]

\* At first no node is counted empty.
LEMMA EmptyStarts == NodeDialInit => EmptyInv
BY DEF NodeDialInit, EmptyInv, NoMap

\* What a tick of the node scaler does to those that were up.
LEMMA TickOfNodes ==
    ASSUME EmptyInv, NodeDialTick
    PROVE  /\ EmptyInv'
           /\ \A n \in DOMAIN auto \ DOMAIN auto' : ~auto[n] /\ quietFor[n] >= RetireAfter
<1>. USE ScalingAssumption
<1>1. PICK busyNow \in SUBSET {n \in DOMAIN auto : ~auto[n]} :
        LET orders == Ordered(waiting - Cardinality(busyNow))
            arrived == {n \in DOMAIN orders : orders[n] <= 0}
            busy == [n \in DOMAIN auto \union arrived |->
                        n \in busyNow \/ (n \in DOMAIN auto /\ auto[n])]
            empty == EmptySince(DOMAIN busy, busy)
            retired == {n \in DOMAIN empty : empty[n] >= RetireAfter}
            kept == DOMAIN busy \ retired
        IN /\ auto' = Restrict(busy, kept)
           /\ emptyFor' = Restrict(empty, DOMAIN empty \ retired)
           /\ quietFor' = [n \in kept |->
                 IF busy[n] THEN 0
                 ELSE IF n \in DOMAIN quietFor
                 THEN Least(quietFor[n] + 1, RetireAfter) ELSE 1]
  BY DEF NodeDialTick
<1>. DEFINE orders == Ordered(waiting - Cardinality(busyNow))
            arrived == {n \in DOMAIN orders : orders[n] <= 0}
            busy == [n \in DOMAIN auto \union arrived |->
                        n \in busyNow \/ (n \in DOMAIN auto /\ auto[n])]
            empty == EmptySince(DOMAIN busy, busy)
            retired == {n \in DOMAIN empty : empty[n] >= RetireAfter}
            kept == DOMAIN busy \ retired
<1>2. /\ auto' = Restrict(busy, kept)
      /\ emptyFor' = Restrict(empty, DOMAIN empty \ retired)
      /\ quietFor' = [n \in kept |->
            IF busy[n] THEN 0
            ELSE IF n \in DOMAIN quietFor
            THEN Least(quietFor[n] + 1, RetireAfter) ELSE 1]
  BY <1>1
<1>3. /\ DOMAIN busy = DOMAIN auto \union arrived
      /\ DOMAIN empty = {n \in DOMAIN busy : ~busy[n]}
      /\ \A n \in DOMAIN empty : empty[n] = IF n \in DOMAIN emptyFor THEN emptyFor[n] + 1 ELSE 0
      /\ DOMAIN auto' = kept /\ DOMAIN quietFor' = kept
      /\ DOMAIN emptyFor' = DOMAIN empty \ retired
      /\ \A n \in DOMAIN empty \ retired : emptyFor'[n] = empty[n]
  BY <1>2 DEF EmptySince, Restrict
<1>4. ASSUME NEW n \in DOMAIN empty
      PROVE  /\ empty[n] \in Nat
             /\ n \in DOMAIN emptyFor =>
                   Least(empty[n], RetireAfter) <= quietFor[n] /\ quietFor[n] \in Nat
  BY <1>3, <1>4 DEF EmptyInv
<1>5. ASSUME NEW n \in DOMAIN auto \ DOMAIN auto'
      PROVE  ~auto[n] /\ quietFor[n] >= RetireAfter
  <2>1. n \in DOMAIN empty /\ empty[n] >= RetireAfter /\ ~busy[n]
    BY <1>2, <1>3, <1>5
  <2>2. ~auto[n]
    BY <1>2, <1>3, <1>5, <2>1
  <2>3. n \in DOMAIN emptyFor
    BY <1>3, <2>1
  <2>. QED
    BY <1>4, <2>1, <2>2, <2>3 DEF Least
<1>6. \A n \in kept : quietFor'[n] \in Nat
  BY <1>2 DEF EmptyInv, Least
<1>7. ASSUME NEW n \in DOMAIN emptyFor'
      PROVE  emptyFor'[n] \in Nat /\ Least(emptyFor'[n] + 1, RetireAfter) <= quietFor'[n]
  <2>1. n \in DOMAIN empty /\ n \in kept /\ ~busy[n] /\ emptyFor'[n] = empty[n]
    BY <1>2, <1>3, <1>7
  <2>2. quietFor'[n] = IF n \in DOMAIN quietFor THEN Least(quietFor[n] + 1, RetireAfter) ELSE 1
    BY <1>2, <2>1
  <2>3. CASE n \in DOMAIN emptyFor
    <3>1. n \in DOMAIN quietFor
      BY <2>3 DEF EmptyInv
    <3>. QED
      BY <1>4, <2>1, <2>2, <2>3, <3>1 DEF Least
  <2>4. CASE n \notin DOMAIN emptyFor
    <3>1. empty[n] = 0
      BY <1>3, <2>1, <2>4
    <3>2. n \in DOMAIN quietFor => quietFor[n] \in Nat
      BY DEF EmptyInv
    <3>. QED
      BY <2>1, <2>2, <3>1, <3>2 DEF Least
  <2>. QED
    BY <2>3, <2>4
<1>8. DOMAIN emptyFor' \subseteq DOMAIN quietFor'
  BY <1>2, <1>3
<1>. QED
  BY <1>3, <1>5, <1>6, <1>7, <1>8 DEF EmptyInv

\* Whatever the node scaler does, a node goes only when it was quiet for the window.
LEMMA NodesLeaveLate ==
    ASSUME EmptyInv, [NodeDialNext]_nodeDialVars
    PROVE  /\ EmptyInv'
           /\ [\A n \in DOMAIN auto \ DOMAIN auto' : ~auto[n] /\ quietFor[n] >= RetireAfter]_nodeDialVars
<1>1. CASE UNCHANGED nodeDialVars
  BY <1>1 DEF nodeDialVars, EmptyInv
<1>2. CASE NodeDialTick
  BY <1>2, TickOfNodes
<1>3. CASE Demand
  BY <1>3 DEF Demand, EmptyInv
<1>4. CASE \E n \in DOMAIN auto : Finish(n)
  <2>1. DOMAIN auto' = DOMAIN auto /\ UNCHANGED <<emptyFor, quietFor>>
    BY <1>4 DEF Finish
  <2>. QED
    BY <2>1 DEF EmptyInv
<1>. QED
  BY <1>1, <1>2, <1>3, <1>4 DEF NodeDialNext

\* The dial stays in its interval and looks at a load.
DialInv == replicas \in LeastReplicas..MostReplicas /\ load \in Nat

\* At first the replicas are within the bounds.
LEMMA DialStarts == ReplicaInit => DialInv
BY ScalingAssumption DEF ReplicaInit, DialInv

\* What a load wants is clamped to the bounds.
LEMMA WantedIsWithin ==
    ASSUME NEW l \in Nat
    PROVE  WantedFor(l) \in LeastReplicas..MostReplicas
<1>1. RoundedUp(l, 20) \in Int
  BY DEF RoundedUp
<1>. QED
  BY <1>1, ScalingAssumption DEF WantedFor, Most, Least

\* A tick of the dial moves by a step at most, and towards what the load wants.
LEMMA DialIsDamped ==
    ASSUME DialInv, [ReplicaTick]_replicaVars
    PROVE  /\ DialInv'
           /\ [/\ Distance(replicas', replicas) <= StepLimit
               /\ Distance(WantedFor(load), replicas') <= Distance(WantedFor(load), replicas)
               /\ replicas' \in LeastReplicas..MostReplicas]_replicaVars
<1>1. CASE UNCHANGED replicaVars
  BY <1>1 DEF replicaVars, DialInv
<1>2. CASE ReplicaTick
  <2>. DEFINE wanted == WantedFor(load)
  <2>1. wanted \in LeastReplicas..MostReplicas /\ replicas \in LeastReplicas..MostReplicas
    BY WantedIsWithin DEF DialInv
  <2>2. replicas' = IF Distance(wanted, replicas) <= DeadBand THEN replicas
                    ELSE replicas + Stepped(replicas, wanted)
    BY <1>2 DEF ReplicaTick
  <2>3. load' \in Nat
    BY <1>2, ScalingAssumption DEF ReplicaTick
  <2>. HIDE DEF wanted
  <2>4. /\ LeastReplicas \in Int /\ MostReplicas \in Int /\ StepLimit \in Nat \ {0}
        /\ DeadBand \in Nat /\ wanted \in Int /\ replicas \in Int
    BY <2>1, ScalingAssumption
  <2>5. /\ Distance(replicas', replicas) <= StepLimit
        /\ Distance(wanted, replicas') <= Distance(wanted, replicas)
        /\ replicas' \in LeastReplicas..MostReplicas
    BY <2>1, <2>2, <2>4 DEF Distance, Stepped, Most, Least
  <2>. QED
    BY <2>3, <2>5 DEF DialInv, wanted
<1>. QED
  BY <1>1, <1>2

\* The window of the rules is never counted longer than the desires were low.
RuleInv ==
    /\ ruled = [before |-> ruled.before, after |-> ruled.after]
    /\ ruled.after \in LeastReplicas..MostReplicas
    /\ lowFor \in Int /\ truthfullyLow \in Nat
    /\ lowFor # NotLow => lowFor \in Nat /\ lowFor <= truthfullyLow

\* At first the rules leave things as they are.
LEMMA RulesStart == RulesInit => RuleInv
BY ScalingAssumption DEF RulesInit, RuleInv, NotLow

\* The rules give a replica up only after the whole window asked for fewer.
LEMMA RulesAreSlow ==
    ASSUME RuleInv, [RulesNext]_ruleVars
    PROVE  /\ RuleInv'
           /\ [ruled'.after < ruled.after =>
                  truthfullyLow >= Stabilization /\ ruled'.after >= LeastReplicas]_ruleVars
<1>. USE ScalingAssumption DEF NotLow
<1>1. CASE UNCHANGED ruleVars
  BY <1>1 DEF ruleVars, RuleInv
<1>2. CASE RulesTime
  BY <1>2 DEF RulesTime, RuleInv, Least
<1>3. ASSUME NEW d \in 0..(MostReplicas + 1), Decide(d)
      PROVE  /\ RuleInv'
             /\ ruled'.after < ruled.after =>
                   truthfullyLow >= Stabilization /\ ruled'.after >= LeastReplicas
  <2>. DEFINE clamped == Most(LeastReplicas, Least(MostReplicas, d))
              low == clamped < ruled.after
              quietTime == IF lowFor = NotLow THEN 0 ELSE lowFor
  <2>1. clamped \in LeastReplicas..MostReplicas
    BY DEF Most, Least
  <2>2. quietTime \in Nat /\ quietTime <= truthfullyLow
    BY DEF RuleInv
  <2>3. /\ ruled' = [before |-> ruled.after,
                     after |-> IF clamped > ruled.after
                               THEN Least(clamped, ruled.after + StepLimit)
                               ELSE IF low /\ quietTime >= Stabilization THEN clamped
                               ELSE ruled.after]
        /\ lowFor' = IF low THEN quietTime ELSE NotLow
        /\ truthfullyLow' = IF low THEN truthfullyLow ELSE 0
    BY <1>3 DEF Decide
  <2>. HIDE DEF clamped, quietTime
  <2>4. ruled.after \in LeastReplicas..MostReplicas /\ truthfullyLow \in Nat
    BY DEF RuleInv
  <2>5. /\ ruled'.after \in LeastReplicas..MostReplicas
        /\ ruled'.after < ruled.after => low /\ quietTime >= Stabilization
    BY <2>1, <2>3, <2>4 DEF Least
  <2>6. RuleInv'
    BY <2>2, <2>3, <2>4, <2>5 DEF RuleInv
  <2>. QED
    BY <2>2, <2>4, <2>5, <2>6
<1>. QED
  BY <1>1, <1>2, <1>3 DEF RulesNext, RuleInv

\* A fight has replicas, and counts.
FightInv ==
    fight \in [request : Nat, replicas : Nat \ {0}, total : Nat, truce : BOOLEAN]

\* At first both scalers count in numbers.
LEMMA FightStarts == FightInit => FightInv
<1>. SUFFICES ASSUME FightInit PROVE FightInv
  OBVIOUS
<1>1. StartRequests \subseteq Nat /\ TotalLoads \subseteq Nat
  BY ScalingAssumption
<1>2. /\ fight = [request |-> fight.request, replicas |-> fight.replicas,
                  total |-> fight.total, truce |-> fight.truce]
      /\ fight.request \in StartRequests /\ fight.replicas \in {2, 3, 4}
      /\ fight.total \in TotalLoads /\ fight.truce \in BOOLEAN
  BY DEF FightInit
<1>3. fight.request \in Nat /\ fight.replicas \in Nat \ {0} /\ fight.total \in Nat
  BY <1>1, <1>2
<1>. QED
  BY <1>2, <1>3 DEF FightInv

\* A quotient that is exact.
LEMMA ExactQuotient ==
    ASSUME NEW a \in Nat, NEW b \in Nat \ {0}
    PROVE  (a * b) \div b = a
OBVIOUS

\* A truce whose request and replicas fit each other is a fixed point of the round.
LEMMA TruceComesToRest ==
    ASSUME FightInv, [FightRound]_fight
    PROVE  /\ FightInv'
           /\ [fight.truce /\ fight.request * 7 * fight.replicas = fight.total * 10
                 => fight' = fight]_fight
<1>. DEFINE f == IF fight.truce THEN Truce(fight) ELSE Private(fight)
            Type == [request : Nat, replicas : Nat \ {0}, total : Nat, truce : BOOLEAN]
<1>1. CASE UNCHANGED fight
  BY <1>1 DEF FightInv
<1>2. CASE FightRound
  <2>1. fight \in Type
    BY DEF FightInv
  <2>2. (fight.total * 10) \div (fight.replicas * 7) \in Nat
    <3>1. fight.total * 10 \in Nat /\ fight.replicas * 7 \in Nat \ {0}
      BY <2>1
    <3>. QED
      BY <3>1, Divided
  <2>3. (fight.total * 12) \div (fight.replicas * 10) \in Nat
    <3>1. fight.total * 12 \in Nat /\ fight.replicas * 10 \in Nat \ {0}
      BY <2>1
    <3>. QED
      BY <3>1, Divided
  <2>4. f \in Type
    BY <2>1, <2>2, <2>3 DEF Truce, Private
  <2>5. fight' = Horizontal(f)
    BY <1>2 DEF FightRound
  <2>6. fight' \in Type
    <3>. HIDE DEF f
    <3>. QED
      BY <2>4, <2>5 DEF Horizontal
  <2>7. ASSUME fight.truce, fight.request * 7 * fight.replicas = fight.total * 10
        PROVE  fight' = fight
    <3>. DEFINE r == fight.request
                n == fight.replicas
                t == fight.total
    <3>1. r \in Nat /\ n \in Nat \ {0} /\ t \in Nat
      BY <2>1
    <3>2. r * (n * 7) = t * 10 /\ 7 * n * r = t * 10
      BY <2>7, <3>1
    <3>3. (t * 10) \div (n * 7) = r
      <4>1. n * 7 \in Nat \ {0}
        BY <3>1
      <4>. HIDE DEF r, n, t
      <4>. QED
        BY <3>1, <3>2, <4>1, ExactQuotient
    <3>4. f = fight
      BY <2>1, <2>7, <3>3 DEF Truce
    <3>5. ~(fight.total * 10 > 7 * fight.replicas * fight.request)
      BY <3>1, <3>2
    <3>6. ~(fight.total * 20 < 7 * fight.replicas * fight.request)
      BY <3>1, <3>2
    <3>. QED
      BY <2>5, <3>4, <3>5, <3>6 DEF Horizontal
  <2>. QED
    BY <2>6, <2>7 DEF FightInv
<1>. QED
  BY <1>1, <1>2

-----------------------------------------------------------------------------
(* The guests of a tainted node                                            *)

\* A guest is swept out by a taint that stands, after its grace.
LEMMA GuestsHaveGrace ==
    ASSUME [TaintNext]_taintVars
    PROVE  [\A g \in houses \ houses' : \E k \in Keys :
              /\ landed'[k] # Clean
              /\ GraceFor(g, k) # NoGrace => landed'[k] >= GraceFor(g, k)]_taintVars
<1>1. CASE UNCHANGED taintVars
  BY <1>1
<1>2. CASE ObservePressure
  <2>1. houses' = houses \ Leaving(landed')
    BY <1>2 DEF ObservePressure
  <2>2. ASSUME NEW g \in houses \ houses'
        PROVE  \E k \in Keys : /\ landed'[k] # Clean
                               /\ GraceFor(g, k) # NoGrace => landed'[k] >= GraceFor(g, k)
    BY <2>1, <2>2 DEF Leaving
  <2>. QED
    BY <2>2
<1>3. CASE TaintTime
  BY <1>3 DEF TaintTime
<1>4. CASE \E g \in Guests : Return(g)
  BY <1>4 DEF Return
<1>5. CASE \E k \in Keys : Taint(k) \/ Untaint(k)
  BY <1>5 DEF Taint, Untaint
<1>. QED
  BY <1>1, <1>2, <1>3, <1>4, <1>5 DEF TaintNext

-----------------------------------------------------------------------------
(* The watermark of a stream                                               *)

\* The watermark is a number.
MarkInv == watermark \in Int /\ latest \in Int

\* Before the first event the mark is a number already.
LEMMA MarkStarts == StreamInit => MarkInv
BY DEF StreamInit, MarkInv

\* An event, early or late, never takes the mark back.
LEMMA MarkGoesOn ==
    ASSUME MarkInv, [\E t \in EventTimes : AcceptEvent(t)]_streamVars
    PROVE  MarkInv' /\ [watermark' >= watermark]_streamVars
<1>1. CASE UNCHANGED streamVars
  BY <1>1 DEF streamVars, MarkInv
<1>2. ASSUME NEW t \in EventTimes, AcceptEvent(t)
      PROVE  MarkInv' /\ watermark' >= watermark
  <2>1. watermark \in Int /\ latest \in Int /\ t \in Int /\ LateAllowance \in Int
    BY StreamsAssumption DEF MarkInv
  <2>2. \/ watermark' = watermark /\ latest' = latest
        \/ latest' = Max({latest, t}) /\ watermark' = Advanced(t)
    BY <1>2 DEF AcceptEvent
  <2>. DEFINE seen == Max({latest, t})
  <2>3. seen \in Int
    BY <2>1, GreaterOfTwo
  <2>4. seen - LateAllowance \in Int
    BY <2>1, <2>3
  <2>5. Max({watermark, seen - LateAllowance})
          = IF watermark >= seen - LateAllowance THEN watermark ELSE seen - LateAllowance
    <3>. HIDE DEF seen
    <3>. QED
      BY <2>1, <2>4, GreaterOfTwo
  <2>. QED
    BY <2>1, <2>2, <2>3, <2>4, <2>5 DEF MarkInv, Advanced
<1>. QED
  BY <1>1, <1>2

-----------------------------------------------------------------------------
(* Certificates and the clients that pin them                              *)

\* What is pinned was issued.
Certificate == [left : Nat, revoked : BOOLEAN]

PinInv ==
    /\ certificates \in Seq(Certificate)
    /\ pinned \in [Holder -> Nat]
    /\ \A h \in Holder : pinned[h] <= Len(certificates)

\* At first one certificate is issued and all pin it.
LEMMA CertStarts == CertInit => PinInv
BY DEF CertInit, PinInv

\* What is valid is not younger than what is served.
LEMMA CurrentIsLast ==
    ASSUME PinInv
    PROVE  /\ Current \in 0..Len(certificates)
           /\ \A s \in DOMAIN certificates : ValidAt(s) => s <= Current
<1>. DEFINE valid == {0} \union {s \in DOMAIN certificates : ValidAt(s)}
<1>1. DOMAIN certificates = 1..Len(certificates) /\ Len(certificates) \in Nat
  BY DEF PinInv
<1>2. IsFiniteSet(0..Len(certificates))
  BY <1>1, Numbers
<1>3. valid \subseteq 0..Len(certificates) /\ 0 \in valid
  BY <1>1
<1>4. IsFiniteSet(valid) /\ valid \subseteq Int /\ valid # {}
  BY <1>1, <1>2, <1>3, FS_Subset
<1>5. Max(valid) \in valid /\ \A y \in valid : y <= Max(valid)
  <2>. HIDE DEF valid
  <2>. QED
    BY <1>4, MaxIsThere
<1>. QED
  BY <1>3, <1>5 DEF Current

\* Rotation leaves what is pinned and shortens the served certificate at most.
LEMMA RotationBreaksNone ==
    ASSUME PinInv, Rotate
    PROVE  PinInv' /\ \A h \in Holder : Verifies(h) => Verifies(h)'
<1>. DEFINE n == Len(certificates)
            changed == [s \in DOMAIN certificates |->
                           IF s = Current THEN Shortened(s) ELSE certificates[s]]
<1>1. /\ certificates \in Seq(Certificate) /\ n \in Nat /\ DOMAIN certificates = 1..n
      /\ pinned \in [Holder -> Nat] /\ \A h \in Holder : pinned[h] <= n
  BY DEF PinInv
<1>2. Lifetime \in Nat /\ Overlap \in Nat /\ Overlap > 0
  BY IdentityAssumption
<1>3. ASSUME NEW s \in 1..n
      PROVE  /\ changed[s] \in Certificate /\ changed[s].revoked = certificates[s].revoked
             /\ certificates[s].left > 0 => changed[s].left > 0
  <2>1. certificates[s] \in Certificate
    BY <1>1
  <2>2. certificates[s].left \in Nat /\ certificates[s].revoked \in BOOLEAN
    BY <2>1 DEF Certificate
  <2>3. Min({certificates[s].left, Overlap})
          = IF certificates[s].left <= Overlap THEN certificates[s].left ELSE Overlap
    BY <1>2, <2>2, LesserOfTwo
  <2>4. /\ Shortened(s) \in Certificate /\ Shortened(s).revoked = certificates[s].revoked
        /\ certificates[s].left > 0 => Shortened(s).left > 0
    BY <1>2, <2>1, <2>2, <2>3 DEF Shortened, Certificate
  <2>. QED
    BY <1>1, <2>1, <2>4
<1>4. changed \in Seq(Certificate) /\ Len(changed) = n
  <2>1. changed \in [1..n -> Certificate]
    BY <1>1, <1>3
  <2>. HIDE DEF changed, n
  <2>. QED
    BY <1>1, <2>1
<1>5. certificates' = Append(changed, [left |-> Lifetime, revoked |-> FALSE]) /\ pinned' = pinned
  BY DEF Rotate
<1>6. [left |-> Lifetime, revoked |-> FALSE] \in Certificate
  BY <1>2 DEF Certificate
<1>7. /\ certificates' \in Seq(Certificate) /\ Len(certificates') = n + 1
      /\ \A s \in 1..n : certificates'[s] = changed[s]
  <2>. HIDE DEF changed, n
  <2>. QED
    BY <1>1, <1>4, <1>5, <1>6
<1>8. PinInv'
  BY <1>1, <1>5, <1>7 DEF PinInv
<1>9. ASSUME NEW h \in Holder, Verifies(h) PROVE Verifies(h)'
  <2>1. pinned[h] \in 1..n
    BY <1>1, <1>9 DEF Verifies
  <2>2. certificates'[pinned[h]] = changed[pinned[h]]
    BY <1>7, <2>1
  <2>3. certificates[pinned[h]].left > 0 /\ ~certificates[pinned[h]].revoked
    BY <1>9 DEF Verifies, ValidAt
  <2>4. certificates'[pinned[h]].left > 0 /\ ~certificates'[pinned[h]].revoked
    BY <1>3, <2>1, <2>2, <2>3
  <2>. QED
    BY <1>5, <1>9, <2>4 DEF Verifies, ValidAt
<1>. QED
  BY <1>8, <1>9

\* Time breaks only who holds the served certificate to its end, or was a laggard.
LEMMA TimeBreaksLaggards ==
    ASSUME PinInv, CertTime
    PROVE  /\ PinInv'
           /\ \A h \in Holder : Verifies(h) /\ ~Verifies(h)' =>
                 \/ [who |-> h, remaining |-> 1] \in Laggards
                 \/ pinned[h] = Current /\ certificates[Current].left = 1
<1>. DEFINE n == Len(certificates)
            changed == [s \in DOMAIN certificates |->
                           [certificates[s] EXCEPT !.left = Max({0, @ - 1})]]
<1>1. /\ certificates \in Seq(Certificate) /\ n \in Nat /\ DOMAIN certificates = 1..n
      /\ pinned \in [Holder -> Nat] /\ \A h \in Holder : pinned[h] <= n
  BY DEF PinInv
<1>2. certificates' = changed /\ pinned' = pinned
  BY DEF CertTime
<1>3. ASSUME NEW s \in 1..n
      PROVE  /\ changed[s] \in Certificate /\ changed[s].revoked = certificates[s].revoked
             /\ certificates[s].left \in Nat
             /\ certificates[s].left > 1 => changed[s].left > 0
  <2>1. certificates[s] \in Certificate
    BY <1>1
  <2>2. certificates[s].left \in Nat /\ certificates[s].revoked \in BOOLEAN
    BY <2>1 DEF Certificate
  <2>3. Max({0, certificates[s].left - 1})
          = IF 0 >= certificates[s].left - 1 THEN 0 ELSE certificates[s].left - 1
    BY <2>2, GreaterOfTwo
  <2>4. Max({0, certificates[s].left - 1}) \in Nat
    BY <2>2, <2>3
  <2>. DEFINE shorter == Max({0, certificates[s].left - 1})
  <2>5. shorter \in Nat /\ (certificates[s].left > 1 => shorter > 0)
    BY <2>2, <2>3, <2>4
  <2>. HIDE DEF shorter
  <2>6. changed[s] = [certificates[s] EXCEPT !.left = shorter]
    BY <1>1 DEF shorter
  <2>7. changed[s] = [left |-> shorter, revoked |-> certificates[s].revoked]
    BY <2>1, <2>6 DEF Certificate
  <2>. QED
    BY <2>2, <2>5, <2>7 DEF Certificate
<1>4. changed \in Seq(Certificate) /\ Len(changed) = n
  <2>1. changed \in [1..n -> Certificate]
    BY <1>1, <1>3
  <2>. HIDE DEF changed, n
  <2>. QED
    BY <1>1, <2>1
<1>5. PinInv'
  BY <1>1, <1>2, <1>4 DEF PinInv
<1>6. ASSUME NEW h \in Holder, Verifies(h), ~Verifies(h)'
      PROVE  \/ [who |-> h, remaining |-> 1] \in Laggards
             \/ pinned[h] = Current /\ certificates[Current].left = 1
  <2>. DEFINE s == pinned[h]
  <2>1. s \in 1..n /\ s # 0 /\ certificates[s].left > 0 /\ ~certificates[s].revoked
    BY <1>1, <1>6 DEF Verifies, ValidAt
  <2>2. ~(changed[s].left > 0 /\ ~changed[s].revoked)
    BY <1>2, <1>6, <2>1 DEF Verifies, ValidAt
  <2>3. certificates[s].left = 1
    <3>1. /\ changed[s].revoked = certificates[s].revoked /\ certificates[s].left \in Nat
          /\ certificates[s].left > 1 => changed[s].left > 0
      BY <1>3, <2>1
    <3>. HIDE DEF changed, s
    <3>. QED
      BY <2>1, <2>2, <3>1
  <2>4. s <= Current /\ Current # 0
    BY <1>1, <1>6, <2>1, CurrentIsLast DEF Verifies
  <2>5. CASE s = Current
    BY <2>3, <2>5
  <2>6. CASE s # Current
    BY <1>6, <2>1, <2>3, <2>4, <2>6 DEF Laggards
  <2>. QED
    BY <2>5, <2>6
<1>. QED
  BY <1>5, <1>6

\* No client breaks unwarned.
LEMMA ClientsBreakWarned ==
    ASSUME PinInv, [CertNext]_certVars
    PROVE  /\ PinInv'
           /\ [\A h \in Holder :
                 Verifies(h) /\ ~Verifies(h)' =>
                    \/ certificates'[pinned[h]].revoked
                    \/ [who |-> h, remaining |-> 1] \in Laggards
                    \/ pinned[h] = Current /\ certificates[Current].left = 1]_certVars
<1>1. CASE UNCHANGED certVars
  BY <1>1 DEF certVars, PinInv
<1>2. CASE Rotate
  BY <1>2, RotationBreaksNone
<1>3. CASE CertTime
  BY <1>3, TimeBreaksLaggards
<1>4. ASSUME NEW s \in DOMAIN certificates, Revoke(s)
      PROVE  /\ PinInv'
             /\ \A h \in Holder : Verifies(h) /\ ~Verifies(h)' =>
                   certificates'[pinned[h]].revoked
  <2>1. /\ certificates \in Seq(Certificate) /\ DOMAIN certificates = 1..Len(certificates)
        /\ pinned' = pinned
        /\ certificates' = [certificates EXCEPT ![s] = [certificates[s] EXCEPT !.revoked = TRUE]]
    BY <1>4 DEF PinInv, Revoke
  <2>2. certificates[s] \in Certificate
    BY <1>4, <2>1
  <2>3. [certificates[s] EXCEPT !.revoked = TRUE] \in Certificate
    BY <2>2 DEF Certificate
  <2>4. /\ certificates' \in Seq(Certificate) /\ Len(certificates') = Len(certificates)
    BY <1>4, <2>1, <2>3
  <2>5. certificates'[s].revoked
    BY <1>4, <2>1, <2>2 DEF Certificate
  <2>6. ASSUME NEW h \in Holder, Verifies(h), ~Verifies(h)'
        PROVE  certificates'[pinned[h]].revoked
    <3>1. pinned[h] \in DOMAIN certificates
      BY <2>1, <2>6 DEF PinInv, Verifies
    <3>2. CASE pinned[h] = s
      BY <2>5, <3>2
    <3>3. CASE pinned[h] # s
      BY <2>1, <2>6, <3>1, <3>3 DEF Verifies, ValidAt
    <3>. QED
      BY <3>2, <3>3
  <2>. QED
    BY <2>1, <2>4, <2>6 DEF PinInv
<1>5. ASSUME NEW s \in DOMAIN certificates, NEW g \in Holder, Pin(g, s)
      PROVE  PinInv' /\ \A h \in Holder : Verifies(h) => Verifies(h)'
  <2>1. /\ certificates' = certificates /\ pinned' = [pinned EXCEPT ![g] = s] /\ ValidAt(s)
        /\ s \in 1..Len(certificates)
    BY <1>5 DEF Pin, PinInv
  <2>. QED
    BY <2>1 DEF PinInv, Verifies, ValidAt
<1>. QED
  BY <1>1, <1>2, <1>3, <1>4, <1>5 DEF CertNext

-----------------------------------------------------------------------------
(* Fields that the hub does not carry                                      *)

\* Of what an editor of the old version read, all he cannot write was told dropped.
CopyInv ==
    /\ copyOf \in [Editors -> [read : BOOLEAN, seen : SUBSET Fields]]
    /\ object \subseteq Fields
    /\ \A e \in Editors : copyOf[e].read /\ VersionOf[e] = "v1" =>
          copyOf[e].seen \intersect HubCarries \subseteq drops

\* At first no editor has read.
LEMMA CopiesStart == ObjectInit => CopyInv
BY DEF ObjectInit, CopyInv, Unread

\* A field that the hub carries goes only by a write that had not seen it, or named.
LEMMA LossesAreTold ==
    ASSUME CopyInv, [ObjectNext]_objectVars
    PROVE  /\ CopyInv'
           /\ [\A f \in (object \ object') \intersect HubCarries :
                 f \in drops \/ \E e \in Editors : copyOf[e].read /\ ~copyOf'[e].read
                                                   /\ f \notin copyOf[e].seen]_objectVars
<1>1. CASE UNCHANGED objectVars
  BY <1>1 DEF objectVars, CopyInv
<1>2. ASSUME NEW f \in Fields, SetField(f)
      PROVE  CopyInv' /\ object \subseteq object'
  BY <1>2 DEF SetField, CopyInv
<1>3. ASSUME NEW e \in Editors, ReadObject(e)
      PROVE  CopyInv' /\ object' = object
  <2>1. /\ copyOf' = [copyOf EXCEPT ![e] = [read |-> TRUE, seen |-> object]]
        /\ drops' = IF VersionOf[e] = "v1" THEN drops \union (object \intersect HubCarries) ELSE drops
        /\ object' = object
    BY <1>3 DEF ReadObject
  <2>. QED
    BY <2>1 DEF CopyInv
<1>4. ASSUME NEW e \in Editors, NEW edit \in {{}, {"priority"}}, WriteObject(e, edit)
      PROVE  /\ CopyInv'
             /\ \A f \in (object \ object') \intersect HubCarries :
                   f \in drops \/ (copyOf[e].read /\ ~copyOf'[e].read /\ f \notin copyOf[e].seen)
  <2>1. /\ copyOf[e].read /\ copyOf' = [copyOf EXCEPT ![e] = Unread] /\ drops' = drops
        /\ object' = (copyOf[e].seen \union edit) \intersect Carries(VersionOf[e])
    BY <1>4 DEF WriteObject
  <2>2. Carries(VersionOf[e]) = IF VersionOf[e] = "v2" THEN HubCarries ELSE {}
    BY DEF Carries
  <2>3. object' \subseteq Fields
    BY <2>1, <2>2 DEF HubCarries, Fields
  <2>4. Unread \in [read : BOOLEAN, seen : SUBSET Fields] /\ ~Unread.read
    BY DEF Unread
  <2>5. CopyInv'
    BY <2>1, <2>3, <2>4 DEF CopyInv
  <2>6. ~copyOf'[e].read
    <3>1. e \in DOMAIN copyOf
      BY DEF CopyInv
    <3>. QED
      BY <2>1, <2>4, <3>1
  <2>7. VersionOf[e] \in {"v1", "v2"}
    BY IdentityAssumption
  <2>8. ASSUME NEW f \in (object \ object') \intersect HubCarries
        PROVE  f \in drops \/ (copyOf[e].read /\ ~copyOf'[e].read /\ f \notin copyOf[e].seen)
    <3>1. CASE f \in copyOf[e].seen
      <4>1. VersionOf[e] = "v1"
        BY <2>1, <2>2, <2>7, <2>8, <3>1
      <4>2. copyOf[e].seen \intersect HubCarries \subseteq drops
        BY <2>1, <4>1 DEF CopyInv
      <4>3. f \in HubCarries
        BY <2>8
      <4>4. f \in drops
        BY <3>1, <4>2, <4>3
      <4>. QED
        BY <4>4
    <3>2. CASE f \notin copyOf[e].seen
      BY <2>1, <2>6, <3>2
    <3>. QED
      BY <3>1, <3>2
  <2>. QED
    BY <2>5, <2>8
<1>. QED
  BY <1>1, <1>2, <1>3, <1>4 DEF ObjectNext

-----------------------------------------------------------------------------
(* Advisories past their fuse                                              *)

\* The age of an advisory is a number.
AdvisoryInv == published \in [DOMAIN Advisories -> Int] /\ DOMAIN versions = PatchHosts

\* At first no advisory is filed.
LEMMA AdvisoriesStart == PatchInit => AdvisoryInv
BY DEF PatchInit, AdvisoryInv, Unfiled

\* A row is a host and what it is past.
LEMMA RowsPastTheFuse ==
    ASSUME AdvisoryInv, NEW row
    PROVE  row \in PastTheFuse <=>
              \E h \in PatchHosts, a \in DOMAIN Advisories :
                 /\ row = <<h, a>> /\ versions[h] \in Advisories[a]
                 /\ published[a] # Unfiled /\ published[a] - Fuse[a] > 0
BY DEF PastTheFuse, Exposed, Overdue, AdvisoryInv

\* And so after a step.
LEMMA RowsPastTheFuseNext ==
    ASSUME AdvisoryInv', NEW row
    PROVE  row \in PastTheFuse' <=>
              \E h \in PatchHosts, a \in DOMAIN Advisories :
                 /\ row = <<h, a>> /\ versions'[h] \in Advisories[a]
                 /\ published'[a] # Unfiled /\ published'[a] - Fuse[a] > 0
BY DEF PastTheFuse, Exposed, Overdue, AdvisoryInv

\* A row leaves the list past the fuse only as its host runs another version.
LEMMA PatchingAloneClears ==
    ASSUME AdvisoryInv, [PatchNext]_patchVars
    PROVE  /\ AdvisoryInv'
           /\ [\A row \in PastTheFuse \ PastTheFuse' :
                 versions'[row[1]] # versions[row[1]]]_patchVars
<1>1. AdvisoryInv'
  <2>1. CASE UNCHANGED patchVars
    BY <2>1 DEF patchVars, AdvisoryInv
  <2>2. CASE \E h \in PatchHosts, v \in Versions : HostRuns(h, v)
    BY <2>2 DEF HostRuns, AdvisoryInv
  <2>3. CASE \E a \in DOMAIN Advisories : Publish(a)
    BY <2>3 DEF Publish, AdvisoryInv
  <2>4. CASE PatchTime
    <3>1. /\ DOMAIN published = DOMAIN Advisories /\ versions' = versions
          /\ published' = [a \in DOMAIN published |->
                IF published[a] = Unfiled THEN Unfiled ELSE Min({published[a] + 1, MaxAdvisoryAge})]
      BY <2>4 DEF PatchTime, AdvisoryInv
    <3>2. ASSUME NEW a \in DOMAIN Advisories PROVE published'[a] \in Int
      <4>1. published[a] \in Int /\ published[a] + 1 \in Int /\ MaxAdvisoryAge \in Int
        BY LedgersAssumption DEF AdvisoryInv
      <4>2. Min({published[a] + 1, MaxAdvisoryAge}) \in Int
        BY <4>1, LesserOfTwo
      <4>. QED
        BY <3>1, <4>2 DEF Unfiled
    <3>. QED
      BY <3>1, <3>2 DEF AdvisoryInv
  <2>. QED
    BY <2>1, <2>2, <2>3, <2>4 DEF PatchNext
<1>2. ASSUME PatchNext, NEW row \in PastTheFuse \ PastTheFuse'
      PROVE  versions'[row[1]] # versions[row[1]]
  <2>1. PICK h \in PatchHosts, a \in DOMAIN Advisories :
            /\ row = <<h, a>> /\ versions[h] \in Advisories[a]
            /\ published[a] # Unfiled /\ published[a] - Fuse[a] > 0
    BY <1>2, RowsPastTheFuse
  <2>2. row[1] = h
    BY <2>1
  <2>3. ~(/\ versions'[h] \in Advisories[a]
          /\ published'[a] # Unfiled /\ published'[a] - Fuse[a] > 0)
    BY <1>1, <1>2, <2>1, RowsPastTheFuseNext
  <2>4. /\ published \in [DOMAIN Advisories -> Int] /\ Fuse[a] \in Nat
        /\ MaxAdvisoryAge \in Nat /\ Fuse[a] < MaxAdvisoryAge /\ DOMAIN versions = PatchHosts
    BY LedgersAssumption DEF AdvisoryInv
  <2>5. CASE \E g \in PatchHosts, v \in Versions : HostRuns(g, v)
    BY <2>1, <2>2, <2>3, <2>4, <2>5 DEF HostRuns
  <2>6. CASE \E b \in DOMAIN Advisories : Publish(b)
    BY <2>1, <2>3, <2>4, <2>6 DEF Publish
  <2>7. CASE PatchTime
    <3>1. versions' = versions /\ published'[a] = Min({published[a] + 1, MaxAdvisoryAge})
      BY <2>1, <2>4, <2>7 DEF PatchTime
    <3>2. published[a] \in Int /\ published[a] + 1 \in Int /\ published[a] > Fuse[a]
      BY <2>1, <2>4
    <3>3. published'[a] = IF published[a] + 1 <= MaxAdvisoryAge
                          THEN published[a] + 1 ELSE MaxAdvisoryAge
      BY <2>4, <3>1, <3>2, LesserOfTwo
    <3>4. published'[a] > Fuse[a] /\ published'[a] # Unfiled
      BY <2>4, <3>2, <3>3 DEF Unfiled
    <3>. QED
      BY <2>1, <2>3, <2>4, <3>1, <3>3, <3>4
  <2>. QED
    BY <1>2, <2>5, <2>6, <2>7 DEF PatchNext
<1>. QED
  BY <1>1, <1>2

-----------------------------------------------------------------------------
(* The log of refusals                                                     *)

\* Nobody was let in later than now.
LogInv ==
    /\ refusals \in Seq([gate : Gates, task : Applicants, tick : Int])
    /\ logTime \in Int
    /\ \A t \in DOMAIN admitted : admitted[t] \in Int /\ admitted[t] <= logTime

\* At first nobody was refused or let in.
LEMMA LogStarts == LogbookInit => LogInv
BY DEF LogbookInit, LogInv

\* The tally of reversals of a gate never falls: what was let in stays let in.
LEMMA ReversalsStay ==
    ASSUME LogInv, [LogbookNext]_logVars
    PROVE  /\ LogInv'
           /\ [\A gate \in Gates : ByGate(gate)'.reversed >= ByGate(gate).reversed]_logVars
<1>1. CASE UNCHANGED logVars
  BY <1>1 DEF logVars, LogInv
<1>2. ASSUME LogbookNext
      PROVE  /\ LogInv'
             /\ Len(refusals') >= Len(refusals)
             /\ \A i \in DOMAIN refusals : refusals'[i] = refusals[i]
             /\ \A t \in DOMAIN admitted :
                   t \in DOMAIN admitted' /\ admitted'[t] >= admitted[t]
  <2>1. ASSUME NEW gate \in Gates, NEW task \in Applicants, RefuseTask(gate, task)
        PROVE  /\ refusals' \in Seq([gate : Gates, task : Applicants, tick : Int])
               /\ Len(refusals') >= Len(refusals)
               /\ \A i \in DOMAIN refusals : refusals'[i] = refusals[i]
               /\ UNCHANGED <<admitted, logTime>>
    <3>1. refusals' = Append(refusals, [gate |-> gate, task |-> task, tick |-> logTime])
          /\ UNCHANGED <<admitted, logTime>>
      BY <2>1 DEF RefuseTask
    <3>2. [gate |-> gate, task |-> task, tick |-> logTime]
             \in [gate : Gates, task : Applicants, tick : Int]
      BY DEF LogInv
    <3>. DEFINE T == [gate : Gates, task : Applicants, tick : Int]
                e == [gate |-> gate, task |-> task, tick |-> logTime]
    <3>3. refusals \in Seq(T) /\ e \in T /\ refusals' = Append(refusals, e)
      BY <3>1, <3>2 DEF LogInv
    <3>4. /\ refusals' \in Seq(T) /\ Len(refusals') >= Len(refusals)
          /\ \A i \in DOMAIN refusals : refusals'[i] = refusals[i]
      <4>. HIDE DEF T, e
      <4>. QED
        BY <3>3
    <3>. QED
      BY <3>1, <3>4
  <2>2. ASSUME NEW task \in Applicants, LetIn(task)
        PROVE  /\ DOMAIN admitted' = DOMAIN admitted \cup {task} /\ UNCHANGED <<refusals, logTime>>
               /\ \A t \in DOMAIN admitted' :
                     admitted'[t] = IF t = task THEN logTime ELSE admitted[t]
    BY <2>2 DEF LetIn
  <2>3. CASE LogTick
    BY <2>3 DEF LogTick, LogInv
  <2>4. CASE \E task \in Applicants : LetIn(task)
    <3>1. PICK task \in Applicants : LetIn(task)
      BY <2>4
    <3>2. /\ DOMAIN admitted' = DOMAIN admitted \cup {task} /\ UNCHANGED <<refusals, logTime>>
          /\ \A t \in DOMAIN admitted' :
                admitted'[t] = IF t = task THEN logTime ELSE admitted[t]
      BY <2>2, <3>1
    <3>3. \A t \in DOMAIN admitted' : admitted'[t] \in Int /\ admitted'[t] <= logTime
      BY <3>2 DEF LogInv
    <3>4. \A t \in DOMAIN admitted : t \in DOMAIN admitted' /\ admitted'[t] >= admitted[t]
      BY <3>2 DEF LogInv
    <3>5. Len(refusals) \in Int
      BY DEF LogInv
    <3>. QED
      BY <3>2, <3>3, <3>4, <3>5 DEF LogInv
  <2>5. CASE \E gate \in Gates, task \in Applicants : RefuseTask(gate, task)
    <3>1. PICK gate \in Gates, task \in Applicants : RefuseTask(gate, task)
      BY <2>5
    <3>2. /\ refusals' \in Seq([gate : Gates, task : Applicants, tick : Int])
          /\ Len(refusals') >= Len(refusals)
          /\ \A i \in DOMAIN refusals : refusals'[i] = refusals[i]
          /\ admitted' = admitted /\ logTime' = logTime
      BY <2>1, <3>1
    <3>3. \A t \in DOMAIN admitted : admitted[t] >= admitted[t]
      BY DEF LogInv
    <3>4. LogInv'
      BY <3>2 DEF LogInv
    <3>. QED
      BY <3>2, <3>3, <3>4
  <2>. QED
    BY <1>2, <2>3, <2>4, <2>5 DEF LogbookNext
<1>3. ASSUME LogbookNext, NEW gate \in Gates
      PROVE  ByGate(gate)'.reversed >= ByGate(gate).reversed
  <2>. DEFINE its == {i \in DOMAIN refusals : refusals[i].gate = gate}
              back == {i \in its : IsReversed(i)}
  <2>1. ByGate(gate).reversed = Cardinality(back) /\ ByGate(gate)'.reversed = Cardinality(back')
    BY DEF ByGate
  <2>2. back \subseteq back'
    <3>1. ASSUME NEW i \in back PROVE i \in back'
      <4>1. /\ i \in DOMAIN refusals /\ refusals[i].gate = gate
            /\ refusals[i].task \in DOMAIN admitted /\ admitted[refusals[i].task] > refusals[i].tick
        BY DEF IsReversed
      <4>2. i \in DOMAIN refusals' /\ refusals'[i] = refusals[i]
        <5>1. /\ DOMAIN refusals = 1..Len(refusals) /\ DOMAIN refusals' = 1..Len(refusals')
              /\ Len(refusals) \in Nat /\ Len(refusals') \in Nat
          BY <1>2, <1>3 DEF LogInv
        <5>. QED
          BY <1>2, <1>3, <4>1, <5>1
      <4>3. /\ refusals[i].task \in DOMAIN admitted'
            /\ admitted'[refusals[i].task] > refusals[i].tick
        <5>1. refusals[i].tick \in Int /\ admitted[refusals[i].task] \in Int
          <6>. DEFINE T == [gate : Gates, task : Applicants, tick : Int]
          <6>1. refusals \in Seq(T)
            BY DEF LogInv
          <6>2. refusals[i] \in T
            <7>. HIDE DEF T
            <7>. QED
              BY <4>1, <6>1
          <6>3. refusals[i].tick \in Int
            BY <6>2
          <6>. QED
            BY <4>1, <6>3 DEF LogInv
        <5>2. /\ refusals[i].task \in DOMAIN admitted'
              /\ admitted'[refusals[i].task] \in Int
              /\ admitted'[refusals[i].task] >= admitted[refusals[i].task]
          <6>1. LogInv' /\ refusals[i].task \in DOMAIN admitted
            BY <1>2, <1>3, <4>1
          <6>2. /\ refusals[i].task \in DOMAIN admitted'
                /\ admitted'[refusals[i].task] >= admitted[refusals[i].task]
            BY <1>2, <1>3, <6>1
          <6>. QED
            BY <6>1, <6>2 DEF LogInv
        <5>. QED
          BY <4>1, <5>1, <5>2
      <4>. QED
        BY <4>1, <4>2, <4>3 DEF IsReversed
    <3>. QED
      BY <3>1
  <2>3. IsFiniteSet(back')
    <3>1. DOMAIN refusals' = 1..Len(refusals') /\ Len(refusals') \in Nat
      BY <1>2, <1>3 DEF LogInv
    <3>2. IsFiniteSet(DOMAIN refusals')
      BY <3>1, Numbers
    <3>3. back' \subseteq DOMAIN refusals'
      OBVIOUS
    <3>. QED
      BY <3>2, <3>3, FS_Subset
  <2>. HIDE DEF back
  <2>4. /\ Cardinality(back) <= Cardinality(back')
        /\ Cardinality(back) \in Nat /\ Cardinality(back') \in Nat
    BY <2>2, <2>3, FS_Subset, FS_CardinalityType
  <2>. QED
    BY <2>1, <2>4
<1>. QED
  BY <1>1, <1>2, <1>3

-----------------------------------------------------------------------------
(* The band of a change                                                    *)

\* A change counts its lines, its services and its incidents.
RiskInv ==
    change \in [lines : Nat, blast : Nat, friday : BOOLEAN, night : BOOLEAN, incidents : Nat]

\* At first nothing is changed.
LEMMA RiskStarts == RiskInit => RiskInv
BY DEF RiskInit, RiskInv

\* A revision of a change counts again.
LEMMA RevisionsCount ==
    ASSUME RiskInv, [RiskNext]_change
    PROVE  RiskInv'
<1>1. CASE UNCHANGED change
  BY <1>1 DEF RiskInv
<1>2. ASSUME NEW lines \in LineCounts, NEW blast \in 0..MaxBlast, NEW friday \in BOOLEAN,
             NEW night \in BOOLEAN, NEW incidents \in 0..MaxIncidents,
             ReviseChange(lines, blast, friday, night, incidents)
      PROVE  RiskInv'
  <2>1. lines \in Nat /\ blast \in Nat /\ incidents \in Nat
    BY LedgersAssumption
  <2>. QED
    BY <1>2, <2>1 DEF ReviseChange, RiskInv
<1>. QED
  BY <1>1, <1>2 DEF RiskNext

\* Of a part of a finite set there are no more.
LEMMA FewerOfLess ==
    ASSUME NEW B, IsFiniteSet(B), NEW A, A \subseteq B
    PROVE  /\ Cardinality(A) \in Nat /\ Cardinality(B) \in Nat
           /\ Cardinality(A) <= Cardinality(B)
BY FS_Subset, FS_CardinalityType

\* Three of anything are three at most.
LEMMA ThreeOf ==
    ASSUME NEW a, NEW b, NEW c
    PROVE  IsFiniteSet({a, b, c}) /\ Cardinality({a, b, c}) <= 3
<1>1. IsFiniteSet({}) /\ Cardinality({}) = 0
  BY FS_EmptySet
<1>2. IsFiniteSet({c}) /\ Cardinality({c}) = 1
  BY FS_Singleton
<1>3. IsFiniteSet({b, c}) /\ Cardinality({b, c}) <= 2
  <2>1. {b, c} = {c} \cup {b}
    OBVIOUS
  <2>. QED
    BY <1>2, <2>1, FS_AddElement
<1>4. {a, b, c} = {b, c} \cup {a}
  OBVIOUS
<1>5. Cardinality({b, c}) \in Nat
  BY <1>3, FS_CardinalityType
<1>. QED
  BY <1>3, <1>4, <1>5, FS_AddElement

\* The score does not fall when nothing that is scored does.
LEMMA ScoreRises ==
    ASSUME RiskInv, RiskInv',
           change.lines <= change'.lines, change.blast <= change'.blast,
           change.friday => change'.friday, change.night => change'.night,
           change.incidents <= change'.incidents
    PROVE  RiskScore(change) \in Nat /\ RiskScore(change') \in Nat
           /\ RiskScore(change) <= RiskScore(change')
<1>. DEFINE long(c) == {bar \in {10, 100, 500} : c.lines > bar}
            day(c) == {d \in {"friday"} : c.friday}
            hour(c) == {h \in {"night"} : c.night}
<1>1. /\ change.lines \in Nat /\ change'.lines \in Nat /\ change.blast \in Nat /\ change'.blast \in Nat
      /\ change.incidents \in Nat /\ change'.incidents \in Nat
  BY DEF RiskInv
<1>2. long(change) \subseteq long(change') /\ IsFiniteSet(long(change'))
  <2>1. IsFiniteSet({10, 100, 500})
    BY ThreeOf
  <2>2. IsFiniteSet(long(change'))
    BY <2>1, FS_Subset
  <2>3. long(change) \subseteq long(change')
    BY <1>1
  <2>. QED
    BY <2>2, <2>3
<1>3. day(change) \subseteq day(change') /\ IsFiniteSet(day(change'))
  <2>1. IsFiniteSet({"friday"})
    BY FS_Singleton
  <2>2. IsFiniteSet(day(change'))
    BY <2>1, FS_Subset
  <2>. QED
    BY <2>2
<1>4. hour(change) \subseteq hour(change') /\ IsFiniteSet(hour(change'))
  <2>1. IsFiniteSet({"night"})
    BY FS_Singleton
  <2>2. IsFiniteSet(hour(change'))
    BY <2>1, FS_Subset
  <2>. QED
    BY <2>2
<1>5. /\ Cardinality(long(change)) \in Nat /\ Cardinality(long(change')) \in Nat
      /\ Cardinality(long(change)) <= Cardinality(long(change'))
  <2>. HIDE DEF long
  <2>. QED
    BY <1>2, FewerOfLess
<1>6. /\ Cardinality(day(change)) \in Nat /\ Cardinality(day(change')) \in Nat
      /\ Cardinality(day(change)) <= Cardinality(day(change'))
  <2>. HIDE DEF day
  <2>. QED
    BY <1>3, FewerOfLess
<1>7. /\ Cardinality(hour(change)) \in Nat /\ Cardinality(hour(change')) \in Nat
      /\ Cardinality(hour(change)) <= Cardinality(hour(change'))
  <2>. HIDE DEF hour
  <2>. QED
    BY <1>4, FewerOfLess
<1>8. /\ BlastPoints(change.blast) \in Nat /\ BlastPoints(change'.blast) \in Nat
      /\ BlastPoints(change.blast) <= BlastPoints(change'.blast)
  BY <1>1 DEF BlastPoints
<1>9. /\ RiskScore(change) = Cardinality(long(change)) + BlastPoints(change.blast)
            + 2 * (Cardinality(day(change)) + Cardinality(hour(change)) + change.incidents)
      /\ RiskScore(change') = Cardinality(long(change')) + BlastPoints(change'.blast)
            + 2 * (Cardinality(day(change')) + Cardinality(hour(change')) + change'.incidents)
  BY DEF RiskScore
<1>. HIDE DEF long, day, hour
<1>. QED
  BY <1>1, <1>5, <1>6, <1>7, <1>8, <1>9

\* Nor does the band, and what a lower band asks a higher one asks, but the pipeline.
LEMMA RiskRises ==
    ASSUME RiskInv, [RiskNext]_change
    PROVE  /\ RiskInv'
           /\ [ /\ change.lines <= change'.lines /\ change.blast <= change'.blast
                /\ (change.friday => change'.friday) /\ (change.night => change'.night)
                /\ change.incidents <= change'.incidents
              => /\ Band(change) <= Band(change')
                 /\ Requirements(change) \subseteq Requirements(change') \cup {"pipeline"}]_change
<1>1. RiskInv'
  BY RevisionsCount
<1>2. ASSUME change.lines <= change'.lines, change.blast <= change'.blast,
             change.friday => change'.friday, change.night => change'.night,
             change.incidents <= change'.incidents
      PROVE  /\ Band(change) <= Band(change')
             /\ Requirements(change) \subseteq Requirements(change') \cup {"pipeline"}
  <2>. DEFINE bars(c) == {bar \in {3, 5, 8} : RiskScore(c) >= bar}
  <2>1. /\ RiskScore(change) \in Nat /\ RiskScore(change') \in Nat
        /\ RiskScore(change) <= RiskScore(change')
    BY <1>1, <1>2, ScoreRises
  <2>2. IsFiniteSet({3, 5, 8}) /\ Cardinality({3, 5, 8}) <= 3
    BY ThreeOf
  <2>3. bars(change) \subseteq bars(change') /\ bars(change') \subseteq {3, 5, 8}
    BY <2>1
  <2>4. IsFiniteSet(bars(change'))
    BY <2>2, <2>3, FS_Subset
  <2>5. /\ Cardinality(bars(change)) \in Nat /\ Cardinality(bars(change')) \in Nat
        /\ Cardinality(bars(change)) <= Cardinality(bars(change'))
        /\ Cardinality(bars(change')) <= Cardinality({3, 5, 8})
    <3>. HIDE DEF bars
    <3>. QED
      BY <2>2, <2>3, <2>4, FewerOfLess
  <2>6. Band(change) = Cardinality(bars(change)) /\ Band(change') = Cardinality(bars(change'))
    BY DEF Band
  <2>7. Cardinality({3, 5, 8}) \in Nat
    BY <2>2, FS_CardinalityType
  <2>8. Band(change) \in 0..3 /\ Band(change') \in 0..3 /\ Band(change) <= Band(change')
    <3>. HIDE DEF bars
    <3>. QED
      BY <2>2, <2>5, <2>6, <2>7
  <2>9. Requirements(change) \subseteq Requirements(change') \cup {"pipeline"}
    <3>. DEFINE asked(b) == <<{"pipeline"}, {"pipeline", "reviewer"}, {"canary", "reviewer", "owner"},
                              {"canary", "reviewer", "owner", "glass"}>>[b + 1]
    <3>1. /\ asked(0) = {"pipeline"} /\ asked(1) = {"pipeline", "reviewer"}
          /\ asked(2) = {"canary", "reviewer", "owner"}
          /\ asked(3) = {"canary", "reviewer", "owner", "glass"}
      OBVIOUS
    <3>2. Requirements(change) = asked(Band(change)) /\ Requirements(change') = asked(Band(change'))
      BY DEF Requirements
    <3>. HIDE DEF asked
    <3>3. Band(change) \in {0, 1, 2, 3} /\ Band(change') \in {0, 1, 2, 3}
      BY <2>8
    <3>. QED
      BY <2>8, <3>1, <3>2, <3>3
  <2>. QED
    BY <2>8, <2>9
<1>. QED
  BY <1>1, <1>2

-----------------------------------------------------------------------------
(* Years behind the newest release                                         *)

\* The releases of a package are in the order of their ticks.
ReleaseInv ==
    /\ releases \in [Packages -> Seq([tag : Tags, at : Nat])]
    /\ \A p \in Packages : \A i, j \in 1..Len(releases[p]) :
          i <= j => releases[p][i].at <= releases[p][j].at
    /\ DOMAIN pins \subseteq Packages

\* At first nothing is released or pinned.
LEMMA ReleasesStart == PinsInit => ReleaseInv
<1>. SUFFICES ASSUME PinsInit PROVE ReleaseInv
  OBVIOUS
<1>1. \A p \in Packages : releases[p] = <<>> /\ Len(releases[p]) = 0
  BY DEF PinsInit
<1>2. pins = <<>> /\ DOMAIN pins = {}
  BY DEF PinsInit
<1>3. releases \in [Packages -> Seq([tag : Tags, at : Nat])]
  BY DEF PinsInit
<1>. QED
  BY <1>1, <1>2, <1>3 DEF ReleaseInv

\* What a release does to the lists.
LEMMA ReleaseIsLast ==
    ASSUME ReleaseInv, NEW p \in Packages, NEW label \in Tags, NEW at \in ReleaseTimes,
           ReleaseTag(p, label, at)
    PROVE  /\ ReleaseInv' /\ pins' = pins
           /\ \A q \in Packages : q # p => releases'[q] = releases[q]
           /\ Len(releases'[p]) = Len(releases[p]) + 1
           /\ \A i \in 1..Len(releases[p]) : releases'[p][i] = releases[p][i]
           /\ releases'[p][Len(releases[p]) + 1] = [tag |-> label, at |-> at]
<1>. DEFINE T == [tag : Tags, at : Nat]
            e == [tag |-> label, at |-> at]
            n == Len(releases[p])
<1>1. /\ releases' = [releases EXCEPT ![p] = Append(releases[p], e)] /\ pins' = pins
      /\ releases[p] # <<>> => at >= releases[p][n].at
  BY DEF ReleaseTag, Last
<1>2. e \in T /\ at \in Nat
  BY LedgersAssumption
<1>3. /\ releases \in [Packages -> Seq(T)] /\ DOMAIN pins \subseteq Packages
      /\ \A q \in Packages : \A i, j \in 1..Len(releases[q]) :
            i <= j => releases[q][i].at <= releases[q][j].at
  BY DEF ReleaseInv
<1>4. releases[p] \in Seq(T) /\ n \in Nat
  <2>. HIDE DEF T
  <2>1. releases[p] \in Seq(T)
    BY <1>3
  <2>. QED
    BY <2>1
<1>5. \A i \in 1..n : releases[p][i].at \in Nat
  <2>1. \A i \in 1..n : releases[p][i] \in T
    <3>. HIDE DEF T
    <3>. QED
      BY <1>4
  <2>. QED
    BY <2>1
<1>6. releases'[p] = Append(releases[p], e) /\ \A q \in Packages : q # p => releases'[q] = releases[q]
  BY <1>1, <1>3
<1>7. /\ releases'[p] \in Seq(T) /\ Len(releases'[p]) = n + 1
      /\ \A i \in 1..n : releases'[p][i] = releases[p][i]
      /\ releases'[p][n + 1] = e
  <2>. HIDE DEF T, e, n
  <2>. QED
    BY <1>2, <1>4, <1>6 DEF n
<1>8. releases' \in [Packages -> Seq(T)]
  <2>. HIDE DEF T, e, n
  <2>1. DOMAIN releases' = Packages /\ releases' = [q \in Packages |-> releases'[q]]
    BY <1>1, <1>3
  <2>2. \A q \in Packages : releases'[q] \in Seq(T)
    BY <1>3, <1>6, <1>7
  <2>. QED
    BY <2>1, <2>2
<1>9. ASSUME NEW i \in 1..(n + 1), NEW j \in 1..(n + 1), i <= j
      PROVE  releases'[p][i].at <= releases'[p][j].at
  <2>. HIDE DEF n
  <2>1. CASE j \in 1..n
    <3>1. i \in 1..n
      BY <1>4, <1>9, <2>1
    <3>2. releases[p][i].at <= releases[p][j].at
      BY <1>3, <1>9, <2>1, <3>1 DEF n
    <3>. QED
      BY <1>7, <2>1, <3>1, <3>2
  <2>2. CASE j = n + 1 /\ i \in 1..n
    <3>1. releases[p] # <<>> /\ n \in 1..n
      BY <1>4, <2>2 DEF n
    <3>2. releases[p][i].at <= releases[p][n].at /\ at >= releases[p][n].at
      BY <1>1, <1>3, <1>4, <2>2, <3>1 DEF n
    <3>3. releases'[p][i].at = releases[p][i].at /\ releases'[p][j].at = at
      BY <1>7, <2>2
    <3>. QED
      BY <1>2, <1>5, <2>2, <3>1, <3>2, <3>3
  <2>3. CASE j = n + 1 /\ i = n + 1
    BY <1>2, <1>7, <2>3
  <2>. QED
    BY <1>4, <1>9, <2>1, <2>2, <2>3 DEF n
<1>10. ReleaseInv'
  <2>1. \A q \in Packages : \A i, j \in 1..Len(releases'[q]) :
            i <= j => releases'[q][i].at <= releases'[q][j].at
    <3>. HIDE DEF n
    <3>. QED
      BY <1>3, <1>6, <1>7, <1>9
  <2>. QED
    BY <1>1, <1>3, <1>8, <2>1 DEF ReleaseInv
<1>. QED
  BY <1>1, <1>6, <1>7, <1>10

\* The years of a pin that was released are a number, and none when it is the newest.
LEMMA AgesAreYears ==
    ASSUME ReleaseInv, NEW p \in Packages, NEW label, ReleasesOf(p, label) # {}
    PROVE  /\ AgeBehind(p, label) \in Nat
           /\ Max(ReleasesOf(p, label)) \in ReleasesOf(p, label)
           /\ ReleasesOf(p, label) \subseteq 1..Len(releases[p])
<1>. DEFINE T == [tag : Tags, at : Nat]
            n == Len(releases[p])
            its == ReleasesOf(p, label)
<1>1. releases[p] \in Seq(T) /\ n \in Nat /\ DOMAIN releases[p] = 1..n
  <2>1. releases[p] \in Seq(T)
    BY DEF ReleaseInv
  <2>. HIDE DEF T
  <2>. QED
    BY <2>1
<1>2. \A i \in 1..n : releases[p][i].at \in Nat
  <2>1. \A i \in 1..n : releases[p][i] \in T
    <3>. HIDE DEF T
    <3>. QED
      BY <1>1
  <2>. QED
    BY <2>1
<1>3. its \subseteq 1..n /\ its # {}
  BY <1>1 DEF ReleasesOf
<1>4. IsFiniteSet(1..n) /\ 1..n \subseteq Int
  BY <1>1, Numbers
<1>5. IsFiniteSet(its) /\ its \subseteq Int
  BY <1>3, <1>4, FS_Subset
<1>. HIDE DEF its, n
<1>6. Max(its) \in its
  BY <1>3, <1>5, MaxIsThere
<1>7. Max(its) \in 1..n /\ n \in 1..n /\ Max(its) <= n
  <2>1. Max(its) \in 1..n
    BY <1>3, <1>6
  <2>. HIDE DEF T
  <2>. QED
    BY <1>1, <2>1
<1>8. releases[p][Max(its)].at <= releases[p][n].at
  BY <1>7 DEF ReleaseInv, n
<1>9. AgeBehind(p, label) = releases[p][n].at - releases[p][Max(its)].at
  BY DEF AgeBehind, Last, its, n
<1>. QED
  BY <1>2, <1>3, <1>6, <1>7, <1>8, <1>9 DEF its, n

\* Head and tail are all.
HeadsAddUp ==
    ReleaseInv /\ Scored =>
        /\ HeadAndTail[1] + HeadAndTail[2] = SumFunction(Libyears)
        /\ SumFunction(Libyears) = Total(Libyears, DOMAIN pins)
        /\ IsFiniteSet(DOMAIN pins)
        /\ \A p \in DOMAIN pins : Libyears[p] \in Nat /\ Libyears[p] = AgeBehind(p, pins[p])

\* Head and tail add up to the whole, before a step
LEMMA HeadAndTailAreAll == HeadsAddUp
<1>. SUFFICES ASSUME ReleaseInv, Scored
              PROVE  /\ HeadAndTail[1] + HeadAndTail[2] = SumFunction(Libyears)
                     /\ SumFunction(Libyears) = Total(Libyears, DOMAIN pins)
                     /\ IsFiniteSet(DOMAIN pins)
                     /\ \A p \in DOMAIN pins :
                           Libyears[p] \in Nat /\ Libyears[p] = AgeBehind(p, pins[p])
  BY DEF HeadsAddUp
<1>. DEFINE tail == TailOf(Libyears)
            all == DOMAIN pins
<1>1. IsFiniteSet(all) /\ all \subseteq Packages
  BY LedgersAssumption, FS_Subset DEF ReleaseInv
<1>2. ASSUME NEW p \in all PROVE Libyears[p] \in Nat /\ Libyears[p] = AgeBehind(p, pins[p])
  <2>1. p \in Packages /\ ReleasesOf(p, pins[p]) # {}
    BY <1>1, <1>2 DEF Scored
  <2>2. AgeBehind(p, pins[p]) \in Nat
    BY <2>1, AgesAreYears
  <2>. QED
    BY <1>2, <2>2 DEF Libyears
<1>3. tail \subseteq all /\ DOMAIN Libyears = all
  BY DEF TailOf, Libyears
<1>4. SumFunction(Libyears) = Total(Libyears, all)
  BY <1>3, SumIsTotal
<1>5. ASSUME NEW S \in SUBSET all
      PROVE  SumFunction(Restrict(Libyears, S)) = Total(Libyears, S)
  <2>. DEFINE share == Restrict(Libyears, S)
  <2>1. DOMAIN share = S /\ \A p \in S : share[p] = Libyears[p]
    BY DEF Restrict
  <2>2. IsFiniteSet(S)
    BY <1>1, FS_Subset
  <2>3. \A p \in S : Libyears[p] \in Nat /\ share[p] = Libyears[p]
    BY <1>2, <2>1
  <2>. HIDE DEF share
  <2>4. Total(share, S) = Total(Libyears, S)
    BY <2>2, <2>3, TotalOfSame
  <2>5. SumFunction(share) = Total(share, S)
    BY <2>1, SumIsTotal
  <2>. QED
    BY <2>4, <2>5 DEF share
<1>6. HeadAndTail = <<SumFunction(Restrict(Libyears, all \ tail)), SumFunction(Restrict(Libyears, tail))>>
  BY DEF HeadAndTail
<1>7. HeadAndTail[1] = Total(Libyears, all \ tail) /\ HeadAndTail[2] = Total(Libyears, tail)
  BY <1>3, <1>5, <1>6
<1>8. /\ Total(Libyears, all) = Total(Libyears, tail) + Total(Libyears, all \ tail)
      /\ Total(Libyears, tail) \in Nat /\ Total(Libyears, all \ tail) \in Nat
  <2>. HIDE DEF all, tail
  <2>. QED
    BY <1>1, <1>2, <1>3, TotalOfPart
<1>. QED
  BY <1>1, <1>2, <1>4, <1>7, <1>8

\* and after it.
LEMMA HeadAndTailAreAllNext == HeadsAddUp'
BY HeadAndTailAreAll, PTL

\* A step keeps the order of the releases.
LEMMA ReleasesKeepOrder ==
    ASSUME ReleaseInv, [PinsNext]_pinVars
    PROVE  ReleaseInv'
<1>1. CASE UNCHANGED pinVars
  BY <1>1 DEF ReleaseInv, pinVars
<1>2. ASSUME NEW p \in Packages, NEW label \in Tags, PinTo(p, label) PROVE ReleaseInv'
  <2>1. releases' = releases /\ DOMAIN pins' = DOMAIN pins \cup {p}
    BY <1>2 DEF PinTo
  <2>. QED
    BY <2>1 DEF ReleaseInv
<1>3. ASSUME NEW p \in Packages, NEW label \in Tags, NEW at \in ReleaseTimes, ReleaseTag(p, label, at)
      PROVE  ReleaseInv'
  BY <1>3, ReleaseIsLast
<1>. QED
  BY <1>1, <1>2, <1>3 DEF PinsNext

\* A release makes no pin younger but one of its own tag.
LEMMA ReleasesAge ==
    ASSUME ReleaseInv, NEW p \in Packages, NEW label \in Tags, NEW at \in ReleaseTimes,
           ReleaseTag(p, label, at), NEW q \in Packages, NEW chosen,
           Last(releases'[q]).tag # chosen, ReleasesOf(q, chosen) # {}
    PROVE  AgeBehind(q, chosen) <= AgeBehind(q, chosen)'
<1>. DEFINE n == Len(releases[p])
<1>1. /\ pins' = pins
      /\ \A r \in Packages : r # p => releases'[r] = releases[r]
      /\ Len(releases'[p]) = n + 1
      /\ \A i \in 1..n : releases'[p][i] = releases[p][i]
      /\ releases'[p][n + 1] = [tag |-> label, at |-> at]
  BY ReleaseIsLast
<1>2. ReleaseInv'
  BY ReleaseIsLast
<1>3. AgeBehind(q, chosen) \in Nat
  BY AgesAreYears
<1>4. CASE q # p
  <2>1. releases'[q] = releases[q]
    BY <1>1, <1>4
  <2>2. AgeBehind(q, chosen)' = AgeBehind(q, chosen)
    BY <2>1 DEF AgeBehind, ReleasesOf
  <2>. QED
    BY <1>3, <2>2
<1>5. CASE q = p
  <2>. DEFINE T == [tag : Tags, at : Nat]
              its == ReleasesOf(p, chosen)
              newest == Max(its)
  <2>1. /\ n \in Nat /\ DOMAIN releases[p] = 1..n /\ DOMAIN releases'[p] = 1..(n + 1)
        /\ \A i \in 1..n : releases[p][i] \in T
    <3>1. releases[p] \in Seq(T) /\ releases'[p] \in Seq(T)
      BY <1>2 DEF ReleaseInv
    <3>. HIDE DEF T
    <3>2. n \in Nat /\ DOMAIN releases[p] = 1..n /\ DOMAIN releases'[p] = 1..Len(releases'[p])
      BY <3>1
    <3>3. \A i \in 1..n : releases[p][i] \in T
      BY <3>1
    <3>. QED
      BY <1>1, <3>2, <3>3
  <2>2. \A i \in 1..n : releases[p][i].at \in Nat
    BY <2>1
  <2>3. label # chosen
    <3>1. Last(releases'[p]) = [tag |-> label, at |-> at]
      BY <1>1 DEF Last
    <3>. QED
      BY <1>5, <3>1
  <2>4. ReleasesOf(p, chosen)' = its
    <3>. HIDE DEF T
    <3>1. \A i \in 1..(n + 1) : releases'[p][i].tag = chosen <=> i \in 1..n /\ releases[p][i].tag = chosen
      <4>1. ASSUME NEW i \in 1..n PROVE releases'[p][i] = releases[p][i]
        BY <1>1
      <4>2. n + 1 \notin 1..n /\ releases'[p][n + 1].tag = label
        BY <1>1, <2>1
      <4>3. \A i \in 1..(n + 1) : i \in 1..n \/ i = n + 1
        BY <2>1
      <4>. QED
        BY <2>3, <4>1, <4>2, <4>3
    <3>2. 1..n \subseteq 1..(n + 1)
      BY <2>1
    <3>. HIDE DEF n
    <3>. QED
      BY <2>1, <3>1, <3>2 DEF ReleasesOf
  <2>5. newest \in its /\ its \subseteq 1..n
    BY <1>5, AgesAreYears
  <2>6. newest \in 1..n /\ releases'[p][newest] = releases[p][newest] /\ releases[p][newest].at \in Nat
    BY <1>1, <2>2, <2>5
  <2>7. n \in 1..n /\ releases[p][n].at \in Nat
    <3>1. n \in 1..n
      BY <2>1, <2>6
    <3>. QED
      BY <2>2, <3>1
  <2>8. releases[p][n].at <= at /\ at \in Nat
    <3>1. releases[p] # <<>>
      BY <2>7
    <3>. QED
      BY <3>1, LedgersAssumption DEF ReleaseTag, Last
  <2>9. AgeBehind(p, chosen)' = at - releases[p][newest].at
    <3>1. AgeBehind(p, chosen)' = Last(releases'[p]).at - releases'[p][Max(ReleasesOf(p, chosen)')].at
      BY DEF AgeBehind
    <3>2. Last(releases'[p]) = [tag |-> label, at |-> at]
      BY <1>1 DEF Last
    <3>. HIDE DEF n, T
    <3>. QED
      BY <2>4, <2>6, <3>1, <3>2
  <2>10. AgeBehind(p, chosen) = releases[p][n].at - releases[p][newest].at
    BY DEF AgeBehind, Last
  <2>. HIDE DEF n, newest, its, T
  <2>. QED
    BY <1>5, <2>6, <2>7, <2>8, <2>9, <2>10
<1>. QED
  BY <1>4, <1>5

\* The total falls only by a pin that moved or a pinned tag that came out again.
LEMMA FreshnessStays ==
    ASSUME ReleaseInv, [PinsNext]_pinVars
    PROVE  /\ ReleaseInv'
           /\ [LET total == SumFunction(Libyears)
               IN /\ Scored => HeadAndTail[1] + HeadAndTail[2] = total
                  /\ Scored /\ Scored' /\ HeadAndTail'[1] + HeadAndTail'[2] < total =>
                        \/ pins' # pins
                        \/ \E p \in DOMAIN pins : Last(releases'[p]).tag = pins[p]]_pinVars
<1>1. ReleaseInv'
  BY ReleasesKeepOrder
<1>2. Scored => HeadAndTail[1] + HeadAndTail[2] = SumFunction(Libyears)
  BY HeadAndTailAreAll DEF HeadsAddUp
<1>3. ASSUME PinsNext, Scored, Scored', pins' = pins,
             \A p \in DOMAIN pins : Last(releases'[p]).tag # pins[p]
      PROVE  ~(HeadAndTail'[1] + HeadAndTail'[2] < SumFunction(Libyears))
  <2>. DEFINE all == DOMAIN pins
  <2>1. /\ SumFunction(Libyears) = Total(Libyears, all)
        /\ IsFiniteSet(all)
        /\ \A p \in all : Libyears[p] \in Nat /\ Libyears[p] = AgeBehind(p, pins[p])
    BY <1>3, HeadAndTailAreAll DEF HeadsAddUp
  <2>2. /\ HeadAndTail'[1] + HeadAndTail'[2] = SumFunction(Libyears')
        /\ SumFunction(Libyears') = Total(Libyears', all)
        /\ \A p \in all : Libyears'[p] \in Nat /\ Libyears'[p] = AgeBehind(p, pins[p])'
    <3>1. /\ HeadAndTail'[1] + HeadAndTail'[2] = SumFunction(Libyears')
          /\ SumFunction(Libyears') = Total(Libyears', DOMAIN pins')
          /\ \A p \in DOMAIN pins' : Libyears'[p] \in Nat /\ Libyears'[p] = AgeBehind(p, pins[p])'
      BY <1>1, <1>3, HeadAndTailAreAllNext DEF HeadsAddUp
    <3>. QED
      BY <1>3, <3>1
  <2>3. ASSUME NEW q \in all PROVE AgeBehind(q, pins[q]) <= AgeBehind(q, pins[q])'
    <3>1. q \in Packages /\ ReleasesOf(q, pins[q]) # {} /\ Last(releases'[q]).tag # pins[q]
      BY <1>3 DEF ReleaseInv, Scored
    <3>2. ASSUME NEW p \in Packages, NEW label \in Tags, PinTo(p, label)
          PROVE  AgeBehind(q, pins[q]) <= AgeBehind(q, pins[q])'
      <4>1. releases' = releases
        BY <3>2 DEF PinTo
      <4>2. AgeBehind(q, pins[q])' = AgeBehind(q, pins[q])
        BY <1>3, <4>1 DEF AgeBehind, ReleasesOf
      <4>3. AgeBehind(q, pins[q]) \in Nat
        BY <2>1
      <4>. QED
        BY <4>2, <4>3
    <3>3. ASSUME NEW p \in Packages, NEW label \in Tags, NEW at \in ReleaseTimes, ReleaseTag(p, label, at)
          PROVE  AgeBehind(q, pins[q]) <= AgeBehind(q, pins[q])'
      <4>. DEFINE chosen == pins[q]
      <4>1. AgeBehind(q, chosen)' = AgeBehind(q, pins[q])'
        OBVIOUS
      <4>. QED
        BY <1>3, <3>1, <3>3, ReleasesAge
    <3>. QED
      BY <1>3, <3>2, <3>3 DEF PinsNext
  <2>4. \A p \in all : Libyears[p] \in Nat /\ Libyears'[p] \in Nat /\ Libyears[p] <= Libyears'[p]
    BY <2>1, <2>2, <2>3
  <2>. HIDE DEF all
  <2>5. Total(Libyears, all) <= Total(Libyears', all)
    BY <2>1, <2>4, TotalOfLess
  <2>6. Total(Libyears, all) \in Nat /\ Total(Libyears', all) \in Nat
    BY <2>1, <2>4, TotalIsNat
  <2>. QED
    BY <2>1, <2>2, <2>5, <2>6
<1>. QED
  BY <1>1, <1>2, <1>3

-----------------------------------------------------------------------------
(* Roles and policies                                                      *)

\* The bindings are a list of names.
RoleInv == bindings \in Seq(RoleNames)

\* At first nobody is bound.
LEMMA RolesStart == RoleInit => RoleInv
BY DEF RoleInit, RoleInv

\* To be bound once more takes nothing away.
LEMMA BindingsGrant ==
    ASSUME RoleInv, [RoleNext]_roleVars
    PROVE  /\ RoleInv'
           /\ [roles' = roles /\ bindings' # bindings => \A verb \in Verbs, space \in Spaces :
                  MayDo(verb, space) => MayDo(verb, space)']_roleVars
<1>1. CASE UNCHANGED roleVars
  BY <1>1 DEF RoleInv, roleVars
<1>2. ASSUME NEW name \in RoleNames, BindRole(name)
      PROVE  /\ RoleInv'
             /\ \A verb \in Verbs, space \in Spaces : MayDo(verb, space) => MayDo(verb, space)'
  <2>. DEFINE n == Len(bindings)
  <2>1. bindings \in Seq(RoleNames) /\ bindings' = Append(bindings, name) /\ roles' = roles
    BY <1>2 DEF RoleInv, BindRole
  <2>2. /\ bindings' \in Seq(RoleNames) /\ n \in Nat /\ DOMAIN bindings = 1..n
        /\ DOMAIN bindings' = 1..(n + 1)
        /\ \A i \in 1..n : bindings'[i] = bindings[i]
    BY <2>1
  <2>3. 1..n \subseteq 1..(n + 1)
    BY <2>2
  <2>. HIDE DEF n
  <2>4. ASSUME NEW verb \in Verbs, NEW space \in Spaces, MayDo(verb, space) PROVE MayDo(verb, space)'
    <3>1. PICK i \in 1..n : LET grant == roles[bindings[i]] IN verb \in grant.verbs /\ Covers(grant, space)
      BY <2>2, <2>4 DEF MayDo
    <3>2. i \in DOMAIN bindings' /\ roles'[bindings'[i]] = roles[bindings[i]]
      BY <2>1, <2>2, <2>3
    <3>. QED
      BY <3>1, <3>2 DEF MayDo, Covers
  <2>. QED
    BY <2>2, <2>4 DEF RoleInv
<1>3. ASSUME NEW name \in RoleNames, NEW grant \in Grants, DefineRole(name, grant)
      PROVE  RoleInv' /\ bindings' = bindings
  BY <1>3 DEF DefineRole, RoleInv
<1>. QED
  BY <1>1, <1>2, <1>3 DEF RoleNext

-----------------------------------------------------------------------------
(* The mesh                                                                *)

\* The mesh is open or shut by default, and has a list of policies.
MeshPolicies == Seq([from : SUBSET Clauses, to : SUBSET Clauses])

MeshInv ==
    \E open \in BOOLEAN, policies \in MeshPolicies : mesh = [open |-> open, policies |-> policies]

\* At first the mesh has no policy.
LEMMA MeshStarts == MeshInit => MeshInv
<1>1. <<>> \in MeshPolicies
  BY DEF MeshPolicies
<1>. QED
  BY <1>1 DEF MeshInit, MeshInv

\* One more policy shuts no flow.
LEMMA PoliciesOpen ==
    ASSUME MeshInv, [MeshNext]_mesh
    PROVE  /\ MeshInv'
           /\ [mesh' # mesh => \A from, to \in LabelSets :
                  MayReach(from, to) => MayReach(from, to)']_mesh
<1>1. CASE UNCHANGED mesh
  BY <1>1 DEF MeshInv
<1>2. ASSUME NEW source \in {{c} : c \in Clauses}, NEW destination \in {{c} : c \in Clauses},
             AllowFlow(source, destination)
      PROVE  /\ MeshInv'
             /\ \A from, to \in LabelSets : MayReach(from, to) => MayReach(from, to)'
  <2>. DEFINE one == [from |-> source, to |-> destination]
              before == mesh.policies
              n == Len(before)
              T == [from : SUBSET Clauses, to : SUBSET Clauses]
  <2>1. PICK open \in BOOLEAN, policies \in MeshPolicies : mesh = [open |-> open, policies |-> policies]
    BY DEF MeshInv
  <2>2. /\ mesh' = [open |-> open, policies |-> Append(policies, one)]
        /\ before = policies /\ mesh.open = open
        /\ mesh'.policies = Append(policies, one) /\ mesh'.open = open
    BY <1>2, <2>1 DEF AllowFlow
  <2>3. one \in T
    BY <1>2
  <2>4. policies \in Seq(T)
    BY <2>1 DEF MeshPolicies
  <2>5. /\ Append(policies, one) \in Seq(T) /\ n \in Nat /\ DOMAIN policies = 1..n
        /\ DOMAIN Append(policies, one) = 1..(n + 1)
        /\ \A i \in 1..n : Append(policies, one)[i] = policies[i]
    <3>. HIDE DEF T, one
    <3>. QED
      BY <2>2, <2>3, <2>4
  <2>6. 1..n \subseteq 1..(n + 1)
    BY <2>5
  <2>7. MeshInv'
    BY <2>2, <2>5 DEF MeshInv, MeshPolicies
  <2>. HIDE DEF n, one, T
  <2>8. ASSUME NEW from \in LabelSets, NEW to \in LabelSets, MayReach(from, to) PROVE MayReach(from, to)'
    <3>1. CASE mesh.open
      BY <2>2, <3>1 DEF MayReach
    <3>2. CASE \E i \in DOMAIN mesh.policies :
                  SelectorMatches(mesh.policies[i].from, from) /\ SelectorMatches(mesh.policies[i].to, to)
      <4>1. PICK i \in 1..n : SelectorMatches(policies[i].from, from) /\ SelectorMatches(policies[i].to, to)
        BY <2>2, <2>5, <3>2
      <4>2. i \in DOMAIN mesh'.policies /\ mesh'.policies[i] = policies[i]
        BY <2>2, <2>5, <2>6
      <4>. QED
        BY <4>1, <4>2 DEF MayReach
    <3>. QED
      BY <2>8, <3>1, <3>2 DEF MayReach
  <2>. QED
    BY <2>7, <2>8
<1>. QED
  BY <1>1, <1>2 DEF MeshNext

-----------------------------------------------------------------------------
(* Lists of shards.                                                        *)

Marks == Nat \cup {Unmarked}
ShardRecord == [low : Nat, high : Nat, load : Nat, hot : Marks, cold : Marks]

LowsOf(all) == {all[i].low : i \in DOMAIN all}

\* All are of E, and each with the next is of Q.
Chain(all, E, Q) ==
    /\ all \in Seq(E) /\ Len(all) >= 1
    /\ \A i \in 1..(Len(all) - 1) : <<all[i], all[i + 1]>> \in Q

\* Under names of their own, that the provers need not look behind.
Lengthened(all, x) == Append(all, x)
Joined(all, more) == all \o more

\* One more at the end.
LEMMA ChainGrows ==
    ASSUME NEW all, NEW E, NEW Q, Chain(all, E, Q), NEW x \in E, <<all[Len(all)], x>> \in Q,
           NEW more, more = Lengthened(all, x)
    PROVE  /\ Chain(more, E, Q) /\ Len(more) = Len(all) + 1
           /\ more[1] = all[1] /\ more[Len(more)] = x
           /\ LowsOf(more) = LowsOf(all) \cup {x.low}
<1>. DEFINE n == Len(all)
<1>1. all \in Seq(E) /\ n \in Nat \ {0} /\ DOMAIN all = 1..n
  BY DEF Chain
<1>2. /\ more \in Seq(E) /\ Len(more) = n + 1 /\ DOMAIN more = 1..(n + 1)
      /\ more[n + 1] = x /\ \A i \in 1..n : more[i] = all[i]
  BY <1>1 DEF Lengthened
<1>3. ASSUME NEW i \in 1..n PROVE <<more[i], more[i + 1]>> \in Q
  <2>1. <<all[n], x>> \in Q /\ \A j \in 1..(n - 1) : <<all[j], all[j + 1]>> \in Q
    BY DEF Chain
  <2>. HIDE DEF n
  <2>2. CASE i = n
    BY <1>2, <2>1, <2>2
  <2>3. CASE i # n
    <3>1. i \in 1..(n - 1) /\ i + 1 \in 1..n
      BY <1>1, <2>3
    <3>. QED
      BY <1>2, <2>1, <3>1
  <2>. QED
    BY <2>2, <2>3
<1>4. Chain(more, E, Q)
  BY <1>1, <1>2, <1>3 DEF Chain
<1>5. LowsOf(more) = LowsOf(all) \cup {x.low}
  <2>1. 1..(n + 1) = (1..n) \cup {n + 1}
    BY <1>1
  <2>. QED
    BY <1>1, <1>2, <2>1 DEF LowsOf
<1>. QED
  BY <1>1, <1>2, <1>4, <1>5

\* Another at the end, that may stand where the last one stands.
LEMMA ChainEnds ==
    ASSUME NEW all, NEW E, NEW Q, Chain(all, E, Q), NEW x \in E, x.low = all[Len(all)].low,
           \A y \in E : <<y, all[Len(all)]>> \in Q => <<y, x>> \in Q,
           NEW other, other = Lengthened(Front(all), x)
    PROVE  /\ Chain(other, E, Q) /\ Len(other) = Len(all)
           /\ other[1].low = all[1].low /\ other[Len(other)] = x
           /\ LowsOf(other) = LowsOf(all)
<1>. DEFINE n == Len(all)
            front == Front(all)
<1>1. all \in Seq(E) /\ n \in Nat \ {0} /\ DOMAIN all = 1..n
  BY DEF Chain
<1>2. /\ front \in Seq(E) /\ Len(front) = n - 1
      /\ \A i \in 1..(n - 1) : front[i] = all[i]
  BY <1>1 DEF Front
<1>. HIDE DEF front
<1>3. /\ other \in Seq(E) /\ Len(other) = n /\ DOMAIN other = 1..n
      /\ other[n] = x /\ \A i \in 1..(n - 1) : other[i] = all[i]
  <2>1. other = Append(front, x)
    BY DEF front, Lengthened
  <2>2. /\ other \in Seq(E) /\ Len(other) = Len(front) + 1 /\ DOMAIN other = 1..(Len(front) + 1)
        /\ other[Len(front) + 1] = x /\ \A i \in 1..Len(front) : other[i] = front[i]
    BY <1>2, <2>1
  <2>. HIDE DEF n
  <2>. QED
    BY <1>1, <1>2, <2>2
<1>4. ASSUME NEW i \in 1..(n - 1) PROVE <<other[i], other[i + 1]>> \in Q
  <2>1. <<all[i], all[i + 1]>> \in Q /\ all[i] \in E /\ \A y \in E : <<y, all[n]>> \in Q => <<y, x>> \in Q
    BY <1>1, <1>4 DEF Chain
  <2>. HIDE DEF n
  <2>2. CASE i = n - 1
    <3>1. i + 1 = n
      BY <1>1, <2>2
    <3>. QED
      BY <1>3, <2>1, <3>1
  <2>3. CASE i # n - 1
    <3>1. i + 1 \in 1..(n - 1)
      BY <1>1, <2>3
    <3>. QED
      BY <1>3, <2>1, <3>1
  <2>. QED
    BY <2>2, <2>3
<1>5. Chain(other, E, Q)
  BY <1>1, <1>3, <1>4 DEF Chain
<1>6. \A i \in 1..n : other[i].low = all[i].low
  <2>1. x.low = all[n].low
    OBVIOUS
  <2>. HIDE DEF n
  <2>2. \A i \in 1..n : i \in 1..(n - 1) \/ i = n
    BY <1>1
  <2>. QED
    BY <1>3, <2>1, <2>2
<1>7. LowsOf(other) = LowsOf(all)
  BY <1>1, <1>3, <1>6 DEF LowsOf
<1>8. other[1].low = all[1].low
  BY <1>1, <1>6
<1>. QED
  BY <1>3, <1>5, <1>7, <1>8

-----------------------------------------------------------------------------
(* The two loops of an observation, from left to right.                    *)

\* f[i] is what the first i pieces make.
Flattens(f, pieces, n, T) ==
    /\ f \in [1..n -> Seq(T)]
    /\ f[1] = pieces[1]
    /\ \A i \in 2..n : f[i] = Joined(f[i - 1], pieces[i])
    /\ FlattenSeq(pieces) = f[n]

\* The lists that pieces are joined to, one after another, are lists.
LEMMA FlattenGoesRight ==
    ASSUME NEW T, NEW n \in Nat \ {0}, NEW pieces \in [1..n -> Seq(T)]
    PROVE  \E f : Flattens(f, pieces, n, T)
<1>. DEFINE S == Seq(T)
            step == [p \in (1..n) \X S |-> p[2] \o pieces[p[1]]]
            Flat(h) == h = [i \in 1..n |-> IF i = 1 THEN pieces[i] ELSE h[i - 1] \o pieces[i]]
            flatten == CHOOSE h : Flat(h)
<1>1. \A i \in 1..n : pieces[i] \in S
  <2>. HIDE DEF S
  <2>. QED
    BY DEF S
<1>2. \A i \in 1..n : \A v \in S : step[<<i, v>>] \in S
  <2>1. ASSUME NEW i \in 1..n, NEW v \in S PROVE v \o pieces[i] \in S
    BY <1>1
  <2>. QED
    BY <2>1
<1>3. PICK g : IsLeftFold(n, S, <<>>, step, g)
  <2>1. <<>> \in S /\ n \in Nat
    OBVIOUS
  <2>. HIDE DEF step, S
  <2>. QED
    BY ONLY <1>2, <2>1, LeftFoldExists
<1>4. ASSUME NEW i \in 1..n PROVE g[1..i] = g[1..(i - 1)] \o pieces[i] /\ g[1..(i - 1)] \in S
  <2>1. 1..i \in SUBSET (1..n) /\ 1..(i - 1) \in SUBSET (1..n) /\ i \in Nat /\ i # 0
    OBVIOUS
  <2>2. 1..i # {} /\ Max(1..i) = i /\ (1..i) \ {Max(1..i)} = 1..(i - 1)
    BY <2>1, LastOfPrefix
  <2>3. g[1..i] = step[<<i, g[1..(i - 1)]>>] /\ g[1..(i - 1)] \in S
    <3>. HIDE DEF step, S
    <3>. QED
      BY <1>3, <2>1, <2>2 DEF IsLeftFold
  <2>4. <<i, g[1..(i - 1)]>> \in (1..n) \X S
    BY <2>3
  <2>. HIDE DEF S
  <2>. QED
    BY <2>3, <2>4
<1>5. g[{}] = <<>>
  BY <1>3 DEF IsLeftFold
<1>. DEFINE h0 == [i \in 1..n |-> g[1..i]]
<1>6. h0 = [i \in 1..n |-> IF i = 1 THEN pieces[i] ELSE h0[i - 1] \o pieces[i]]
  <2>1. ASSUME NEW i \in 1..n
        PROVE  h0[i] = IF i = 1 THEN pieces[i] ELSE h0[i - 1] \o pieces[i]
    <3>1. h0[i] = g[1..(i - 1)] \o pieces[i]
      BY <1>4
    <3>2. CASE i = 1
      <4>1. 1..(i - 1) = {} /\ pieces[i] \in Seq(T)
        BY <1>1, <3>2
      <4>2. h0[i] = <<>> \o pieces[i]
        BY <1>5, <3>1, <4>1
      <4>. HIDE DEF h0
      <4>. QED
        BY <3>2, <4>1, <4>2
    <3>3. CASE i # 1
      <4>1. i - 1 \in 1..n
        BY <3>3
      <4>2. h0[i - 1] = g[1..(i - 1)]
        BY <4>1
      <4>. QED
        BY <3>1, <3>3, <4>2
    <3>. QED
      BY <3>2, <3>3
  <2>2. h0 = [i \in 1..n |-> h0[i]]
    OBVIOUS
  <2>. HIDE DEF h0
  <2>. QED
    BY <2>1, <2>2
<1>7. Flat(flatten)
  <2>1. Flat(h0)
    BY <1>6
  <2>. HIDE DEF h0, Flat
  <2>. QED
    BY <2>1
<1>8. Len(pieces) = n /\ FlattenSeq(pieces) = flatten[n]
  <2>1. pieces \in Seq(S)
    <3>. HIDE DEF S
    <3>. QED
      BY <1>1
  <2>2. Len(pieces) = n
    BY DOMAIN pieces = 1..n
  <2>. QED
    BY <2>2 DEF FlattenSeq
<1>9. \A i \in 1..n : flatten[i] = IF i = 1 THEN pieces[i] ELSE flatten[i - 1] \o pieces[i]
  BY <1>7
<1>10. DOMAIN flatten = 1..n /\ flatten = [i \in 1..n |-> flatten[i]]
  <2>. HIDE DEF flatten
  <2>. QED
    BY <1>7
<1>. HIDE DEF flatten, Flat, S, step, h0
<1>11. flatten[1] = pieces[1] /\ \A i \in 2..n : flatten[i] = Joined(flatten[i - 1], pieces[i])
  <2>1. 1 \in 1..n /\ \A i \in 2..n : i \in 1..n /\ i # 1
    OBVIOUS
  <2>. QED
    BY <1>9, <2>1 DEF Joined
<1>12. \A i \in 1..n : flatten[i] \in Seq(T)
  <2>. DEFINE G == {i \in 0..n : i = 0 \/ flatten[i] \in Seq(T)}
  <2>1. 0 \in G
    OBVIOUS
  <2>2. ASSUME NEW i \in 1..n, i - 1 \in G PROVE i \in G
    <3>1. pieces[i] \in Seq(T) /\ i \in 0..n
      BY <1>1 DEF S
    <3>2. CASE i = 1
      BY <1>11, <3>1, <3>2
    <3>3. CASE i # 1
      <4>1. i \in 2..n /\ flatten[i - 1] \in Seq(T)
        BY <2>2, <3>3
      <4>2. Joined(flatten[i - 1], pieces[i]) \in Seq(T)
        BY <3>1, <4>1 DEF Joined
      <4>. QED
        BY <1>11, <3>1, <4>1, <4>2
    <3>. QED
      BY <3>2, <3>3
  <2>. HIDE DEF G
  <2>3. 0..n \subseteq G
    BY <2>1, <2>2, UpTo
  <2>. QED
    BY <2>3 DEF G
<1>13. flatten \in [1..n -> Seq(T)]
  BY <1>10, <1>12
<1>. QED
  BY <1>8, <1>11, <1>13 DEF Flattens

\* A merge leaves shards that are not none, whatever it does.
LEMMA MergesAreLists ==
    ASSUME NEW formed \in Seq(ShardRecord), Len(formed) >= 1, NEW right \in ShardRecord, NEW mean
    PROVE  MergeInto(formed, right, mean) \in Seq(ShardRecord) /\ Len(MergeInto(formed, right, mean)) >= 1
<1>. DEFINE left == Last(formed)
            front == Front(formed)
<1>1. left \in ShardRecord
  BY DEF Last
<1>2. front \in Seq(ShardRecord)
  BY DEF Front
<1>3. ASSUME NEW x \in ShardRecord
      PROVE  /\ Append(front \o <<x>>, right) \in Seq(ShardRecord)
             /\ Len(Append(front \o <<x>>, right)) >= 1
             /\ Append(front, x) \in Seq(ShardRecord) /\ Len(Append(front, x)) >= 1
  <2>. HIDE DEF front
  <2>1. <<x>> \in Seq(ShardRecord)
    OBVIOUS
  <2>2. front \o <<x>> \in Seq(ShardRecord)
    BY <1>2, <2>1
  <2>. QED
    BY <1>2, <2>2
<1>4. /\ [left EXCEPT !.cold = Unmarked] \in ShardRecord /\ [left EXCEPT !.cold = 0] \in ShardRecord
      /\ Shard(left.low, right.high, left.load + right.load) \in ShardRecord
  <2>. HIDE DEF left
  <2>1. Unmarked \in Marks /\ 0 \in Marks
    BY DEF Marks
  <2>2. [left EXCEPT !.cold = Unmarked] \in ShardRecord /\ [left EXCEPT !.cold = 0] \in ShardRecord
    BY <1>1, <2>1 DEF ShardRecord
  <2>3. left.low \in Nat /\ right.high \in Nat /\ left.load \in Nat /\ right.load \in Nat
    BY <1>1 DEF ShardRecord
  <2>4. Shard(left.low, right.high, left.load + right.load) \in ShardRecord
    BY <2>1, <2>3 DEF ShardRecord, Shard
  <2>. QED
    BY <2>2, <2>4
<1>. HIDE DEF left, front
<1>5. MergeInto(formed, right, mean) =
        IF ~AreCold(left, right, mean) THEN Append(front \o <<[left EXCEPT !.cold = Unmarked]>>, right)
        ELSE IF left.cold = Unmarked THEN Append(front \o <<[left EXCEPT !.cold = 0]>>, right)
        ELSE IF left.cold < Dwell \/ Min({left.load, right.load}) > MoveLimit
             THEN Append(front \o <<left>>, right)
        ELSE Append(front, Shard(left.low, right.high, left.load + right.load))
  BY DEF MergeInto, left, front
<1>. QED
  BY <1>1, <1>3, <1>4, <1>5

\* f[i] is what the first and i of the rest make.
Merged(first, rest, mean) == FoldLeft(LAMBDA formed, s : MergeInto(formed, s, mean), <<first>>, rest)
Merges(f, first, rest, mean) ==
    /\ f \in [0..Len(rest) -> Seq(ShardRecord)]
    /\ f[0] = <<first>>
    /\ \A i \in 1..Len(rest) : f[i] = MergeInto(f[i - 1], rest[i], mean)
    /\ Merged(first, rest, mean) = f[Len(rest)]

\* The lists that the second loop forms, one shard after another, are lists.
LEMMA MergesGoRight ==
    ASSUME NEW first \in ShardRecord, NEW rest \in Seq(ShardRecord), NEW mean
    PROVE  \E f : Merges(f, first, rest, mean)
<1>. DEFINE n == Len(rest)
            T == {all \in Seq(ShardRecord) : Len(all) >= 1}
            step == [p \in (1..n) \X T |-> MergeInto(p[2], rest[p[1]], mean)]
            Right(h) == h = [s \in SUBSET (1..n) |->
                               IF s = {} THEN <<first>>
                               ELSE MergeInto(h[s \ {Max(s)}], rest[Max(s)], mean)]
            iter == CHOOSE h : Right(h)
<1>1. n \in Nat /\ DOMAIN rest = 1..n /\ \A i \in 1..n : rest[i] \in ShardRecord
  OBVIOUS
<1>2. \A i \in 1..n : \A v \in T : step[<<i, v>>] \in T
  <2>1. ASSUME NEW i \in 1..n, NEW v \in T PROVE MergeInto(v, rest[i], mean) \in T
    BY <1>1, MergesAreLists
  <2>2. ASSUME NEW i \in 1..n, NEW v \in T PROVE step[<<i, v>>] = MergeInto(v, rest[i], mean)
    <3>. HIDE DEF T, n
    <3>. QED
      OBVIOUS
  <2>. QED
    BY <2>1, <2>2
<1>3. <<first>> \in T
  OBVIOUS
<1>4. PICK g : IsLeftFold(n, T, <<first>>, step, g)
  <2>. HIDE DEF step, T, n
  <2>. QED
    BY ONLY <1>1, <1>2, <1>3, LeftFoldExists
<1>5. ASSUME NEW s \in SUBSET (1..n), s # {}
      PROVE  g[s] = MergeInto(g[s \ {Max(s)}], rest[Max(s)], mean)
  <2>. HIDE DEF T, n
  <2>1. Max(s) \in 1..n /\ s \ {Max(s)} \in SUBSET (1..n)
    BY <1>4, <1>5 DEF IsLeftFold
  <2>2. <<Max(s), g[s \ {Max(s)}]>> \in (1..n) \X T
    BY <1>4, <2>1 DEF IsLeftFold
  <2>3. g[s] = step[<<Max(s), g[s \ {Max(s)}]>>]
    <3>. HIDE DEF step
    <3>. QED
      BY <1>4, <1>5 DEF IsLeftFold
  <2>. QED
    BY <2>2, <2>3
<1>6. Right(g)
  <2>. HIDE DEF T, n, step
  <2>1. g = [s \in SUBSET (1..n) |-> g[s]] /\ g[{}] = <<first>>
    BY <1>4 DEF IsLeftFold
  <2>. QED
    BY <1>5, <2>1
<1>7. Right(iter)
  <2>. HIDE DEF Right
  <2>. QED
    BY <1>6
<1>8. FoldLeft(LAMBDA formed, s : MergeInto(formed, s, mean), <<first>>, rest) = iter[1..n]
  BY <1>1 DEF FoldLeft, MapThenFoldSet
<1>. DEFINE f == [i \in 0..n |-> iter[1..i]]
<1>. HIDE DEF iter, n, T, step
<1>9. iter[{}] = <<first>>
  BY <1>7
<1>10. ASSUME NEW i \in 1..n PROVE iter[1..i] = MergeInto(iter[1..(i - 1)], rest[i], mean)
  <2>1. i \in Nat /\ i # 0 /\ 1..i \in SUBSET (1..n)
    BY <1>1
  <2>2. /\ 1..i # {} /\ Max(1..i) = i
        /\ (1..i) \ {Max(1..i)} = 1..(i - 1)
    BY <2>1, LastOfPrefix
  <2>. QED
    BY <1>7, <2>1, <2>2
<1>. HIDE DEF Right
<1>11. f[0] = <<first>>
  <2>1. 0 \in 0..n /\ 1..0 = {}
    BY <1>1
  <2>. QED
    BY <1>9, <2>1
<1>12. \A i \in 1..n : f[i] = MergeInto(f[i - 1], rest[i], mean)
  <2>1. \A i \in 1..n : i \in 0..n /\ i - 1 \in 0..n
    BY <1>1
  <2>. QED
    BY <1>10, <2>1
<1>13. \A i \in 0..n : f[i] \in T
  <2>. DEFINE G == {i \in 0..n : f[i] \in T}
  <2>1. 0 \in G
    <3>. HIDE DEF f
    <3>. QED
      BY <1>1, <1>3, <1>11
  <2>2. ASSUME NEW i \in 1..n, i - 1 \in G PROVE i \in G
    <3>. HIDE DEF f
    <3>1. f[i - 1] \in T /\ rest[i] \in ShardRecord /\ i \in 0..n
      BY <1>1, <2>2
    <3>2. MergeInto(f[i - 1], rest[i], mean) \in T
      BY <3>1, MergesAreLists DEF T
    <3>. QED
      BY <1>12, <3>1, <3>2
  <2>. HIDE DEF G, f
  <2>3. 0..n \subseteq G
    BY <1>1, <2>1, <2>2, UpTo
  <2>. QED
    BY <2>3 DEF G
<1>14. f \in [0..n -> Seq(ShardRecord)]
  BY <1>13 DEF T
<1>15. f[n] = iter[1..n]
  BY <1>1
<1>. HIDE DEF f
<1>. QED
  BY <1>8, <1>11, <1>12, <1>14, <1>15 DEF n, Merges, Merged
-----------------------------------------------------------------------------
(* What a list holds, given the ticks that ranges were hot and borders cold. *)

Ranges(hots) ==
    {s \in ShardRecord : /\ s.low < s.high /\ s.high <= KeySpan
                         /\ s.hot # Unmarked => hots[s.low] > s.hot}

Pairs(colds) ==
    {q \in ShardRecord \X ShardRecord :
        /\ q[1].high = q[2].low
        /\ q[1].cold # Unmarked => colds[q[1].high] >= q[1].cold
        /\ q[2].hot # Unmarked => q[1].cold = Unmarked}

\* The same, before the borders are looked at.
HotOnes(hots, mean) ==
    {s \in Ranges(hots) : s.hot # Unmarked => s.load * mean.count > 2 * mean.total}

ColdPairs(colds, mean) ==
    {q \in ShardRecord \X ShardRecord :
        /\ q[1].high = q[2].low
        /\ q[1].cold # Unmarked /\ AreCold(q[1], q[2], mean) => colds[q[1].high] >= q[1].cold}

\* What was seen of a range that is hot.
SeenHot(s, mean, hots) ==
    IsHot(s, mean) => hots[s.low] \in Nat \ {0} /\ (s.hot # Unmarked => hots[s.low] > s.hot)

\* Marked, kept or unmarked it is the same range; split it was hot for the dwell.
LEMMA SplitsSound ==
    ASSUME NEW mean, NEW hots, NEW s \in ShardRecord, s.low < s.high, s.high <= KeySpan,
           SeenHot(s, mean, hots)
    PROVE  \/ \E a \in HotOnes(hots, mean) :
                 /\ SplitUp(s, mean) = <<a>>
                 /\ a.low = s.low /\ a.high = s.high /\ a.load = s.load /\ a.cold = s.cold
           \/ \E a, b \in HotOnes(hots, mean) :
                 /\ SplitUp(s, mean) = <<a, b>>
                 /\ a.low = s.low /\ a.high = b.low /\ b.high = s.high
                 /\ a.cold = Unmarked /\ b.cold = Unmarked
                 /\ s.hot # Unmarked /\ hots[s.low] > Dwell
<1>. DEFINE middle == (s.low + s.high) \div 2
            half == s.load \div 2
<1>1. /\ s.low \in Nat /\ s.high \in Nat /\ s.load \in Nat /\ s.hot \in Marks /\ s.cold \in Marks
      /\ Unmarked \in Marks /\ 0 \in Marks
  BY DEF ShardRecord, Marks
<1>2. CASE ~IsHot(s, mean)
  <2>. DEFINE a == [s EXCEPT !.hot = Unmarked]
  <2>1. a \in ShardRecord /\ a.low = s.low /\ a.high = s.high /\ a.load = s.load /\ a.cold = s.cold
        /\ a.hot = Unmarked
    BY <1>1 DEF ShardRecord
  <2>2. SplitUp(s, mean) = <<a>>
    BY <1>2 DEF SplitUp
  <2>. HIDE DEF a
  <2>3. a \in HotOnes(hots, mean)
    BY <2>1 DEF HotOnes, Ranges
  <2>. QED
    BY <2>1, <2>2, <2>3
<1>3. CASE IsHot(s, mean) /\ s.hot = Unmarked
  <2>. DEFINE a == [s EXCEPT !.hot = 0]
  <2>1. a \in ShardRecord /\ a.low = s.low /\ a.high = s.high /\ a.load = s.load /\ a.cold = s.cold
        /\ a.hot = 0
    BY <1>1 DEF ShardRecord
  <2>2. SplitUp(s, mean) = <<a>>
    BY <1>3 DEF SplitUp
  <2>. HIDE DEF a
  <2>3. hots[s.low] > 0 /\ s.load * mean.count > 2 * mean.total
    BY <1>3 DEF SeenHot, IsHot
  <2>4. a \in HotOnes(hots, mean)
    BY <2>1, <2>3 DEF HotOnes, Ranges
  <2>. QED
    BY <2>1, <2>2, <2>4
<1>4. CASE IsHot(s, mean) /\ s.hot # Unmarked /\ (s.hot < Dwell \/ half > MoveLimit)
  <2>1. SplitUp(s, mean) = <<s>>
    BY <1>4 DEF SplitUp
  <2>2. s \in HotOnes(hots, mean)
    BY <1>4 DEF HotOnes, Ranges, SeenHot, IsHot
  <2>. QED
    BY <2>1, <2>2
<1>5. CASE IsHot(s, mean) /\ s.hot # Unmarked /\ ~(s.hot < Dwell \/ half > MoveLimit)
  <2>. DEFINE a == Shard(s.low, middle, half)
              b == Shard(middle, s.high, half)
  <2>1. SplitUp(s, mean) = <<a, b>>
    BY <1>5 DEF SplitUp
  <2>2. s.high - s.low > 1 /\ hots[s.low] > s.hot /\ hots[s.low] \in Nat
    BY <1>5 DEF IsHot, SeenHot
  <2>3. middle \in Nat /\ s.low < middle /\ middle < s.high /\ half \in Nat
    BY <1>1, <2>2
  <2>4. s.hot \in Nat /\ s.hot >= Dwell /\ Dwell \in Nat
    BY <1>1, <1>5, StreamsAssumption DEF Marks
  <2>5. hots[s.low] > Dwell
    BY <2>2, <2>4
  <2>. HIDE DEF middle, half
  <2>6. /\ a \in ShardRecord /\ a.low = s.low /\ a.high = middle /\ a.hot = Unmarked /\ a.cold = Unmarked
        /\ b \in ShardRecord /\ b.low = middle /\ b.high = s.high /\ b.hot = Unmarked /\ b.cold = Unmarked
    BY <1>1, <2>3 DEF ShardRecord, Shard
  <2>. HIDE DEF a, b
  <2>7. KeySpan \in Nat
    BY StreamsAssumption
  <2>8. a \in HotOnes(hots, mean) /\ b \in HotOnes(hots, mean)
    BY <1>1, <2>3, <2>6, <2>7 DEF HotOnes, Ranges
  <2>. QED
    BY <1>5, <2>1, <2>5, <2>6, <2>8
<1>. QED
  BY <1>2, <1>3, <1>4, <1>5

\* What one observation sees: the ranges side by side, and its heat and calm.
Seen(seen, n, mean, hots, colds) ==
    /\ seen[1].low = 0 /\ seen[n].high = KeySpan
    /\ \A i \in 1..n : /\ seen[i].low < seen[i].high /\ seen[i].high <= KeySpan
                       /\ SeenHot(seen[i], mean, hots)
    /\ \A i \in 1..(n - 1) :
          /\ seen[i].high = seen[i + 1].low
          /\ seen[i].cold # Unmarked => seen[i + 1].hot = Unmarked
          /\ seen[i].cold # Unmarked /\ AreCold(seen[i], seen[i + 1], mean)
               => colds[seen[i].high] >= seen[i].cold

\* The keys strictly inside of a range that splits.
Cuts(seen, n, hots) ==
    {k \in Nat : \E i \in 1..n : /\ seen[i].low < k /\ k < seen[i].high
                                 /\ hots[seen[i].low] > Dwell}

\* What has become of the first of them.
SplitSoFar(all, i, seen, n, mean, hots, colds) ==
    /\ Chain(all, HotOnes(hots, mean), ColdPairs(colds, mean))
    /\ all[1].low = 0
    /\ all[Len(all)].high = seen[i].high
    /\ all[Len(all)].cold # Unmarked =>
          all[Len(all)].cold = seen[i].cold /\ all[Len(all)].load = seen[i].load
    /\ \A j \in 1..i : seen[j].low \in LowsOf(all)
    /\ LowsOf(all) \subseteq {seen[j].low : j \in 1..n} \cup Cuts(seen, n, hots)

\* One range in the place of the i-th, or its two halves.
OneFor(pieces, i, a, seen) ==
    /\ pieces[i] = <<a>>
    /\ a.low = seen[i].low /\ a.high = seen[i].high
    /\ a.load = seen[i].load /\ a.cold = seen[i].cold
TwoFor(pieces, i, a, b, seen, hots) ==
    /\ pieces[i] = <<a, b>>
    /\ a.low = seen[i].low /\ a.high = b.low /\ b.high = seen[i].high
    /\ a.cold = Unmarked /\ b.cold = Unmarked
    /\ seen[i].hot # Unmarked /\ hots[seen[i].low] > Dwell

\* What is a range for the splits is a range.
LEMMA HotOnesAreRanges ==
    ASSUME NEW hots, NEW mean, NEW a \in HotOnes(hots, mean)
    PROVE  a \in ShardRecord /\ a.low < a.high /\ a.low \in Nat /\ a.high \in Nat
<1>1. a \in ShardRecord /\ a.low < a.high
  BY DEF HotOnes, Ranges
<1>. QED
  BY <1>1 DEF ShardRecord

\* Two halves of a shard meet at a cut, and neither is marked cold.
LEMMA HalvesFit ==
    ASSUME NEW n \in Nat \ {0}, NEW seen, NEW mean, NEW hots, NEW colds, NEW pieces,
           NEW i \in 1..n, NEW a \in HotOnes(hots, mean), NEW b \in HotOnes(hots, mean),
           TwoFor(pieces, i, a, b, seen, hots)
    PROVE  b.low \in Cuts(seen, n, hots) /\ <<a, b>> \in ColdPairs(colds, mean)
<1>1. a \in ShardRecord /\ b \in ShardRecord /\ a.low < a.high /\ b.low < b.high /\ b.low \in Nat
  BY HotOnesAreRanges
<1>2. a.low = seen[i].low /\ a.high = b.low /\ b.high = seen[i].high /\ a.cold = Unmarked
      /\ hots[seen[i].low] > Dwell
  BY DEF TwoFor
<1>3. seen[i].low < b.low /\ b.low < seen[i].high
  BY <1>1, <1>2
<1>4. b.low \in Cuts(seen, n, hots)
  BY <1>1, <1>2, <1>3 DEF Cuts
<1>5. <<a, b>> \in ColdPairs(colds, mean)
  BY <1>1, <1>2 DEF ColdPairs
<1>. QED
  BY <1>4, <1>5

\* The first range.
LEMMA SplitsBegin ==
    ASSUME NEW n \in Nat \ {0}, NEW seen, NEW mean, NEW hots, NEW colds,
           Seen(seen, n, mean, hots, colds), NEW pieces,
           \/ \E a \in HotOnes(hots, mean) : OneFor(pieces, 1, a, seen)
           \/ \E a, b \in HotOnes(hots, mean) : TwoFor(pieces, 1, a, b, seen, hots),
           NEW all, all = pieces[1]
    PROVE  SplitSoFar(all, 1, seen, n, mean, hots, colds)
<1>1. 1 \in 1..n /\ seen[1].low = 0 /\ \A j \in 1..1 : j = 1
  BY DEF Seen
<1>2. seen[1].low \in {seen[j].low : j \in 1..n}
  BY <1>1
<1>3. CASE \E a \in HotOnes(hots, mean) : OneFor(pieces, 1, a, seen)
  <2>1. PICK a \in HotOnes(hots, mean) : OneFor(pieces, 1, a, seen)
    BY <1>3
  <2>2. all = <<a>> /\ a.low = seen[1].low /\ a.high = seen[1].high /\ a.load = seen[1].load
        /\ a.cold = seen[1].cold
    BY <2>1 DEF OneFor
  <2>3. Len(all) = 1 /\ all[1] = a /\ DOMAIN all = {1} /\ all \in Seq(HotOnes(hots, mean))
    BY <2>2
  <2>4. Chain(all, HotOnes(hots, mean), ColdPairs(colds, mean))
    BY <2>3 DEF Chain
  <2>5. LowsOf(all) = {a.low}
    BY <2>3 DEF LowsOf
  <2>. QED
    BY <1>1, <1>2, <2>2, <2>3, <2>4, <2>5 DEF SplitSoFar
<1>4. CASE \E a, b \in HotOnes(hots, mean) : TwoFor(pieces, 1, a, b, seen, hots)
  <2>1. PICK a \in HotOnes(hots, mean), b \in HotOnes(hots, mean) : TwoFor(pieces, 1, a, b, seen, hots)
    BY <1>4
  <2>2. all = <<a, b>> /\ a.low = seen[1].low /\ b.high = seen[1].high /\ b.cold = Unmarked
    BY <2>1 DEF TwoFor
  <2>3. b.low \in Cuts(seen, n, hots) /\ <<a, b>> \in ColdPairs(colds, mean)
    BY <1>1, <2>1, HalvesFit
  <2>4. Len(all) = 2 /\ all[1] = a /\ all[2] = b /\ DOMAIN all = {1, 2}
        /\ all \in Seq(HotOnes(hots, mean))
    BY <2>2
  <2>5. Chain(all, HotOnes(hots, mean), ColdPairs(colds, mean))
    <3>1. \A i \in 1..(Len(all) - 1) : i = 1 /\ i + 1 = 2
      BY <2>4
    <3>. QED
      BY <2>3, <2>4, <3>1 DEF Chain
  <2>6. LowsOf(all) = {a.low, b.low}
    BY <2>4 DEF LowsOf
  <2>. QED
    BY <1>1, <1>2, <2>2, <2>3, <2>4, <2>5, <2>6 DEF SplitSoFar
<1>. QED
  BY <1>3, <1>4

\* Another range.
LEMMA SplitsGoOn ==
    ASSUME NEW n \in Nat \ {0}, NEW seen, NEW mean, NEW hots, NEW colds,
           Seen(seen, n, mean, hots, colds), NEW pieces, NEW i \in 2..n,
           NEW was, SplitSoFar(was, i - 1, seen, n, mean, hots, colds),
           \/ \E a \in HotOnes(hots, mean) : OneFor(pieces, i, a, seen)
           \/ \E a, b \in HotOnes(hots, mean) : TwoFor(pieces, i, a, b, seen, hots),
           NEW all, all = Joined(was, pieces[i])
    PROVE  SplitSoFar(all, i, seen, n, mean, hots, colds)
<1>1. /\ i \in 1..n /\ i - 1 \in 1..n /\ i - 1 \in 1..(n - 1) /\ (i - 1) + 1 = i
      /\ \A j \in 1..i : j \in 1..(i - 1) \/ j = i
  OBVIOUS
<1>2. PICK hotOnes : hotOnes = HotOnes(hots, mean)
  OBVIOUS
<1>3. PICK coldPairs : coldPairs = ColdPairs(colds, mean)
  OBVIOUS
<1>4. PICK lows : lows = {seen[j].low : j \in 1..n} \cup Cuts(seen, n, hots)
  OBVIOUS
<1>5. PICK end : end = was[Len(was)]
  OBVIOUS
<1>6. /\ Chain(was, hotOnes, coldPairs) /\ was[1].low = 0 /\ end.high = seen[i - 1].high
      /\ end.cold # Unmarked => end.cold = seen[i - 1].cold /\ end.load = seen[i - 1].load
      /\ \A j \in 1..(i - 1) : seen[j].low \in LowsOf(was)
      /\ LowsOf(was) \subseteq lows
  BY <1>2, <1>3, <1>4, <1>5 DEF SplitSoFar
<1>7. /\ seen[i - 1].high = seen[i].low
      /\ seen[i - 1].cold # Unmarked => seen[i].hot = Unmarked
      /\ seen[i - 1].cold # Unmarked /\ AreCold(seen[i - 1], seen[i], mean)
           => colds[seen[i - 1].high] >= seen[i - 1].cold
  <2>1. \A j \in 1..(n - 1) :
          /\ seen[j].high = seen[j + 1].low
          /\ seen[j].cold # Unmarked => seen[j + 1].hot = Unmarked
          /\ seen[j].cold # Unmarked /\ AreCold(seen[j], seen[j + 1], mean)
               => colds[seen[j].high] >= seen[j].cold
    BY DEF Seen
  <2>. QED
    BY <1>1, <2>1
<1>8. was \in Seq(hotOnes) /\ Len(was) \in Nat \ {0} /\ end \in hotOnes /\ end \in ShardRecord
  <2>1. was \in Seq(hotOnes) /\ Len(was) >= 1
    BY <1>6 DEF Chain
  <2>2. Len(was) \in Nat \ {0} /\ was[Len(was)] \in hotOnes
    BY <2>1
  <2>. QED
    BY <1>2, <1>5, <2>1, <2>2, HotOnesAreRanges
<1>9. seen[i].low \in lows
  BY <1>1, <1>4
<1>10. CASE \E a \in HotOnes(hots, mean) : OneFor(pieces, i, a, seen)
  <2>1. PICK a \in hotOnes : OneFor(pieces, i, a, seen)
    BY <1>2, <1>10
  <2>2. pieces[i] = <<a>> /\ a.low = seen[i].low /\ a.high = seen[i].high
        /\ a.load = seen[i].load /\ a.cold = seen[i].cold
    BY <2>1 DEF OneFor
  <2>3. all = Lengthened(was, a)
    BY <1>8, <2>2 DEF Joined, Lengthened
  <2>4. <<end, a>> \in coldPairs
    <3>1. AreCold(end, a, mean) /\ end.cold # Unmarked => AreCold(seen[i - 1], seen[i], mean)
      BY <1>6, <2>2 DEF AreCold
    <3>2. a \in ShardRecord
      BY <1>2, HotOnesAreRanges
    <3>. QED
      BY <1>3, <1>6, <1>7, <1>8, <2>2, <3>1, <3>2 DEF ColdPairs
  <2>5. /\ Chain(all, hotOnes, coldPairs) /\ all[1] = was[1] /\ all[Len(all)] = a
        /\ LowsOf(all) = LowsOf(was) \cup {a.low}
    BY <1>5, <1>6, <2>3, <2>4, ChainGrows
  <2>6. \A j \in 1..i : seen[j].low \in LowsOf(all)
    BY <1>1, <1>6, <2>2, <2>5
  <2>7. LowsOf(all) \subseteq lows
    BY <1>6, <1>9, <2>2, <2>5
  <2>. QED
    BY <1>2, <1>3, <1>4, <1>6, <2>2, <2>5, <2>6, <2>7 DEF SplitSoFar
<1>11. CASE \E a, b \in HotOnes(hots, mean) : TwoFor(pieces, i, a, b, seen, hots)
  <2>1. PICK a \in hotOnes, b \in hotOnes : TwoFor(pieces, i, a, b, seen, hots)
    BY <1>2, <1>11
  <2>2. pieces[i] = <<a, b>> /\ a.low = seen[i].low /\ b.high = seen[i].high
        /\ a.cold = Unmarked /\ b.cold = Unmarked /\ seen[i].hot # Unmarked
    BY <2>1 DEF TwoFor
  <2>3. b.low \in Cuts(seen, n, hots) /\ <<a, b>> \in coldPairs
    BY <1>1, <1>2, <1>3, <2>1, HalvesFit
  <2>4. PICK mid : mid = Lengthened(was, a)
    OBVIOUS
  <2>5. all = Lengthened(mid, b)
    BY <1>8, <2>2, <2>4 DEF Joined, Lengthened
  <2>6. <<end, a>> \in coldPairs
    <3>1. end.cold = Unmarked
      BY <1>6, <1>7, <2>2
    <3>2. a \in ShardRecord
      BY <1>2, HotOnesAreRanges
    <3>. QED
      BY <1>3, <1>6, <1>7, <1>8, <2>2, <3>1, <3>2 DEF ColdPairs
  <2>7. /\ Chain(mid, hotOnes, coldPairs) /\ mid[1] = was[1] /\ mid[Len(mid)] = a
        /\ LowsOf(mid) = LowsOf(was) \cup {a.low}
    BY <1>5, <1>6, <2>4, <2>6, ChainGrows
  <2>8. /\ Chain(all, hotOnes, coldPairs) /\ all[1] = mid[1] /\ all[Len(all)] = b
        /\ LowsOf(all) = LowsOf(mid) \cup {b.low}
    BY <2>3, <2>5, <2>7, ChainGrows
  <2>9. \A j \in 1..i : seen[j].low \in LowsOf(all)
    BY <1>1, <1>6, <2>2, <2>7, <2>8
  <2>10. LowsOf(all) \subseteq lows
    BY <1>4, <1>6, <1>9, <2>2, <2>3, <2>7, <2>8
  <2>. QED
    BY <1>2, <1>3, <1>4, <1>6, <2>2, <2>7, <2>8, <2>9, <2>10 DEF SplitSoFar
<1>. QED
  BY <1>10, <1>11

\* Pieces that split in order are, joined, split so far as to the last.
LEMMA PiecesChain ==
    ASSUME NEW n \in Nat \ {0}, NEW seen, NEW mean, NEW hots, NEW colds,
           Seen(seen, n, mean, hots, colds),
           NEW pieces \in [1..n -> Seq(HotOnes(hots, mean))],
           \A i \in 1..n : \/ \E a \in HotOnes(hots, mean) : OneFor(pieces, i, a, seen)
                           \/ \E a, b \in HotOnes(hots, mean) : TwoFor(pieces, i, a, b, seen, hots)
    PROVE  SplitSoFar(FlattenSeq(pieces), n, seen, n, mean, hots, colds)
<1>1. PICK f : Flattens(f, pieces, n, HotOnes(hots, mean))
  BY FlattenGoesRight
<1>2. SplitSoFar(f[1], 1, seen, n, mean, hots, colds)
  <2>1. 1 \in 1..n
    OBVIOUS
  <2>. QED
    BY <1>1, <2>1, SplitsBegin DEF Flattens
<1>3. ASSUME NEW i \in 2..n, SplitSoFar(f[i - 1], i - 1, seen, n, mean, hots, colds)
      PROVE  SplitSoFar(f[i], i, seen, n, mean, hots, colds)
  <2>1. i \in 1..n /\ f[i] = Joined(f[i - 1], pieces[i])
    BY <1>1 DEF Flattens
  <2>. QED
    BY <1>3, <2>1, SplitsGoOn
<1>. DEFINE G == {i \in 0..n : i = 0 \/ SplitSoFar(f[i], i, seen, n, mean, hots, colds)}
<1>4. 0 \in G
  OBVIOUS
<1>5. ASSUME NEW i \in 1..n, i - 1 \in G PROVE i \in G
  <2>1. i \in 0..n
    OBVIOUS
  <2>2. CASE i = 1
    BY <1>2, <2>1, <2>2
  <2>3. CASE i # 1
    <3>1. i \in 2..n /\ SplitSoFar(f[i - 1], i - 1, seen, n, mean, hots, colds)
      BY <1>5, <2>3
    <3>2. SplitSoFar(f[i], i, seen, n, mean, hots, colds)
      BY <1>3, <3>1
    <3>. QED
      BY <2>1, <3>2
  <2>. QED
    BY <2>2, <2>3
<1>6. n \in 0..n /\ n # 0 /\ n \in Nat
  OBVIOUS
<1>7. 0..n \subseteq G
  <2>. HIDE DEF G
  <2>. QED
    BY <1>4, <1>5, <1>6, UpTo
<1>. QED
  BY <1>1, <1>6, <1>7 DEF Flattens

\* The first loop, run to its end, leaves a chain.
LEMMA SplitsChain ==
    ASSUME NEW n \in Nat \ {0}, NEW seen \in [1..n -> ShardRecord], NEW mean, NEW hots, NEW colds,
           Seen(seen, n, mean, hots, colds)
    PROVE  SplitSoFar(FlattenSeq([i \in 1..n |-> SplitUp(seen[i], mean)]), n,
                      seen, n, mean, hots, colds)
<1>1. PICK pieces : pieces = [i \in 1..n |-> SplitUp(seen[i], mean)]
  OBVIOUS
<1>2. ASSUME NEW i \in 1..n
      PROVE  \/ \E a \in HotOnes(hots, mean) : OneFor(pieces, i, a, seen)
             \/ \E a, b \in HotOnes(hots, mean) : TwoFor(pieces, i, a, b, seen, hots)
  <2>1. /\ seen[i] \in ShardRecord /\ seen[i].low < seen[i].high /\ seen[i].high <= KeySpan
        /\ SeenHot(seen[i], mean, hots)
    BY DEF Seen
  <2>2. pieces[i] = SplitUp(seen[i], mean)
    BY <1>1
  <2>. QED
    BY <2>1, <2>2, SplitsSound DEF OneFor, TwoFor
<1>3. ASSUME NEW i \in 1..n PROVE pieces[i] \in Seq(HotOnes(hots, mean))
  <2>1. \/ \E a \in HotOnes(hots, mean) : pieces[i] = <<a>>
        \/ \E a, b \in HotOnes(hots, mean) : pieces[i] = <<a, b>>
    BY <1>2 DEF OneFor, TwoFor
  <2>2. ASSUME NEW a \in HotOnes(hots, mean), pieces[i] = <<a>> PROVE pieces[i] \in Seq(HotOnes(hots, mean))
    BY <2>2
  <2>3. ASSUME NEW a \in HotOnes(hots, mean), NEW b \in HotOnes(hots, mean), pieces[i] = <<a, b>>
        PROVE  pieces[i] \in Seq(HotOnes(hots, mean))
    BY <2>3
  <2>. QED
    BY <2>1, <2>2, <2>3
<1>4. pieces \in [1..n -> Seq(HotOnes(hots, mean))]
  BY <1>1, <1>3
<1>5. SplitSoFar(FlattenSeq(pieces), n, seen, n, mean, hots, colds)
  BY <1>2, <1>4, PiecesChain
<1>. QED
  BY <1>1, <1>5

-----------------------------------------------------------------------------
(* The borders.                                                            *)

Numbered(colds) == \A k \in 1..(KeySpan - 1) : colds[k] \in Nat

\* Two neighbours of which the right one is hot are not cold together.
LEMMA BothAreCounted ==
    ASSUME NEW mean, mean.count \in Nat, mean.total \in Nat, NEW l \in ShardRecord, NEW r \in ShardRecord,
           r.load * mean.count > 2 * mean.total
    PROVE  ~AreCold(l, r, mean)
<1>1. l.load \in Nat /\ r.load \in Nat
  BY DEF ShardRecord
<1>2. PICK x \in Nat : x = l.load * mean.count
  BY <1>1
<1>3. PICK y \in Nat : y = r.load * mean.count
  BY <1>1
<1>4. 2 * (l.load + r.load) * mean.count = 2 * x + 2 * y
  BY <1>1, <1>2, <1>3
<1>5. y > 2 * mean.total
  BY <1>3
<1>6. ~(2 * x + 2 * y < mean.total)
  BY <1>5
<1>. QED
  BY <1>4, <1>6 DEF AreCold

\* The last of a list anew, and one more.
Kept(formed, x, right) == Append(Front(formed) \o <<x>>, right)

\* The two there are, the one that stood at the left, and what may come of them.
Meet(formed, was, left, right, mean, hots, colds) ==
    /\ mean.count \in Nat /\ mean.total \in Nat /\ Numbered(colds)
    /\ was \in Ranges(hots) /\ right \in HotOnes(hots, mean)
    /\ <<was, right>> \in ColdPairs(colds, mean)
    /\ left \in Ranges(hots) /\ left.high = was.high /\ (left = was \/ left.cold = Unmarked)
    /\ left = Last(formed)

StayTwo(all, formed, left, right, hots, colds) ==
    \E x \in Ranges(hots) :
        /\ all = Kept(formed, x, right)
        /\ x.low = left.low /\ x.hot = left.hot
        /\ <<x, right>> \in Pairs(colds)

BecomeOne(all, formed, left, right, hots, colds) ==
    \E x \in Ranges(hots) :
        /\ all = Lengthened(Front(formed), x)
        /\ x.low = left.low /\ x.high = right.high /\ x.hot = Unmarked /\ x.cold = Unmarked
        /\ colds[right.low] >= Dwell

\* Marked, kept or unmarked, the left one stands beside the right one; or they are one.
LEMMA MergeSound ==
    ASSUME NEW mean, NEW hots, NEW colds, NEW was, NEW right, NEW left, NEW formed,
           Meet(formed, was, left, right, mean, hots, colds),
           NEW all, all = MergeInto(formed, right, mean)
    PROVE  \/ StayTwo(all, formed, left, right, hots, colds)
           \/ BecomeOne(all, formed, left, right, hots, colds)
<1>. /\ mean.count \in Nat /\ mean.total \in Nat /\ Numbered(colds)
     /\ was \in Ranges(hots) /\ right \in HotOnes(hots, mean)
     /\ <<was, right>> \in ColdPairs(colds, mean)
     /\ left \in Ranges(hots) /\ left.high = was.high /\ (left = was \/ left.cold = Unmarked)
     /\ left = Last(formed)
  BY DEF Meet
<1>1. /\ left \in ShardRecord /\ left.low < left.high /\ left.high <= KeySpan
      /\ right \in ShardRecord /\ right.low < right.high /\ right.high <= KeySpan
      /\ right \in Ranges(hots)
      /\ right.hot # Unmarked => right.load * mean.count > 2 * mean.total
  BY DEF HotOnes, Ranges
<1>2. /\ left.low \in Nat /\ left.high \in Nat /\ left.load \in Nat /\ left.hot \in Marks /\ left.cold \in Marks
      /\ right.low \in Nat /\ right.high \in Nat /\ right.load \in Nat
      /\ Unmarked \in Marks /\ 0 \in Marks /\ KeySpan \in Nat /\ Dwell \in Nat
  BY <1>1, StreamsAssumption DEF ShardRecord, Marks
<1>3. left.high = right.low /\ (was.cold # Unmarked /\ AreCold(was, right, mean) => colds[was.high] >= was.cold)
  BY DEF ColdPairs
<1>4. right.low \in 1..(KeySpan - 1)
  BY <1>1, <1>2, <1>3
<1>5. colds[right.low] \in Nat
  BY <1>4 DEF Numbered
<1>6. AreCold(left, right, mean) => right.hot = Unmarked
  BY <1>1, BothAreCounted
<1>7. ASSUME NEW m \in Marks, NEW x, x = [left EXCEPT !.cold = m],
             m # Unmarked => colds[right.low] >= m /\ right.hot = Unmarked
      PROVE  /\ x \in Ranges(hots) /\ x.low = left.low /\ x.hot = left.hot
             /\ <<x, right>> \in Pairs(colds)
  <2>1. /\ x \in ShardRecord /\ x.low = left.low /\ x.high = left.high /\ x.load = left.load
        /\ x.hot = left.hot /\ x.cold = m
    BY <1>1, <1>7 DEF ShardRecord
  <2>2. x \in Ranges(hots)
    BY <1>1, <2>1 DEF Ranges
  <2>3. <<x, right>> \in Pairs(colds)
    BY <1>1, <1>3, <1>7, <2>1 DEF Pairs
  <2>. QED
    BY <2>1, <2>2, <2>3
<1>8. CASE ~AreCold(left, right, mean)
  <2>1. PICK x : x = [left EXCEPT !.cold = Unmarked]
    OBVIOUS
  <2>2. MergeInto(formed, right, mean) = Kept(formed, x, right)
    BY <1>8, <2>1 DEF MergeInto, Kept, Lengthened
  <2>. QED
    BY <1>2, <1>7, <2>1, <2>2 DEF StayTwo
<1>9. CASE AreCold(left, right, mean) /\ left.cold = Unmarked
  <2>1. PICK x : x = [left EXCEPT !.cold = 0]
    OBVIOUS
  <2>2. MergeInto(formed, right, mean) = Kept(formed, x, right)
    BY <1>9, <2>1 DEF MergeInto, Kept, Lengthened
  <2>3. colds[right.low] >= 0
    BY <1>5
  <2>. QED
    BY <1>2, <1>6, <1>7, <1>9, <2>1, <2>2, <2>3 DEF StayTwo
<1>10. CASE AreCold(left, right, mean) /\ left.cold # Unmarked
  <2>1. left = was /\ colds[right.low] >= left.cold
    BY <1>3, <1>10
  <2>2. CASE left.cold < Dwell \/ Min({left.load, right.load}) > MoveLimit
    <3>1. MergeInto(formed, right, mean) = Kept(formed, left, right)
      BY <1>10, <2>2 DEF MergeInto, Kept, Lengthened
    <3>2. <<left, right>> \in Pairs(colds)
      BY <1>1, <1>3, <1>6, <1>10, <2>1 DEF Pairs
    <3>. QED
      BY <3>1, <3>2 DEF StayTwo
  <2>3. CASE ~(left.cold < Dwell \/ Min({left.load, right.load}) > MoveLimit)
    <3>1. PICK x : x = Shard(left.low, right.high, left.load + right.load)
      OBVIOUS
    <3>2. MergeInto(formed, right, mean) = Lengthened(Front(formed), x)
      BY <1>10, <2>3, <3>1 DEF MergeInto, Kept, Lengthened
    <3>3. /\ x \in ShardRecord /\ x.low = left.low /\ x.high = right.high
          /\ x.hot = Unmarked /\ x.cold = Unmarked
      BY <1>2, <3>1 DEF Shard, ShardRecord
    <3>4. x.low < x.high /\ x.high <= KeySpan
      BY <1>1, <1>2, <1>3, <3>3
    <3>5. x \in Ranges(hots)
      BY <3>3, <3>4 DEF Ranges
    <3>6. left.cold \in Nat
      BY <1>2, <1>10 DEF Marks
    <3>7. colds[right.low] >= Dwell
      BY <1>2, <1>5, <2>1, <2>3, <3>6
    <3>. QED
      BY <3>2, <3>3, <3>5, <3>7 DEF BecomeOne
  <2>. QED
    BY <2>2, <2>3
<1>. QED
  BY <1>8, <1>9, <1>10

\* What has become of the first of the list that the splits left.
MergedSoFar(formed, i, split, hots, colds) ==
    /\ Chain(formed, Ranges(hots), Pairs(colds))
    /\ formed[1].low = 0
    /\ formed[Len(formed)].high = split[i].high
    /\ formed[Len(formed)] = split[i] \/ formed[Len(formed)].cold = Unmarked
    /\ LowsOf(formed) \subseteq LowsOf(split)
    /\ \A m \in 1..i : split[m].low \in LowsOf(formed) \/ colds[split[m].low] >= Dwell

\* One more shard goes on with what is merged so far.
LEMMA MergesGoOn ==
    ASSUME NEW mean, mean.count \in Nat, mean.total \in Nat, NEW hots, NEW colds, Numbered(colds),
           NEW split, Chain(split, HotOnes(hots, mean), ColdPairs(colds, mean)),
           NEW i \in 1..(Len(split) - 1), NEW formed, MergedSoFar(formed, i, split, hots, colds),
           NEW more, more = MergeInto(formed, split[i + 1], mean)
    PROVE  MergedSoFar(more, i + 1, split, hots, colds)
<1>1. split \in Seq(HotOnes(hots, mean)) /\ Len(split) \in Nat
  BY DEF Chain
<1>2. i \in 1..Len(split) /\ i + 1 \in 1..Len(split) /\ \A m \in 1..(i + 1) : m \in 1..i \/ m = i + 1
  BY <1>1
<1>3. PICK was : was = split[i]
  OBVIOUS
<1>4. PICK right : right = split[i + 1]
  OBVIOUS
<1>5. was \in HotOnes(hots, mean) /\ right \in HotOnes(hots, mean)
  BY <1>1, <1>2, <1>3, <1>4
<1>6. was \in Ranges(hots) /\ right \in Ranges(hots)
  BY <1>5 DEF HotOnes
<1>7. <<was, right>> \in ColdPairs(colds, mean)
  BY <1>3, <1>4 DEF Chain
<1>8. PICK left : left = formed[Len(formed)]
  OBVIOUS
<1>9. PICK ranges : ranges = Ranges(hots)
  OBVIOUS
<1>10. PICK pairs : pairs = Pairs(colds)
  OBVIOUS
<1>11. /\ Chain(formed, ranges, pairs) /\ formed[1].low = 0 /\ left.high = was.high
       /\ left = was \/ left.cold = Unmarked
       /\ LowsOf(formed) \subseteq LowsOf(split)
       /\ \A m \in 1..i : split[m].low \in LowsOf(formed) \/ colds[split[m].low] >= Dwell
  BY <1>3, <1>8, <1>9, <1>10 DEF MergedSoFar
<1>12. formed \in Seq(ranges) /\ Len(formed) \in Nat \ {0} /\ left \in ranges /\ left = Last(formed)
  <2>1. formed \in Seq(ranges) /\ Len(formed) >= 1
    BY <1>11 DEF Chain
  <2>. QED
    BY <1>8, <2>1 DEF Last
<1>13. right.low \in LowsOf(split)
  <2>1. DOMAIN split = 1..Len(split)
    BY <1>1
  <2>. QED
    BY <1>2, <1>4, <2>1 DEF LowsOf
<1>14. \/ \E x \in ranges :
             /\ more = Kept(formed, x, right)
             /\ x.low = left.low /\ x.hot = left.hot
             /\ <<x, right>> \in pairs
       \/ \E x \in ranges :
             /\ more = Lengthened(Front(formed), x)
             /\ x.low = left.low /\ x.high = right.high /\ x.hot = Unmarked /\ x.cold = Unmarked
             /\ colds[right.low] >= Dwell
  <2>1. left \in Ranges(hots) /\ more = MergeInto(formed, right, mean)
    BY <1>4, <1>9, <1>12
  <2>2. Meet(formed, was, left, right, mean, hots, colds)
    BY <1>5, <1>6, <1>7, <1>11, <1>12, <2>1 DEF Meet
  <2>3. \/ StayTwo(more, formed, left, right, hots, colds)
        \/ BecomeOne(more, formed, left, right, hots, colds)
    BY <2>1, <2>2, MergeSound
  <2>. QED
    BY <1>9, <1>10, <2>3 DEF StayTwo, BecomeOne
<1>15. ASSUME NEW x, x.low = left.low, x.hot = left.hot \/ x.hot = Unmarked, x \in ranges
       PROVE  \A y \in ranges : <<y, left>> \in pairs => <<y, x>> \in pairs
  BY <1>9, <1>10, <1>12, <1>15 DEF Pairs, Ranges
<1>16. CASE \E x \in ranges :
             /\ more = Kept(formed, x, right)
             /\ x.low = left.low /\ x.hot = left.hot
             /\ <<x, right>> \in pairs
  <2>1. PICK x \in ranges :
             /\ more = Kept(formed, x, right)
             /\ x.low = left.low /\ x.hot = left.hot
             /\ <<x, right>> \in pairs
    BY <1>16
  <2>2. PICK other : other = Lengthened(Front(formed), x)
    OBVIOUS
  <2>3. more = Lengthened(other, right)
    <3>1. Front(formed) \in Seq(ranges)
      BY <1>12 DEF Front
    <3>2. ASSUME NEW front \in Seq(ranges) PROVE front \o <<x>> = Append(front, x)
      BY <2>1, <3>2
    <3>. QED
      BY <2>1, <2>2, <3>1, <3>2 DEF Lengthened, Kept
  <2>4. /\ Chain(other, ranges, pairs) /\ Len(other) = Len(formed)
        /\ other[1].low = formed[1].low /\ other[Len(other)] = x
        /\ LowsOf(other) = LowsOf(formed)
    BY <1>8, <1>11, <1>15, <2>1, <2>2, ChainEnds
  <2>5. /\ Chain(more, ranges, pairs) /\ more[1] = other[1] /\ more[Len(more)] = right
        /\ LowsOf(more) = LowsOf(other) \cup {right.low}
    <3>1. <<other[Len(other)], right>> \in pairs /\ right \in ranges
      BY <1>6, <1>9, <2>1, <2>4
    <3>. QED
      BY <2>3, <2>4, <3>1, ChainGrows
  <2>6. LowsOf(more) \subseteq LowsOf(split)
    BY <1>11, <1>13, <2>4, <2>5
  <2>7. \A m \in 1..(i + 1) : split[m].low \in LowsOf(more) \/ colds[split[m].low] >= Dwell
    BY <1>2, <1>4, <1>11, <2>4, <2>5
  <2>. QED
    BY <1>4, <1>9, <1>10, <1>11, <2>4, <2>5, <2>6, <2>7 DEF MergedSoFar
<1>17. CASE \E x \in ranges :
             /\ more = Lengthened(Front(formed), x)
             /\ x.low = left.low /\ x.high = right.high /\ x.hot = Unmarked /\ x.cold = Unmarked
             /\ colds[right.low] >= Dwell
  <2>1. PICK x \in ranges :
             /\ more = Lengthened(Front(formed), x)
             /\ x.low = left.low /\ x.high = right.high /\ x.hot = Unmarked /\ x.cold = Unmarked
             /\ colds[right.low] >= Dwell
    BY <1>17
  <2>2. /\ Chain(more, ranges, pairs)
        /\ more[1].low = formed[1].low /\ more[Len(more)] = x
        /\ LowsOf(more) = LowsOf(formed)
    BY <1>8, <1>11, <1>15, <2>1, ChainEnds
  <2>3. \A m \in 1..(i + 1) : split[m].low \in LowsOf(more) \/ colds[split[m].low] >= Dwell
    BY <1>2, <1>4, <1>11, <2>1, <2>2
  <2>. QED
    BY <1>4, <1>9, <1>10, <1>11, <2>1, <2>2, <2>3 DEF MergedSoFar
<1>. QED
  BY <1>14, <1>16, <1>17

\* The second loop, run to its end, leaves a chain.
LEMMA MergesChain ==
    ASSUME NEW mean, mean.count \in Nat, mean.total \in Nat, NEW hots, NEW colds, Numbered(colds),
           NEW split, Chain(split, HotOnes(hots, mean), ColdPairs(colds, mean)), split[1].low = 0
    PROVE  MergedSoFar(Merged(split[1], Tail(split), mean), Len(split), split, hots, colds)
<1>1. split \in Seq(HotOnes(hots, mean)) /\ Len(split) \in Nat /\ Len(split) >= 1
      /\ DOMAIN split = 1..Len(split)
  BY DEF Chain
<1>2. \A a \in HotOnes(hots, mean) : a \in ShardRecord /\ a \in Ranges(hots)
  BY DEF HotOnes, Ranges
<1>3. split \in Seq(ShardRecord)
  BY <1>1, <1>2
<1>4. PICK first : first = split[1]
  OBVIOUS
<1>5. PICK rest : rest = Tail(split)
  OBVIOUS
<1>6. /\ first \in ShardRecord /\ first \in Ranges(hots) /\ rest \in Seq(ShardRecord)
      /\ Len(rest) = Len(split) - 1 /\ \A i \in 1..Len(rest) : rest[i] = split[i + 1]
  <2>1. first \in HotOnes(hots, mean)
    BY <1>1, <1>4
  <2>. QED
    BY <1>1, <1>2, <1>3, <1>5, <2>1
<1>7. PICK f : Merges(f, first, rest, mean)
  BY <1>6, MergesGoRight
<1>8. MergedSoFar(f[0], 1, split, hots, colds)
  <2>1. f[0] = <<first>>
    BY <1>7 DEF Merges
  <2>2. f[0] \in Seq(Ranges(hots)) /\ Len(f[0]) = 1 /\ f[0][1] = first /\ DOMAIN f[0] = {1}
    BY <1>6, <2>1
  <2>3. Chain(f[0], Ranges(hots), Pairs(colds))
    BY <2>2 DEF Chain
  <2>4. LowsOf(f[0]) = {first.low} /\ first.low \in LowsOf(split)
    BY <1>1, <1>4, <2>2 DEF LowsOf
  <2>5. \A m \in 1..1 : m = 1
    OBVIOUS
  <2>. QED
    BY <1>4, <2>2, <2>3, <2>4, <2>5 DEF MergedSoFar
<1>9. ASSUME NEW i \in 1..Len(rest), MergedSoFar(f[i - 1], i, split, hots, colds)
      PROVE  MergedSoFar(f[i], i + 1, split, hots, colds)
  <2>1. f[i] = MergeInto(f[i - 1], split[i + 1], mean)
    BY <1>6, <1>7 DEF Merges
  <2>2. i \in 1..(Len(split) - 1)
    BY <1>6
  <2>. QED
    BY <1>9, <2>1, <2>2, MergesGoOn
<1>. DEFINE G == {i \in 0..Len(rest) : MergedSoFar(f[i], i + 1, split, hots, colds)}
<1>10. Len(rest) \in Nat
  BY <1>6
<1>11. 0 \in G
  <2>1. 0 + 1 = 1 /\ 0 \in 0..Len(rest)
    BY <1>10
  <2>. QED
    BY <1>8, <2>1
<1>12. ASSUME NEW i \in 1..Len(rest), i - 1 \in G PROVE i \in G
  <2>1. (i - 1) + 1 = i /\ i \in 0..Len(rest)
    BY <1>10
  <2>. QED
    BY <1>9, <1>12, <2>1
<1>13. 0..Len(rest) \subseteq G
  <2>. HIDE DEF G
  <2>. QED
    BY <1>10, <1>11, <1>12, UpTo
<1>14. Len(rest) \in 0..Len(rest) /\ Len(rest) + 1 = Len(split)
  BY <1>1, <1>6
<1>15. MergedSoFar(f[Len(rest)], Len(split), split, hots, colds)
  BY <1>13, <1>14
<1>16. Merged(first, rest, mean) = f[Len(rest)]
  BY <1>7 DEF Merges
<1>. QED
  BY <1>4, <1>5, <1>15, <1>16

-----------------------------------------------------------------------------
(* The shards tile the keys, and their marks are no older than what was    *)
(* seen.                                                                   *)

ShardInv ==
    /\ heat \in [0..(KeySpan - 1) -> Nat] /\ calm \in [1..(KeySpan - 1) -> Nat]
    /\ Chain(shards, Ranges(heat), Pairs(calm))
    /\ shards[1].low = 0 /\ shards[Len(shards)].high = KeySpan

\* A range ends before any later one begins.
LEMMA TilesApart ==
    ASSUME NEW n \in Nat, NEW s, \A i \in 1..n : s[i].low \in Nat /\ s[i].high \in Nat /\ s[i].low < s[i].high,
           \A i \in 1..(n - 1) : s[i].high = s[i + 1].low,
           NEW i \in 1..n, NEW j \in 1..n, i < j
    PROVE  s[i].high <= s[j].low
<1>. DEFINE G == {k \in 0..n : i < k => s[i].high <= s[k].low}
<1>1. 0 \in G
  OBVIOUS
<1>2. ASSUME NEW k \in 1..n, k - 1 \in G PROVE k \in G
  <2>1. k \in 0..n
    OBVIOUS
  <2>2. CASE i >= k
    BY <2>1, <2>2
  <2>3. CASE i = k - 1
    <3>1. s[k - 1].high = s[(k - 1) + 1].low /\ (k - 1) + 1 = k
      BY <2>3
    <3>2. s[i].high \in Nat
      OBVIOUS
    <3>. QED
      BY <2>1, <2>3, <3>1, <3>2
  <2>4. CASE i < k - 1
    <3>1. k - 1 \in 1..(n - 1) /\ k - 1 \in 1..n /\ (k - 1) + 1 = k
      BY <2>4
    <3>2. s[i].high <= s[k - 1].low /\ s[k - 1].low < s[k - 1].high /\ s[k - 1].high = s[k].low
      BY <1>2, <2>4, <3>1
    <3>3. s[i].high \in Nat /\ s[k - 1].low \in Nat /\ s[k - 1].high \in Nat
      BY <3>1
    <3>4. s[i].high <= s[k].low
      BY <3>2, <3>3
    <3>. QED
      BY <2>1, <3>4
  <2>. QED
    BY <2>2, <2>3, <2>4
<1>3. 0..n \subseteq G
  <2>. HIDE DEF G
  <2>. QED
    BY <1>1, <1>2, UpTo
<1>. QED
  BY <1>3

\* A mark stays, or grows by one up to the dwell.
LEMMA MarksAge ==
    ASSUME NEW mark \in Marks
    PROVE  /\ Aged(mark) \in Marks /\ (Aged(mark) = Unmarked <=> mark = Unmarked)
           /\ mark # Unmarked => /\ mark \in Nat /\ Aged(mark) \in Nat
                                 /\ Aged(mark) <= mark + 1 /\ Aged(mark) <= Dwell
<1>1. CASE mark = Unmarked
  BY <1>1 DEF Aged
<1>2. CASE mark # Unmarked
  <2>1. mark \in Nat /\ Dwell \in Nat
    BY <1>2, StreamsAssumption DEF Marks
  <2>2. Aged(mark) = IF mark + 1 <= Dwell THEN mark + 1 ELSE Dwell
    BY <1>2, <2>1, LesserOfTwo DEF Aged
  <2>. QED
    BY <1>2, <2>1, <2>2 DEF Marks, Unmarked
<1>. QED
  BY <1>1, <1>2

\* At first the shards tile the keys, unmarked.
LEMMA ShardsStart ==
    ASSUME ShardsInit
    PROVE  ShardInv
<1>. DEFINE w == KeySpan \div StartShards
            all == [i \in 1..StartShards |-> Shard((i - 1) * w, i * w, 0)]
<1>1. shards = all
  BY DEF ShardsInit
<1>2. /\ StartShards \in Nat \ {0} /\ KeySpan \in Nat \ {0} /\ KeySpan % StartShards = 0
  BY StreamsAssumption
<1>3. w \in Nat \ {0} /\ KeySpan = StartShards * w
  <2>1. /\ KeySpan \div StartShards \in Nat
        /\ KeySpan = StartShards * (KeySpan \div StartShards) + (KeySpan % StartShards)
    <3>1. KeySpan \in Nat /\ StartShards \in Nat \ {0}
      BY <1>2
    <3>. QED
      BY ONLY <3>1, Divided, Zenon
  <2>2. w \in Nat /\ KeySpan = StartShards * w + (KeySpan % StartShards)
    BY <2>1
  <2>. HIDE DEF w
  <2>. QED
    BY <1>2, <2>2
<1>. HIDE DEF w
<1>4. ASSUME NEW i \in 1..StartShards
      PROVE  /\ (i - 1) * w \in Nat /\ i * w \in Nat /\ (i - 1) * w < i * w /\ i * w <= KeySpan
  <2>1. PICK v \in Nat : v = (i - 1) * w
    BY <1>3
  <2>2. i * w = v + w
    BY <1>3, <2>1
  <2>3. PICK u \in Nat : u = (StartShards - i) * w
    BY <1>2, <1>3
  <2>4. KeySpan = i * w + u
    BY <1>2, <1>3, <2>3
  <2>. QED
    BY <1>3, <2>1, <2>2, <2>3, <2>4
<1>5. Unmarked \in Marks
  BY DEF Marks
<1>6. heat \in [0..(KeySpan - 1) -> Nat] /\ calm \in [1..(KeySpan - 1) -> Nat]
  BY <1>2 DEF ShardsInit
<1>7. ASSUME NEW i \in 1..StartShards
      PROVE  /\ all[i].low = (i - 1) * w /\ all[i].high = i * w /\ all[i] \in ShardRecord
             /\ all[i].hot = Unmarked /\ all[i].cold = Unmarked
  BY <1>4, <1>5 DEF Shard, ShardRecord
<1>8. DOMAIN all = 1..StartShards
  OBVIOUS
<1>9. all = [i \in 1..StartShards |-> all[i]]
  OBVIOUS
<1>. HIDE DEF all
<1>10. \A i \in 1..StartShards : all[i] \in Ranges(heat)
  BY <1>4, <1>7 DEF Ranges
<1>11. all \in Seq(Ranges(heat)) /\ Len(all) = StartShards
  BY <1>2, <1>8, <1>9, <1>10
<1>12. ASSUME NEW i \in 1..(StartShards - 1) PROVE <<all[i], all[i + 1]>> \in Pairs(calm)
  <2>1. i \in 1..StartShards /\ i + 1 \in 1..StartShards /\ (i + 1) - 1 = i
    BY <1>2
  <2>2. all[i].high = all[i + 1].low
    BY <1>7, <2>1
  <2>. QED
    BY <1>7, <2>1, <2>2 DEF Pairs
<1>13. Chain(all, Ranges(heat), Pairs(calm))
  BY <1>2, <1>11, <1>12 DEF Chain
<1>14. all[1].low = 0 /\ all[StartShards].high = KeySpan
  <2>1. 1 \in 1..StartShards /\ StartShards \in 1..StartShards /\ (1 - 1) * w = 0
    BY <1>2, <1>3
  <2>. QED
    BY <1>3, <1>7, <2>1
<1>. QED
  BY <1>1, <1>6, <1>11, <1>13, <1>14 DEF ShardInv

\* What an observation sees, with its marks grown and its loads new.
SeenWith(loads) == [i \in DOMAIN shards |->
                      [shards[i] EXCEPT !.load = loads[i], !.hot = Aged(@), !.cold = Aged(@)]]

\* The parts of an observation, each with names for what it computes.
Ticked(x) == Min({x + 1, Dwell + 1})
SplitList(seen) == FlattenSeq([i \in DOMAIN seen |-> SplitUp(seen[i], MeanLoad(seen))])
ShardsAfter(seen) ==
    \E merged \in {Merged(SplitList(seen)[1], Tail(SplitList(seen)), MeanLoad(seen))} :
        shards' = [i \in DOMAIN merged |-> [merged[i] EXCEPT !.load = 0]]
HeatAfter(seen) ==
    heat' = [k \in DOMAIN heat |->
                IF \E i \in DOMAIN seen : seen[i].low = k /\ IsHot(seen[i], MeanLoad(seen))
                THEN Ticked(heat[k]) ELSE 0]
CalmAfter(seen) ==
    calm' = [k \in DOMAIN calm |->
                IF \E i \in 1..(Len(seen) - 1) :
                      seen[i].high = k /\ AreCold(seen[i], seen[i + 1], MeanLoad(seen))
                THEN Ticked(calm[k]) ELSE 0]

\* An observation changes the shards, the heat and the calm, each from what was seen.
LEMMA ObservedInParts ==
    ASSUME NEW loads, ObserveShards(loads), NEW seen, seen = SeenWith(loads)
    PROVE  ShardsAfter(seen) /\ HeatAfter(seen) /\ CalmAfter(seen)
<1>1. \E s \in {SeenWith(loads)} : ShardsAfter(s) /\ HeatAfter(s) /\ CalmAfter(s)
  BY Zenon DEF ObserveShards, SeenWith, ShardsAfter, HeatAfter, CalmAfter, Ticked, SplitList, Merged
<1>. QED
  BY <1>1

\* A count of ticks goes up by one, up to just beyond the dwell.
LEMMA Ticks ==
    ASSUME NEW x \in Nat
    PROVE  Ticked(x) \in Nat /\ Ticked(x) > 0 /\ (Ticked(x) = x + 1 \/ (Ticked(x) = Dwell + 1 /\ x >= Dwell))
<1>1. Dwell \in Nat
  BY StreamsAssumption
<1>2. Ticked(x) = IF x + 1 <= Dwell + 1 THEN x + 1 ELSE Dwell + 1
  BY <1>1, LesserOfTwo DEF Ticked
<1>. QED
  BY <1>1, <1>2

\* What is counted goes as fast as what is marked.
LEMMA CountsKeepUp ==
    ASSUME NEW c \in Nat, NEW h \in Nat, NEW m \in Nat, NEW a \in Nat, a <= m + 1, a <= Dwell,
           c = h + 1 \/ (c = Dwell + 1 /\ h >= Dwell)
    PROVE  (h >= m => c >= a) /\ (h > m => c > a)
<1>1. Dwell \in Nat
  BY StreamsAssumption
<1>. QED
  BY <1>1

\* What an observation sees is the chain it found, aged, with marks that the ticks cover.
LEMMA ShardsAreSeen ==
    ASSUME ShardInv, NEW loads \in [DOMAIN shards -> ShardLoads], ObserveShards(loads),
           NEW n, n = Len(shards), NEW seen, seen = SeenWith(loads), NEW mean, mean = MeanLoad(seen)
    PROVE  /\ n \in Nat \ {0} /\ seen \in [1..n -> ShardRecord] /\ DOMAIN shards = 1..n
           /\ mean.count \in Nat /\ mean.total \in Nat
           /\ \A i \in 1..n : shards[i] \in ShardRecord /\ seen[i].low = shards[i].low
                              /\ seen[i].high = shards[i].high
           /\ heat' \in [0..(KeySpan - 1) -> Nat] /\ calm' \in [1..(KeySpan - 1) -> Nat]
           /\ Seen(seen, n, mean, heat', calm')
<1>1. shards \in Seq(Ranges(heat)) /\ n \in Nat \ {0}
      /\ \A i \in 1..(n - 1) : <<shards[i], shards[i + 1]>> \in Pairs(calm)
  <2>1. shards \in Seq(Ranges(heat)) /\ Len(shards) >= 1
        /\ \A i \in 1..(Len(shards) - 1) : <<shards[i], shards[i + 1]>> \in Pairs(calm)
    BY DEF ShardInv, Chain
  <2>. QED
    BY <2>1
<1>2. DOMAIN shards = 1..n /\ \A i \in 1..n : shards[i] \in Ranges(heat)
  BY <1>1
<1>3. ASSUME NEW i \in 1..n
      PROVE  /\ shards[i] \in ShardRecord /\ shards[i].low < shards[i].high /\ shards[i].high <= KeySpan
             /\ shards[i].hot # Unmarked => heat[shards[i].low] > shards[i].hot
             /\ shards[i].low \in Nat /\ shards[i].high \in Nat
             /\ shards[i].hot \in Marks /\ shards[i].cold \in Marks
  <2>1. /\ shards[i] \in ShardRecord /\ shards[i].low < shards[i].high /\ shards[i].high <= KeySpan
        /\ shards[i].hot # Unmarked => heat[shards[i].low] > shards[i].hot
    BY <1>2 DEF Ranges
  <2>. QED
    BY <2>1 DEF ShardRecord
<1>4. ASSUME NEW i \in 1..n
      PROVE  /\ seen[i] \in ShardRecord /\ seen[i].load = loads[i]
             /\ seen[i].low = shards[i].low /\ seen[i].high = shards[i].high
             /\ seen[i].hot = Aged(shards[i].hot) /\ seen[i].cold = Aged(shards[i].cold)
  <2>1. loads[i] \in Nat
    BY <1>2, StreamsAssumption
  <2>2. Aged(shards[i].hot) \in Marks /\ Aged(shards[i].cold) \in Marks
    BY <1>3, MarksAge
  <2>3. seen[i] = [shards[i] EXCEPT !.load = loads[i], !.hot = Aged(@), !.cold = Aged(@)]
    BY <1>2 DEF SeenWith
  <2>. QED
    BY <1>3, <2>1, <2>2, <2>3 DEF ShardRecord
<1>5. seen \in [1..n -> ShardRecord] /\ DOMAIN seen = 1..n /\ Len(seen) = n
  <2>1. seen = [i \in 1..n |-> seen[i]]
    BY <1>2 DEF SeenWith
  <2>2. seen \in [1..n -> ShardRecord]
    BY <1>4, <2>1
  <2>. QED
    BY <1>1, <2>2
<1>6. mean.count \in Nat /\ mean.total \in Nat
  <2>1. mean.count = n
    BY <1>5 DEF MeanLoad
  <2>2. mean.total = SumFunction([i \in DOMAIN seen |-> seen[i].load])
    BY DEF MeanLoad
  <2>3. IsFiniteSet(1..n)
    BY <1>1, Numbers
  <2>4. \A i \in 1..n : seen[i].load \in Nat
    BY <1>4 DEF ShardRecord
  <2>5. PICK all : all = [i \in 1..n |-> seen[i].load]
    OBVIOUS
  <2>6. DOMAIN all = 1..n /\ \A i \in 1..n : all[i] \in Nat
    BY <2>4, <2>5
  <2>7. SumFunction(all) \in Nat
    BY <2>3, <2>6, SumIsNat
  <2>. QED
    BY <1>1, <1>5, <2>1, <2>2, <2>5, <2>7
<1>7. HeatAfter(seen) /\ CalmAfter(seen)
  BY ObservedInParts
<1>8. Dwell \in Nat /\ KeySpan \in Nat
      /\ heat \in [0..(KeySpan - 1) -> Nat] /\ calm \in [1..(KeySpan - 1) -> Nat]
  BY StreamsAssumption DEF ShardInv
<1>9. \A k \in 0..(KeySpan - 1) :
        /\ heat'[k] = Ticked(heat[k]) \/ heat'[k] = 0
        /\ (\E i \in 1..n : seen[i].low = k /\ IsHot(seen[i], mean)) => heat'[k] = Ticked(heat[k])
  BY <1>5, <1>7, <1>8 DEF HeatAfter
<1>10. heat' \in [0..(KeySpan - 1) -> Nat]
  <2>1. ASSUME NEW k \in 0..(KeySpan - 1) PROVE heat'[k] \in Nat
    <3>1. heat[k] \in Nat
      BY <1>8
    <3>2. Ticked(heat[k]) \in Nat
      BY <3>1, Ticks
    <3>. QED
      BY <1>9, <3>2
  <2>2. DOMAIN heat' = 0..(KeySpan - 1) /\ heat' = [k \in DOMAIN heat' |-> heat'[k]]
    BY <1>7, <1>8 DEF HeatAfter
  <2>. QED
    BY <2>1, <2>2
<1>11. \A k \in 1..(KeySpan - 1) :
         /\ calm'[k] = Ticked(calm[k]) \/ calm'[k] = 0
         /\ (\E i \in 1..(n - 1) : seen[i].high = k /\ AreCold(seen[i], seen[i + 1], mean))
               => calm'[k] = Ticked(calm[k])
  BY <1>5, <1>7, <1>8 DEF CalmAfter
<1>12. calm' \in [1..(KeySpan - 1) -> Nat]
  <2>1. ASSUME NEW k \in 1..(KeySpan - 1) PROVE calm'[k] \in Nat
    <3>1. calm[k] \in Nat
      BY <1>8
    <3>2. Ticked(calm[k]) \in Nat
      BY <3>1, Ticks
    <3>. QED
      BY <1>11, <3>2
  <2>2. DOMAIN calm' = 1..(KeySpan - 1) /\ calm' = [k \in DOMAIN calm' |-> calm'[k]]
    BY <1>7, <1>8 DEF CalmAfter
  <2>. QED
    BY <2>1, <2>2
<1>13. ASSUME NEW i \in 1..n PROVE SeenHot(seen[i], mean, heat')
  <2>. SUFFICES ASSUME IsHot(seen[i], mean)
                PROVE  heat'[seen[i].low] \in Nat \ {0}
                       /\ (seen[i].hot # Unmarked => heat'[seen[i].low] > seen[i].hot)
    BY DEF SeenHot
  <2>1. PICK k : k = seen[i].low
    OBVIOUS
  <2>2. k \in 0..(KeySpan - 1)
    <3>1. k \in Nat /\ k < shards[i].high /\ shards[i].high <= KeySpan /\ shards[i].high \in Nat
      BY <1>3, <1>4, <2>1
    <3>. QED
      BY <1>8, <3>1
  <2>3. heat[k] \in Nat
    BY <1>8, <2>2
  <2>4. /\ heat'[k] = Ticked(heat[k]) /\ heat'[k] \in Nat /\ heat'[k] > 0
        /\ heat'[k] = heat[k] + 1 \/ (heat'[k] = Dwell + 1 /\ heat[k] >= Dwell)
    <3>1. heat'[k] = Ticked(heat[k])
      BY <1>9, <2>1, <2>2
    <3>. QED
      BY <2>3, <3>1, Ticks
  <2>5. ASSUME seen[i].hot # Unmarked PROVE heat'[k] > seen[i].hot
    <3>1. /\ shards[i].hot \in Nat /\ seen[i].hot \in Nat /\ seen[i].hot <= shards[i].hot + 1
          /\ seen[i].hot <= Dwell /\ shards[i].hot # Unmarked
      BY <1>3, <1>4, <2>5, MarksAge
    <3>2. heat[k] > shards[i].hot
      BY <1>3, <1>4, <2>1, <3>1
    <3>. QED
      BY <2>3, <2>4, <3>1, <3>2, CountsKeepUp
  <2>. QED
    BY <2>1, <2>4, <2>5
<1>14. ASSUME NEW i \in 1..(n - 1)
       PROVE  /\ seen[i].high = seen[i + 1].low
              /\ seen[i].cold # Unmarked => seen[i + 1].hot = Unmarked
              /\ seen[i].cold # Unmarked /\ AreCold(seen[i], seen[i + 1], mean)
                   => calm'[seen[i].high] >= seen[i].cold
  <2>1. i \in 1..n /\ i + 1 \in 1..n
    BY <1>1
  <2>2. /\ shards[i].high = shards[i + 1].low
        /\ shards[i].cold # Unmarked => calm[shards[i].high] >= shards[i].cold
        /\ shards[i + 1].hot # Unmarked => shards[i].cold = Unmarked
    BY <1>1 DEF Pairs
  <2>3. seen[i].cold = Unmarked <=> shards[i].cold = Unmarked
    BY <1>3, <1>4, <2>1, MarksAge
  <2>4. seen[i + 1].hot = Unmarked <=> shards[i + 1].hot = Unmarked
    BY <1>3, <1>4, <2>1, MarksAge
  <2>5. ASSUME seen[i].cold # Unmarked, AreCold(seen[i], seen[i + 1], mean)
        PROVE  calm'[seen[i].high] >= seen[i].cold
    <3>1. PICK k : k = seen[i].high
      OBVIOUS
    <3>2. k \in 1..(KeySpan - 1)
      <4>1. k = shards[i].high /\ k = shards[i + 1].low
        BY <1>4, <2>1, <2>2, <3>1
      <4>2. shards[i].low \in Nat /\ shards[i].low < k /\ k \in Nat
        BY <1>3, <2>1, <4>1
      <4>3. k < shards[i + 1].high /\ shards[i + 1].high <= KeySpan /\ shards[i + 1].high \in Nat
        BY <1>3, <2>1, <4>1
      <4>. QED
        BY <1>8, <4>2, <4>3
    <3>3. calm[k] \in Nat
      BY <1>8, <3>2
    <3>4. /\ calm'[k] \in Nat
          /\ calm'[k] = calm[k] + 1 \/ (calm'[k] = Dwell + 1 /\ calm[k] >= Dwell)
      <4>1. calm'[k] = Ticked(calm[k])
        BY <1>11, <2>5, <3>1, <3>2
      <4>. QED
        BY <3>3, <4>1, Ticks
    <3>5. /\ shards[i].cold \in Nat /\ seen[i].cold \in Nat /\ seen[i].cold <= shards[i].cold + 1
          /\ seen[i].cold <= Dwell /\ shards[i].cold # Unmarked
      BY <1>3, <1>4, <2>1, <2>5, MarksAge
    <3>6. calm[k] >= shards[i].cold
      BY <1>4, <2>1, <2>2, <3>1, <3>5
    <3>. QED
      BY <3>1, <3>3, <3>4, <3>5, <3>6, CountsKeepUp
  <2>. QED
    BY <1>4, <2>1, <2>2, <2>3, <2>4, <2>5
<1>15. seen[1].low = 0 /\ seen[n].high = KeySpan
  <2>1. 1 \in 1..n /\ n \in 1..n
    BY <1>1
  <2>. QED
    BY <1>4, <2>1 DEF ShardInv
<1>16. Seen(seen, n, mean, heat', calm')
  BY <1>3, <1>4, <1>13, <1>14, <1>15 DEF Seen
<1>. QED
  BY <1>1, <1>2, <1>3, <1>4, <1>5, <1>6, <1>10, <1>12, <1>16

\* What the two loops leave of it.
LEMMA ShardsAreLeft ==
    ASSUME ShardInv, NEW loads \in [DOMAIN shards -> ShardLoads], ObserveShards(loads)
    PROVE  /\ ShardInv'
           /\ \E split :
                /\ LowsOf(shards') \subseteq LowsOf(split)
                /\ LowsOf(split) \subseteq LowsOf(shards) \cup Cuts(shards, Len(shards), heat')
                /\ LowsOf(shards) \subseteq LowsOf(split)
                /\ \A k \in LowsOf(split) : k \in LowsOf(shards') \/ calm'[k] >= Dwell
<1>1. PICK n : n = Len(shards)
  OBVIOUS
<1>2. PICK seen : seen = SeenWith(loads)
  OBVIOUS
<1>3. PICK mean : mean = MeanLoad(seen)
  OBVIOUS
<1>4. /\ n \in Nat \ {0} /\ seen \in [1..n -> ShardRecord] /\ DOMAIN shards = 1..n
      /\ mean.count \in Nat /\ mean.total \in Nat
      /\ \A i \in 1..n : shards[i] \in ShardRecord /\ seen[i].low = shards[i].low
                         /\ seen[i].high = shards[i].high
      /\ heat' \in [0..(KeySpan - 1) -> Nat] /\ calm' \in [1..(KeySpan - 1) -> Nat]
      /\ Seen(seen, n, mean, heat', calm')
  BY <1>1, <1>2, <1>3, ShardsAreSeen
<1>5. PICK hots : hots = heat'
  OBVIOUS
<1>6. PICK colds : colds = calm'
  OBVIOUS
<1>7. PICK split : split = FlattenSeq([i \in 1..n |-> SplitUp(seen[i], mean)])
  OBVIOUS
<1>8. SplitSoFar(split, n, seen, n, mean, hots, colds)
  BY <1>4, <1>5, <1>6, <1>7, SplitsChain
<1>9. /\ Chain(split, HotOnes(hots, mean), ColdPairs(colds, mean)) /\ split[1].low = 0
      /\ split[Len(split)].high = KeySpan
      /\ \A j \in 1..n : seen[j].low \in LowsOf(split)
      /\ LowsOf(split) \subseteq {seen[j].low : j \in 1..n} \cup Cuts(seen, n, hots)
  BY <1>4, <1>8 DEF SplitSoFar, Seen
<1>10. Numbered(colds)
  BY <1>4, <1>6 DEF Numbered
<1>11. PICK merged : merged = Merged(split[1], Tail(split), mean)
  OBVIOUS
<1>12. MergedSoFar(merged, Len(split), split, hots, colds)
  BY <1>4, <1>9, <1>10, <1>11, MergesChain
<1>13. /\ Chain(merged, Ranges(hots), Pairs(colds)) /\ merged[1].low = 0
       /\ merged[Len(merged)].high = KeySpan
       /\ LowsOf(merged) \subseteq LowsOf(split)
       /\ \A m \in 1..Len(split) : split[m].low \in LowsOf(merged) \/ colds[split[m].low] >= Dwell
  BY <1>9, <1>12 DEF MergedSoFar
<1>14. shards' = [i \in DOMAIN merged |-> [merged[i] EXCEPT !.load = 0]]
  <2>1. DOMAIN seen = 1..n /\ DOMAIN seen = DOMAIN shards
    BY <1>4
  <2>2. SplitList(seen) = split
    BY <1>3, <1>7, <2>1 DEF SplitList
  <2>3. ShardsAfter(seen)
    BY <1>2, ObservedInParts
  <2>4. \E all \in {merged} : shards' = [i \in DOMAIN all |-> [all[i] EXCEPT !.load = 0]]
    BY <1>3, <1>11, <2>2, <2>3 DEF ShardsAfter
  <2>. QED
    BY <2>4
<1>15. merged \in Seq(Ranges(hots)) /\ Len(merged) \in Nat \ {0} /\ DOMAIN merged = 1..Len(merged)
       /\ \A i \in 1..Len(merged) : merged[i] \in Ranges(hots)
  <2>1. merged \in Seq(Ranges(hots)) /\ Len(merged) >= 1
    BY <1>13 DEF Chain
  <2>. QED
    BY <2>1
<1>16. ASSUME NEW i \in 1..Len(merged)
       PROVE  /\ shards'[i] \in Ranges(hots)
              /\ shards'[i].low = merged[i].low /\ shards'[i].high = merged[i].high
              /\ shards'[i].hot = merged[i].hot /\ shards'[i].cold = merged[i].cold
  <2>1. PICK a : a = merged[i]
    OBVIOUS
  <2>2. PICK b : b = [a EXCEPT !.load = 0]
    OBVIOUS
  <2>3. shards'[i] = b
    BY <1>14, <1>15, <2>1, <2>2
  <2>4. a \in Ranges(hots) /\ a \in ShardRecord
    BY <1>15, <2>1 DEF Ranges
  <2>5. /\ b \in ShardRecord /\ b.low = a.low /\ b.high = a.high /\ b.hot = a.hot /\ b.cold = a.cold
    BY <2>2, <2>4 DEF ShardRecord
  <2>6. b \in Ranges(hots)
    BY <2>4, <2>5 DEF Ranges
  <2>. QED
    BY <2>1, <2>3, <2>5, <2>6
<1>17. DOMAIN shards' = 1..Len(merged) /\ shards' \in Seq(Ranges(hots)) /\ Len(shards') = Len(merged)
  <2>1. PICK after : after = shards'
    OBVIOUS
  <2>2. after = [i \in 1..Len(merged) |-> after[i]]
    BY <1>14, <1>15, <2>1
  <2>3. \A i \in 1..Len(merged) : after[i] \in Ranges(hots)
    BY <1>16, <2>1
  <2>4. after \in Seq(Ranges(hots)) /\ Len(after) = Len(merged) /\ DOMAIN after = 1..Len(merged)
    BY <1>15, <2>2, <2>3
  <2>. QED
    BY <2>1, <2>4
<1>18. ASSUME NEW i \in 1..(Len(merged) - 1) PROVE <<shards'[i], shards'[i + 1]>> \in Pairs(colds)
  <2>1. i \in 1..Len(merged) /\ i + 1 \in 1..Len(merged)
    BY <1>15
  <2>2. <<merged[i], merged[i + 1]>> \in Pairs(colds)
    BY <1>13 DEF Chain
  <2>3. shards'[i] \in ShardRecord /\ shards'[i + 1] \in ShardRecord
    BY <1>16, <2>1 DEF Ranges
  <2>. QED
    BY <1>16, <2>1, <2>2, <2>3 DEF Pairs
<1>19. ShardInv'
  <2>1. 1 \in 1..Len(merged) /\ Len(merged) \in 1..Len(merged)
    BY <1>15
  <2>2. shards'[1].low = 0 /\ shards'[Len(merged)].high = KeySpan
    BY <1>13, <1>16, <2>1
  <2>3. Chain(shards', Ranges(heat'), Pairs(calm'))
    BY <1>5, <1>6, <1>15, <1>17, <1>18 DEF Chain
  <2>. QED
    BY <1>4, <1>17, <2>2, <2>3 DEF ShardInv
<1>20. LowsOf(shards') = LowsOf(merged)
  BY <1>15, <1>16, <1>17 DEF LowsOf
<1>21. LowsOf(shards) = {seen[j].low : j \in 1..n} /\ Cuts(seen, n, hots) = Cuts(shards, n, heat')
  <2>1. LowsOf(shards) = {seen[j].low : j \in 1..n}
    BY <1>4 DEF LowsOf
  <2>2. Cuts(seen, n, hots) = Cuts(shards, n, heat')
    BY <1>4, <1>5 DEF Cuts
  <2>. QED
    BY <2>1, <2>2
<1>22. \A k \in LowsOf(split) : k \in LowsOf(shards') \/ calm'[k] >= Dwell
  <2>1. DOMAIN split = 1..Len(split)
    BY <1>9 DEF Chain
  <2>. QED
    BY <1>6, <1>13, <1>20, <2>1 DEF LowsOf
<1>. QED
  BY <1>1, <1>9, <1>13, <1>19, <1>20, <1>21, <1>22

\* An observation keeps the chain, and its marks covered.
LEMMA ShardsStay ==
    ASSUME ShardInv, [ShardsNext]_shardVars
    PROVE  ShardInv'
<1>1. CASE ShardsNext
  BY <1>1, ShardsAreLeft DEF ShardsNext
<1>2. CASE UNCHANGED shardVars
  BY <1>2 DEF ShardInv, shardVars
<1>. QED
  BY <1>1, <1>2

\* A step of the shards that ActsAfterDwell is about.
LEMMA ShardsActLate ==
    ASSUME ShardInv, NEW loads \in [DOMAIN shards -> ShardLoads], ObserveShards(loads)
    PROVE  /\ \A i \in DOMAIN shards :
                (\E k \in LowsOf(shards') \ {0} : shards[i].low < k /\ k < shards[i].high)
                    => heat'[shards[i].low] > Dwell
           /\ \A k \in (LowsOf(shards) \ {0}) \ (LowsOf(shards') \ {0}) : calm'[k] >= Dwell
<1>1. PICK split :
        /\ LowsOf(shards') \subseteq LowsOf(split)
        /\ LowsOf(split) \subseteq LowsOf(shards) \cup Cuts(shards, Len(shards), heat')
        /\ LowsOf(shards) \subseteq LowsOf(split)
        /\ \A k \in LowsOf(split) : k \in LowsOf(shards') \/ calm'[k] >= Dwell
  BY ShardsAreLeft
<1>2. PICK n : n = Len(shards)
  OBVIOUS
<1>3. shards \in Seq(Ranges(heat)) /\ n \in Nat \ {0} /\ DOMAIN shards = 1..n
      /\ \A i \in 1..(n - 1) : <<shards[i], shards[i + 1]>> \in Pairs(calm)
  <2>1. shards \in Seq(Ranges(heat)) /\ Len(shards) >= 1
        /\ \A i \in 1..(Len(shards) - 1) : <<shards[i], shards[i + 1]>> \in Pairs(calm)
    BY DEF ShardInv, Chain
  <2>. QED
    BY <1>2, <2>1
<1>4. ASSUME NEW i \in 1..n
      PROVE  shards[i].low \in Nat /\ shards[i].high \in Nat /\ shards[i].low < shards[i].high
  <2>1. shards[i] \in Ranges(heat)
    BY <1>3
  <2>2. shards[i] \in ShardRecord /\ shards[i].low < shards[i].high
    BY <2>1 DEF Ranges
  <2>. QED
    BY <2>2 DEF ShardRecord
<1>5. \A i \in 1..(n - 1) : shards[i].high = shards[i + 1].low
  BY <1>3 DEF Pairs
<1>6. \A i, j \in 1..n : i < j => shards[i].high <= shards[j].low
  <2>. PICK s : s = shards
    OBVIOUS
  <2>1. ASSUME NEW i \in 1..n, NEW j \in 1..n, i < j PROVE s[i].high <= s[j].low
    <3>1. /\ n \in Nat /\ \A m \in 1..n : s[m].low \in Nat /\ s[m].high \in Nat /\ s[m].low < s[m].high
          /\ \A m \in 1..(n - 1) : s[m].high = s[m + 1].low
      BY <1>3, <1>4, <1>5
    <3>. QED
      BY <2>1, <3>1, TilesApart
  <2>. QED
    BY <2>1
<1>7. ASSUME NEW i \in 1..n, NEW k \in LowsOf(shards'), shards[i].low < k, k < shards[i].high
      PROVE  heat'[shards[i].low] > Dwell
  <2>1. CASE k \in LowsOf(shards)
    <3>1. PICK j \in 1..n : k = shards[j].low
      BY <1>3, <2>1 DEF LowsOf
    <3>2. j = i \/ i < j \/ j < i
      OBVIOUS
    <3>3. ~(i < j)
      BY <1>4, <1>6, <1>7, <3>1
    <3>4. ~(j < i)
      BY <1>4, <1>6, <1>7, <3>1
    <3>5. j # i
      BY <1>4, <1>7, <3>1
    <3>. QED
      BY <3>2, <3>3, <3>4, <3>5
  <2>2. CASE k \in Cuts(shards, n, heat')
    <3>1. k \in Nat /\ \E j \in 1..n : shards[j].low < k /\ k < shards[j].high
                                       /\ heat'[shards[j].low] > Dwell
      BY <2>2 DEF Cuts
    <3>2. PICK j \in 1..n : shards[j].low < k /\ k < shards[j].high /\ heat'[shards[j].low] > Dwell
      BY <3>1
    <3>3. j = i \/ i < j \/ j < i
      OBVIOUS
    <3>4. ~(i < j)
      BY <1>4, <1>6, <1>7, <3>1, <3>2
    <3>5. ~(j < i)
      BY <1>4, <1>6, <1>7, <3>1, <3>2
    <3>. QED
      BY <3>2, <3>3, <3>4, <3>5
  <2>. QED
    BY <1>1, <1>2, <2>1, <2>2
<1>8. \A k \in (LowsOf(shards) \ {0}) \ (LowsOf(shards') \ {0}) : calm'[k] >= Dwell
  BY <1>1
<1>. QED
  BY <1>3, <1>7, <1>8

\* A range is cut after it was hot for its dwell, and a border falls after a cold one.
LEMMA ShardsActStep ==
    ASSUME ShardInv, [ShardsNext]_shardVars
    PROVE  [LET borders(all) == {all[i].low : i \in DOMAIN all} \ {0}
            IN /\ \A i \in DOMAIN shards :
                     (\E k \in borders(shards') : shards[i].low < k /\ k < shards[i].high)
                         => heat'[shards[i].low] > Dwell
               /\ \A k \in borders(shards) \ borders(shards') : calm'[k] >= Dwell]_shardVars
<1>1. CASE ShardsNext
  <2>1. PICK loads \in [DOMAIN shards -> ShardLoads] : ObserveShards(loads)
    BY <1>1 DEF ShardsNext
  <2>. QED
    BY <2>1, ShardsActLate DEF LowsOf
<1>2. CASE UNCHANGED shardVars
  BY <1>2
<1>. QED
  BY <1>1, <1>2

-----------------------------------------------------------------------------
(* The scores of one pass                                                  *)

\* A pass hosts so many of each kind on each box.
PassInv == scoring \in Scorings /\ hosted \in [BoxIds -> [Kinds -> Nat]]

\* At first nothing is hosted.
LEMMA PassStarts == ScoringInit => PassInv
BY DEF ScoringInit, PassInv

\* A product of natural numbers is one, and grows with either.
LEMMA ProductsAreNat ==
    ASSUME NEW a \in Nat, NEW b \in Nat
    PROVE  a * b \in Nat /\ (a > 0 /\ b > 0 => a * b > 0) /\ (b = 0 => a * b = 0)
OBVIOUS

\* What a box has hosted of is a number, more when more is hosted.
LEMMA UsesGrow ==
    ASSUME NEW h \in [Kinds -> Nat], NEW g \in [Kinds -> Nat], \A k \in Kinds : h[k] <= g[k]
    PROVE  /\ SumFunction([k \in Kinds |-> k.size * h[k]]) \in Nat
           /\ SumFunction([k \in Kinds |-> k.size * h[k]]) <= SumFunction([k \in Kinds |-> k.size * g[k]])
<1>. DEFINE v == [k \in Kinds |-> k.size * h[k]]
            w == [k \in Kinds |-> k.size * g[k]]
<1>1. IsFiniteSet(Kinds) /\ \A k \in Kinds : k.size \in Nat
  BY PoliciesAssumption
<1>2. ASSUME NEW k \in Kinds PROVE v[k] \in Nat /\ w[k] \in Nat /\ v[k] <= w[k]
  <2>1. k.size \in Nat /\ h[k] \in Nat /\ g[k] \in Nat /\ h[k] <= g[k]
    BY <1>1
  <2>2. v[k] = k.size * h[k] /\ w[k] = k.size * g[k]
    OBVIOUS
  <2>3. k.size * h[k] \in Nat /\ k.size * g[k] \in Nat
    BY <2>1, ProductsAreNat
  <2>4. k.size * h[k] <= k.size * g[k]
    BY <2>1, ManyTimes
  <2>. QED
    BY <2>2, <2>3, <2>4
<1>3. DOMAIN v = Kinds /\ DOMAIN w = Kinds
  OBVIOUS
<1>. HIDE DEF v, w
<1>4. SumFunction(v) = Total(v, Kinds) /\ SumFunction(w) = Total(w, Kinds)
  BY <1>3, SumIsTotal
<1>5. Total(v, Kinds) \in Nat /\ Total(v, Kinds) <= Total(w, Kinds)
  BY <1>1, <1>2, TotalIsNat, TotalOfLess
<1>. QED
  BY <1>4, <1>5 DEF v, w

\* What is used of a box is a number.
LEMMA UsesAreNat ==
    ASSUME PassInv, NEW b \in BoxIds
    PROVE  UsedOf(b) \in Nat
<1>1. hosted[b] \in [Kinds -> Nat] /\ \A k \in Kinds : hosted[b][k] <= hosted[b][k]
  BY DEF PassInv
<1>2. SumFunction([k \in Kinds |-> k.size * hosted[b][k]]) \in Nat
  BY <1>1, UsesGrow
<1>. QED
  BY <1>2 DEF UsedOf

\* What is hosted of a service is a number.
LEMMA PeersAreNat ==
    ASSUME NEW h \in [Kinds -> Nat], NEW app
    PROVE  SumFunction(Restrict(h, {k \in Kinds : k.app = app})) \in Nat
<1>. DEFINE its == {k \in Kinds : k.app = app}
            r == Restrict(h, its)
<1>1. IsFiniteSet(its)
  BY PoliciesAssumption, FS_Subset
<1>2. DOMAIN r = its /\ \A k \in its : r[k] \in Nat
  BY DEF Restrict
<1>. HIDE DEF its, r
<1>3. SumFunction(r) \in Nat
  BY <1>1, <1>2, SumIsNat
<1>. QED
  BY <1>3 DEF its, r

\* Every score is a number, and fullness none but of a box that hosts nothing.
LEMMA ScoresAreInt ==
    ASSUME PassInv, NEW k \in Kinds, NEW b \in BoxIds
    PROVE  /\ Score(k, b) \in Int
           /\ Fullness(b) \in Nat /\ (Fullness(b) > 0 <=> UsedOf(b) > 0)
<1>1. UsedOf(b) \in Nat
  BY UsesAreNat
<1>2. PeersOf(k.app, b) \in Nat
  <2>1. hosted[b] \in [Kinds -> Nat]
    BY DEF PassInv
  <2>. QED
    BY <2>1, PeersAreNat DEF PeersOf
<1>3. /\ Boxes[b].cpu \in 1..60 /\ Boxes[b].price \in 1..60 /\ WishWeight \in Nat
      /\ scoring \in {"binpack", "spread", "peer_spread", "attracted", "frugal", "value", "wishes"}
  BY PoliciesAssumption DEF Unit, BoxIds, PassInv
<1>4. /\ Unit = 60
      /\ Unit \div Boxes[b].cpu \in Nat \ {0} /\ Unit \div Boxes[b].price \in Nat
      /\ Unit \div (1 + PeersOf(k.app, b)) \in Nat
  <2>1. \A d \in 1..60 : 60 \div d \in Nat \ {0}
    OBVIOUS
  <2>2. \A d \in Nat : 60 \div (1 + d) \in Nat
    OBVIOUS
  <2>. QED
    BY <1>2, <1>3, <2>1, <2>2 DEF Unit
<1>5. Fullness(b) \in Nat /\ (Fullness(b) > 0 <=> UsedOf(b) > 0)
  BY <1>1, <1>4, ProductsAreNat DEF Fullness
<1>6. Wish(b) \in Nat /\ WishWeight * Wish(b) \in Nat
  <2>1. Wish(b) \in Nat
    BY <1>4 DEF Wish
  <2>. QED
    BY <1>3, <2>1, ProductsAreNat
<1>7. 10 * Boxes[b].cpu * (Unit \div Boxes[b].price) \in Nat
  <2>1. 10 * Boxes[b].cpu \in Nat
    BY <1>3
  <2>. QED
    BY <1>4, <2>1, ProductsAreNat
<1>8. /\ PeerSpread(k, b) \in Int /\ AttractedTo(k, b) \in Int /\ FrugalScore(b) \in Int
      /\ ValueScore(b) \in Int /\ Blended(b) \in Int /\ Unit - Fullness(b) \in Int
  <2>1. PeerSpread(k, b) \in Int /\ FrugalScore(b) \in Int
    BY <1>4 DEF PeerSpread, FrugalScore
  <2>2. AttractedTo(k, b) \in Int
    BY <1>2, <1>4 DEF AttractedTo
  <2>3. ValueScore(b) \in Int
    BY <1>5, <1>7 DEF ValueScore
  <2>4. Blended(b) \in Int
    BY <1>5, <1>6 DEF Blended
  <2>5. Unit - Fullness(b) \in Int
    BY <1>4, <1>5
  <2>. QED
    BY <2>1, <2>2, <2>3, <2>4, <2>5
<1>9. Score(k, b) \in Int
  <2>1. CASE scoring = "binpack"
    BY <1>5, <2>1 DEF Score
  <2>2. CASE scoring = "spread"
    BY <1>8, <2>2 DEF Score
  <2>3. CASE scoring = "peer_spread"
    BY <1>8, <2>3 DEF Score
  <2>4. CASE scoring = "attracted"
    BY <1>8, <2>4 DEF Score
  <2>5. CASE scoring = "frugal"
    BY <1>8, <2>5 DEF Score
  <2>6. CASE scoring = "value"
    BY <1>8, <2>6 DEF Score
  <2>7. CASE scoring = "wishes"
    BY <1>8, <2>7 DEF Score
  <2>. QED
    BY <1>3, <2>1, <2>2, <2>3, <2>4, <2>5, <2>6, <2>7
<1>. QED
  BY <1>5, <1>9

\* What is picked passes, and nothing that passes has a better score.
LEMMA PickedIsBest ==
    ASSUME PassInv, NEW k \in Kinds, Feasible(k) # {}
    PROVE  /\ Picked(k) \in Feasible(k)
           /\ \A c \in Feasible(k) : Score(k, c) <= Score(k, Picked(k))
<1>. DEFINE F == Feasible(k)
            scores == {Score(k, c) : c \in F}
            top == Max(scores)
            best == {c \in F : Score(k, c) = top}
            Wins(b) == \A c \in F : Score(k, c) < Score(k, b) \/ (Score(k, c) = Score(k, b) /\ b <= c)
<1>1. F \subseteq BoxIds /\ F \subseteq Nat /\ IsFiniteSet(F)
  <2>1. F \subseteq BoxIds
    BY DEF Feasible
  <2>2. IsFiniteSet(BoxIds) /\ BoxIds \subseteq Nat
    BY PoliciesAssumption DEF BoxIds
  <2>. HIDE DEF F
  <2>. QED
    BY <2>1, <2>2, FS_Subset
<1>2. \A c \in F : Score(k, c) \in Int
  BY <1>1, ScoresAreInt
<1>3. IsFiniteSet(scores) /\ scores \subseteq Int /\ scores # {}
  <2>. DEFINE f == [c \in F |-> Score(k, c)]
  <2>1. f \in Surjection(F, scores)
    BY DEF Surjection
  <2>2. IsFiniteSet(scores)
    <3>. HIDE DEF f, F, scores
    <3>. QED
      BY <1>1, <2>1, FS_Surjection
  <2>3. scores \subseteq Int /\ scores # {}
    BY <1>2
  <2>. QED
    BY <2>2, <2>3
<1>4. top \in scores /\ \A y \in scores : y <= top
  <2>. HIDE DEF scores
  <2>. QED
    BY <1>3, MaxIsThere
<1>5. top \in Int /\ \A c \in F : Score(k, c) <= top
  BY <1>3, <1>4
<1>6. best # {} /\ best \subseteq F
  BY <1>4
<1>7. IsFiniteSet(best) /\ best \subseteq Int
  <2>. HIDE DEF best, F
  <2>1. IsFiniteSet(best)
    BY <1>1, <1>6, FS_Subset
  <2>2. best \subseteq Int
    BY <1>1, <1>6
  <2>. QED
    BY <2>1, <2>2
<1>8. Min(best) \in best /\ \A c \in best : Min(best) <= c
  <2>. HIDE DEF best
  <2>. QED
    BY <1>6, <1>7, MinIsThere
<1>9. Min(best) \in F /\ Wins(Min(best))
  <2>. DEFINE m == Min(best)
  <2>1. m \in F /\ Score(k, m) = top /\ \A c \in F : Score(k, c) = top => m <= c
    BY <1>8
  <2>. HIDE DEF m, top, F
  <2>2. \A c \in F : Score(k, c) < Score(k, m) \/ (Score(k, c) = Score(k, m) /\ m <= c)
    BY <1>2, <1>5, <2>1
  <2>. QED
    BY <2>1, <2>2 DEF m
<1>10. Picked(k) = CHOOSE b \in F : Wins(b)
  BY DEF Picked
<1>11. Picked(k) \in F /\ Wins(Picked(k))
  <2>. HIDE DEF F, Wins
  <2>. QED
    BY <1>9, <1>10
<1>12. \A c \in F : Score(k, c) <= Score(k, Picked(k))
  <2>. HIDE DEF F
  <2>. QED
    BY <1>2, <1>11
<1>. QED
  BY <1>11, <1>12

\* One more of a kind somewhere.
OneMoreOn(p, k) ==
    /\ p \in BoxIds /\ k \in Kinds
    /\ scoring' = scoring
    /\ hosted' \in [BoxIds -> [Kinds -> Nat]]
    /\ \A b \in BoxIds : b # p => hosted'[b] = hosted[b]
    /\ \A j \in Kinds : j # k => hosted'[p][j] = hosted[p][j]
    /\ hosted'[p][k] = hosted[p][k] + 1

\* A task that is scheduled is one more on the box that is picked.
LEMMA ScheduledIsOneMore ==
    ASSUME PassInv, NEW k \in Kinds, ScheduleTask(k)
    PROVE  Picked(k) \in Feasible(k) /\ OneMoreOn(Picked(k), k)
<1>. DEFINE p == Picked(k)
<1>1. p \in Feasible(k) /\ p \in BoxIds
  <2>1. Feasible(k) # {}
    BY DEF ScheduleTask
  <2>2. p \in Feasible(k)
    BY <2>1, PickedIsBest
  <2>. QED
    BY <2>2 DEF Feasible
<1>2. hosted' = [hosted EXCEPT ![p][k] = @ + 1] /\ scoring' = scoring
  BY DEF ScheduleTask
<1>. HIDE DEF p
<1>3. hosted[p] \in [Kinds -> Nat]
  BY <1>1 DEF PassInv
<1>4. OneMoreOn(p, k)
  BY <1>1, <1>2, <1>3 DEF PassInv, OneMoreOn
<1>. QED
  BY <1>1, <1>4 DEF p

\* A task that ends leaves no box with more.
LEMMA EndedIsOneLess ==
    ASSUME PassInv, NEW k \in Kinds, NEW p \in BoxIds, TaskEnds(k, p)
    PROVE  /\ hosted' \in [BoxIds -> [Kinds -> Nat]] /\ scoring' = scoring
           /\ \A b \in BoxIds, j \in Kinds : hosted'[b][j] <= hosted[b][j]
<1>1. hosted' = [hosted EXCEPT ![p][k] = @ - 1] /\ scoring' = scoring /\ hosted[p][k] > 0
  BY DEF TaskEnds
<1>2. \A b \in BoxIds : hosted[b] \in [Kinds -> Nat] /\ \A j \in Kinds : hosted[b][j] \in Nat
  BY DEF PassInv
<1>3. /\ hosted'[p] = [hosted[p] EXCEPT ![k] = @ - 1]
      /\ \A b \in BoxIds : b # p => hosted'[b] = hosted[b]
      /\ DOMAIN hosted' = BoxIds /\ hosted' = [b \in BoxIds |-> hosted'[b]]
  BY <1>1 DEF PassInv
<1>4. hosted[p][k] - 1 \in Nat
  BY <1>1, <1>2
<1>5. hosted'[p] \in [Kinds -> Nat] /\ \A j \in Kinds : hosted'[p][j] <= hosted[p][j]
  BY <1>2, <1>3, <1>4
<1>6. \A b \in BoxIds : hosted'[b] \in [Kinds -> Nat]
  BY <1>2, <1>3, <1>5
<1>7. hosted' \in [BoxIds -> [Kinds -> Nat]]
  BY <1>3, <1>6
<1>8. ASSUME NEW b \in BoxIds, NEW j \in Kinds PROVE hosted'[b][j] <= hosted[b][j]
  <2>1. CASE b = p
    BY <1>5, <2>1
  <2>2. CASE b # p
    <3>1. hosted'[b] = hosted[b] /\ hosted[b][j] \in Nat
      BY <1>2, <1>3, <2>2
    <3>. QED
      BY <3>1
  <2>. QED
    BY <2>1, <2>2
<1>. QED
  BY <1>1, <1>7, <1>8

\* The tally of one zone is one more, if what was scheduled is of the app that spreads.
LEMMA TalliesCount ==
    ASSUME PassInv, NEW p, NEW k, OneMoreOn(p, k)
    PROVE  /\ k.app # SpreadApp => Tallies' = Tallies
           /\ k.app = SpreadApp /\ Boxes[p].zone # NoZone
                => Tallies' = [Tallies EXCEPT ![Boxes[p].zone] = @ + 1]
<1>. DEFINE its == {j \in Kinds : j.app = SpreadApp}
            share(h) == Restrict(h, its)
            Within(z) == {c \in BoxIds : Boxes[c].zone = z}
            peers == [b \in BoxIds |-> PeersOf(SpreadApp, b)]
<1>1. p \in BoxIds /\ k \in Kinds
  BY DEF OneMoreOn
<1>2. \A b \in BoxIds : hosted[b] \in [Kinds -> Nat] /\ hosted'[b] \in [Kinds -> Nat]
  BY DEF PassInv, OneMoreOn
<1>3. IsFiniteSet(its) /\ its \subseteq Kinds
  BY PoliciesAssumption, FS_Subset
<1>4. ASSUME NEW b \in BoxIds
      PROVE  /\ PeersOf(SpreadApp, b) = SumFunction(share(hosted[b]))
             /\ PeersOf(SpreadApp, b)' = SumFunction(share(hosted'[b]))
             /\ PeersOf(SpreadApp, b) \in Nat /\ PeersOf(SpreadApp, b)' \in Nat
  <2>1. /\ PeersOf(SpreadApp, b) = SumFunction(share(hosted[b]))
        /\ PeersOf(SpreadApp, b)' = SumFunction(share(hosted'[b]))
    BY DEF PeersOf
  <2>2. SumFunction(share(hosted[b])) \in Nat /\ SumFunction(share(hosted'[b])) \in Nat
    BY <1>2, PeersAreNat
  <2>. QED
    BY <2>1, <2>2
<1>5. \A b \in BoxIds : b # p => PeersOf(SpreadApp, b)' = PeersOf(SpreadApp, b)
  <2>. SUFFICES ASSUME NEW b \in BoxIds, b # p PROVE PeersOf(SpreadApp, b)' = PeersOf(SpreadApp, b)
    OBVIOUS
  <2>1. hosted'[b] = hosted[b]
    BY DEF OneMoreOn
  <2>. HIDE DEF share
  <2>. QED
    BY <1>4, <2>1
<1>6. CASE k.app # SpreadApp
  <2>1. share(hosted'[p]) = share(hosted[p])
    <3>1. \A j \in its : hosted'[p][j] = hosted[p][j]
      BY <1>6 DEF OneMoreOn
    <3>. HIDE DEF its
    <3>. QED
      BY <3>1 DEF Restrict
  <2>2. PeersOf(SpreadApp, p)' = PeersOf(SpreadApp, p)
    <3>. HIDE DEF share
    <3>. QED
      BY <1>1, <1>4, <2>1
  <2>3. \A b \in BoxIds : PeersOf(SpreadApp, b)' = PeersOf(SpreadApp, b)
    BY <1>5, <2>2
  <2>4. \A z : Tally(z)' = Tally(z)
    BY <2>3 DEF Tally
  <2>5. Tallies' = Tallies
    BY <2>4 DEF Tallies
  <2>. QED
    BY <1>6, <2>5
<1>7. CASE k.app = SpreadApp /\ Boxes[p].zone # NoZone
  <2>. DEFINE h == hosted[p]
              g == hosted'[p]
              z0 == Boxes[p].zone
  <2>1. PeersOf(SpreadApp, p)' = PeersOf(SpreadApp, p) + 1
    <3>1. k \in its
      BY <1>1, <1>7
    <3>2. share(g) \in [its -> Nat] /\ share(h) \in [its -> Nat]
      BY <1>1, <1>2, <1>3 DEF Restrict
    <3>3. share(g)[k] = share(h)[k] + 1 /\ \A j \in its : j # k => share(g)[j] = share(h)[j]
      <4>1. \A j \in its : share(g)[j] = g[j] /\ share(h)[j] = h[j]
        BY DEF Restrict
      <4>2. g[k] = h[k] + 1 /\ \A j \in Kinds : j # k => g[j] = h[j]
        BY DEF OneMoreOn
      <4>. HIDE DEF g, h, share
      <4>. QED
        BY <3>1, <4>1, <4>2
    <3>4. DOMAIN share(g) = its /\ DOMAIN share(h) = its
      BY DEF Restrict
    <3>5. Total(share(g), its) = Total(share(h), its) + 1
      <4>. HIDE DEF share, its, g, h
      <4>. QED
        BY <1>3, <3>1, <3>2, <3>3, TotalOfOneMore
    <3>6. SumFunction(share(g)) = Total(share(g), its) /\ SumFunction(share(h)) = Total(share(h), its)
      <4>. HIDE DEF share, its, g, h
      <4>. QED
        BY <3>4, SumIsTotal
    <3>. QED
      BY <1>1, <1>4, <3>5, <3>6
  <2>2. ASSUME NEW z PROVE Tally(z)' = Tally(z) + (IF z = z0 THEN 1 ELSE 0) /\ Tally(z) \in Nat
    <3>. DEFINE on == Within(z)
                v == [b \in on |-> PeersOf(SpreadApp, b)']
                w == [b \in on |-> PeersOf(SpreadApp, b)]
    <3>1. Tally(z)' = SumFunction(v) /\ Tally(z) = SumFunction(w)
      BY DEF Tally
    <3>2. IsFiniteSet(on) /\ on \subseteq BoxIds
      BY PoliciesAssumption, FS_Subset DEF BoxIds
    <3>3. v \in [on -> Nat] /\ w \in [on -> Nat]
      BY <1>4
    <3>4. \A b \in on : b # p => v[b] = w[b]
      BY <1>5
    <3>5. p \in on <=> z = z0
      BY <1>1
    <3>6. p \in on => v[p] = w[p] + 1
      BY <2>1
    <3>7. DOMAIN v = on /\ DOMAIN w = on
      OBVIOUS
    <3>. HIDE DEF on, v, w, z0
    <3>8. SumFunction(v) = Total(v, on) /\ SumFunction(w) = Total(w, on)
      BY <3>7, SumIsTotal
    <3>9. Total(w, on) \in Nat
      BY <3>2, <3>3, TotalIsNat
    <3>10. CASE z = z0
      <4>1. Total(v, on) = Total(w, on) + 1
        BY <3>2, <3>3, <3>4, <3>5, <3>6, <3>10, TotalOfOneMore
      <4>. QED
        BY <3>1, <3>8, <3>9, <3>10, <4>1
    <3>11. CASE z # z0
      <4>1. \A b \in on : w[b] \in Nat /\ v[b] = w[b]
        BY <3>3, <3>4, <3>5, <3>11
      <4>2. Total(v, on) = Total(w, on)
        BY <3>2, <4>1, TotalOfSame
      <4>. QED
        BY <3>1, <3>8, <3>9, <3>11, <4>2
    <3>. QED
      BY <3>10, <3>11
  <2>3. Tallies' = [z \in Zones |-> Tally(z)']
    BY DEF Tallies, Zones, BoxIds
  <2>4. \A z \in Zones : Tally(z)' = [Tallies EXCEPT ![z0] = @ + 1][z]
    <3>. HIDE DEF z0
    <3>. QED
      BY <2>2 DEF Tallies
  <2>5. [Tallies EXCEPT ![z0] = @ + 1] = [z \in Zones |-> [Tallies EXCEPT ![z0] = @ + 1][z]]
    BY DEF Tallies
  <2>. QED
    BY <1>7, <2>3, <2>4, <2>5
<1>. QED
  BY <1>6, <1>7

\* A pass hosts by whole tasks.
LEMMA PassStays ==
    ASSUME PassInv, [ScoringNext]_passVars
    PROVE  PassInv'
<1>1. CASE UNCHANGED passVars
  BY <1>1 DEF PassInv, passVars
<1>2. ASSUME NEW k \in Kinds, ScheduleTask(k) PROVE PassInv'
  <2>1. OneMoreOn(Picked(k), k)
    BY <1>2, ScheduledIsOneMore
  <2>. QED
    BY <2>1 DEF OneMoreOn, PassInv
<1>3. ASSUME NEW k \in Kinds, NEW b \in BoxIds, TaskEnds(k, b) PROVE PassInv'
  BY <1>3, EndedIsOneLess DEF PassInv
<1>. QED
  BY <1>1, <1>2, <1>3 DEF ScoringNext

\* Only what ends takes the skew anywhere over the cap.
LEMMA SkewStays ==
    ASSUME PassInv, [ScoringNext]_passVars
    PROVE  [hosted' # hosted /\ SkewOf(Tallies)' # SkewOf(Tallies) /\ SkewOf(Tallies)' > MaxSkew =>
              \E k \in Kinds, b \in BoxIds : TaskEnds(k, b)]_passVars
<1>1. ASSUME NEW k \in Kinds, ScheduleTask(k)
      PROVE  SkewOf(Tallies)' = SkewOf(Tallies) \/ ~(SkewOf(Tallies)' > MaxSkew)
  <2>. DEFINE p == Picked(k)
  <2>1. p \in Feasible(k) /\ OneMoreOn(p, k)
    BY <1>1, ScheduledIsOneMore
  <2>2. ~SpreadRefuses(k, p)
    BY <2>1 DEF Feasible, BoxPasses
  <2>3. SkewOf(Tallies)' = SkewOf(Tallies')
    BY DEF SkewOf
  <2>. HIDE DEF p
  <2>4. CASE k.app # SpreadApp
    <3>1. Tallies' = Tallies
      BY <2>1, <2>4, TalliesCount
    <3>. QED
      BY <2>3, <3>1
  <2>5. CASE k.app = SpreadApp
    <3>1. Boxes[p].zone # NoZone /\ ~WouldSkew(p)
      BY <2>2, <2>5 DEF SpreadRefuses
    <3>2. Tallies' = [Tallies EXCEPT ![Boxes[p].zone] = @ + 1]
      BY <2>1, <2>5, <3>1, TalliesCount
    <3>. QED
      BY <2>3, <3>1, <3>2 DEF WouldSkew
  <2>. QED
    BY <2>4, <2>5
<1>. QED
  BY <1>1 DEF ScoringNext

\* What hosts less costs no more.
LEMMA BillsFall ==
    ASSUME PassInv, NEW k \in Kinds, NEW p \in BoxIds, TaskEnds(k, p)
    PROVE  ~(Bill' > Bill)
<1>. DEFINE on == {c \in BoxIds : UsedOf(c) > 0}
            still == {c \in BoxIds : UsedOf(c)' > 0}
            w == [b \in on |-> Boxes[b].price]
            v == [b \in still |-> Boxes[b].price]
<1>1. \A b \in BoxIds : Boxes[b].price \in Nat
  BY PoliciesAssumption DEF Unit, BoxIds
<1>2. ASSUME NEW b \in BoxIds
      PROVE  UsedOf(b) \in Nat /\ UsedOf(b)' \in Nat /\ UsedOf(b)' <= UsedOf(b)
  <2>1. hosted[b] \in [Kinds -> Nat] /\ hosted'[b] \in [Kinds -> Nat]
    BY EndedIsOneLess DEF PassInv
  <2>2. \A j \in Kinds : hosted'[b][j] <= hosted[b][j]
    BY EndedIsOneLess
  <2>3. UsedOf(b)' \in Nat /\ UsedOf(b)' <= UsedOf(b)
    BY <2>1, <2>2, UsesGrow DEF UsedOf
  <2>4. UsedOf(b) \in Nat
    BY UsesAreNat
  <2>. QED
    BY <2>3, <2>4
<1>3. still \subseteq on /\ on \subseteq BoxIds
  BY <1>2
<1>4. IsFiniteSet(on) /\ IsFiniteSet(still)
  <2>1. IsFiniteSet(BoxIds)
    BY PoliciesAssumption DEF BoxIds
  <2>. HIDE DEF on, still
  <2>. QED
    BY <1>3, <2>1, FS_Subset
<1>5. Bill = SumFunction(w) /\ Bill' = SumFunction(v)
  BY DEF Bill, BoxIds
<1>6. DOMAIN w = on /\ DOMAIN v = still /\ \A b \in on : w[b] \in Nat
  BY <1>1
<1>7. \A b \in still : w[b] \in Nat /\ v[b] = w[b]
  BY <1>3, <1>6
<1>. HIDE DEF on, still, w, v
<1>8. Total(v, still) = Total(w, still)
  BY <1>4, <1>7, TotalOfSame
<1>9. Total(w, still) <= Total(w, on) /\ Total(w, still) \in Nat /\ Total(w, on) \in Nat
  BY <1>3, <1>4, <1>6, <1>7, TotalOfSubset, TotalIsNat
<1>10. SumFunction(w) = Total(w, on) /\ SumFunction(v) = Total(v, still)
  BY <1>6, SumIsTotal
<1>. QED
  BY <1>5, <1>8, <1>9, <1>10

\* A task that goes where something is on costs nothing more.
LEMMA BillsStay ==
    ASSUME PassInv, NEW p, NEW k, OneMoreOn(p, k), UsedOf(p) > 0
    PROVE  Bill' = Bill
<1>1. p \in BoxIds /\ k \in Kinds
  BY DEF OneMoreOn
<1>2. \A b \in BoxIds : b # p => UsedOf(b)' = UsedOf(b)
  BY DEF OneMoreOn, UsedOf
<1>3. UsedOf(p)' > 0
  <2>1. hosted[p] \in [Kinds -> Nat] /\ hosted'[p] \in [Kinds -> Nat]
    BY <1>1 DEF PassInv, OneMoreOn
  <2>2. \A j \in Kinds : hosted[p][j] <= hosted'[p][j]
    <3>1. \A j \in Kinds : hosted[p][j] \in Nat
      BY <2>1
    <3>. QED
      BY <3>1 DEF OneMoreOn
  <2>3. UsedOf(p) \in Nat /\ UsedOf(p) <= UsedOf(p)'
    BY <2>1, <2>2, UsesGrow DEF UsedOf
  <2>4. UsedOf(p)' \in Nat
    <3>1. \A j \in Kinds : hosted'[p][j] <= hosted'[p][j]
      BY <2>1
    <3>. QED
      BY <2>1, <3>1, UsesGrow DEF UsedOf
  <2>. QED
    BY <2>3, <2>4
<1>4. {c \in BoxIds : UsedOf(c)' > 0} = {c \in BoxIds : UsedOf(c) > 0}
  BY <1>2, <1>3
<1>5. Bill' = SumFunction([b \in {c \in BoxIds : UsedOf(c)' > 0} |-> Boxes[b].price])
  BY DEF Bill, BoxIds
<1>. QED
  BY <1>4, <1>5 DEF Bill

\* The packer turns a box on only for a task no box that is on takes.
LEMMA OpenedLast ==
    ASSUME PassInv, [ScoringNext]_passVars
    PROVE  [scoring = "binpack" /\ hosted' # hosted /\ Bill' > Bill =>
              \E k \in Kinds : ScheduleTask(k) /\ \A b \in Feasible(k) : UsedOf(b) = 0]_passVars
<1>1. ASSUME scoring = "binpack", NEW k \in Kinds, ScheduleTask(k), Bill' > Bill,
             NEW b \in Feasible(k)
      PROVE  UsedOf(b) = 0
  <2>. DEFINE p == Picked(k)
  <2>1. p \in Feasible(k) /\ OneMoreOn(p, k)
    BY <1>1, ScheduledIsOneMore
  <2>2. Score(k, b) <= Score(k, p)
    BY <1>1, PickedIsBest
  <2>3. b \in BoxIds /\ p \in BoxIds
    BY <2>1 DEF Feasible
  <2>. HIDE DEF p
  <2>4. ~(UsedOf(p) > 0)
    <3>1. SUFFICES ASSUME UsedOf(p) > 0 PROVE FALSE
      OBVIOUS
    <3>2. Bill' = Bill
      BY <2>1, <3>1, BillsStay
    <3>3. Bill \in Nat
      <4>. DEFINE on == {c \in BoxIds : UsedOf(c) > 0}
                  w == [c \in on |-> Boxes[c].price]
      <4>1. IsFiniteSet(on)
        BY PoliciesAssumption, FS_Subset DEF BoxIds
      <4>2. DOMAIN w = on /\ \A c \in on : w[c] \in Nat
        BY PoliciesAssumption DEF BoxIds, Unit
      <4>3. Bill = SumFunction(w)
        BY DEF Bill
      <4>. HIDE DEF on, w
      <4>. QED
        BY <4>1, <4>2, <4>3, SumIsNat
    <3>. QED
      BY <1>1, <3>2, <3>3
  <2>5. Score(k, b) = Fullness(b) /\ Score(k, p) = Fullness(p)
    BY <1>1 DEF Score
  <2>6. /\ Fullness(b) \in Nat /\ (Fullness(b) > 0 <=> UsedOf(b) > 0)
        /\ Fullness(p) \in Nat /\ (Fullness(p) > 0 <=> UsedOf(p) > 0)
        /\ UsedOf(b) \in Nat
    BY <2>3, ScoresAreInt, UsesAreNat
  <2>. QED
    BY <2>2, <2>4, <2>5, <2>6
<1>2. \A k \in Kinds, b \in BoxIds : TaskEnds(k, b) => ~(Bill' > Bill)
  BY BillsFall
<1>. QED
  BY <1>1, <1>2 DEF ScoringNext

-----------------------------------------------------------------------------
(* The members of a federation                                             *)

\* A member is up or not, and so much of it is used; a workload is somewhere.
MemberInv ==
    /\ members \in [DOMAIN Federation -> [up : BOOLEAN, used : Nat]]
    /\ DOMAIN sentTo = DOMAIN Workloads

\* At first no member is used and no workload is sent.
LEMMA MembersStart == FederationInit => MemberInv
BY DEF FederationInit, MemberInv

\* A workload is sent only where nodes are ready for it.
LEMMA SentWhereRoomy ==
    ASSUME MemberInv, [FederationNext]_memberVars
    PROVE  /\ MemberInv'
           /\ [sentTo' # sentTo => \A w \in DOMAIN Workloads :
                  sentTo'[w] # sentTo[w] /\ Workloads[w].cpu > 0 =>
                     /\ members[sentTo'[w]].up
                     /\ members[sentTo'[w]].used + Workloads[w].cpu <= Federation[sentTo'[w]].cpu
                     /\ Workloads[w].region \in {AnyRegion, Federation[sentTo'[w]].region}]_memberVars
<1>1. CASE UNCHANGED memberVars
  BY <1>1 DEF MemberInv, memberVars
<1>2. ASSUME NEW v \in DOMAIN Workloads, NEW excluding, PlaceExcluding(v, excluding)
      PROVE  /\ MemberInv'
             /\ \A w \in DOMAIN Workloads :
                  sentTo'[w] # sentTo[w] /\ Workloads[w].cpu > 0 =>
                     /\ members[sentTo'[w]].up
                     /\ members[sentTo'[w]].used + Workloads[w].cpu <= Federation[sentTo'[w]].cpu
                     /\ Workloads[w].region \in {AnyRegion, Federation[sentTo'[w]].region}
  <2>1. PICK m \in PassingMembers(v, excluding) :
            sentTo' = [sentTo EXCEPT ![v] = m] /\ members' = members
    BY <1>2 DEF PlaceExcluding
  <2>2. /\ m \in DOMAIN Federation
        /\ Workloads[v].region \in {AnyRegion, Federation[m].region}
        /\ Headroom(m) >= Workloads[v].cpu
    BY <2>1 DEF PassingMembers
  <2>3. Workloads[v].cpu \in Nat /\ Federation[m].cpu \in Nat
    BY <2>2, PoliciesAssumption
  <2>4. members[m].used \in Nat
    BY <2>2 DEF MemberInv
  <2>5. Workloads[v].cpu > 0 => members[m].up /\ members[m].used + Workloads[v].cpu <= Federation[m].cpu
    BY <2>2, <2>3, <2>4 DEF Headroom
  <2>6. MemberInv'
    BY <2>1 DEF MemberInv
  <2>7. sentTo'[v] = m /\ \A w \in DOMAIN Workloads : w # v => sentTo'[w] = sentTo[w]
    BY <2>1 DEF MemberInv
  <2>. QED
    BY <2>2, <2>5, <2>6, <2>7
<1>3. ASSUME NEW m \in DOMAIN Federation, MemberTurns(m) PROVE MemberInv' /\ sentTo' = sentTo
  <2>1. members' = [members EXCEPT ![m] = [members[m] EXCEPT !.up = ~@]] /\ sentTo' = sentTo
    BY <1>3 DEF MemberTurns
  <2>2. members[m] \in [up : BOOLEAN, used : Nat]
    BY DEF MemberInv
  <2>3. [members[m] EXCEPT !.up = ~@] \in [up : BOOLEAN, used : Nat]
    BY <2>2
  <2>. QED
    BY <2>1, <2>3 DEF MemberInv
<1>4. ASSUME NEW m \in DOMAIN Federation, NEW full \in 0..Federation[m].cpu, MemberFills(m, full)
      PROVE  MemberInv' /\ sentTo' = sentTo
  <2>1. members' = [members EXCEPT ![m] = [members[m] EXCEPT !.used = full]] /\ sentTo' = sentTo
    BY <1>4 DEF MemberFills
  <2>2. members[m] \in [up : BOOLEAN, used : Nat] /\ full \in Nat
    BY PoliciesAssumption DEF MemberInv
  <2>3. [members[m] EXCEPT !.used = full] \in [up : BOOLEAN, used : Nat]
    BY <2>2
  <2>. QED
    BY <2>1, <2>3 DEF MemberInv
<1>. QED
  BY <1>1, <1>2, <1>3, <1>4 DEF FederationNext, PlaceWorkload, FailOver

-----------------------------------------------------------------------------
(* All of them together.                                                   *)

\* What is known of the components that no step may hurry.
PatienceInv ==
    /\ EmptyInv /\ DialInv /\ RuleInv /\ FightInv
    /\ ShardInv /\ MarkInv /\ PinInv /\ CopyInv
    /\ AdvisoryInv /\ LogInv /\ RiskInv /\ ReleaseInv
    /\ RoleInv /\ MeshInv /\ PassInv /\ MemberInv

\* It is known at first, whatever part runs.
LEMMA PatienceStarts == Init => PatienceInv
<1>. SUFFICES ASSUME Init PROVE PatienceInv
  OBVIOUS
<1>1. /\ NodeDialInit /\ ReplicaInit /\ RulesInit /\ FightInit
      /\ ShardsInit /\ StreamInit /\ CertInit /\ ObjectInit
      /\ PatchInit /\ LogbookInit /\ RiskInit /\ PinsInit
      /\ RoleInit /\ MeshInit /\ ScoringInit /\ FederationInit
  BY DEF Init, OneOf
<1>2. EmptyInv /\ DialInv /\ RuleInv /\ FightInv
  BY <1>1, EmptyStarts, DialStarts, RulesStart, FightStarts
<1>3. ShardInv /\ MarkInv /\ PinInv /\ CopyInv
  BY <1>1, ShardsStart, MarkStarts, CertStarts, CopiesStart
<1>4. AdvisoryInv /\ LogInv /\ RiskInv /\ ReleaseInv
  BY <1>1, AdvisoriesStart, LogStarts, RiskStarts, ReleasesStart
<1>5. RoleInv /\ MeshInv /\ PassInv /\ MemberInv
  BY <1>1, RolesStart, MeshStarts, PassStarts, MembersStart
<1>. QED
  BY <1>2, <1>3, <1>4, <1>5 DEF PatienceInv

\* In a step of the whole a component takes a step of its own or rests.
LEMMA OthersRunAlone ==
    ASSUME [Next]_vars
    PROVE  /\ [NodeDialNext]_nodeDialVars /\ [ReplicaTick]_replicaVars
           /\ [RulesNext]_ruleVars /\ [FightRound]_fight /\ [TaintNext]_taintVars
           /\ [ShardsNext]_shardVars /\ [\E t \in EventTimes : AcceptEvent(t)]_streamVars
           /\ [CertNext]_certVars /\ [ObjectNext]_objectVars
           /\ [PatchNext]_patchVars /\ [LogbookNext]_logVars /\ [RiskNext]_change
           /\ [PinsNext]_pinVars /\ [RoleNext]_roleVars /\ [MeshNext]_mesh
           /\ [ScoringNext]_passVars /\ [FederationNext]_memberVars
<1>1. [NodeDialNext]_nodeDialVars
  BY ZenonT(60) DEF Next, In, Among, Still, ScaledParts, vars
<1>2. [ReplicaTick]_replicaVars
  BY ZenonT(60) DEF Next, In, Among, Still, ScaledParts, vars
<1>3. [RulesNext]_ruleVars
  BY ZenonT(60) DEF Next, In, Among, Still, ScaledParts, vars
<1>4. [FightRound]_fight
  BY ZenonT(60) DEF Next, In, Among, Still, ScaledParts, vars
<1>5. [TaintNext]_taintVars
  BY ZenonT(60) DEF Next, In, Among, Still, PackedParts, vars
<1>6. [ShardsNext]_shardVars
  BY ZenonT(60) DEF Next, In, Among, Still, SharedParts, vars
<1>7. [\E t \in EventTimes : AcceptEvent(t)]_streamVars
  BY ZenonT(60) DEF Next, In, Among, Still, SharedParts, vars
<1>8. [CertNext]_certVars
  BY ZenonT(60) DEF Next, In, Among, Still, PaperParts, vars
<1>9. [ObjectNext]_objectVars
  BY ZenonT(60) DEF Next, In, Among, Still, PaperParts, vars
<1>10. [PatchNext]_patchVars
  BY ZenonT(60) DEF Next, In, Among, Still, LedgerParts, vars
<1>11. [LogbookNext]_logVars
  BY ZenonT(60) DEF Next, In, Among, Still, LedgerParts, vars
<1>12. [RiskNext]_change
  BY ZenonT(60) DEF Next, In, Among, Still, LedgerParts, vars
<1>13. [PinsNext]_pinVars
  BY ZenonT(60) DEF Next, In, Among, Still, LedgerParts, vars
<1>14. [RoleNext]_roleVars
  BY ZenonT(60) DEF Next, In, Among, Still, PlumbingParts, vars
<1>15. [MeshNext]_mesh
  BY ZenonT(60) DEF Next, In, Among, Still, PlumbingParts, vars
<1>16. [ScoringNext]_passVars
  BY ZenonT(60) DEF Next, In, Among, Still, OrderParts, vars
<1>17. [FederationNext]_memberVars
  BY ZenonT(60) DEF Next, In, Among, Still, OrderParts, vars
<1>. QED
  BY <1>1, <1>2, <1>3, <1>4, <1>5, <1>6, <1>7, <1>8, <1>9, <1>10, <1>11, <1>12, <1>13, <1>14,
     <1>15, <1>16, <1>17

\* So every step keeps what is known.
LEMMA PatienceStep ==
    ASSUME PatienceInv, [Next]_vars
    PROVE  PatienceInv'
<1>1. /\ EmptyInv /\ DialInv /\ RuleInv /\ FightInv
      /\ ShardInv /\ MarkInv /\ PinInv /\ CopyInv
      /\ AdvisoryInv /\ LogInv /\ RiskInv /\ ReleaseInv
      /\ RoleInv /\ MeshInv /\ PassInv /\ MemberInv
  BY DEF PatienceInv
<1>2. EmptyInv'
  BY <1>1, OthersRunAlone, NodesLeaveLate
<1>3. DialInv'
  BY <1>1, OthersRunAlone, DialIsDamped
<1>4. RuleInv'
  BY <1>1, OthersRunAlone, RulesAreSlow
<1>5. FightInv'
  BY <1>1, OthersRunAlone, TruceComesToRest
<1>6. ShardInv'
  BY <1>1, OthersRunAlone, ShardsStay
<1>7. MarkInv'
  BY <1>1, OthersRunAlone, MarkGoesOn
<1>8. PinInv'
  BY <1>1, OthersRunAlone, ClientsBreakWarned
<1>9. CopyInv'
  BY <1>1, OthersRunAlone, LossesAreTold
<1>10. AdvisoryInv'
  BY <1>1, OthersRunAlone, PatchingAloneClears
<1>11. LogInv'
  BY <1>1, OthersRunAlone, ReversalsStay
<1>12. RiskInv'
  BY <1>1, OthersRunAlone, RiskRises
<1>13. ReleaseInv'
  BY <1>1, OthersRunAlone, FreshnessStays
<1>14. RoleInv'
  BY <1>1, OthersRunAlone, BindingsGrant
<1>15. MeshInv'
  BY <1>1, OthersRunAlone, PoliciesOpen
<1>16. PassInv'
  BY <1>1, OthersRunAlone, PassStays
<1>17. MemberInv'
  BY <1>1, OthersRunAlone, SentWhereRoomy
<1>. QED
  BY <1>2, <1>3, <1>4, <1>5, <1>6, <1>7, <1>8, <1>9, <1>10, <1>11, <1>12, <1>13, <1>14,
     <1>15, <1>16, <1>17 DEF PatienceInv

\* Every state is known of: the steps keep it.
LEMMA PatienceKnown == CapacitySpec => []PatienceInv
<1>1. Init => PatienceInv
  BY PatienceStarts
<1>2. PatienceInv /\ [Next]_vars => PatienceInv'
  BY PatienceStep
<1>. QED
  BY <1>1, <1>2, PTL DEF CapacitySpec

-----------------------------------------------------------------------------
(* A step that any of them takes is one that it may take.                  *)

\* A node retires idle, after its time (autoscale.py).
LEMMA OnlyIdleRetireHere == CapacitySpec => OnlyIdleRetire
<1>1. PatienceInv /\ [Next]_vars =>
    [\A n \in DOMAIN auto \ DOMAIN auto' : ~auto[n] /\ quietFor[n] >= RetireAfter]_nodeDialVars
  BY OthersRunAlone, NodesLeaveLate DEF PatienceInv
<1>. QED
  BY <1>1, PatienceKnown, PTL DEF CapacitySpec, OnlyIdleRetire

\* A dial moves by small steps, towards what is wanted (autoscale.py).
LEMMA DampedDialHere == CapacitySpec => DampedDial
<1>1. PatienceInv /\ [Next]_vars =>
    [/\ Distance(replicas', replicas) <= StepLimit
     /\ Distance(WantedFor(load), replicas') <= Distance(WantedFor(load), replicas)
     /\ replicas' \in LeastReplicas..MostReplicas]_replicaVars
  BY OthersRunAlone, DialIsDamped DEF PatienceInv
<1>. QED
  BY <1>1, PatienceKnown, PTL DEF CapacitySpec, DampedDial

\* Down only after a window that asked for less (scalerules.py).
LEMMA DownIsSlowHere == CapacitySpec => DownIsSlow
<1>1. PatienceInv /\ [Next]_vars =>
    [ruled'.after < ruled.after =>
        truthfullyLow >= Stabilization /\ ruled'.after >= LeastReplicas]_ruleVars
  BY OthersRunAlone, RulesAreSlow DEF PatienceInv
<1>. QED
  BY <1>1, PatienceKnown, PTL DEF CapacitySpec, DownIsSlow

\* A truce rests where request and replicas fit (vertical.py).
LEMMA TruceRestsHere == CapacitySpec => TruceRests
<1>1. PatienceInv /\ [Next]_vars =>
    [fight.truce /\ fight.request * 7 * fight.replicas = fight.total * 10
        => fight' = fight]_fight
  BY OthersRunAlone, TruceComesToRest DEF PatienceInv
<1>. QED
  BY <1>1, PatienceKnown, PTL DEF CapacitySpec, TruceRests

\* A guest leaves by a taint that it bore for its grace (taintevict.py).
LEMMA GraceKeptHere == CapacitySpec => GraceKept
<1>1. PatienceInv /\ [Next]_vars =>
    [\A g \in houses \ houses' : \E k \in Keys :
        /\ landed'[k] # Clean
        /\ GraceFor(g, k) # NoGrace => landed'[k] >= GraceFor(g, k)]_taintVars
  BY OthersRunAlone, GuestsHaveGrace DEF PatienceInv
<1>. QED
  BY <1>1, PatienceKnown, PTL DEF CapacitySpec, GraceKept

\* Shards split and merge after their dwell (autosplit.py).
LEMMA ActsAfterDwellHere == CapacitySpec => ActsAfterDwell
<1>1. PatienceInv /\ [Next]_vars =>
    [LET borders(all) == {all[i].low : i \in DOMAIN all} \ {0}
     IN /\ \A i \in DOMAIN shards :
              (\E k \in borders(shards') : shards[i].low < k /\ k < shards[i].high)
                  => heat'[shards[i].low] > Dwell
        /\ \A k \in borders(shards) \ borders(shards') : calm'[k] >= Dwell]_shardVars
  BY OthersRunAlone, ShardsActStep DEF PatienceInv
<1>. QED
  BY <1>1, PatienceKnown, PTL DEF CapacitySpec, ActsAfterDwell

\* A watermark never retreats (watermarks.py).
LEMMA NeverRetreatsHere == CapacitySpec => NeverRetreats
<1>1. PatienceInv /\ [Next]_vars =>
    [watermark' >= watermark]_streamVars
  BY OthersRunAlone, MarkGoesOn DEF PatienceInv
<1>. QED
  BY <1>1, PatienceKnown, PTL DEF CapacitySpec, NeverRetreats

\* A pin breaks revoked, or in its last tick and listed (certrotate.py).
LEMMA ClientsAreWarnedHere == CapacitySpec => ClientsAreWarned
<1>1. PatienceInv /\ [Next]_vars =>
    [\A h \in Holder :
        Verifies(h) /\ ~Verifies(h)' =>
            \/ certificates'[pinned[h]].revoked
            \/ [who |-> h, remaining |-> 1] \in Laggards
            \/ pinned[h] = Current /\ certificates[Current].left = 1]_certVars
  BY OthersRunAlone, ClientsBreakWarned DEF PatienceInv
<1>. QED
  BY <1>1, PatienceKnown, PTL DEF CapacitySpec, ClientsAreWarned

\* A field is lost to a name or to a write that had not seen it (apiversions.py).
LEMMA LossIsToldHere == CapacitySpec => LossIsTold
<1>1. PatienceInv /\ [Next]_vars =>
    [\A f \in (object \ object') \intersect HubCarries :
        f \in drops \/ \E e \in Editors : copyOf[e].read /\ ~copyOf'[e].read
                                          /\ f \notin copyOf[e].seen]_objectVars
  BY OthersRunAlone, LossesAreTold DEF PatienceInv
<1>. QED
  BY <1>1, PatienceKnown, PTL DEF CapacitySpec, LossIsTold

\* Only another version clears a row past its fuse (patchcompliance.py).
LEMMA OnlyPatchingClearsHere == CapacitySpec => OnlyPatchingClears
<1>1. PatienceInv /\ [Next]_vars =>
    [\A row \in PastTheFuse \ PastTheFuse' : versions'[row[1]] # versions[row[1]]]_patchVars
  BY OthersRunAlone, PatchingAloneClears DEF PatienceInv
<1>. QED
  BY <1>1, PatienceKnown, PTL DEF CapacitySpec, OnlyPatchingClears

\* A gate that was reversed stays so in the log (admissionlog.py).
LEMMA ReversalsAreKeptHere == CapacitySpec => ReversalsAreKept
<1>1. PatienceInv /\ [Next]_vars =>
    [\A gate \in Gates : ByGate(gate)'.reversed >= ByGate(gate).reversed]_logVars
  BY OthersRunAlone, ReversalsStay DEF PatienceInv
<1>. QED
  BY <1>1, PatienceKnown, PTL DEF CapacitySpec, ReversalsAreKept

\* A larger change is of no lower band and needs no less (riskscore.py).
LEMMA RiskNeverSinksHere == CapacitySpec => RiskNeverSinks
<1>1. PatienceInv /\ [Next]_vars =>
    [ /\ change.lines <= change'.lines /\ change.blast <= change'.blast
      /\ (change.friday => change'.friday) /\ (change.night => change'.night)
      /\ change.incidents <= change'.incidents
    => /\ Band(change) <= Band(change')
       /\ Requirements(change) \subseteq Requirements(change') \cup {"pipeline"}]_change
  BY OthersRunAlone, RiskRises DEF PatienceInv
<1>. QED
  BY <1>1, PatienceKnown, PTL DEF CapacitySpec, RiskNeverSinks

\* A binding more takes no verb away (rbac.py).
LEMMA BindingsOnlyGrantHere == CapacitySpec => BindingsOnlyGrant
<1>1. PatienceInv /\ [Next]_vars =>
    [roles' = roles /\ bindings' # bindings => \A verb \in Verbs, space \in Spaces :
        MayDo(verb, space) => MayDo(verb, space)']_roleVars
  BY OthersRunAlone, BindingsGrant DEF PatienceInv
<1>. QED
  BY <1>1, PatienceKnown, PTL DEF CapacitySpec, BindingsOnlyGrant

\* A policy more closes no way (netpolicy.py).
LEMMA PoliciesOnlyOpenHere == CapacitySpec => PoliciesOnlyOpen
<1>1. PatienceInv /\ [Next]_vars =>
    [mesh' # mesh => \A from, to \in LabelSets : MayReach(from, to) => MayReach(from, to)']_mesh
  BY OthersRunAlone, PoliciesOpen DEF PatienceInv
<1>. QED
  BY <1>1, PatienceKnown, PTL DEF CapacitySpec, PoliciesOnlyOpen

\* Years are saved by a pin that moves or a version that is out again (libyear.py).
LEMMA FreshnessIsEarnedHere == CapacitySpec => FreshnessIsEarned
<1>1. PatienceInv /\ [Next]_vars =>
    [LET total == SumFunction(Libyears)
     IN /\ Scored => HeadAndTail[1] + HeadAndTail[2] = total
        /\ Scored /\ Scored' /\ HeadAndTail'[1] + HeadAndTail'[2] < total =>
              \/ pins' # pins
              \/ \E p \in DOMAIN pins : Last(releases'[p]).tag = pins[p]]_pinVars
  BY OthersRunAlone, FreshnessStays DEF PatienceInv
<1>. QED
  BY <1>1, PatienceKnown, PTL DEF CapacitySpec, FreshnessIsEarned

\* Only what ends takes a skew over its cap (sched/topology.py).
LEMMA SkewIsCappedHere == CapacitySpec => SkewIsCapped
<1>1. PatienceInv /\ [Next]_vars =>
    [hosted' # hosted /\ SkewOf(Tallies)' # SkewOf(Tallies) /\ SkewOf(Tallies)' > MaxSkew =>
        \E k \in Kinds, b \in BoxIds : TaskEnds(k, b)]_passVars
  BY OthersRunAlone, SkewStays DEF PatienceInv
<1>. QED
  BY <1>1, PatienceKnown, PTL DEF CapacitySpec, SkewIsCapped

\* A packer turns a node on when no other will do (sched/cost.py).
LEMMA OpensLastHere == CapacitySpec => OpensLast
<1>1. PatienceInv /\ [Next]_vars =>
    [scoring = "binpack" /\ hosted' # hosted /\ Bill' > Bill =>
        \E k \in Kinds : ScheduleTask(k) /\ \A b \in Feasible(k) : UsedOf(b) = 0]_passVars
  BY OthersRunAlone, OpenedLast DEF PatienceInv
<1>. QED
  BY <1>1, PatienceKnown, PTL DEF CapacitySpec, OpensLast

\* A workload goes to a member that is up, has the room and the region (federation.py).
LEMMA SentWhereItFitsHere == CapacitySpec => SentWhereItFits
<1>1. PatienceInv /\ [Next]_vars =>
    [sentTo' # sentTo => \A w \in DOMAIN Workloads :
        sentTo'[w] # sentTo[w] /\ Workloads[w].cpu > 0 =>
           /\ members[sentTo'[w]].up
           /\ members[sentTo'[w]].used + Workloads[w].cpu <= Federation[sentTo'[w]].cpu
           /\ Workloads[w].region \in {AnyRegion, Federation[sentTo'[w]].region}]_memberVars
  BY OthersRunAlone, SentWhereRoomy DEF PatienceInv
<1>. QED
  BY <1>1, PatienceKnown, PTL DEF CapacitySpec, SentWhereItFits

\* Whatever part runs, for any names, timers and sizes: a node leaves idle and after
\* its time (autoscale.py), replicas move by steps towards what is wanted and down
\* only after a calm (autoscale.py, scalerules.py), two scalers that made peace rest
\* (vertical.py), a guest has its grace (taintevict.py), a shard its dwell
\* (autosplit.py), a mark never goes back (watermarks.py), a client breaks warned, a
\* field is lost and told, an advisory is cleared by patching, a reversal stays in the
\* log, risk does not sink as a change grows, bindings and policies only open, a year
\* is earned, the skew is capped, a node is turned on last, a workload is sent where
\* it fits.
THEOREM NobodyEverLeavesEarly == CapacitySpec => NobodyLeavesEarly
<1>. QED
  BY OnlyIdleRetireHere, DampedDialHere, DownIsSlowHere, TruceRestsHere, GraceKeptHere,
     ActsAfterDwellHere, NeverRetreatsHere, ClientsAreWarnedHere, LossIsToldHere,
     OnlyPatchingClearsHere, ReversalsAreKeptHere, RiskNeverSinksHere,
     BindingsOnlyGrantHere, PoliciesOnlyOpenHere, FreshnessIsEarnedHere, SkewIsCappedHere,
     OpensLastHere, SentWhereItFitsHere
  DEF NobodyLeavesEarly
=============================================================================
