------------------------------ MODULE Requests ------------------------------
(***************************************************************************)
(* Where a request goes and what is learnt from it: endpoints that flap    *)
(* (flapdamp.py), the choice among queues (loadbalance.py), the second     *)
(* request (hedging.py), the limit that adapts (adaptiveconcurrency.py),   *)
(* samples that stand out (outliers.py), or do so at their hour of the     *)
(* week (seasonal.py), and the reservoir of samples (quantilesketch.py).   *)
(* The parts share no state.                                               *)
(***************************************************************************)
EXTENDS Integers, Sequences, FiniteSets, FiniteSetsExt, Functions, SequencesExt

CONSTANTS
    HalfLife, Flap, MaxPenalty,     \* Flap: its penalty; MaxPenalty: bound, in flaps
    Servers,            \* <<[service, joined, coldFor, coldPeriod]>>
    SlowStarts, MaxArrivals, LastTick,      \* LastTick: bound of the clock
    HedgeDelay, Latencies, MaxCalls,        \* MaxCalls: bound
    MaxInFlight, MaxLimit,          \* bounds of the adaptive limit, in hundredths the second
    SampleValues, MaxSampled,       \* MaxSampled: bound
    Hours, KeepReadings, MinimumHistory, Readings, Probes,
    ReservoirSize, MaxOffered       \* MaxOffered: bound

ASSUME RequestsAssumption ==
    /\ HalfLife \in Nat \ {0} /\ Flap \in Nat \ {0} /\ HedgeDelay \in Nat
    /\ Len(Servers) >= 2 /\ ReservoirSize \in Nat \ {0}

VARIABLES
    penalty, quietFor, suppressed, steady,  \* steady: no two flaps within a half-life
    balance, depths, offered, cursor, ticks, \* balance: [policy, slow]
    hedges,             \* <<[primary, backup, delivered, hedged]>>
    limit, outstanding,    \* limit in hundredths
    sampled,            \* values in order
    seasons,            \* [hour of the week -> the last readings then]
    slots, arrived         \* the numbers of the samples kept, and how many came

dampVars == <<penalty, quietFor, suppressed, steady>>
balanceVars == <<balance, depths, offered, cursor, ticks>>
limitVars == <<limit, outstanding>>
reservoirVars == <<slots, arrived>>

-----------------------------------------------------------------------------
(* The dampener.  A quarter of a flap in the code is a quarter of Flap.    *)

LongQuiet == 8 * HalfLife

DampInit == penalty = 0 /\ quietFor = LongQuiet /\ suppressed = FALSE /\ steady = TRUE

\* Wrong: halved for a half-life that is not over.
DecayedEarly ==
    LET after[n \in 0..9] == IF n = 0 THEN penalty ELSE after[n - 1] \div 2
    IN after[(quietFor + 1) \div HalfLife]

\* Halved for each full half-life since the last flap.
Decayed ==
    LET after[n \in 0..8] == IF n = 0 THEN penalty ELSE after[n - 1] \div 2
    IN after[quietFor \div HalfLife]

\* 250 for the ceiling, 80 for the floor, 100 for a flap.
NoteFlap ==
    /\ Decayed < MaxPenalty * Flap
    /\ penalty' = Decayed + Flap
    /\ quietFor' = 0
    /\ suppressed' = (suppressed \/ 2 * penalty' >= 5 * Flap)
    /\ steady' = (steady /\ quietFor >= HalfLife)

AskRotation ==
    /\ suppressed' = (suppressed /\ 5 * Decayed > 4 * Flap)
    /\ UNCHANGED <<penalty, quietFor, steady>>

DampTime == quietFor' = Min({quietFor + 1, LongQuiet}) /\ UNCHANGED <<penalty, suppressed, steady>>

DampNext == NoteFlap \/ AskRotation \/ DampTime

-----------------------------------------------------------------------------
(* The balancer.  Whether a ramp lets a request pass is chance.            *)

Server == DOMAIN Servers

BalanceInit ==
    /\ balance \in [policy : {"round-robin", "random", "two"}, slow : SlowStarts]
    /\ depths = [s \in Server |-> 0] /\ offered = [s \in Server |-> 0]
    /\ cursor = 0 /\ ticks = 0

Ramped(s, now) == balance.slow = 0 \/ now - Servers[s].joined >= balance.slow

ShorterOf(q, a, b) == IF q[a] <= q[b] THEN a ELSE b

\* The possible picks: a server, and how far the cursor moves.
Picks(q, at, now) ==
    LET turn(k) == ((at + k - 1) % Len(Servers)) + 1
        others(k) == \A j \in 1..(k - 1) : ~Ramped(turn(j), now)
    IN CASE balance.policy = "round-robin" ->
              {<<turn(k), k>> : k \in {i \in Server : others(i)}}
         [] balance.policy = "random" -> {<<s, 0>> : s \in Server}
         [] OTHER ->
              {<<s, 0>> : s \in {t \in Server : \E a, b \in Server :
                    a # b /\ \/ t = ShorterOf(q, a, b)
                             \/ ~Ramped(ShorterOf(q, a, b), now) /\ t \in {a, b}}}

PeriodOf(s, now) ==
    LET server == Servers[s]
    IN IF server.coldFor > 0 /\ now - server.joined < server.coldFor /\ server.coldPeriod > 0
       THEN server.coldPeriod ELSE server.service

\* The arrivals are picked for one by one, and then every server may work.
BalanceTick(arrivals) ==
    LET now == ticks + 1
        add(f, s) == [f EXCEPT ![s] = @ + 1]
        after[k \in 0..arrivals] ==
            IF k = 0 THEN {[q |-> depths, o |-> offered, at |-> cursor]}
            ELSE UNION {{[q |-> add(was.q, p[1]), o |-> add(was.o, p[1]),
                          at |-> (was.at + p[2]) % Len(Servers)] :
                             p \in Picks(was.q, was.at, now)} : was \in after[k - 1]}
        works(s, q) == now % PeriodOf(s, now) = 0 /\ q[s] > 0
    IN /\ ticks < LastTick
       /\ ticks' = now
       /\ \E is \in after[arrivals] :
             /\ depths' = [s \in Server |-> IF works(s, is.q) THEN is.q[s] - 1 ELSE is.q[s]]
             /\ offered' = is.o
             /\ cursor' = is.at
       /\ UNCHANGED balance

-----------------------------------------------------------------------------
(* Hedges                                                                  *)

HedgeInit == hedges = <<>>

AnsweredAt(primary, backup) ==
    IF primary <= HedgeDelay THEN primary ELSE Min({primary, HedgeDelay + backup})

HedgedCall(primary, backup) ==
    /\ Len(hedges) < MaxCalls
    /\ hedges' = Append(hedges, [primary |-> primary, backup |-> backup,
                                 delivered |-> AnsweredAt(primary, backup),
                                 hedged |-> primary > HedgeDelay])

DeliveredLatencies == SortSeq([i \in DOMAIN hedges |-> hedges[i].delivered], <)
UnhedgedLatencies == SortSeq([i \in DOMAIN hedges |-> hedges[i].primary], <)

\* The value at int(fraction * (n - 1) + 0.5), the fraction in percent.
Percentile(values, percent) == values[1 + (percent * (Len(values) - 1) + 50) \div 100]

-----------------------------------------------------------------------------
(* The adaptive limit                                                      *)

LimitInit == limit = 400 /\ outstanding = 0

AdmitCall ==
    /\ outstanding < limit \div 100 /\ outstanding < MaxInFlight
    /\ outstanding' = outstanding + 1
    /\ UNCHANGED limit

BackedOff == Max({100, (limit * 3) \div 5})

ObserveLatency(inTarget) ==
    /\ outstanding > 0
    /\ limit < MaxLimit
    /\ outstanding' = outstanding - 1
    /\ limit' = IF inTarget THEN limit + 50 ELSE BackedOff

LimitNext == AdmitCall \/ \E inTarget \in BOOLEAN : ObserveLatency(inTarget)

-----------------------------------------------------------------------------
(* Outliers.  The samples are in the order of their values; twice the      *)
(* median, four times the deviation, are whole numbers.                    *)

SampleInit == sampled = <<>>

Sample(v) ==
    /\ Len(sampled) < MaxSampled
    /\ sampled # <<>> => v >= Last(sampled)
    /\ sampled' = Append(sampled, v)

TwiceMedian(ordered) ==
    LET n == Len(ordered)
    IN IF n % 2 = 1 THEN 2 * ordered[(n + 1) \div 2]
       ELSE ordered[n \div 2] + ordered[n \div 2 + 1]

Distance(x, y) == IF x > y THEN x - y ELSE y - x

\* Four times the median absolute deviation.
Mad4(ordered) ==
    TwiceMedian(SortSeq([i \in DOMAIN ordered |->
        Distance(2 * ordered[i], TwiceMedian(ordered))], <))

\* A score of 3.5, the spread being 1.4826 deviations; with no spread, all that
\* is not at the center.
RobustOutliers(ordered) ==
    {i \in DOMAIN ordered :
        LET distance == Distance(2 * ordered[i], TwiceMedian(ordered))
        IN IF Mad4(ordered) = 0 THEN distance > 0
           ELSE 20000 * distance >= 51891 * Mad4(ordered)}

ZscoreOutliers(ordered) ==
    LET n == Len(ordered)
        sum == FoldSeq(+, 0, ordered)
        squares == FoldSeq(LAMBDA x, s : x * x + s, 0, ordered)
        variance == n * squares - sum * sum
    IN {i \in DOMAIN ordered :
           variance > 0 /\ (n * ordered[i] - sum)^2 >= 9 * variance}

-----------------------------------------------------------------------------
(* The hours of the week                                                   *)

SeasonInit == seasons = [h \in Hours |-> <<>>]

Learn(h, value) ==
    LET readings == Append(seasons[h], value)
    IN seasons' = [seasons EXCEPT ![h] =
                      IF Len(readings) > KeepReadings THEN Tail(readings) ELSE readings]

\* Twice as far from the median as a score of 3.5 allows; with no spread, a
\* twentieth of the median, or a half, is one.
Strays(readings, distance) ==
    LET ordered == SortSeq(readings, <)
    IN IF Mad4(ordered) = 0 THEN 40 * distance >= Max({7 * TwiceMedian(ordered), 140})
       ELSE 20000 * distance >= 51891 * Mad4(ordered)

Judge(h, value) ==
    LET above == 2 * value - TwiceMedian(SortSeq(seasons[h], <))
    IN IF Len(seasons[h]) < MinimumHistory THEN "unjudgeable"
       ELSE IF Strays(seasons[h], above) THEN "surge"
       ELSE IF Strays(seasons[h], -above) THEN "hole"
       ELSE "normal"

-----------------------------------------------------------------------------
(* The reservoir.  The random slot is any.                                 *)

ReservoirInit == slots = <<>> /\ arrived = 0

OfferSample ==
    /\ arrived < MaxOffered
    /\ arrived' = arrived + 1
    /\ IF Len(slots) < ReservoirSize THEN slots' = Append(slots, arrived')
       ELSE \E slot \in 1..arrived' :
               slots' = IF slot <= ReservoirSize THEN [slots EXCEPT ![slot] = arrived'] ELSE slots

-----------------------------------------------------------------------------
(* Properties *)

\* flapdamp.py: "one flap is forgiven quickly ... and a steady endpoint is never
\* touched": flaps at least a half-life apart suppress nothing, ever.
SteadyIsUntouched == steady => ~suppressed

\* flapdamp.py: a suppressed endpoint returns after a quiet half-life, at least.
BackWhenQuiet == [][suppressed /\ ~suppressed' => quietFor >= HalfLife]_dampVars

\* loadbalance.py: "round robin is fair in arrivals", and of two choices the
\* deepest depths is not taken, while nothing ramps.
BalanceFits ==
    balance.slow = 0 =>
        /\ balance.policy = "round-robin" =>
              \A s, t \in Server : offered[s] <= offered[t] + 1
        /\ balance.policy = "two" =>
              \A p \in Picks(depths, cursor, ticks) :
                 \E s \in Server \ {p[1]} : depths[s] >= depths[p[1]]

\* hedging.py: "first answer wins": at no percentile do hedged calls lose, and
\* none is delivered before an answer is there.
HedgeNeverHurts ==
    hedges # <<>> =>
        /\ \A percent \in {0, 50, 95, 99, 100} :
              Percentile(DeliveredLatencies, percent) <= Percentile(UnhedgedLatencies, percent)
        /\ \A i \in DOMAIN hedges :
              hedges[i].delivered < hedges[i].primary =>
                  hedges[i].hedged /\ hedges[i].delivered >= HedgeDelay + hedges[i].backup

\* adaptiveconcurrency.py: "the floor keeps one slot open so the limiter can
\* always learn the backend recovered".
OneSlotIsOpen == outstanding = 0 => limit \div 100 > 0

\* outliers.py: the median "does not flinch": at most half are outliers, one that is
\* further out still is one, and the z-score flags nothing among fewer than ten.
MedianHolds ==
    Len(sampled) >= 4 =>
        /\ 2 * Cardinality(RobustOutliers(sampled)) <= Len(sampled)
        /\ Len(sampled) \in RobustOutliers(sampled) =>
              Len(sampled) \in RobustOutliers([sampled EXCEPT ![Len(sampled)] = 10 * @])
        /\ Len(sampled) < 10 => ZscoreOutliers(sampled) = {}

\* quantilesketch.py: the reservoir is a sample: no one counts twice, all that came
\* are there until it is full, and it stays full.
ReservoirIsASample ==
    /\ Len(slots) = Min({arrived, ReservoirSize}) /\ IsInjective(slots)
    /\ Range(slots) \subseteq 1..arrived

\* seasonal.py "the hole is the one this detector exists for": while most readings of
\* an hour agree, what they agree on is normal then and an outage is a hole, whatever
\* the others are; and a surge is told exactly as far off as a hole would be.
HolesAreSeen ==
    \A h \in Hours : Len(seasons[h]) >= MinimumHistory =>
        /\ \A v \in Readings :
              2 * Cardinality({i \in DOMAIN seasons[h] : seasons[h][i] = v}) > Len(seasons[h])
                  => Judge(h, v) = "normal" /\ (v >= 2 => Judge(h, 0) = "hole")
        /\ \A v \in Probes :
              LET mirrored == TwiceMedian(SortSeq(seasons[h], <)) - v
              IN Judge(h, v) = "surge" <=> Judge(h, mirrored) = "hole"
=============================================================================
