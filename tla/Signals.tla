------------------------------ MODULE Signals ------------------------------
(***************************************************************************)
(* What is concluded from silence, stamps and waits: suspicion of a peer   *)
(* (phidetect.py), the deadman's pages (deadman.py), probes from outside   *)
(* (probes.py), failover of a pair (failover.py), the order of stamps from *)
(* two clocks (clockskew.py), cycles of waits (waitgraph.py) and priority  *)
(* that is lent to a holder (priorityinversion.py).  They share no state.  *)
(***************************************************************************)
EXTENDS Integers, Sequences, FiniteSets, FiniteSetsExt, Functions, SequencesExt

CONSTANTS
    SampleWindow, MinimumSamples, MaxGap,   \* MaxGap: bound of a silence
    LowSuspicion, HighSuspicion,            \* deviations a verdict asks for
    Wardens, Allowance,
    UpAfter, DownAfter,
    PromoteAfter,
    Skews, Delays, TickLength, MaxDrift,    \* of two clocks, in units of the drift
    Waiters, MaxEdges,
    LockUsers, Locks, Base                    \* [worker -> its own band]

ASSUME SignalsAssumption ==
    /\ MinimumSamples \in 1..SampleWindow /\ LowSuspicion <= HighSuspicion
    /\ UpAfter \in Nat \ {0} /\ DownAfter \in Nat \ {0} /\ PromoteAfter \in Nat \ {0}

VARIABLES
    intervals, silence,     \* of one peer
    since, pagedFor,        \* [warden -> ticks since its last beat], or NeverBeat; who was paged
    called,                 \* [warden -> pages since its last beat]
    verdict, streak, lastSeen,  \* of a target; the last results
    east, west, misses, failing,  \* the pair, the watcher's count, and failed checks
                                    \* in a row of whoever was watched
    skew, estimate,         \* true offsets, and [peer -> offset2, error2, age], doubled
    edges,                  \* who waits on whom
    holding, blocked, priority, dropped     \* locks, waits, bands, locks lost to a second one

phiVars == <<intervals, silence>>
deadmanVars == <<since, pagedFor, called>>
probeVars == <<verdict, streak, lastSeen>>
pairVars == <<east, west, misses, failing>>
skewVars == <<skew, estimate>>
lockVars == <<holding, blocked, priority, dropped>>

-----------------------------------------------------------------------------
(* Suspicion.  A rhythm of n samples has mean S/n and variance              *)
(* (Qn - SS)/nn; its deviation is taken for a half at least.                *)

PhiInit == intervals = <<>> /\ silence = 0

PeerBeat ==
    /\ intervals' = LET all == Append(intervals, silence)
                    IN  IF Len(all) > SampleWindow THEN Tail(all) ELSE all
    /\ silence' = 0

Silent == silence < MaxGap /\ silence' = silence + 1 /\ UNCHANGED intervals

S1 == FoldSeq(LAMBDA x, y : x + y, 0, intervals)
S2 == FoldSeq(LAMBDA x, y : x * x + y, 0, intervals)

Spread(n) == Max({n * n, 4 * (S2 * n - S1 * S1)})

\* Phi grows with the distance from the mean in deviations.
Suspected(deviations) ==
    LET n == Len(intervals)
        excess == silence * n - S1
    IN /\ n >= MinimumSamples /\ excess > 0
       /\ 4 * excess * excess >= deviations * deviations * Spread(n)

PhiNext == Silent \/ PeerBeat

-----------------------------------------------------------------------------
(* The deadman *)

NeverBeat == -1

DeadmanInit ==
    /\ since = [w \in Wardens |-> NeverBeat]
    /\ pagedFor = {}
    /\ called = [w \in Wardens |-> 0]

WardenBeat(w) ==
    /\ since' = [since EXCEPT ![w] = 0]
    /\ pagedFor' = pagedFor \ {w}
    /\ called' = [called EXCEPT ![w] = 0]

DeadmanSweep ==
    LET fresh == {w \in Wardens : since[w] > Allowance} \ pagedFor
    IN /\ pagedFor' = pagedFor \union fresh
       /\ called' = [w \in Wardens |-> IF w \in fresh THEN called[w] + 1 ELSE called[w]]
       /\ UNCHANGED since

DeadmanTime ==
    /\ since' = [w \in Wardens |-> IF since[w] = NeverBeat THEN NeverBeat
                                   ELSE Min({since[w] + 1, Allowance + 1})]
    /\ UNCHANGED <<pagedFor, called>>

DeadmanNext == DeadmanSweep \/ DeadmanTime \/ \E w \in Wardens : WardenBeat(w)

-----------------------------------------------------------------------------
(* Probes *)

ProbeInit == verdict = "unknown" /\ streak = [ok |-> 0, bad |-> 0] /\ lastSeen = <<>>

Take(ok) ==
    LET next == IF ok THEN [ok |-> Min({streak.ok + 1, UpAfter}), bad |-> 0]
                ELSE [ok |-> 0, bad |-> Min({streak.bad + 1, DownAfter})]
        all == Append(lastSeen, ok)
    IN /\ streak' = next
       /\ verdict' = IF next.ok >= UpAfter THEN "up"
                     ELSE IF next.bad >= DownAfter THEN "down" ELSE verdict
       /\ lastSeen' = IF Len(all) > UpAfter + DownAfter THEN Tail(all) ELSE all

-----------------------------------------------------------------------------
(* Failover.  The link to west does not fail.                              *)

PairInit ==
    /\ east = [up |-> TRUE, reachable |-> TRUE, active |-> TRUE]
    /\ west = [up |-> TRUE, active |-> FALSE]
    /\ misses = 0 /\ failing = 0

\* Both active: east steps down when it can be told.
Demoted(e, w) == IF e.active /\ w.active /\ e.reachable THEN [e EXCEPT !.active = FALSE] ELSE e

\* One tick: what is so, the demotion, one check of the active site by the
\* watcher and, after enough misses, the promotion of the other.  An active
\* site that cannot be reached stays active.
PairTick(eastUp, eastReachable, westUp) ==
    LET w == [west EXCEPT !.up = westUp]
        e == Demoted([east EXCEPT !.up = eastUp, !.reachable = eastReachable], w)
        fine == IF e.active THEN e.up /\ e.reachable ELSE w.up
        count == IF fine THEN 0 ELSE misses + 1
        promotes == /\ count >= PromoteAfter
                    /\ IF e.active THEN w.up /\ ~w.active ELSE e.up
    IN /\ east' = IF ~promotes THEN e
                  ELSE [e EXCEPT !.active = IF e.active THEN ~e.reachable ELSE TRUE]
       /\ west' = IF promotes THEN [w EXCEPT !.active = e.active] ELSE w
       /\ misses' = IF promotes THEN 0 ELSE Min({count, PromoteAfter})
       /\ failing' = IF fine THEN 0 ELSE Min({failing + 1, PromoteAfter})

Serving == {s \in {east, west} : s.up /\ s.active}

-----------------------------------------------------------------------------
(* Two clocks.  A tick is TickLength units; a clock drifts a unit a tick at *)
(* most, and estimates widen by as much.                                   *)

Peers == {1, 2}
Unmeasured == [offset2 |-> 0, error2 |-> 0, age |-> NeverBeat]

SkewInit ==
    /\ skew \in [Peers -> Skews]
    /\ estimate = [p \in Peers |-> Unmeasured]

\* Out and back again: the stamp against the midpoint.
Estimated(p, out, back) ==
    [offset2 |-> 2 * (out + skew[p]) - (out + back), error2 |-> out + back, age |-> 0]

Echo(p, out, back) ==
    /\ estimate' = [estimate EXCEPT ![p] = Estimated(p, out, back)]
    /\ UNCHANGED skew

Drift ==
    /\ \A p \in Peers : estimate[p].age < MaxDrift
    /\ skew' \in [Peers -> Min(Skews)..Max(Skews)]
    /\ \A p \in Peers : skew'[p] - skew[p] \in -1..1
    /\ estimate' = [p \in Peers |-> IF estimate[p].age = NeverBeat THEN Unmeasured
                                    ELSE [estimate[p] EXCEPT !.age = @ + 1]]

ErrorAt(p) == estimate[p].error2 + 2 * estimate[p].age

\* The verdict on stamps of two events, made now.
OrderOf(first, second) ==
    LET gap2 == (2 * second - estimate[2].offset2) - (2 * first - estimate[1].offset2)
        blur2 == ErrorAt(1) + ErrorAt(2)
    IN IF gap2 > blur2 THEN "yes" ELSE IF gap2 < -blur2 THEN "no" ELSE "too close"

SkewNext == Drift \/ \E p \in Peers, out, back \in Delays : Echo(p, out, back)

-----------------------------------------------------------------------------
(* Waits *)

GraphInit == edges = {}

Wait(a, b) == a # b /\ Cardinality(edges) < MaxEdges /\ edges' = edges \union {<<a, b>>}
Release(a, b) == <<a, b>> \in edges /\ edges' = edges \ {<<a, b>>}

HoldersOf(a) == {b \in Waiters : <<a, b>> \in edges}

\* The walks from a waiter that visit nobody twice; those that can return to it
\* are its cycles, each written from its smallest name.
Walks(start) ==
    LET walk[n \in 1..Cardinality(Waiters)] ==
            IF n = 1 THEN {<<start>>}
            ELSE UNION {{Append(w, h) : h \in HoldersOf(Last(w)) \ Range(w)} : w \in walk[n - 1]}
    IN UNION Range(walk)

Canon(loop) ==
    LET low == CHOOSE i \in DOMAIN loop : \A j \in DOMAIN loop : loop[i] <= loop[j]
    IN SubSeq(loop, low, Len(loop)) \o SubSeq(loop, 1, low - 1)

Cycles == {Canon(w) : w \in UNION {{v \in Walks(s) : s \in HoldersOf(Last(v))} : s \in Waiters}}

\* Passes over the waiters in the order of their names, each taking the least
\* that is known of its holders at that moment, once and for all.
BlockedBehind(cycle) ==
    LET size == Cardinality(Waiters)
        hops(a, known) ==
            LET direct == HoldersOf(a) \intersect Range(cycle)
                behind == {known[h] + 1 : h \in HoldersOf(a) \intersect DOMAIN known}
            IN IF direct # {} THEN {1} ELSE behind
        visit(a, known) ==
            IF a \in Range(cycle) \/ a \in DOMAIN known \/ hops(a, known) = {} THEN known
            ELSE [b \in DOMAIN known \union {a} |->
                     IF b = a THEN Min(hops(a, known)) ELSE known[b]]
        after[i \in 0..(size * size)] ==
            IF i = 0 THEN [b \in {} |-> 0] ELSE visit(1 + ((i - 1) % size), after[i - 1])
    IN after[size * size]

GraphNext == \E a, b \in Waiters : Wait(a, b) \/ Release(a, b)

-----------------------------------------------------------------------------
(* Priority that is lent *)

Free == "free"
NotBlocked == [lock |-> Free, by |-> 0]

LockInit ==
    /\ holding = [w \in LockUsers |-> Free]
    /\ blocked = [w \in LockUsers |-> NotBlocked]
    /\ priority = Base
    /\ dropped = {}

\* A worker is held to hold one lock: with a second the first is held by nobody.
Acquire(w, l) ==
    /\ l \notin Range(holding) /\ blocked[w] = NotBlocked
    /\ holding' = [holding EXCEPT ![w] = l]
    /\ dropped' = (dropped \union {holding[w]}) \ {Free}
    /\ UNCHANGED <<blocked, priority>>

BlockOn(w, l) ==
    /\ l \in Range(holding) /\ holding[w] # l /\ blocked[w] = NotBlocked
    /\ \E h \in LockUsers :
          /\ holding[h] = l
          /\ blocked' = [blocked EXCEPT ![w] = [lock |-> l, by |-> h]]
    /\ UNCHANGED <<holding, priority, dropped>>

\* The waiters that outrank the worker that held the lock when they blocked.
Inversions == {w \in LockUsers : /\ blocked[w] # NotBlocked
                               /\ priority[w] > priority[blocked[w].by]}

Inherit ==
    LET lenders(h) == {w \in Inversions : blocked[w].by = h}
    IN /\ priority' = [h \in LockUsers |->
              Max({priority[h]} \union {priority[w] : w \in lenders(h)})]
       /\ UNCHANGED <<holding, blocked, dropped>>

\* The lock goes, its waiters are woken, the loan is returned.
ReleaseLock(w) ==
    /\ holding[w] # Free /\ blocked[w] = NotBlocked
    /\ holding' = [holding EXCEPT ![w] = Free]
    /\ blocked' = [u \in LockUsers |-> IF blocked[u].lock = holding[w] THEN NotBlocked ELSE blocked[u]]
    /\ priority' = [priority EXCEPT ![w] = Base[w]]
    /\ UNCHANGED dropped

LockNext ==
    \/ Inherit
    \/ \E w \in LockUsers : ReleaseLock(w) \/ \E l \in Locks : Acquire(w, l) \/ BlockOn(w, l)

-----------------------------------------------------------------------------
(* Properties *)

\* phidetect.py: a peer is not suspected before its silence exceeds its mean
\* interval, whatever its wobble; a silence of the longest interval and as many
\* deviations as there can be is suspected; one detector, ordered verdicts.
SuspicionFits ==
    /\ Suspected(LowSuspicion) => silence * Len(intervals) > S1
    /\ Suspected(HighSuspicion) => Suspected(LowSuspicion)
    /\ Len(intervals) >= MinimumSamples =>
          LET longest == Max(Range(intervals))
          IN 2 * silence >= 2 * longest + LowSuspicion * Max({1, longest})
                => Suspected(LowSuspicion)

\* deadman.py: one page for each silence, none for a controller that starts.
PagedOncePerSilence ==
    /\ \A w \in Wardens : called[w] <= 1 /\ (called[w] = 1 => since[w] > Allowance)
    /\ pagedFor = {w \in Wardens : called[w] = 1}

\* probes.py: a verdict has the evidence of rounds in a row, and no later rounds
\* in a row against it.
VerdictHasEvidence ==
    LET ends(ok, n) == Len(lastSeen) >= n /\ \A i \in (Len(lastSeen) - n + 1)..Len(lastSeen) : lastSeen[i] = ok
    IN /\ ends(TRUE, UpAfter) => verdict = "up"
       /\ ends(FALSE, DownAfter) => verdict = "down"
       /\ verdict = "up" => \E i \in DOMAIN lastSeen : lastSeen[i]

\* failover.py: two sites serve only while east cannot be told to stop, and a
\* site is promoted only after enough checks in a row have failed.
SplitOnlyWhileCut == Cardinality(Serving) = 2 \/ (east.active /\ west.active) => ~east.reachable
PromotedOnFailures ==
    [][(east'.active /\ ~east.active) \/ (west'.active /\ ~west.active)
          => failing' >= PromoteAfter]_pairVars

\* clockskew.py: "the confident wrong answer is how cross-node event logs lie":
\* what is called ordered is ordered, whatever delays, skews and drift.
OrderIsTrue ==
    (\A p \in Peers : estimate[p].age # NeverBeat) =>
        \A first, second \in 0..TickLength :
            LET told == OrderOf(first + skew[1], second + skew[2])
            IN (told = "yes" => first < second) /\ (told = "no" => second < first)

\* waitgraph.py: the waiters in a cycle are those that wait on themselves through
\* others; behind it are all who cannot progress before it breaks, the ones next
\* to it at distance one and nobody nearer than he is.
Reach ==
    LET step[n \in 0..Cardinality(Waiters)] ==
            IF n = 0 THEN edges
            ELSE step[n - 1] \union {w \in Waiters \X Waiters :
                    \E b \in Waiters : <<w[1], b>> \in step[n - 1] /\ <<b, w[2]>> \in step[n - 1]}
    IN step[Cardinality(Waiters)]
DeadlocksFound ==
    /\ UNION {Range(c) : c \in Cycles} = {w \in Waiters : <<w, w>> \in Reach}
    /\ \A c \in Cycles :
          LET behind == BlockedBehind(c)
          IN /\ DOMAIN behind =
                   {w \in Waiters \ Range(c) : \E m \in Range(c) : <<w, m>> \in Reach}
             /\ \A w \in DOMAIN behind :
                   (behind[w] = 1) = (HoldersOf(w) \intersect Range(c) # {})

\* priorityinversion.py: nobody runs below his own band, a loan is held only with
\* a lock, and a waiter waits for one that is held, unless its holder took a
\* second lock.
LoansAreBacked ==
    \A w \in LockUsers :
        /\ priority[w] >= Base[w]
        /\ priority[w] # Base[w] => holding[w] # Free \/ dropped # {}
        /\ blocked[w] # NotBlocked =>
              holding[blocked[w].by] = blocked[w].lock \/ blocked[w].lock \in dropped
=============================================================================
