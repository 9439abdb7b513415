------------------------------ MODULE Policies ------------------------------
(***************************************************************************)
(* Policies that are worked out on paper or over one pass: the order of    *)
(* batch jobs (sched/deadline.py), bins (sched/offline.py), the shares of  *)
(* teams (sched/quota.py), the lanes of a queue (sched/queue.py), scorers, *)
(* prices, wishes and the spread over zones in one pass of the plain       *)
(* scheduler (sched/core.py, sched/scorers.py, sched/cost.py,              *)
(* sched/soft.py, sched/topology.py) with what sched/explain.py says of    *)
(* it, and the member a federation picks (federation.py).  They share no   *)
(* state.                                                                  *)
(***************************************************************************)
EXTENDS Integers, Sequences, FiniteSets, FiniteSetsExt, Functions, SequencesExt

CONSTANTS
    Durations, Deadlines, MaxBatch,     \* MaxBatch: bound, on the jobs of a batch
    BinSize, ItemSizes, MaxItems,       \* MaxItems: bound
    Shapes, Clusters, TeamCount,        \* pairs <<cpu, memory>>
    Weights, MaxWaiting,    \* [namespace -> weight], numbered in name order; MaxWaiting: bound
    Boxes,          \* <<[cpu, zone, price, label]>> in the order of their names
    Kinds,          \* {[size, app]}
    Scorings, WishedLabel, WishWeight,
    SpreadApp, MaxSkew, NoZone, MaxOfKind,      \* MaxOfKind: bound
    Federation,        \* <<[region, cpu]>> in the order of their names
    Workloads,      \* <<[cpu, region]>>, the region may be AnyRegion
    AnyRegion

Unit == 60      \* scores and credits are counted in sixtieths

ASSUME PoliciesAssumption ==
    /\ BinSize \in Nat \ {0} /\ ItemSizes \subseteq 1..BinSize
    /\ IsFiniteSet(DOMAIN Boxes) /\ DOMAIN Boxes \subseteq Nat
    /\ \A i \in DOMAIN Boxes :
          /\ Boxes[i].cpu \in 1..Unit /\ Unit % Boxes[i].cpu = 0
          /\ Boxes[i].price \in 1..Unit /\ Unit % Boxes[i].price = 0
    /\ IsFiniteSet(Kinds) /\ \A k \in Kinds : k.size \in Nat
    /\ Scorings \subseteq {"binpack", "spread", "peer_spread", "attracted", "frugal", "value", "wishes"}
    /\ WishWeight \in Nat
    /\ \A m \in DOMAIN Federation : Federation[m].cpu \in Nat
    /\ \A w \in DOMAIN Workloads : Workloads[w].cpu \in Nat
    /\ MaxOfKind * Cardinality(Kinds) < 6
    /\ \A spaces \in (SUBSET DOMAIN Weights) \ {{}} :
          Unit % MapThenSumSet(LAMBDA n : Weights[n], spaces) = 0

VARIABLES
    batch,      \* <<[duration, deadline]>>, as they arrived
    packing,    \* [rule, bins, sizes]
    drf,        \* [capacity, shapes, admitted]
    lanes,      \* [waiting, credit]: of each namespace; the credit in units
    scoring,    \* the scorer the scheduler was given
    hosted,     \* [box -> [kind -> how many are active there]]
    members,    \* [member -> [up, used]]
    sentTo  \* Federator.placements, 0 for a workload not placed

passVars == <<scoring, hosted>>
memberVars == <<members, sentTo>>

-----------------------------------------------------------------------------
(* The order of a batch on one machine                                     *)

BatchInit == batch = <<>>

AddBatchJob(duration, deadline) ==
    /\ Len(batch) < MaxBatch
    /\ batch' = Append(batch, [duration |-> duration, deadline |-> deadline])

ByPromise(a, b) == a.deadline <= b.deadline

RunOrder(jobs, order) ==
    CASE order = "fifo" -> jobs
      [] order = "sjf" -> SortSeq(jobs, LAMBDA a, b : a.duration < b.duration)
      [] order = "edf" -> SortSeq(jobs, LAMBDA a, b : ByPromise(a, b) /\ ~ByPromise(b, a))

FinishTick(jobs, i) == FoldSeq(LAMBDA j, sum : j.duration + sum, 0, SubSeq(jobs, 1, i))
Lateness(jobs) == [i \in DOMAIN jobs |-> FinishTick(jobs, i) - jobs[i].deadline]
MaxLateness(jobs) == Max(Range(Lateness(jobs)))
JobsLate(jobs) == Cardinality({i \in DOMAIN jobs : Lateness(jobs)[i] > 0})

-----------------------------------------------------------------------------
(* Bins *)

BinInit == \E rule \in {"first", "best"} : packing = [rule |-> rule, bins |-> <<>>, sizes |-> <<>>]

FirstFit(bins, size) == {i \in DOMAIN bins : bins[i] + size <= BinSize}

BestFit(bins, size) ==
    {i \in FirstFit(bins, size) : \A j \in FirstFit(bins, size) : bins[i] >= bins[j]}

PlacedIn(rule, bins, size) ==
    LET fits == IF rule = "best" THEN BestFit(bins, size) ELSE FirstFit(bins, size)
    IN IF fits = {} THEN Append(bins, size) ELSE [bins EXCEPT ![Min(fits)] = @ + size]

\* The whole list at once, the largest first when decreasing.
Pack(sizes, rule, decreasing) ==
    FoldLeft(LAMBDA bins, size : PlacedIn(rule, bins, size), <<>>,
             IF decreasing THEN SortSeq(sizes, >) ELSE sizes)

FloorBins(sizes) == (FoldSeq(+, 0, sizes) + BinSize - 1) \div BinSize

PackItem(size) ==
    /\ Len(packing.sizes) < MaxItems
    /\ packing' = [packing EXCEPT !.bins = PlacedIn(packing.rule, @, size),
                                  !.sizes = Append(@, size)]

-----------------------------------------------------------------------------
(* Dominant resource fairness *)

DrfInit ==
    \E capacity \in Clusters : \E shapes \in [1..TeamCount -> Shapes] :
        drf = [capacity |-> capacity, shapes |-> shapes, admitted |-> [t \in 1..TeamCount |-> 0]]

\* The larger of two shares, as a fraction of the product of the axes.
ShareAt(t, count) ==
    Max({count * drf.shapes[t][1] * drf.capacity[2], count * drf.shapes[t][2] * drf.capacity[1]})
DominantShare(t) == ShareAt(t, drf.admitted[t])

UsedOn(axis) == MapThenSumSet(LAMBDA t : drf.admitted[t] * drf.shapes[t][axis], DOMAIN drf.shapes)
TeamFits(t) == \A axis \in {1, 2} : UsedOn(axis) + drf.shapes[t][axis] <= drf.capacity[axis]

Poorer(t, u) == DominantShare(t) < DominantShare(u) \/ (DominantShare(t) = DominantShare(u) /\ t < u)

AdmitNext ==
    LET fitting == {t \in DOMAIN drf.shapes : TeamFits(t)}
    IN \E t \in fitting :
          /\ \A u \in fitting \ {t} : Poorer(t, u)
          /\ drf' = [drf EXCEPT !.admitted[t] = @ + 1]

-----------------------------------------------------------------------------
(* The lanes of the namespaces within one band of priority                 *)

LanesInit == lanes = [waiting |-> [n \in DOMAIN Weights |-> 0], credit |-> [n \in DOMAIN Weights |-> 0]]

OfferTo(n) == lanes.waiting[n] < MaxWaiting /\ lanes' = [lanes EXCEPT !.waiting[n] = @ + 1]

\* Every one of the spaces earns its share of one; the one that was served pays one.
Credited(credit, spaces, served) ==
    LET total == MapThenSumSet(LAMBDA n : Weights[n], spaces)
    IN [n \in DOMAIN credit |-> credit[n] + (IF n \in spaces THEN Weights[n] * (Unit \div total) ELSE 0)
                                           - (IF n = served THEN Unit ELSE 0)]

Forgotten(s, n) ==
    LET left == [s.waiting EXCEPT ![n] = @ - 1]
    IN [waiting |-> left, credit |-> Credited(s.credit, {m \in DOMAIN Weights : left[m] > 0} \cup {n}, n)]

\* One more dealt on paper: from the lane with most credit, of equals the first.
DealtOne(s) ==
    LET nonempty == {n \in DOMAIN Weights : s.waiting[n] > 0}
        chosen == CHOOSE n \in nonempty : \A m \in nonempty :
                     s.credit[m] < s.credit[n] \/ (s.credit[m] = s.credit[n] /\ n <= m)
    IN [waiting |-> [s.waiting EXCEPT ![chosen] = @ - 1],
        credit |-> Credited(s.credit, nonempty, chosen), dealt |-> Append(s.dealt, chosen)]

DealtFrom(s) ==
    FoldLeft(LAMBDA t, i : DealtOne(t), [waiting |-> s.waiting, credit |-> s.credit, dealt |-> <<>>],
             [i \in 1..FoldSeq(+, 0, s.waiting) |-> i]).dealt

\* A consumer that takes as many of one pass.
ServedFirst(s, count) == FoldLeft(Forgotten, s, SubSeq(DealtFrom(s), 1, count))

ServeSome(count) == count <= Len(DealtFrom(lanes)) /\ lanes' = ServedFirst(lanes, count)

LanesNext == (\E n \in DOMAIN Weights : OfferTo(n)) \/ \E count \in 1..2 : ServeSome(count)

-----------------------------------------------------------------------------
(* One task placed by the plain scheduler *)

BoxIds == DOMAIN Boxes

ScoringInit == scoring \in Scorings /\ hosted = [b \in BoxIds |-> [k \in Kinds |-> 0]]

UsedOf(b) == SumFunction([k \in Kinds |-> k.size * hosted[b][k]])
PeersOf(app, b) == SumFunction(Restrict(hosted[b], {k \in Kinds : k.app = app}))

Fullness(b) == (Unit \div Boxes[b].cpu) * UsedOf(b)
Wish(b) == IF Boxes[b].label = WishedLabel THEN Unit ELSE 0

PeerSpread(k, b) == Unit \div (1 + PeersOf(k.app, b))
AttractedTo(k, b) == Unit * PeersOf(k.app, b)
FrugalScore(b) == Unit \div Boxes[b].price
ValueScore(b) == 10 * Boxes[b].cpu * (Unit \div Boxes[b].price) + Fullness(b)
Blended(b) == Fullness(b) + WishWeight * Wish(b)

Score(k, b) ==
    CASE scoring = "binpack" -> Fullness(b)
      [] scoring = "spread" -> Unit - Fullness(b)
      [] scoring = "peer_spread" -> PeerSpread(k, b)
      [] scoring = "attracted" -> AttractedTo(k, b)
      [] scoring = "frugal" -> FrugalScore(b)
      [] scoring = "value" -> ValueScore(b)
      [] scoring = "wishes" -> Blended(b)

Zones == {Boxes[b].zone : b \in BoxIds} \ {NoZone}
Tally(zone) == SumFunction([b \in {c \in BoxIds : Boxes[c].zone = zone} |-> PeersOf(SpreadApp, b)])
SkewOf(tally) == Max(Range(tally)) - Min(Range(tally))
Tallies == [z \in Zones |-> Tally(z)]

WouldSkew(b) == SkewOf([Tallies EXCEPT ![Boxes[b].zone] = @ + 1]) > MaxSkew

SpreadRefuses(k, b) == k.app = SpreadApp /\ (Boxes[b].zone = NoZone \/ WouldSkew(b))
BoxPasses(k, b) == UsedOf(b) + k.size <= Boxes[b].cpu /\ ~SpreadRefuses(k, b)

Feasible(k) == {b \in BoxIds : BoxPasses(k, b)}

\* The best; of equals the first by name.
Picked(k) ==
    CHOOSE b \in Feasible(k) : \A c \in Feasible(k) :
        Score(k, c) < Score(k, b) \/ (Score(k, c) = Score(k, b) /\ b <= c)

\* explain.py runs filters and scorers again, and sorts on its own.
Explained(k) ==
    LET table == [b \in BoxIds |-> [refused |-> ~BoxPasses(k, b), total |-> Score(k, b)]]
        left == SelectSeq([b \in BoxIds |-> b], LAMBDA b : ~table[b].refused)
        best == FoldLeft(LAMBDA held, b : IF held = 0 \/ table[b].total > table[held].total
                                          THEN b ELSE held, 0, left)
    IN best

ScheduleTask(k) ==
    /\ FoldFunction(+, 0, [b \in BoxIds |-> hosted[b][k]]) < MaxOfKind
    /\ Feasible(k) # {}
    /\ hosted' = [hosted EXCEPT ![Picked(k)][k] = @ + 1]
    /\ UNCHANGED scoring

TaskEnds(k, b) ==
    /\ hosted[b][k] > 0
    /\ hosted' = [hosted EXCEPT ![b][k] = @ - 1]
    /\ UNCHANGED scoring

\* A box that hosts nothing is off.
Bill == SumFunction([b \in {c \in BoxIds : UsedOf(c) > 0} |-> Boxes[b].price])

ScoringNext == \E k \in Kinds : ScheduleTask(k) \/ \E b \in BoxIds : TaskEnds(k, b)

-----------------------------------------------------------------------------
(* The member of a federation *)

FederationInit ==
    /\ members = [m \in DOMAIN Federation |-> [up |-> TRUE, used |-> 0]]
    /\ sentTo = [w \in DOMAIN Workloads |-> 0]

Headroom(m) == IF members[m].up THEN Federation[m].cpu - members[m].used ELSE 0

PassingMembers(w, excluding) ==
    {m \in DOMAIN Federation \ excluding :
        /\ Workloads[w].region \in {AnyRegion, Federation[m].region}
        /\ Headroom(m) >= Workloads[w].cpu}

\* The roomiest; of equals the last by name.  Nothing changes when none passes.
PlaceExcluding(w, excluding) ==
    LET passing == PassingMembers(w, excluding)
    IN \E m \in passing :
          /\ \A n \in passing : Headroom(n) < Headroom(m) \/ (Headroom(n) = Headroom(m) /\ n <= m)
          /\ sentTo' = [sentTo EXCEPT ![w] = m]
          /\ UNCHANGED members

PlaceWorkload(w) == PlaceExcluding(w, {})
FailOver(w) == PlaceExcluding(w, {sentTo[w]} \ {0})

\* The nodes of a member fail and return; tasks of it start and end.
MemberTurns(m) == members' = [members EXCEPT ![m].up = ~@] /\ UNCHANGED sentTo
MemberFills(m, used) ==
    members[m].used # used /\ members' = [members EXCEPT ![m].used = used] /\ UNCHANGED sentTo

FederationNext ==
    \/ \E w \in DOMAIN Workloads : PlaceWorkload(w) \/ FailOver(w)
    \/ \E m \in DOMAIN Federation : MemberTurns(m) \/ \E used \in 0..Federation[m].cpu : MemberFills(m, used)

-----------------------------------------------------------------------------
(* Properties *)

\* sched/deadline.py: "EDF minimises the maximum lateness on one machine, while SJF
\* minimises the queue's average wait": against every order of the batch.
OrdersAreOptimal ==
    LET waits(jobs) == FoldSeq(+, 0, [i \in DOMAIN jobs |-> FinishTick(jobs, i)])
        edf == RunOrder(batch, "edf")
        sjf == RunOrder(batch, "sjf")
        orders == {[i \in DOMAIN batch |-> batch[p[i]]] :
                      p \in {f \in [DOMAIN batch -> DOMAIN batch] : IsInjective(f)}}
    IN batch # <<>> => \A jobs \in orders :
          /\ MaxLateness(edf) <= MaxLateness(jobs)
          /\ waits(sjf) <= waits(jobs)
          /\ JobsLate(edf) = 0 <=> MaxLateness(edf) <= 0

\* sched/offline.py: no packer beats the floor, none overfills, and none leaves two
\* bins that one would have held; whatever the order.
BinsAreNeeded ==
    \A decreasing \in BOOLEAN :
        LET bins == Pack(packing.sizes, packing.rule, decreasing)
        IN /\ Len(bins) >= FloorBins(packing.sizes)
           /\ \A i \in DOMAIN bins : bins[i] <= BinSize
           /\ \A i, j \in DOMAIN bins : i # j => bins[i] + bins[j] > BinSize
           /\ ~decreasing => bins = packing.bins

\* sched/quota.py: "envy-free in shares while staying work-conserving": what a team
\* holds beyond its last task is no more than any team that still fits holds.
SharesAreFair ==
    /\ \A axis \in {1, 2} : UsedOn(axis) <= drf.capacity[axis]
    /\ \A t, u \in DOMAIN drf.shapes :
          drf.admitted[t] > 0 /\ TeamFits(u) => ShareAt(t, drf.admitted[t] - 1) <= DominantShare(u)

\* sched/queue.py: "the credit is what makes the weights hold for consumers of any
\* appetite": who takes fewer at a time is dealt the same, what one namespace is ahead
\* another is behind, and none is ever more than a turn behind for each of the others.
WeightsHold ==
    /\ \A count \in 0..Len(DealtFrom(lanes)) :
          DealtFrom(ServedFirst(lanes, count)) =
             SubSeq(DealtFrom(lanes), count + 1, Len(DealtFrom(lanes)))
    /\ FoldSeq(+, 0, lanes.credit) = 0
    /\ \A n \in DOMAIN Weights :
          lanes.credit[n] \in -Unit * (Len(Weights) - 1) .. Unit * (Len(Weights) - 1)

\* sched/explain.py "reruns the decision with the ledger open": it names the node the
\* scheduler picks.
ExplainerAgrees == \A k \in Kinds : Explained(k) = IF Feasible(k) = {} THEN 0 ELSE Picked(k)

\* sched/topology.py: "the skew cap keeps a zone from owning the service": only what
\* ends takes the skew anywhere over the cap.
SkewIsCapped ==
    [][hosted' # hosted /\ SkewOf(Tallies)' # SkewOf(Tallies) /\ SkewOf(Tallies)' > MaxSkew =>
          \E k \in Kinds, b \in BoxIds : TaskEnds(k, b)]_passVars

\* sched/cost.py: "what costs money is the node being on": the packer turns one on only
\* for a task no node that is on takes.
OpensLast ==
    [][scoring = "binpack" /\ hosted' # hosted /\ Bill' > Bill =>
          \E k \in Kinds : ScheduleTask(k) /\ \A b \in Feasible(k) : UsedOf(b) = 0]_passVars

\* federation.py: a workload is only sent where nodes are ready for it, and where its
\* region is.
SentWhereItFits ==
    [][sentTo' # sentTo => \A w \in DOMAIN Workloads :
          sentTo'[w] # sentTo[w] /\ Workloads[w].cpu > 0 =>
             /\ members[sentTo'[w]].up
             /\ members[sentTo'[w]].used + Workloads[w].cpu <= Federation[sentTo'[w]].cpu
             /\ Workloads[w].region \in {AnyRegion, Federation[sentTo'[w]].region}]_memberVars
=============================================================================
