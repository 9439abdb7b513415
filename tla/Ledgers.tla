------------------------------- MODULE Ledgers -------------------------------
(***************************************************************************)
(* Ledgers and the numbers read from them: outages (mtbf.py), availability *)
(* of tiers (redundancymath.py), advisories and who is past the fuse       *)
(* (patchcompliance.py), shipping and its failures (changefail.py), the    *)
(* comparison of answers (shadow.py), watts and grams (energy.py), the log *)
(* of refusals (admissionlog.py), the risk of a change (riskscore.py), the *)
(* bill of two weeks and who moved it (metering.py, costanomaly.py), how   *)
(* long tasks waited (schedlatency.py), the notes of the operators         *)
(* (notes.py), how far pins lag behind releases (libyear.py) and how much  *)
(* neighbours slow each other (interference.py).  They share no state.     *)
(***************************************************************************)
EXTENDS Integers, Sequences, FiniteSets, FiniteSetsExt, Functions, SequencesExt

CONSTANTS
    ObservedFrom, OutageTimes, MaxOutages,  \* MaxOutages: bound
    Singles, MaxReplicas, MaxTiers,         \* Singles: the availability of one, in quarters
    PatchHosts, Versions, Advisories, Fuse,      \* Advisories: name -> the versions it affects
    MaxAdvisoryAge,                                 \* bound on the age of an advisory
    Ships, ShipTimes,                       \* deploys of the delivery ledger
    RequestKinds, SampleCap, MaxMirrored,   \* MaxMirrored: bound
    Grams, DefaultGrams, CarbonTimes, MaxWindows,   \* CarbonTimes: first..last; MaxWindows: bound
    NodeSizes, IdleWatts,                   \* in units of work per watt
    Gates, Applicants, LogTimes, MaxRefusals,   \* MaxRefusals: bound
    LineCounts, MaxBlast, MaxIncidents,     \* bounds
    Billed, Usages, MaxBill,        \* namespaces; MaxBill: bound
    Queuers, Ranks, MaxBinds, LastWait,     \* tasks and priorities; the others: bounds
    Topics, Lifetimes, MaxNotes, LastPage,  \* MaxNotes, LastPage: bounds
    Packages, Tags, ReleaseTimes, MaxReleases, TailThreshold,   \* MaxReleases: bound
    NodeCpu, Requested, Uses, WorkUnit, LastShare   \* Requested: <<cpu>>; LastShare: bound

ASSUME LedgersAssumption ==
    /\ Singles \subseteq {1, 2, 3} /\ MaxReplicas \in Nat \ {0}
    /\ MaxAdvisoryAge \in Nat /\ Fuse \in [DOMAIN Advisories -> Nat]
    /\ \A a \in DOMAIN Advisories : Fuse[a] < MaxAdvisoryAge
    /\ LineCounts \subseteq Nat /\ MaxBlast \in Nat /\ MaxIncidents \in Nat
    /\ IsFiniteSet(Packages) /\ ReleaseTimes \subseteq Nat

Unfiled == -1

VARIABLES
    outages,    \* <<<<started, repaired>>>> by start
    tiers,      \* <<[single, count]>>
    versions,   \* [host -> version]
    published,  \* [advisory -> ticks since, or Unfiled]
    deploys,    \* [name -> [committed, shipped]] of those that shipped
    failures,   \* [name -> [noticed, restored]] of those that failed
    shadow,     \* [compared, agreed, wrong, samples]; wrong by kind
    calendar,   \* <<[starts, ends, grams]>>
    fleet,      \* [node -> [ready, used]]
    refusals,   \* <<[gate, task, tick]>>
    admitted,   \* [task -> tick], of those that were
    logTime,    \* the clock of the log
    reversals,  \* the refusals, by place, whose task was let in after
    change,     \* [lines, blast, friday, night, incidents]
    week, bill, \* the week that is metered; the cpu-ticks of each week by namespace
    queueing,   \* [task -> [since, band]] of those offered and not bound
    waits,      \* [band -> waits of those that were bound, in order]
    waited,     \* the ticks that tasks waited which were not abandoned
    releases, pins, \* [package -> <<[tag, at]>>]; [package -> tag] of those pinned
    tenants, shared, done,  \* <<[using, capped]>>; ticks; the work done, in units of WorkUnit
    notes, pages    \* <<[topic, written, expires]>>; [tick that is over -> what was live]

patchVars == <<versions, published>>
shippingVars == <<deploys, failures>>
logVars == <<refusals, admitted, logTime, reversals>>
billVars == <<week, bill>>
latencyVars == <<queueing, waits, waited>>
noteVars == <<notes, pages>>
pinVars == <<releases, pins>>
tenantVars == <<tenants, shared, done>>

-----------------------------------------------------------------------------
(* Outages *)

OutagesInit == outages = <<>>

Overlaps(a, b) == a[1] < b[2] /\ b[1] < a[2]

RecordOutage(started, repaired) ==
    /\ repaired > started /\ Len(outages) < MaxOutages
    /\ \A i \in DOMAIN outages : ~Overlaps(<<started, repaired>>, outages[i])
    /\ outages' = SortSeq(Append(outages, <<started, repaired>>), LAMBDA a, b : a[1] < b[1])

OutagesNext == \E started, repaired \in OutageTimes : RecordOutage(started, repaired)

TotalRepair == FoldSeq(LAMBDA o, sum : o[2] - o[1] + sum, 0, outages)
TotalBetween ==
    FoldSeq(+, 0, [i \in 1..(Len(outages) - 1) |-> outages[i + 1][1] - outages[i][2]])

\* Of the window from ObservedFrom until then; what began before it counts in full.
Downtime(until) ==
    FoldSeq(LAMBDA o, sum : sum + IF o[1] < until THEN Min({o[2], until}) - o[1] ELSE 0, 0, outages)

-----------------------------------------------------------------------------
(* Availability, as fractions *)

TiersInit == tiers = <<>>

AddTier(single) ==
    /\ Len(tiers) < MaxTiers
    /\ tiers' = Append(tiers, [single |-> single, count |-> 1])

AddReplica(i) == tiers[i].count < MaxReplicas /\ tiers' = [tiers EXCEPT ![i].count = @ + 1]

TiersNext == (\E single \in Singles : AddTier(single)) \/ \E i \in DOMAIN tiers : AddReplica(i)

UpOf(tier) == 4 ^ tier.count - (4 - tier.single) ^ tier.count
AllOf(tier) == 4 ^ tier.count

ProductOf(ts, what(_)) == FoldSeq(LAMBDA t, product : what(t) * product, 1, ts)
Topology(ts) == <<ProductOf(ts, UpOf), ProductOf(ts, AllOf)>>

LessThan(a, b) == a[1] * b[2] < b[1] * a[2]

Grown(i) == [tiers EXCEPT ![i].count = @ + 1]
BestMarginal ==
    Min({i \in DOMAIN tiers : \A j \in DOMAIN tiers : ~LessThan(Topology(Grown(i)), Topology(Grown(j)))})

-----------------------------------------------------------------------------
(* Advisories *)

PatchInit ==
    /\ versions \in [PatchHosts -> Versions]
    /\ published = [a \in DOMAIN Advisories |-> Unfiled]

HostRuns(h, v) == versions[h] # v /\ versions' = [versions EXCEPT ![h] = v] /\ UNCHANGED published

Publish(a) ==
    /\ published[a] = Unfiled
    /\ published' = [published EXCEPT ![a] = 0]
    /\ UNCHANGED versions

PatchTime ==
    /\ published' = [a \in DOMAIN published |->
                        IF published[a] = Unfiled THEN Unfiled ELSE Min({published[a] + 1, MaxAdvisoryAge})]
    /\ UNCHANGED versions

Exposed(a) == {h \in PatchHosts : versions[h] \in Advisories[a]}
ExposureTicks(a) == published[a] * Cardinality(Exposed(a))

Overdue(a) == published[a] - Fuse[a]

PastTheFuse ==
    UNION {Exposed(a) \X {a} : a \in {b \in DOMAIN published : published[b] # Unfiled /\ Overdue(b) > 0}}

PatchNext ==
    \/ \E h \in PatchHosts, v \in Versions : HostRuns(h, v)
    \/ \E a \in DOMAIN Advisories : Publish(a)
    \/ PatchTime

-----------------------------------------------------------------------------
(* Shipping *)

ShippingInit == deploys = <<>> /\ failures = <<>>

Shipped(name, committed, shipped) ==
    /\ name \notin DOMAIN deploys /\ committed <= shipped
    /\ deploys' = [n \in DOMAIN deploys \cup {name} |->
                      IF n = name THEN [committed |-> committed, shipped |-> shipped] ELSE deploys[n]]
    /\ UNCHANGED failures

\* One failure of a deploy is kept; it may be noticed before the deploy shipped.
Failed(name, noticed, restored) ==
    /\ name \in DOMAIN deploys \ DOMAIN failures /\ noticed < restored
    /\ failures' = [n \in DOMAIN failures \cup {name} |->
                       IF n = name THEN [noticed |-> noticed, restored |-> restored] ELSE failures[n]]
    /\ UNCHANGED deploys

ShippingNext ==
    \E name \in Ships, a, b \in ShipTimes : Shipped(name, a, b) \/ Failed(name, a, b)

LeadTime(n) == deploys[n].shipped - deploys[n].committed
LeadTimes(names) == MapThenSumSet(LeadTime, names)

\* Twice the median.
LeadTimeMedian2 ==
    LET times == SortSeq([i \in 1..Cardinality(DOMAIN deploys) |-> LeadTime(SetToSeq(DOMAIN deploys)[i])], <)
        middle == Len(times) \div 2
    IN IF Len(times) % 2 = 1 THEN 2 * times[middle + 1] ELSE times[middle] + times[middle + 1]

\* Of sums over e and l deploys: the later mean against the earlier one.
TrendOf(early, late, e, l) ==
    IF 4 * late * e > 5 * early * l THEN "slower" ELSE IF 5 * late * e < 4 * early * l THEN "faster" ELSE "steady"

Trend(split) ==
    LET early == {n \in DOMAIN deploys : deploys[n].shipped < split}
        late == DOMAIN deploys \ early
    IN IF early = {} \/ late = {} THEN "unknown"
       ELSE TrendOf(LeadTimes(early), LeadTimes(late), Cardinality(early), Cardinality(late))

-----------------------------------------------------------------------------
(* Answers compared *)

ShadowInit ==
    shadow = [compared |-> 0, agreed |-> 0, wrong |-> [k \in RequestKinds |-> 0], samples |-> 0]

Mirror(kind, same) ==
    /\ shadow.compared < MaxMirrored
    /\ shadow' =
          IF same THEN [shadow EXCEPT !.compared = @ + 1, !.agreed = @ + 1]
          ELSE [shadow EXCEPT !.compared = @ + 1, !.wrong[kind] = @ + 1,
                              !.samples = Min({@ + 1, SampleCap})]

\* Promoted at nine of ten, and with nothing compared.
PromotesShadow == 10 * shadow.agreed >= 9 * shadow.compared

-----------------------------------------------------------------------------
(* Grams and watts *)

CarbonInit == calendar = <<>>

AddCarbonWindow(starts, ends, grams) ==
    /\ starts < ends /\ Len(calendar) < MaxWindows
    /\ calendar' = Append(calendar, [starts |-> starts, ends |-> ends, grams |-> grams])

CarbonNext ==
    \E starts, ends \in CarbonTimes, grams \in Grams : AddCarbonWindow(starts, ends, grams)

\* The first window that holds the tick decides.
Intensity(t) ==
    LET holding == {i \in DOMAIN calendar : calendar[i].starts <= t /\ t < calendar[i].ends}
    IN IF holding = {} THEN DefaultGrams ELSE calendar[Min(holding)].grams

GramsOf(start, span) == MapThenSumSet(Intensity, start..(start + span - 1))

StartsInside(arrival, deadline, span) == arrival..(deadline - span)

Greenest(arrival, deadline, span) ==
    LET inside == StartsInside(arrival, deadline, span)
    IN Min({s \in inside : \A other \in inside : GramsOf(s, span) <= GramsOf(other, span)})

Saved(arrival, deadline, span) ==
    GramsOf(arrival, span) - GramsOf(Greenest(arrival, deadline, span), span)

FleetInit == fleet = [n \in DOMAIN NodeSizes |-> [ready |-> TRUE, used |-> 0]]

NodeChanges(n, ready, used) ==
    /\ used <= NodeSizes[n] /\ (ready \/ used <= fleet[n].used)
    /\ fleet' = [fleet EXCEPT ![n] = [ready |-> ready, used |-> used]]

FleetNext == \E n \in DOMAIN NodeSizes, ready \in BOOLEAN : \E used \in 0..NodeSizes[n] : NodeChanges(n, ready, used)

WorkDemand == MapThenSumSet(LAMBDA n : fleet[n].used, DOMAIN fleet)

\* A node that is not ready draws nothing unless it still holds work.
Drawing == {n \in DOMAIN fleet : fleet[n].used > 0 \/ fleet[n].ready}
FleetWatts == IdleWatts * Cardinality(Drawing) + WorkDemand

RanksBefore(n, m) == NodeSizes[n] > NodeSizes[m]

\* The ready nodes, filled in the order of their rank, as many as it takes.
PackedOnto ==
    LET ranked == SortSeq(SetToSeq({n \in DOMAIN fleet : fleet[n].ready}), RanksBefore)
        room(k) == FoldSeq(LAMBDA n, sum : NodeSizes[n] + sum, 0, SubSeq(ranked, 1, k))
        enough == {k \in 0..Len(ranked) : room(k) >= WorkDemand}
    IN IF enough = {} THEN Len(ranked) ELSE Min(enough)

ConsolidationSavings == FleetWatts - (IdleWatts * PackedOnto + WorkDemand)

-----------------------------------------------------------------------------
(* The log of refusals *)

LogbookInit == refusals = <<>> /\ admitted = <<>> /\ logTime = 0 /\ reversals = {}

RefuseTask(gate, task) ==
    /\ Len(refusals) < MaxRefusals
    /\ refusals' = Append(refusals, [gate |-> gate, task |-> task, tick |-> logTime])
    /\ UNCHANGED <<admitted, logTime, reversals>>

LetIn(task) ==
    /\ admitted' = [t \in DOMAIN admitted \cup {task} |-> IF t = task THEN logTime ELSE admitted[t]]
    /\ reversals' = reversals \cup {i \in DOMAIN refusals : refusals[i].task = task}
    /\ UNCHANGED <<refusals, logTime>>

LogTick == logTime + 1 \in LogTimes /\ logTime' = logTime + 1 /\ UNCHANGED <<refusals, admitted, reversals>>

LogbookNext ==
    \/ \E gate \in Gates, task \in Applicants : RefuseTask(gate, task)
    \/ \E task \in Applicants : LetIn(task)
    \/ LogTick

IsReversed(i) ==
    refusals[i].task \in DOMAIN admitted /\ admitted[refusals[i].task] > refusals[i].tick

ByGate(gate) ==
    LET its == {i \in DOMAIN refusals : refusals[i].gate = gate}
    IN [refusals |-> Cardinality(its), reversed |-> Cardinality({i \in its : IsReversed(i)})]

-----------------------------------------------------------------------------
(* The risk of a change *)

RiskInit == change = [lines |-> 0, blast |-> 0, friday |-> FALSE, night |-> FALSE, incidents |-> 0]

ReviseChange(lines, blast, friday, night, incidents) ==
    change' = [lines |-> lines, blast |-> blast, friday |-> friday, night |-> night,
               incidents |-> incidents]

RiskNext ==
    \E lines \in LineCounts, blast \in 0..MaxBlast, friday, night \in BOOLEAN,
       incidents \in 0..MaxIncidents : ReviseChange(lines, blast, friday, night, incidents)

BlastPoints(blast) == IF blast >= 5 THEN 3 ELSE IF blast >= 2 THEN 2 ELSE blast

RiskScore(c) ==
    Cardinality({bar \in {10, 100, 500} : c.lines > bar}) + BlastPoints(c.blast)
      + 2 * (Cardinality({day \in {"friday"} : c.friday}) + Cardinality({hour \in {"night"} : c.night})
               + c.incidents)

Band(c) == Cardinality({bar \in {3, 5, 8} : RiskScore(c) >= bar})

\* Of the four bands: what is asked beside or instead of the pipeline.
Requirements(c) ==
    <<{"pipeline"}, {"pipeline", "reviewer"}, {"canary", "reviewer", "owner"},
      {"canary", "reviewer", "owner", "glass"}>>[Band(c) + 1]

-----------------------------------------------------------------------------
(* The bill.  Who spent nothing is not on it.                              *)

BillInit == week = 1 /\ bill = [w \in 1..2 |-> [n \in Billed |-> 0]]

\* What runs is metered; running: the cpu that runs for each namespace.
SampleMeter(running) ==
    /\ bill' = [bill EXCEPT ![week] = [n \in Billed |-> @[n] + running[n]]]
    /\ \A n \in Billed : bill'[week][n] <= MaxBill
    /\ UNCHANGED week

NextWeek == week = 1 /\ week' = 2 /\ UNCHANGED bill

BillNext == NextWeek \/ \E running \in [Billed -> Usages] : SampleMeter(running)

Magnitude(n) == IF n < 0 THEN -n ELSE n
MoveOf(n) == bill[2][n] - bill[1][n]

\* From nothing, to nothing, or by a quarter.
Anomalies ==
    {n \in Billed : \/ bill[1][n] = 0 /\ bill[2][n] > 0
                    \/ bill[1][n] > 0 /\ 4 * Magnitude(MoveOf(n)) >= bill[1][n]}

BillOf(w) == SumFunction(bill[w])
Growth == BillOf(2) - BillOf(1)

\* Whose share of the growth is told.
Attributed ==
    IF BillOf(1) = 0 \/ Growth = 0 THEN {} ELSE {n \in Billed : MoveOf(n) # 0}

-----------------------------------------------------------------------------
(* Waiting.  Of the clock only the age of an offer is kept.                *)

BandFloors == [system |-> 10000, critical |-> 1000, normal |-> 100, batch |-> 10, scavenger |-> 0]

\* The band with the highest floor that the priority reaches.
BandOf(priority) ==
    LET reached == {b \in DOMAIN BandFloors : BandFloors[b] <= priority}
    IN IF reached = {} THEN "scavenger"
       ELSE CHOOSE b \in reached : \A c \in reached : BandFloors[c] <= BandFloors[b]

LatencyInit ==
    queueing = <<>> /\ waits = [b \in DOMAIN BandFloors |-> <<>>] /\ waited = 0

\* An offer of what is offered already changes nothing.
OfferToQueue(t, priority) ==
    /\ t \notin DOMAIN queueing
    /\ queueing' = (t :> [since |-> 0, band |-> BandOf(priority)]) @@ queueing
    /\ UNCHANGED <<waits, waited>>

Leaves(t) == queueing' = RestrictDomain(queueing, LAMBDA other : other # t)

BindOffered(t) ==
    /\ t \in DOMAIN queueing
    /\ SumFunction([b \in DOMAIN waits |-> Len(waits[b])]) < MaxBinds
    /\ Leaves(t)
    /\ waits' = [waits EXCEPT ![queueing[t].band] = SortSeq(Append(@, queueing[t].since), <)]
    /\ UNCHANGED waited

AbandonOffer(t) ==
    /\ t \in DOMAIN queueing
    /\ Leaves(t)
    /\ waited' = waited - queueing[t].since
    /\ UNCHANGED waits

LatencyTick ==
    /\ \A t \in DOMAIN queueing : queueing[t].since < LastWait
    /\ queueing # <<>>
    /\ queueing' = [t \in DOMAIN queueing |-> [queueing[t] EXCEPT !.since = @ + 1]]
    /\ waited' = waited + Cardinality(DOMAIN queueing)
    /\ UNCHANGED waits

LatencyNext ==
    \/ LatencyTick
    \/ \E t \in Queuers : BindOffered(t) \/ AbandonOffer(t)
                          \/ \E priority \in Ranks : OfferToQueue(t, priority)

\* The place of a percentile among n, rounded half up.
PlaceOf(percent, n) == 1 + (percent * (n - 1) + 50) \div 100
WaitAt(percent, band) == waits[band][PlaceOf(percent, Len(waits[band]))]

-----------------------------------------------------------------------------
(* Pins                                                                    *)

PinsInit == releases = [p \in Packages |-> <<>>] /\ pins = <<>>

ReleaseTag(p, tag, at) ==
    /\ SumFunction([q \in Packages |-> Len(releases[q])]) < MaxReleases
    /\ releases[p] # <<>> => at >= Last(releases[p]).at
    /\ releases' = [releases EXCEPT ![p] = Append(@, [tag |-> tag, at |-> at])]
    /\ UNCHANGED pins

PinTo(p, tag) ==
    /\ pins' = [q \in DOMAIN pins \cup {p} |-> IF q = p THEN tag ELSE pins[q]]
    /\ UNCHANGED releases

PinsNext ==
    \E p \in Packages, tag \in Tags :
        PinTo(p, tag) \/ \E at \in ReleaseTimes : ReleaseTag(p, tag, at)

ReleasesOf(p, tag) == {i \in DOMAIN releases[p] : releases[p][i].tag = tag}

\* What was released twice has the later stamp.
AgeBehind(p, tag) == Last(releases[p]).at - releases[p][Max(ReleasesOf(p, tag))].at

\* A pin to what was never released has no age, and then nothing is scored.
Scored == \A p \in DOMAIN pins : ReleasesOf(p, pins[p]) # {}
Libyears == [p \in DOMAIN pins |-> AgeBehind(p, pins[p])]
TailOf(ages) == {p \in DOMAIN ages : ages[p] >= TailThreshold}
HeadAndTail ==
    LET tail == TailOf(Libyears)
    IN <<SumFunction(Restrict(Libyears, DOMAIN pins \ tail)), SumFunction(Restrict(Libyears, tail))>>

-----------------------------------------------------------------------------
(* Neighbours                                                              *)

NeighboursInit ==
    /\ tenants = [t \in DOMAIN Requested |-> [using |-> Requested[t], capped |-> FALSE]]
    /\ shared = 0 /\ done = [t \in DOMAIN Requested |-> 0]

DemandOf(ts, t) == IF ts[t].capped THEN Min({ts[t].using, Requested[t]}) ELSE ts[t].using
TotalDemand(ts) == SumFunction([t \in DOMAIN ts |-> DemandOf(ts, t)])

\* Capacity over demand, as a fraction, when the demand is above.
Slowdown(ts) == IF TotalDemand(ts) <= NodeCpu THEN <<1, 1>> ELSE <<NodeCpu, TotalDemand(ts)>>

ShareTick ==
    /\ shared < LastShare /\ shared' = shared + 1
    /\ LET factor == Slowdown(tenants)
       IN done' = [t \in DOMAIN done |->
                      done[t] + (DemandOf(tenants, t) * WorkUnit * factor[1]) \div factor[2]]
    /\ UNCHANGED tenants

ChangeUse(t, amount) == tenants' = [tenants EXCEPT ![t].using = amount] /\ UNCHANGED <<shared, done>>
CapTenant(t) == tenants' = [tenants EXCEPT ![t].capped = TRUE] /\ UNCHANGED <<shared, done>>

NeighboursNext ==
    \/ ShareTick
    \/ \E t \in DOMAIN Requested : CapTenant(t) \/ \E amount \in Uses : ChangeUse(t, amount)

-----------------------------------------------------------------------------
(* Notes.  A page is what was live when a tick was over.                   *)

NotesInit == notes = <<>> /\ pages = <<>>

Today == Len(pages)

PinNote(topic, ttl) ==
    /\ Len(notes) < MaxNotes
    /\ notes' = Append(notes, [topic |-> topic, written |-> Today, expires |-> Today + ttl])
    /\ UNCHANGED pages

NotesAbout(topic) == {i \in DOMAIN notes : notes[i].topic = topic /\ Today < notes[i].expires}

BelievedAt(topic, when) ==
    {i \in DOMAIN notes : /\ notes[i].topic = topic
                          /\ notes[i].written <= when /\ when < notes[i].expires}

TurnPage ==
    /\ Today < LastPage
    /\ pages' = Append(pages, [topic \in Topics |-> NotesAbout(topic)])
    /\ UNCHANGED notes

NotesNext == TurnPage \/ \E topic \in Topics, ttl \in Lifetimes : PinNote(topic, ttl)

-----------------------------------------------------------------------------
(* Properties *)

\* mtbf.py: "a thing cannot break twice before being fixed once": whatever the order the
\* outages come in, no gap is negative, and if none began before the ledger observed,
\* what is down until then is counted tick by tick, once.
OutagesAreApart ==
    /\ \A i \in 1..(Len(outages) - 1) : outages[i][2] <= outages[i + 1][1]
    /\ Len(outages) > 1 =>
          TotalRepair + TotalBetween = outages[Len(outages)][2] - outages[1][1]
    /\ \A until \in OutageTimes :
          until > ObservedFrom /\ (\A i \in DOMAIN outages : outages[i][1] >= ObservedFrom) =>
             Downtime(until) = Cardinality({t \in ObservedFrom..(until - 1) :
                                  \E i \in DOMAIN outages : outages[i][1] <= t /\ t < outages[i][2]})

\* redundancymath.py: a chain is worse than its weakest link, and the best next replica
\* is at the tier whose own availability grows by the largest factor.
ChainsAreWeak ==
    \A i \in DOMAIN tiers :
        LET link(j) == <<UpOf(tiers[j]), AllOf(tiers[j])>>
            factor(j) == <<UpOf(Grown(j)[j]) * AllOf(tiers[j]), AllOf(Grown(j)[j]) * UpOf(tiers[j])>>
        IN /\ ~LessThan(link(i), Topology(tiers))
           /\ LessThan(Topology(tiers), Topology(Grown(i)))
           /\ ~LessThan(factor(BestMarginal), factor(i))

\* patchcompliance.py: "Patching a node stops its meter; nothing else does": who is past
\* the fuse stays so until it runs another version.
OnlyPatchingClears ==
    [][\A row \in PastTheFuse \ PastTheFuse' : versions'[row[1]] # versions[row[1]]]_patchVars

\* ... and nobody is there before there was time to patch.
FuseIsGranted ==
    \A row \in PastTheFuse : published[row[2]] > Fuse[row[2]] /\ ExposureTicks(row[2]) > Fuse[row[2]]

\* changefail.py: the median lies within what was seen, "slower" is not said when no
\* later deploy took longer than an earlier one, nor "faster" when none took less.
ShippingIsTold ==
    /\ DOMAIN failures \subseteq DOMAIN deploys
    /\ deploys # <<>> =>
          /\ \E n \in DOMAIN deploys : LeadTimeMedian2 >= 2 * LeadTime(n)
          /\ \E n \in DOMAIN deploys : LeadTimeMedian2 <= 2 * LeadTime(n)
    /\ \A split \in ShipTimes :
          LET early == {n \in DOMAIN deploys : deploys[n].shipped < split}
          IN /\ Trend(split) = "slower" =>
                   \E n \in early, m \in DOMAIN deploys \ early : LeadTime(m) > LeadTime(n)
             /\ Trend(split) = "faster" =>
                   \E n \in early, m \in DOMAIN deploys \ early : LeadTime(m) < LeadTime(n)

\* shadow.py "counts disagreements by kind": each answer is counted once, and no
\* candidate is promoted over more than one wrong answer in ten.
AnswersAreCounted ==
    LET wrong == SumFunction(shadow.wrong)
    IN /\ shadow.agreed + wrong = shadow.compared
       /\ shadow.samples = Min({wrong, SampleCap})
       /\ PromotesShadow <=> 10 * wrong <= shadow.compared

\* energy.py "only matters if the grams moved with it": work that may wait is done in
\* time, saves no less the longer it may wait, and never costs more than doing it now.
WaitingNeverCosts ==
    \A arrival, deadline \in CarbonTimes : \A span \in 1..(deadline - arrival) :
        LET start == Greenest(arrival, deadline, span)
        IN /\ arrival <= start /\ start + span <= deadline
           /\ Saved(arrival, deadline, span) >= 0
           /\ deadline - 1 - arrival >= span =>
                 Saved(arrival, deadline, span) >= Saved(arrival, deadline - 1, span)

\* energy.py "Watts saved if every task were packed onto the fewest nodes": what is said
\* to be saved is never a loss and is a floor for each node beyond the fewest ready
\* ones that could hold the work, if any could.
SavingsAreReal ==
    LET ready == {n \in DOMAIN fleet : fleet[n].ready}
        holding == {ns \in SUBSET ready : MapThenSumSet(LAMBDA n : NodeSizes[n], ns) >= WorkDemand}
        fewest == IF holding = {} THEN Cardinality(ready) ELSE Min({Cardinality(ns) : ns \in holding})
    IN /\ ConsolidationSavings = IdleWatts * (Cardinality(Drawing) - fewest)
       /\ ConsolidationSavings >= 0

\* admissionlog.py "the ratio of its refusals to its reversals": a refusal is held
\* against its gate only when the task did get in after it.
ReversalsHappened ==
    \A i \in DOMAIN refusals : IsReversed(i) => i \in reversals

\* ... and once held against it, it stays so.
ReversalsAreKept == [][\A gate \in Gates : ByGate(gate)'.reversed >= ByGate(gate).reversed]_logVars

\* riskscore.py "match the blast radius": a change that is riskier in every respect is
\* in no lower band, and nothing but the plain pipeline is asked of the lower one alone.
RiskNeverSinks ==
    [][ /\ change.lines <= change'.lines /\ change.blast <= change'.blast
        /\ (change.friday => change'.friday) /\ (change.night => change'.night)
        /\ change.incidents <= change'.incidents
      => /\ Band(change) <= Band(change')
         /\ Requirements(change) \subseteq Requirements(change') \cup {"pipeline"}]_change

\* costanomaly.py: "the page says which team moved it": if the bill moves by a
\* quarter, somebody who moved it that way is named, and the shares that are told
\* add up to all of the move.
MoversAreNamed ==
    BillOf(1) > 0 =>
        /\ 4 * Magnitude(Growth) >= BillOf(1) => \E n \in Anomalies : MoveOf(n) * Growth > 0
        /\ Attributed # {} => MapThenSumSet(MoveOf, Attributed) = Growth

\* schedlatency.py "reported as still-waiting with their age, not dropped": the ticks
\* that tasks waited are all told, as waits of the bound or as ages of the others; at
\* least half of a band waited no longer than its p50, nobody longer than its worst.
WaitsAreTold ==
    /\ waited = FoldFunction(LAMBDA ws, sum : FoldSeq(+, 0, ws) + sum, 0, waits)
                  + FoldFunction(LAMBDA offer, sum : offer.since + sum, 0, queueing)
    /\ \A b \in DOMAIN waits : waits[b] # <<>> =>
          LET shorter == {i \in DOMAIN waits[b] : waits[b][i] <= WaitAt(50, b)}
              longer == {i \in DOMAIN waits[b] : waits[b][i] >= WaitAt(50, b)}
          IN /\ 2 * Cardinality(shorter) >= Len(waits[b]) /\ 2 * Cardinality(longer) >= Len(waits[b])
             /\ WaitAt(50, b) <= WaitAt(95, b) /\ WaitAt(95, b) <= Last(waits[b])

\* notes.py "what the on-call believed at the time": the review reads of any tick what
\* the pages showed then, whatever has expired or was pinned since.
BeliefsAreKept ==
    /\ \A k \in DOMAIN pages, topic \in Topics : BelievedAt(topic, k - 1) = pages[k][topic]
    /\ \A topic \in Topics : BelievedAt(topic, Today) = NotesAbout(topic)

\* libyear.py "the time between the version you run and the newest": while all pins
\* are scored before and after, the total falls only by a pin that moved, or as a
\* pinned version came out again; and each year is told as head or as tail.
FreshnessIsEarned ==
    [][LET total == SumFunction(Libyears)
       IN /\ Scored => HeadAndTail[1] + HeadAndTail[2] = total
          /\ Scored /\ Scored' /\ HeadAndTail'[1] + HeadAndTail'[2] < total =>
                \/ pins' # pins
                \/ \E p \in DOMAIN pins : Last(releases'[p]).tag = pins[p]]_pinVars

\* interference.py "cap the noisy tenant at its request ... and what each one costs
\* whom": a cap slows nobody else, requests that fit are served in full once all are
\* capped, and no more work was done than the node has.
CapsCostTheCapped ==
    /\ \A t \in DOMAIN tenants :
          LET before == Slowdown(tenants)
              after == Slowdown([tenants EXCEPT ![t].capped = TRUE])
          IN before[1] * after[2] <= after[1] * before[2]
    /\ (\A t \in DOMAIN tenants : tenants[t].capped) /\ SumFunction(Requested) <= NodeCpu
          => Slowdown(tenants) = <<1, 1>>
    /\ SumFunction(done) <= shared * NodeCpu * WorkUnit
=============================================================================
