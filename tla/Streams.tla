------------------------------ MODULE Streams ------------------------------
(***************************************************************************)
(* Ranges, rings, windows and pools under a stream of events: shards that  *)
(* split and merge (autosplit.py, trials/splitcalm.py), the hash ring      *)
(* (shardmap.py), windows closed by a watermark (watermarks.py), addresses *)
(* that cool before they are used again (allocator.py,                     *)
(* trials/staleaddress.py) and samples that are folded (rollup.py).  They  *)
(* share no state.                                                         *)
(***************************************************************************)
EXTENDS Integers, Sequences, FiniteSets, FiniteSetsExt, Functions, SequencesExt

CONSTANTS
    KeySpan, StartShards,
    ShardLoads, Dwell, MoveLimit,               \* of the splitter
    RingNodes, LastSpot, PointsPerNode,         \* the hash gives 0..LastSpot
    WindowSize, LateAllowance, EventTimes,
    MaxEvents,                                  \* bound: events accepted
    Pool, FlightTime, Cooldowns,
    RungCapacity, RungFactor, RungCount,
    MaxSamples, MaxSpikes                       \* bounds: samples, and spikes among them

ASSUME StreamsAssumption ==
    /\ StartShards \in Nat \ {0} /\ KeySpan \in Nat \ {0} /\ KeySpan % StartShards = 0
    /\ ShardLoads \subseteq Nat /\ Dwell \in Nat /\ PointsPerNode \in Nat \ {0}
    /\ WindowSize \in Nat \ {0} /\ LateAllowance \in Nat /\ EventTimes \subseteq Nat
    /\ RungCapacity \in Nat \ {0} /\ RungFactor \in Nat \ {0} /\ RungCount \in Nat \ {0}

VARIABLES
    shards,         \* <<[low, high, load, hot, cold]>>, the last two in ticks, or Unmarked
    heat, calm,     \* [low key -> ticks in a row its shard was hot], [boundary -> cold]
    ring, spots,    \* the nodes on the ring, [node -> where its points are]
    watermark, latest, windows, late, accepted,     \* late: the policy and the events
    pool,           \* [free, cooling, held, cooldown]
    mail, astray,   \* messages in flight, and whether one reached a stranger
    rungs, samples, foldedAway

shardVars == <<shards, heat, calm>>
ringVars == <<ring, spots>>
streamVars == <<watermark, latest, windows, late, accepted>>
addressVars == <<pool, mail, astray>>
rollupVars == <<rungs, samples, foldedAway>>

-----------------------------------------------------------------------------
(* Shards                                                                  *)

Unmarked == -1
Shard(low, high, load) == [low |-> low, high |-> high, load |-> load,
                           hot |-> Unmarked, cold |-> Unmarked]
Aged(mark) == IF mark = Unmarked THEN Unmarked ELSE Min({mark + 1, Dwell})

ShardsInit ==
    /\ shards = [i \in 1..StartShards |-> Shard((i - 1) * (KeySpan \div StartShards),
                                                i * (KeySpan \div StartShards), 0)]
    /\ heat = [k \in 0..(KeySpan - 1) |-> 0]
    /\ calm = [k \in 1..(KeySpan - 1) |-> 0]

MeanLoad(all) == [total |-> SumFunction([i \in DOMAIN all |-> all[i].load]), count |-> Len(all)]

\* More than double the mean; together under half of it.
IsHot(s, mean) == s.load * mean.count > 2 * mean.total /\ s.high - s.low > 1
AreCold(l, r, mean) == 2 * (l.load + r.load) * mean.count < mean.total

\* What becomes of a shard: marked, kept, unmarked or split at its middle.
SplitUp(s, mean) ==
    LET middle == (s.low + s.high) \div 2
        half == s.load \div 2
    IN IF ~IsHot(s, mean) THEN <<[s EXCEPT !.hot = Unmarked]>>
       ELSE IF s.hot = Unmarked THEN <<[s EXCEPT !.hot = 0]>>
       ELSE IF s.hot < Dwell \/ half > MoveLimit THEN <<s>>
       ELSE <<Shard(s.low, middle, half), Shard(middle, s.high, half)>>

\* The next shard beside the last of those already looked at.
MergeInto(done, right, mean) ==
    LET left == Last(done)
        waits(l) == Append(Front(done) \o <<l>>, right)
    IN IF ~AreCold(left, right, mean) THEN waits([left EXCEPT !.cold = Unmarked])
       ELSE IF left.cold = Unmarked THEN waits([left EXCEPT !.cold = 0])
       ELSE IF left.cold < Dwell \/ Min({left.load, right.load}) > MoveLimit THEN waits(left)
       ELSE Append(Front(done), Shard(left.low, right.high, left.load + right.load))

\* One observation, a tick after the last.  The mean is that before the splits.
\* No load outlives it: the next one brings its own.
ObserveShards(loads) ==
    \E seen \in {[i \in DOMAIN shards |->
                    [shards[i] EXCEPT !.load = loads[i], !.hot = Aged(@), !.cold = Aged(@)]]} :
    LET mean == MeanLoad(seen)
        split == FlattenSeq([i \in DOMAIN seen |-> SplitUp(seen[i], mean)])
    IN /\ \E merged \in {FoldLeft(LAMBDA done, s : MergeInto(done, s, mean), <<split[1]>>, Tail(split))} :
             shards' = [i \in DOMAIN merged |-> [merged[i] EXCEPT !.load = 0]]
       /\ heat' = [k \in DOMAIN heat |->
              IF \E i \in DOMAIN seen : seen[i].low = k /\ IsHot(seen[i], mean)
              THEN Min({heat[k] + 1, Dwell + 1}) ELSE 0]
       /\ calm' = [k \in DOMAIN calm |->
              IF \E i \in 1..(Len(seen) - 1) :
                    seen[i].high = k /\ AreCold(seen[i], seen[i + 1], mean)
              THEN Min({calm[k] + 1, Dwell + 1}) ELSE 0]

ShardsNext == \E loads \in [DOMAIN shards -> ShardLoads] : ObserveShards(loads)

-----------------------------------------------------------------------------
(* The ring.  Points of two nodes may collide.                             *)

Spots == 0..LastSpot
RingInit == ring = {} /\ spots \in [1..RingNodes -> kSubset(PointsPerNode, Spots)]

AddToRing(n) == n \notin ring /\ ring' = ring \union {n} /\ UNCHANGED spots
RemoveFromRing(n) == n \in ring /\ ring' = ring \ {n} /\ UNCHANGED spots

\* The points in order: by position, at one position by name.
PointsOf(on) ==
    LET all == [k \in 1..(LastSpot + 1) * RingNodes |->
                   <<(k - 1) \div RingNodes, 1 + ((k - 1) % RingNodes)>>]
    IN SelectSeq(all, LAMBDA p : p[2] \in on /\ p[1] \in spots[p[2]])

OwnerOn(on, key) ==
    LET points == PointsOf(on)
        search[low \in 0..Len(points), high \in 0..Len(points)] ==
            LET middle == (low + high) \div 2
            IN IF low = high THEN low
               ELSE IF points[middle + 1][1] < key THEN search[middle + 1, high]
               ELSE search[low, middle]
        found == search[0, Len(points)]
    IN points[IF found = Len(points) THEN 1 ELSE found + 1][2]

RingNext == \E n \in 1..RingNodes : AddToRing(n) \/ RemoveFromRing(n)

-----------------------------------------------------------------------------
(* Windows.  Every event counts one.                                       *)

Unopened == [events |-> 0, closed |-> FALSE, reported |-> 0, corrections |-> 0, born |-> FALSE]
WindowOf(t) == t - (t % WindowSize)
WindowStarts == {WindowOf(t) : t \in EventTimes}

StreamInit ==
    /\ watermark = -1 /\ latest = -1
    /\ windows = [w \in WindowStarts |-> Unopened]
    /\ late \in [policy : {"drop", "correct"}, dropped : {0}]
    /\ accepted = 0

\* An event in its window; the window of a late one may be new and open still.
Counted(t) ==
    [windows EXCEPT ![WindowOf(t)] =
        [@ EXCEPT !.events = @ + 1, !.born = TRUE,
                  !.corrections = @ + IF windows[WindowOf(t)].closed THEN 1 ELSE 0]]

\* Those that the watermark has passed are closed with the total of the moment.
ClosedUpTo(mark, all) ==
    [w \in WindowStarts |->
        IF all[w].born /\ ~all[w].closed /\ mark >= w + WindowSize
        THEN [all[w] EXCEPT !.closed = TRUE, !.reported = all[w].events] ELSE all[w]]

Advanced(t) == Max({watermark, Max({latest, t}) - LateAllowance})

AcceptEvent(t) ==
    /\ accepted < MaxEvents
    /\ accepted' = accepted + 1
    /\ IF t < watermark
       THEN /\ IF late.policy = "drop"
               THEN late' = [late EXCEPT !.dropped = @ + 1] /\ UNCHANGED windows
               ELSE windows' = Counted(t) /\ UNCHANGED late
            /\ UNCHANGED <<watermark, latest>>
       ELSE /\ latest' = Max({latest, t})
            /\ watermark' = Advanced(t)
            /\ windows' = ClosedUpTo(Advanced(t), Counted(t))
            /\ UNCHANGED late

-----------------------------------------------------------------------------
(* Addresses.  A message is of the tenant that holds its address, or its   *)
(* tenant has left.                                                        *)

AllocatorInit ==
    /\ pool \in [free : {SetToSortSeq(Pool, <)}, cooling : {<<>>}, held : {{}},
                 cooldown : Cooldowns]
    /\ mail = {} /\ astray = FALSE

Cooled == {a \in DOMAIN pool.cooling : pool.cooling[a] <= 0}

\* What is cooled returns to the queue; its head goes to a new tenant.
Allocated(wanted) ==
    LET free == pool.free \o SetToSortSeq(Cooled, <)
        kept == [pool EXCEPT !.free = free,
                             !.cooling = Restrict(@, DOMAIN @ \ Cooled)]
    IN IF ~wanted THEN pool
       ELSE IF free = <<>> THEN kept
       ELSE [kept EXCEPT !.free = Tail(free), !.held = @ \union {Head(free)}]

\* Addresses that are given back cool, or are free at once.
ReleasedFrom(p, leaving) ==
    IF p.cooldown = 0
    THEN [p EXCEPT !.held = @ \ leaving, !.free = @ \o SetToSortSeq(leaving, <)]
    ELSE [p EXCEPT !.held = @ \ leaving,
                   !.cooling = [a \in DOMAIN @ \union leaving |->
                                   IF a \in leaving THEN p.cooldown ELSE p.cooling[a]]]

Later(p) == [p EXCEPT !.cooling = [a \in DOMAIN @ |-> Max({0, @[a] - 1})]]

\* A tick: perhaps a tenant comes and sends, some leave with a parting message,
\* and what is due arrives.
AddressTick(wanted, leaving) ==
    LET come == Allocated(wanted)
        sent == mail \union {[to |-> a, in |-> FlightTime, own |-> TRUE] :
                                a \in (come.held \ pool.held) \union leaving}
        orphaned == {[m EXCEPT !.own = m.own /\ m.to \notin leaving] : m \in sent}
        left == ReleasedFrom(come, leaving)
    IN /\ leaving \subseteq come.held
       /\ pool' = Later(left)
       /\ astray' = (astray \/ \E m \in orphaned : m.in <= 0 /\ m.to \in left.held /\ ~m.own)
       /\ mail' = {[m EXCEPT !.in = @ - 1] : m \in {n \in orphaned : n.in > 0}}

AllocatorNext == \E wanted \in BOOLEAN, leaving \in SUBSET Pool : AddressTick(wanted, leaving)

-----------------------------------------------------------------------------
(* Samples that are folded.  A value is 1, a spike, or 0.                  *)

RollupInit ==
    /\ rungs = [r \in 1..RungCount |-> <<>>]
    /\ samples = [count |-> 0, spikes |-> 0]
    /\ foldedAway = [weight |-> 0, spikes |-> FALSE]

Weight(points) == FoldSeq(LAMBDA p, n : p.weight + n, 0, points)

Folded(points) == [high |-> Max({p.high : p \in Range(points)}), weight |-> Weight(points)]

\* What rung r holds, and hands on, when the points of new come to it: the oldest
\* that are a batch too many, folded, or from the last rung what is too much.
Taken(r, new) ==
    LET all == rungs[r] \o new
        keeps(n) == [points |-> SubSeq(all, n + 1, Len(all)), on |-> SubSeq(all, 1, n)]
    IN IF Len(all) <= RungCapacity THEN keeps(0)
       ELSE IF r = RungCount THEN keeps(1)
       ELSE IF Len(all) < RungCapacity + RungFactor THEN keeps(0)
       ELSE LET batch == keeps(RungFactor)
            IN [batch EXCEPT !.on = <<Folded(batch.on)>>]

Record(high) ==
    LET taken[r \in 0..RungCount] ==
            IF r = 0 THEN [points |-> <<>>, on |-> <<[high |-> high, weight |-> 1]>>]
            ELSE Taken(r, taken[r - 1].on)
        lost == taken[RungCount].on
    IN /\ samples.count < MaxSamples /\ samples.spikes + high <= MaxSpikes
       /\ rungs' = [r \in 1..RungCount |-> taken[r].points]
       /\ samples' = [count |-> samples.count + 1, spikes |-> samples.spikes + high]
       /\ foldedAway' = [weight |-> foldedAway.weight + Weight(lost),
                         spikes |-> foldedAway.spikes \/ \E p \in Range(lost) : p.high = 1]

-----------------------------------------------------------------------------
(* Properties *)

\* autosplit.py: whatever splits and merges one observation brings, the shards
\* are the key range, each key in one of them.
KeysAreCovered ==
    /\ shards[1].low = 0 /\ Last(shards).high = KeySpan
    /\ \A i \in DOMAIN shards :
          /\ shards[i].low < shards[i].high
          /\ i > 1 => shards[i].low = shards[i - 1].high

\* autosplit.py:9-11, "a spike splits nothing and a lull merges nothing": the range
\* that splits was hot, and the border that goes lay between cold shards, in every
\* observation of the dwell
\* (a border may be marked an observation early, when a split halves an odd load).
ActsAfterDwell ==
    [][LET borders(all) == {all[i].low : i \in DOMAIN all} \ {0}
       IN /\ \A i \in DOMAIN shards :
                (\E k \in borders(shards') : shards[i].low < k /\ k < shards[i].high)
                    => heat'[shards[i].low] > Dwell
          /\ \A k \in borders(shards) \ borders(shards') : calm'[k] >= Dwell]_shardVars

\* shardmap.py: the search finds the first point clockwise, and a node that comes
\* or goes moves no key but to it, or from it.
OnlyItsSlice ==
    LET owner(on) == [key \in Spots |-> OwnerOn(on, key)]
        ahead(key, at) == IF at >= key THEN at - key ELSE at - key + 2 * LastSpot
    IN /\ ring # {} => \A key \in Spots :
             \E at \in spots[OwnerOn(ring, key)] :
                \A n \in ring : \A other \in spots[n] : ahead(key, at) <= ahead(key, other)
       /\ \A n \in (1..RingNodes) \ ring :
             ring # {} => \A key \in Spots :
                owner(ring \union {n})[key] \in {n, owner(ring)[key]}

\* watermarks.py: a closed total changes by corrections only, and by none where
\* late events are dropped; no event is lost; what the watermark has passed is
\* closed, but for a window that only late events opened since.
ClosedIsClosed ==
    /\ \A w \in WindowStarts :
          /\ windows[w].closed => /\ watermark >= w + WindowSize
                                  /\ windows[w].events = windows[w].reported + windows[w].corrections
          /\ windows[w].born /\ ~windows[w].closed /\ watermark >= w + WindowSize
                => late.policy = "correct"
    /\ SumFunction([w \in WindowStarts |-> windows[w].events]) + late.dropped = accepted
    /\ late.policy = "drop" => \A w \in WindowStarts : windows[w].corrections = 0
NeverRetreats == [][watermark' >= watermark]_streamVars

\* trials/staleaddress.py: with a cooldown "one tick past the flight time" no
\* message reaches a stranger; and no address is lost or in two places.
NothingAstray ==
    /\ pool.cooldown > FlightTime => ~astray
    /\ Len(pool.free) + Cardinality(DOMAIN pool.cooling) + Cardinality(pool.held) = Cardinality(Pool)
    /\ Range(pool.free) \union DOMAIN pool.cooling \union pool.held = Pool

\* rollup.py: "the spike that pages is precisely the point a mean-only rollup
\* erases": it is in a rung until its point falls off the last; every sample is
\* counted in one point; the rungs are bounded.
SpikeSurvives ==
    /\ samples.spikes > 0 =>
          foldedAway.spikes \/ \E r \in 1..RungCount : \E p \in Range(rungs[r]) : p.high = 1
    /\ foldedAway.weight + MapThenSumSet(LAMBDA r : Weight(rungs[r]), 1..RungCount) = samples.count
    /\ \A r \in 1..RungCount : Len(rungs[r]) < RungCapacity + RungFactor
=============================================================================
