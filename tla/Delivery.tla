------------------------------ MODULE Delivery ------------------------------
(***************************************************************************)
(* Ways for a build to reach its users: waves through environments         *)
(* (roll/waves.py), release channels (channels.py), a blue green pair      *)
(* (roll/bluegreen.py), a canary with its judge (roll/canary.py), and the  *)
(* dial over sticky sessions (roll/traffic.py).  They share no state.      *)
(***************************************************************************)
EXTENDS Integers, Sequences, FiniteSets

CONSTANTS
    Bakes,          \* the bake time of each wave
    Versions, Soak,
    Slots,          \* the replicas of one colour
    Share, Shares,  \* the canary gets Share of Shares requests
    MinimumRequests, Tolerance,
    Volumes,        \* requests that come in one tick
    MaxRequests,    \* bound: requests at the stable side of the ledger
    Dials,          \* settings of the dial, in tenths
    SessionLength, MaxUsers   \* bound: users of the dial

NoVersion == "none"

ASSUME DeliveryAssumption ==
    /\ Bakes \in Seq(Nat) /\ Len(Bakes) > 0
    /\ NoVersion \notin Versions /\ Soak \in Nat /\ Slots \in Nat
    /\ Shares \in Nat \ {0} /\ Share \in 0..Shares /\ Volumes \subseteq Nat
    /\ MinimumRequests \in Nat \ {0} /\ Tolerance \in Nat
    /\ Dials \subseteq 0..10 /\ SessionLength \in Nat \ {0} /\ MaxUsers \in Nat

VARIABLES
    walk,       \* the delivery: its wave, the ticks baked there, its state
    healthyFor, \* healthy ticks of each wave
    channel,    \* rapid, stable, whether frozen, who was yanked
    soaked,     \* ticks since the release of rapid
    calm,       \* ticks since the last release or yank
    fleet,      \* [colour -> how many of its tasks are in the store]
    serving, cold,  \* the colour that serves; whether it was not up when it began to
    ledger,     \* [side -> requests, errors], and the state of the canary
    truth,      \* the error rates so far, in tenths, and whether the canary was seen
    dial, nextUser,
    session,    \* [user -> lane, ticks left], or Gone
    atZero      \* ticks since the dial went to zero

waveVars == <<walk, healthyFor>>
channelVars == <<channel, soaked, calm>>
colourVars == <<fleet, serving, cold>>
canaryVars == <<ledger, truth>>
dialVars == <<dial, nextUser, session, atZero>>

-----------------------------------------------------------------------------
(* Waves *)

WavesInit ==
    /\ walk = [at |-> 1, baked |-> 0, state |-> "rolling"]
    /\ healthyFor = [w \in DOMAIN Bakes |-> 0]

Promoted == walk.baked + 1 >= Bakes[walk.at]

WaveTick(healthy) ==
    /\ walk.state = "rolling"
    /\ healthyFor' = IF healthy THEN [healthyFor EXCEPT ![walk.at] = @ + 1] ELSE healthyFor
    /\ walk' =
          IF ~healthy THEN [walk EXCEPT !.state = "aborted"]
          ELSE IF ~Promoted THEN [walk EXCEPT !.baked = @ + 1]
          ELSE [at |-> walk.at + 1, baked |-> 0,
                state |-> IF walk.at = Len(Bakes) THEN "delivered" ELSE "rolling"]

-----------------------------------------------------------------------------
(* Channels *)

AtMost(n, bound) == IF n > bound THEN bound ELSE n

ChannelsInit ==
    /\ channel = [rapid |-> NoVersion, stable |-> NoVersion,
                  frozen |-> FALSE, yanked |-> {}]
    /\ soaked = 0
    /\ calm = 0

\* Any release unfreezes, also of the build that is in rapid already.
Release(v) ==
    /\ v \notin channel.yanked
    /\ channel' = [channel EXCEPT !.rapid = v, !.frozen = FALSE]
    /\ soaked' = 0 /\ calm' = 0

Yank(v) ==
    /\ channel' = [rapid |-> IF channel.rapid = v THEN NoVersion ELSE channel.rapid,
                   stable |-> IF channel.stable = v THEN NoVersion ELSE channel.stable,
                   frozen |-> TRUE, yanked |-> channel.yanked \union {v}]
    /\ calm' = 0
    /\ UNCHANGED soaked

Promote ==
    /\ ~channel.frozen /\ channel.rapid # NoVersion
    /\ soaked >= Soak /\ channel.stable # channel.rapid
    /\ channel' = [channel EXCEPT !.stable = channel.rapid]
    /\ UNCHANGED <<soaked, calm>>

ChannelTime ==
    /\ soaked' = AtMost(soaked + 1, Soak) /\ calm' = AtMost(calm + 1, Soak)
    /\ UNCHANGED channel

ChannelsNext == Promote \/ ChannelTime \/ \E v \in Versions : Release(v) \/ Yank(v)

-----------------------------------------------------------------------------
(* Blue and green.  Nobody checks the order of the calls.                  *)

Colours == {"blue", "green"}
Other(c) == IF c = "blue" THEN "green" ELSE "blue"

ColoursInit ==
    /\ fleet = [c \in Colours |-> 0]
    /\ serving = "blue"
    /\ cold = TRUE

\* deploy_blue and stage_green; at the first name that is taken the store raises.
StandUp(c) ==
    /\ fleet' = IF fleet[c] = 0 THEN [fleet EXCEPT ![c] = Slots] ELSE fleet
    /\ cold' = (cold /\ c # serving)
    /\ UNCHANGED serving

CutOver ==
    /\ serving' = Other(serving)
    /\ cold' = (fleet[Other(serving)] < Slots)
    /\ UNCHANGED fleet

\* Wrong: blue is taken for the standby, whoever serves.
RetireBlue ==
    /\ fleet' = [fleet EXCEPT !["blue"] = 0]
    /\ UNCHANGED <<serving, cold>>

RetireStandby ==
    /\ fleet' = [fleet EXCEPT ![Other(serving)] = 0]
    /\ UNCHANGED <<serving, cold>>

ColoursNext == CutOver \/ RetireStandby \/ \E c \in Colours : StandUp(c)

-----------------------------------------------------------------------------
(* The canary.  Rates are in tenths.                                       *)

\* round(): halves go to the even neighbour.
Rounded(n, d) ==
    LET low == n \div d
        rest == 2 * (n % d)
    IN IF rest > d \/ (rest = d /\ low % 2 = 1) THEN low + 1 ELSE low

CanaryInit ==
    /\ ledger = [stable |-> [requests |-> 0, errors |-> 0],
                 canary |-> [requests |-> 0, errors |-> 0], state |-> "watching"]
    /\ truth = [stable |-> {}, canary |-> {}, ticks |-> 0]

Noted(side, requests, rate) ==
    [requests |-> side.requests + requests,
     errors |-> side.errors + Rounded(requests * rate, 10)]

\* A rate with no request is zero.
Ruling(stable, canary) ==
    IF canary.requests < MinimumRequests THEN "watching"
    ELSE IF stable.errors = 0
    THEN IF canary.errors > 0 THEN "rollback" ELSE "promote"
    ELSE IF canary.errors * stable.requests > Tolerance * stable.errors * canary.requests
    THEN "rollback" ELSE "promote"

CanaryTick(total, stableRate, canaryRate) ==
    LET mine == (total * Share) \div Shares
        stable == Noted(ledger.stable, total - mine, stableRate)
        canary == Noted(ledger.canary, mine, canaryRate)
    IN /\ ledger.state = "watching"
       /\ stable.requests <= MaxRequests
       /\ ledger' = [stable |-> stable, canary |-> canary, state |-> Ruling(stable, canary)]
       /\ truth' = [stable |-> truth.stable \union {stableRate},
                    canary |-> truth.canary \union {canaryRate},
                    ticks |-> IF mine > 0 THEN truth.ticks + 1 ELSE truth.ticks]

CanaryNext ==
    \E total \in Volumes, stableRate, canaryRate \in {0, 2, 10} :
        CanaryTick(total, stableRate, canaryRate)

-----------------------------------------------------------------------------
(* The dial.  Sessions end before new ones begin.                          *)

GoneUser == [lane |-> "gone", left |-> 0]
Users == 0..(MaxUsers - 1)
OnCanary == {u \in Users : session[u].lane = "canary"}

DialInit ==
    /\ dial = 0
    /\ nextUser = 0
    /\ session = [u \in Users |-> GoneUser]
    /\ atZero = 0

Turn(to) ==
    /\ dial' = to
    /\ atZero' = 0
    /\ UNCHANGED <<nextUser, session>>

LaneOf(u) == IF u % 10 < dial THEN "canary" ELSE "stable"

DialTick(newcomers) ==
    /\ nextUser + newcomers <= MaxUsers
    /\ session' = [u \in Users |->
          IF u \in nextUser..(nextUser + newcomers - 1)
          THEN [lane |-> LaneOf(u), left |-> SessionLength]
          ELSE IF session[u].left <= 1 THEN GoneUser
          ELSE [session[u] EXCEPT !.left = @ - 1]]
    /\ nextUser' = nextUser + newcomers
    /\ atZero' = IF dial = 0 THEN AtMost(atZero + 1, SessionLength) ELSE 0
    /\ UNCHANGED dial

DialNext ==
    \/ \E to \in Dials \ {dial} : Turn(to)
    \/ \E newcomers \in 0..2 : DialTick(newcomers)

-----------------------------------------------------------------------------
(* Properties *)

\* waves.py: a wave is seen only by a build that sat healthy for the whole bake
\* of every wave before it; a failure stops the walk where it happened.
BakedBefore ==
    /\ \A w \in DOMAIN Bakes : w < walk.at => healthyFor[w] >= Bakes[w]
    /\ \A w \in DOMAIN Bakes : w > walk.at => healthyFor[w] = 0
    /\ walk.state = "delivered" <=> walk.at > Len(Bakes)

\* channels.py: what was yanked is in no channel, and nothing moves to stable
\* unless its soak has passed without a release or a yank of any build.
NothingYankedServes == {channel.rapid, channel.stable} \intersect channel.yanked = {}
SoakIsCalm ==
    [][channel.stable' \notin {channel.stable, NoVersion}
          => calm >= Soak /\ channel.stable' = channel.rapid]_channelVars

\* bluegreen.py: the tasks of one colour come and go whole, and those that
\* serve are never taken away: only before the first is up, and after a switch to a
\* colour that is not, have users nobody.
ServingStays ==
    /\ \A c \in Colours : fleet[c] \in {0, Slots}
    /\ fleet[serving] = Slots \/ cold

\* canary.py: "promote on evidence, roll back on evidence": a canary that never
\* erred is not rolled back, one that failed every request beside a fleet
\* without errors is not promoted, and no verdict comes before the evidence.
RuledOnEvidence ==
    /\ truth.canary \subseteq {0} => ledger.state # "rollback"
    /\ truth.canary = {10} /\ truth.stable = {0} => ledger.state # "promote"
    /\ ledger.state # "watching" => ledger.canary.requests >= MinimumRequests
    /\ truth.ticks >= MinimumRequests => ledger.state # "watching"

\* traffic.py: users stay in their lane until their session ends; once the dial
\* has been at zero for the length of a session, the canary serves nobody.
UsersStick ==
    [][\A u \in Users : session[u] # GoneUser =>
          session'[u] = GoneUser \/ session'[u].lane = session[u].lane]_dialVars
CanaryDrains == atZero >= SessionLength => OnCanary = {}
=============================================================================
