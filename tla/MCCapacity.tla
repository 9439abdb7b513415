----------------------------- MODULE MCCapacity -----------------------------
(***************************************************************************)
(* Capacity that is promised, lent, packed, scaled and taken back, the     *)
(* policies of order and choice, the shares of a stream, the papers and    *)
(* the plumbing of a service, and the ledgers of what was done: each       *)
(* component by itself; the first state chooses the one that runs.         *)
(***************************************************************************)
EXTENDS Bookings, Lending, Packing, Scaling, Evictions, Streams, Identity, Ledgers,
        Policies, Plumbing

CONSTANTS s1, s2, g1, g2, g3, i1, i2, e1, e2

VARIABLE part   \* the component that runs

vars == <<part, bookingVars, lenderVars, deviceVars, packVars, pressureVars,
          nodeDialVars, replicaVars, ruleVars, prescaleVars, fight, spotVars, shop,
          taintVars, seatVars, displaced, stacks, fleetMap,
          shardVars, ringVars, streamVars, addressVars, rollupVars,
          certVars, paperVars, registryVars, scrubVars, objectVars, text,
          outages, tiers, patchVars, shippingVars, shadow, calendar, fleet,
          logVars, change, batch, packing, drf, lanes, passVars, memberVars,
          hookVars, configVars, gateVars, roleVars, mesh,
          billVars, latencyVars, noteVars, pinVars, tenantVars>>

Guarantees == <<2, 1, 1>>
PairAndTrio == <<[members |-> 2, each |-> 2], [members |-> 3, each |-> 1]>>
Amount(cpu, memory) == [cpu |-> cpu, memory |-> memory]
Ask(request, limit) == [request |-> request, limit |-> limit]
FourAsks == <<Ask(Amount(0, 0), Amount(2, 2)), Ask(Amount(1, 2), Amount(2, 2)),
              Ask(Amount(1, 1), Amount(3, 2)), Ask(Amount(1, 1), Amount(1, 1))>>
FiveBursts == {Amount(0, 1), Amount(1, 1), Amount(1, 2), Amount(3, 1), Amount(3, 3)}
FourByFour == Amount(4, 4)
TwoReclaims == [n \in {s1, s2} |-> IF n = s1 THEN 3 ELSE 5]
Offer(cpu, hourly) == [cpu |-> cpu, hourly |-> hourly]
FourOffers == {Offer(1, 1), Offer(2, 3), Offer(3, 3), Offer(4, 4)}
TwoPreferred == <<Offer(2, 3), Offer(1, 1)>>
Graces == [g \in {g1, g2, g3} |-> IF g = g1 THEN NoGrace ELSE IF g = g2 THEN 2 ELSE 3]
TwoImages == [g \in {g1, g2, g3} |-> IF g = g1 THEN i1 ELSE i2]
Stack(ones, twos) == [ones |-> ones, twos |-> twos]
FiveStacks == {Stack(0, 0), Stack(1, 0), Stack(1, 2), Stack(3, 1), Stack(0, 2)}
TwoRacks == <<1, 1, 2, 2>>
OldAndNew == [e \in {e1, e2} |-> IF e = e1 THEN "v1" ELSE "v2"]
TwoAdvisories == [old |-> {"v1"}, wide |-> {"v1", "v2"}]
TwoFuses == [old |-> 1, wide |-> 2]
ThreeSizes == <<2, 1, 3>>

TwoTeams == {[team |-> team, image |-> image, cpu |-> 0, priority |-> 100] :
                team \in {Unset, "b"}, image \in {Unset, "latest"}}
ThatAndTagged == TwoTeams \cup {[team |-> "b", image |-> "sha-1", cpu |-> 2, priority |-> 200]}
Line(key, value) == <<key, value>>
FirstPage == <<Line(<<"a">>, <<"1">>)>>
FivePages == {FirstPage, <<Line(<<"a">>, <<"2">>)>>,
              FirstPage \o <<Line(<<"b">>, <<"2">>)>>,
              <<Line(<<"a">>, <<"1", ";", "b", "=", "2">>)>>,
              <<Line(<<"a">>, <<"1", "b", "2">>)>>}
ChainOfThree == [s \in {"web", "mid", "db"} |->
                   CASE s = "web" -> {"mid", "db"} [] s = "mid" -> {"db"} [] OTHER -> {}]
LeastGrant == [verbs |-> {"get"}, namespace |-> Unset]
SixGrants == {[verbs |-> verbs, namespace |-> space] :
                 verbs \in {{"get"}, {"get", "scale"}}, space \in {Unset, "x", "y"}}
Clause(key, op, value) == [key |-> key, op |-> op, value |-> value]
FourClauses == {Clause("app", "present", Unset), Clause("app", "=", "web"),
                Clause("app", "!=", "web"), Clause("tier", "=", "1")}
FourLabelSets == {<<>>, [app |-> "web"], [app |-> "db"], [app |-> "web", tier |-> "1"]}

TwoOneOne == <<2, 1, 1>>

ThreeShapes == {<<1, 4>>, <<3, 1>>, <<2, 2>>}
ThreeClusters == {<<9, 18>>, <<10, 10>>, <<12, 8>>}
SomeDrf == [capacity |-> <<10, 10>>, shapes |-> <<<<1, 4>>, <<3, 1>>, <<1, 4>>>>,
            admitted |-> <<0, 0, 0>>]
ThreeWeights == <<3, 1, 1>>
Box(cpu, zone, price, label) == [cpu |-> cpu, zone |-> zone, price |-> price, label |-> label]
FourBoxes == <<Box(4, "z1", 2, "disk"), Box(4, "z2", 2, "ssd"), Box(10, "z2", 3, "disk"),
               Box(4, "none", 1, "disk")>>
TwoKinds == {[size |-> 2, app |-> "web"], [size |-> 3, app |-> "db"]}
Member(region, cpu) == [region |-> region, cpu |-> cpu]
FederationOfThree == <<Member("eu", 3), Member("eu", 2), Member("us", 3)>>
TwoSent == <<[cpu |-> 2, region |-> "any"], [cpu |-> 1, region |-> "eu"]>>

\* The parts, by what they are about.
PromisedParts == {"holds", "broker", "lender", "devices"}
PackedParts == {"packing", "pressure", "taints", "seats", "cooldown", "survey", "audit"}
ScaledParts == {"nodes", "replicas", "rules", "prescale", "fight", "spot", "shop"}
SharedParts == {"shards", "ring", "stream", "addresses", "rollups"}
PaperParts == {"certificates", "papers", "registry", "scrub", "object", "names"}
LedgerParts == {"outages", "tiers", "patches", "shipping", "shadow", "carbon", "watts",
                "logbook", "risk", "bill", "latency", "notes",
                "pins", "neighbours"}
OrderParts == {"batch", "bins", "drf", "lanes", "pass", "federation"}
PlumbingParts == {"hooks", "config", "gate", "roles", "mesh"}

\* Where several first states are possible, one will do while another part runs.
OneOf(p, first, A) == \/ part = p /\ A
                      \/ part # p /\ first /\ A

Init ==
    /\ part \in PromisedParts \cup PackedParts \cup ScaledParts \cup SharedParts
             \cup PaperParts \cup LedgerParts \cup OrderParts \cup PlumbingParts
    /\ BookingInit /\ LenderInit /\ DeviceInit /\ PackInit /\ PressureInit
    /\ OneOf("nodes", aware = TRUE, NodeDialInit)
    /\ OneOf("replicas", replicas = LeastReplicas /\ load = Min(LoadsSeen), ReplicaInit)
    /\ RulesInit
    /\ OneOf("prescale", schedules = Every, PrescaleInit)
    /\ OneOf("fight", fight = [request |-> Min(StartRequests), replicas |-> 2,
                               total |-> Min(TotalLoads), truce |-> FALSE], FightInit)
    /\ OneOf("spot", market = [now |-> 0, reacts |-> TRUE], SpotInit)
    /\ OneOf("shop", shop = [demand |-> 1, offers |-> FourOffers, bought |-> {}], ShopInit)
    /\ TaintInit
    /\ OneOf("seats", homeNode = Min(Machines), SeatInit)
    /\ CooldownInit
    /\ OneOf("survey", stacks = [n \in DOMAIN RackOf |-> Stack(0, 0)], SurveyInit)
    /\ OneOf("audit", fleetMap = <<1, 1, 3>>, AuditInit)
    /\ ShardsInit
    /\ OneOf("ring", spots = [n \in 1..RingNodes |-> {0, 1}], RingInit)
    /\ OneOf("stream", late = [policy |-> "drop", dropped |-> 0], StreamInit)
    /\ OneOf("addresses", pool = [free |-> <<1, 2, 3>>, cooling |-> <<>>, held |-> {}, cooldown |-> 0],
             AllocatorInit)
    /\ RollupInit
    /\ CertInit /\ PaperInit /\ RegistryInit /\ ScrubInit /\ ObjectInit /\ TextInit
    /\ OutagesInit /\ TiersInit
    /\ OneOf("patches", versions = [h \in PatchHosts |-> "v1"], PatchInit)
    /\ ShippingInit /\ ShadowInit /\ CarbonInit /\ FleetInit /\ LogbookInit /\ RiskInit
    /\ BillInit /\ LatencyInit /\ NotesInit /\ PinsInit /\ NeighboursInit
    /\ BatchInit
    /\ OneOf("bins", packing = [rule |-> "best", bins |-> <<>>, sizes |-> <<>>], BinInit)
    /\ OneOf("drf", drf = SomeDrf, DrfInit)
    /\ LanesInit
    /\ OneOf("pass", scoring = "spread", ScoringInit)
    /\ FederationInit /\ HookInit
    /\ OneOf("config", page = FirstPage, ConfigInit)
    /\ GateInit
    /\ OneOf("roles", roles = [name \in RoleNames |-> LeastGrant], RoleInit)
    /\ OneOf("mesh", mesh = [open |-> TRUE, policies |-> <<>>], MeshInit)

\* While a part of parts runs its own step moves it, and Each leaves the others of
\* these parts alone; otherwise they all stay.
Among(parts, Each, v) == IF part \in parts THEN Each ELSE UNCHANGED v

\* Unless it is part p that runs, its variables stay.
Still(p, v) == IF part = p THEN UNCHANGED part ELSE UNCHANGED v

\* A step of part p leaves the others alone.
In(p, A) ==
    /\ part = p
    /\ A
    /\ Among(PromisedParts,
             /\ Among({"holds", "broker"}, UNCHANGED part, bookingVars)
             /\ Still("lender", lenderVars) /\ Still("devices", deviceVars),
             <<bookingVars, lenderVars, deviceVars>>)
    /\ Among(PackedParts,
             /\ Still("packing", packVars) /\ Still("pressure", pressureVars)
             /\ Still("taints", taintVars) /\ Still("seats", seatVars)
             /\ Still("cooldown", displaced) /\ Still("survey", stacks)
             /\ Still("audit", fleetMap),
             <<packVars, pressureVars, taintVars, seatVars, displaced, stacks, fleetMap>>)
    /\ Among(ScaledParts,
             /\ Still("nodes", nodeDialVars) /\ Still("replicas", replicaVars)
             /\ Still("rules", ruleVars) /\ Still("prescale", prescaleVars)
             /\ Still("fight", fight) /\ Still("spot", spotVars) /\ Still("shop", shop),
             <<nodeDialVars, replicaVars, ruleVars, prescaleVars, fight, spotVars, shop>>)
    /\ Among(SharedParts,
             /\ Still("shards", shardVars) /\ Still("ring", ringVars)
             /\ Still("stream", streamVars) /\ Still("addresses", addressVars)
             /\ Still("rollups", rollupVars),
             <<shardVars, ringVars, streamVars, addressVars, rollupVars>>)
    /\ Among(PaperParts,
             /\ Still("certificates", certVars) /\ Still("papers", paperVars)
             /\ Still("registry", registryVars) /\ Still("scrub", scrubVars)
             /\ Still("object", objectVars) /\ Still("names", text),
             <<certVars, paperVars, registryVars, scrubVars, objectVars, text>>)
    /\ Among(LedgerParts,
             /\ Still("outages", outages) /\ Still("tiers", tiers)
             /\ Still("patches", patchVars) /\ Still("shipping", shippingVars)
             /\ Still("shadow", shadow) /\ Still("carbon", calendar)
             /\ Still("watts", fleet) /\ Still("logbook", logVars)
             /\ Still("risk", change) /\ Still("bill", billVars)
             /\ Still("latency", latencyVars) /\ Still("notes", noteVars)
             /\ Still("pins", pinVars) /\ Still("neighbours", tenantVars),
             <<outages, tiers, patchVars, shippingVars, shadow, calendar, fleet,
               logVars, change, billVars, latencyVars, noteVars, pinVars, tenantVars>>)
    /\ Among(OrderParts,
             /\ Still("batch", batch) /\ Still("bins", packing) /\ Still("drf", drf)
             /\ Still("lanes", lanes) /\ Still("pass", passVars)
             /\ Still("federation", memberVars),
             <<batch, packing, drf, lanes, passVars, memberVars>>)
    /\ Among(PlumbingParts,
             /\ Still("hooks", hookVars) /\ Still("config", configVars)
             /\ Still("gate", gateVars) /\ Still("roles", roleVars)
             /\ Still("mesh", mesh),
             <<hookVars, configVars, gateVars, roleVars, mesh>>)

Next ==
    \/ In("holds", HoldNext \/ BookingTick)
    \/ In("broker", BrokerNext \/ BookingTick)
    \/ In("lender", LenderNext)
    \/ In("devices", DeviceNext)
    \/ In("packing", PackNext)
    \/ In("pressure", PressureNext)
    \/ In("nodes", NodeDialNext)
    \/ In("replicas", ReplicaTick)
    \/ In("rules", RulesNext)
    \/ In("prescale", PrescaleTick)
    \/ In("fight", FightRound)
    \/ In("spot", SpotNext)
    \/ In("shop", Buy)
    \/ In("taints", TaintNext)
    \/ In("seats", SeatNext)
    \/ In("cooldown", CooldownNext)
    \/ In("survey", \E n \in SurveyNodes : FollowPlan(n))
    \/ In("audit", AuditNext)
    \/ In("shards", ShardsNext)
    \/ In("ring", RingNext)
    \/ In("stream", \E t \in EventTimes : AcceptEvent(t))
    \/ In("addresses", AllocatorNext)
    \/ In("rollups", \E h \in {0, 1} : Record(h))
    \/ In("certificates", CertNext)
    \/ In("papers", PaperNext)
    \/ In("registry", RegistryNext)
    \/ In("scrub", ScrubNext)
    \/ In("object", ObjectNext)
    \/ In("names", \E c \in Characters : TypeText(c))
    \/ In("outages", OutagesNext)
    \/ In("tiers", TiersNext)
    \/ In("patches", PatchNext)
    \/ In("shipping", ShippingNext)
    \/ In("shadow", \E kind \in RequestKinds, same \in BOOLEAN : Mirror(kind, same))
    \/ In("carbon", CarbonNext)
    \/ In("watts", FleetNext)
    \/ In("logbook", LogbookNext)
    \/ In("risk", RiskNext)
    \/ In("bill", BillNext)
    \/ In("latency", LatencyNext)
    \/ In("notes", NotesNext)
    \/ In("pins", PinsNext)
    \/ In("neighbours", NeighboursNext)
    \/ In("batch", \E d \in Durations, e \in Deadlines : AddBatchJob(d, e))
    \/ In("bins", \E s \in ItemSizes : PackItem(s))
    \/ In("drf", AdmitNext)
    \/ In("lanes", LanesNext)
    \/ In("pass", ScoringNext)
    \/ In("federation", FederationNext)
    \/ In("hooks", HookNext)
    \/ In("config", ConfigNext)
    \/ In("gate", GateNext)
    \/ In("roles", RoleNext)
    \/ In("mesh", MeshNext)

CapacitySpec == Init /\ [][Next]_vars

-----------------------------------------------------------------------------
\* In every state what is promised for later fits, and what is lent, and every
\* device, is accounted for.
PromisesFit ==
    /\ part = "holds" => HoldsFit
    /\ part = "broker" => BatchesFindRoom
    /\ part = "lender" => LentIsCalled
    /\ part = "devices" => SlotsAccounted

\* In every state gangs are whole, moves pay and relief is fair; tasks sit where
\* they may, plans and audits of a placement are right, nobody is displaced too
\* often, and jobs, bins, shares and lanes are in the order of their policy.
PackingHolds ==
    /\ part = "packing" => NoHostages /\ EveryMovePays /\ OnLeash
    /\ part = "pressure" => ContractKept
    /\ part \in {"taints", "seats"} => SeatsAreRight /\ CacheIsTrue
    /\ part = "cooldown" => PinballBounded
    /\ part = "survey" => PlansStayCool
    /\ part = "audit" => AuditIsRight
    /\ part = "batch" => OrdersAreOptimal
    /\ part = "bins" => BinsAreNeeded
    /\ part = "drf" => SharesAreFair
    /\ part = "lanes" => WeightsHold
    /\ part = "pass" => ExplainerAgrees

\* In every state of the scalers, what is ordered, planned, rented and bought
\* adds up.
ScalingHolds ==
    /\ part = "nodes" => OrdersHold
    /\ part = "prescale" => BurstsMeetCapacity
    /\ part = "spot" => WorkIsConserved
    /\ part = "shop" => PurchasesAreSound /\ NPlusOneIsAnyNode

\* In every state keys, points, addresses, papers and names are kept, hooks, stamps,
\* probes and roles do what they say, and ledgers tell what happened.
LedgersHold ==
    /\ part = "shards" => KeysAreCovered
    /\ part = "ring" => OnlyItsSlice
    /\ part = "stream" => ClosedIsClosed
    /\ part = "addresses" => NothingAstray
    /\ part = "rollups" => SpikeSurvives
    /\ part = "certificates" => ServedLastsLongest
    /\ part = "papers" => PaperDies
    /\ part = "registry" => TargetsAreHeld /\ MixedByTagOnly
    /\ part = "scrub" => FoundInACycle
    /\ part = "names" => NamesAreLegal
    /\ part = "hooks" => JudgedAsAdmitted
    /\ part = "config" => StampsTell
    /\ part = "gate" => ProbesAreCounted
    /\ part = "roles" => RolesStayInside
    /\ part = "outages" => OutagesAreApart
    /\ part = "tiers" => ChainsAreWeak
    /\ part = "patches" => FuseIsGranted
    /\ part = "shipping" => ShippingIsTold
    /\ part = "shadow" => AnswersAreCounted
    /\ part = "carbon" => WaitingNeverCosts
    /\ part = "watts" => SavingsAreReal
    /\ part = "logbook" => ReversalsHappened
    /\ part = "bill" => MoversAreNamed
    /\ part = "latency" => WaitsAreTold
    /\ part = "notes" => BeliefsAreKept
    /\ part = "neighbours" => CapsCostTheCapped

\* No step takes a node, a replica or a tenant away before its time, a shard or a
\* watermark back, a client unwarned, a row of a ledger that nothing settled, or a
\* right by granting another; none widens a skew past its cap, turns a node on or
\* sends a workload without need.
NobodyLeavesEarly ==
    /\ OnlyIdleRetire /\ DampedDial /\ DownIsSlow /\ TruceRests /\ GraceKept
    /\ ActsAfterDwell /\ NeverRetreats
    /\ ClientsAreWarned /\ LossIsTold
    /\ OnlyPatchingClears /\ ReversalsAreKept /\ RiskNeverSinks
    /\ BindingsOnlyGrant /\ PoliciesOnlyOpen
    /\ FreshnessIsEarned /\ SkewIsCapped /\ OpensLast /\ SentWhereItFits
=============================================================================
