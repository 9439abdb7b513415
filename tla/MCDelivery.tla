----------------------------- MODULE MCDelivery -----------------------------
(***************************************************************************)
(* Rolling updates, the other ways of a build to its users, the renewal of *)
(* the iron beneath, and what is declared, saved and read back of it: each *)
(* by itself; the first state chooses the one that runs.                   *)
(***************************************************************************)
EXTENDS Rollout, Delivery, Renewal, Declared

VARIABLE part   \* the component that runs

all == <<part, vars, waveVars, channelVars, colourVars, canaryVars, dialVars,
         ironVars, bookVars, robotVars, declaredVars, scene, log, windows, metal>>

ThreeWaves == <<2, 1, 2>>
Web(replicas) == [name |-> "web", replicas |-> replicas]
ThreeRaws == {<<Web(2)>>,
              <<Web(1) @@ [cpu |-> 2, label |-> "x"], [name |-> "api", replicas |-> 1]>>,
              <<Web(1) @@ [prio |-> 3]>>}
TwoNeeds == <<2, 3>>
TwoSizes == <<4, 3>>
ThreeAssets == [a1 |-> 1, a2 |-> 2, a3 |-> 0]

DeliveryInit ==
    /\ part \in {"rollout", "waves", "channels", "colours", "canary", "dial",
                 "iron", "book", "robot",
                 "declared", "scene", "log", "calendar", "metal"}
    /\ Init
    /\ WavesInit /\ ChannelsInit /\ ColoursInit /\ CanaryInit /\ DialInit
    /\ RenewalInit /\ BookInit /\ RobotInit
    /\ DeclaredInit /\ SceneInit /\ LogInit /\ CalendarInit /\ MetalInit

\* Unless part p runs, its variables stay.
Still(p, v) == IF part = p THEN UNCHANGED part ELSE UNCHANGED v

\* A step of part p leaves the others alone.
In(p, A) ==
    /\ part = p
    /\ A
    /\ Still("rollout", vars)
    /\ Still("waves", waveVars) /\ Still("channels", channelVars)
    /\ Still("colours", colourVars) /\ Still("canary", canaryVars)
    /\ Still("dial", dialVars)
    /\ Still("iron", ironVars) /\ Still("book", bookVars) /\ Still("robot", robotVars)
    /\ Still("declared", declaredVars) /\ Still("scene", scene) /\ Still("log", log)
    /\ Still("calendar", windows) /\ Still("metal", metal)

DeliveryNext ==
    \/ In("rollout", Next)
    \/ In("waves", \E healthy \in BOOLEAN : WaveTick(healthy))
    \/ In("channels", ChannelsNext)
    \/ In("colours", ColoursNext)
    \/ In("canary", CanaryNext)
    \/ In("dial", DialNext)
    \/ In("iron", RenewalNext)
    \/ In("book", BookNext)
    \/ In("robot", RobotNext)
    \/ In("declared", DeclaredNext)
    \/ In("scene", SceneNext)
    \/ In("log", \E n \in LogNames, v \in {"added", "updated", "removed"} : WriteEvent(n, v))
    \/ In("calendar", \E s \in Starts, e \in Ends : AddWindow(s, e))
    \/ In("metal", \E a \in DOMAIN Ledger, s \in Sizes : MetalChanges(a, s))

\* Paused rollouts are resumed by their people, and of the tasks that wait some
\* one is placed and some one started.
DeliverySpec ==
    /\ DeliveryInit /\ [][DeliveryNext]_all
    /\ WF_vars(In("rollout", Resume))
    /\ WF_vars(In("rollout", \E t \in Names : Bind(t)))
    /\ WF_vars(In("rollout", \E t \in Names : Start(t)))

-----------------------------------------------------------------------------
\* A rolling update ends as GoodBuildArrives says.
RolloutEnds == part = "rollout" => GoodBuildArrives

\* In every state a build reaches its users on evidence, and they are served; of a
\* renewal the fleet is whole, the books are true, and the robot within its budget.
DeliveryHolds ==
    /\ part = "waves" => BakedBefore
    /\ part = "channels" => NothingYankedServes
    /\ part = "colours" => ServingStays
    /\ part = "canary" => RuledOnEvidence
    /\ part = "dial" => CanaryDrains
    /\ part = "iron" => NeverSmaller /\ LedgerIsTrue
    /\ part = "book" => NobodyOrphaned
    /\ part = "robot" => RobotStops

\* In every state what is declared, planned, saved, logged, reserved and bought
\* agrees with what is there.
RecordsHold ==
    /\ part = "declared" => LiveIsDeclared /\ PlanTellsDifference
    /\ part = "scene" => DrillIsFair /\ ObjectionsAreReal
    /\ part = "log" => WindowTellsTruth
    /\ part = "calendar" => NextOpenIsFirst
    /\ part = "metal" => LedgerAddsUp

\* No step of a rollout undercuts the guard it was handed or turns back; none
\* promotes what has not soaked, moves a user to another lane, puts a rejected node
\* into service, or leaves a deployment otherwise than it was declared.
DeliveryMoves ==
    /\ StepsKeep /\ SoakIsCalm /\ UsersStick /\ RejectedStayOut
    /\ SyncImposes /\ PausesAreRespected
=============================================================================
