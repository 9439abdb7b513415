------------------------------- MODULE Custody -------------------------------
(***************************************************************************)
(* Who may close a node and who opens it again.  Four parts of the code    *)
(* write node.schedulable and none looks at another: the operator's verbs  *)
(* (fleet/api.py), cordon leases (fleet/cordonttl.py), the warden of nodes *)
(* that kill tasks (fleet/quarantine.py) and the upgrade walk              *)
(* (fleet/upgradewalk.py).  The warden adds a taint of its own.            *)
(***************************************************************************)
EXTENDS Integers, FiniteSets, Functions

CONSTANTS
    Nodes,          \* node names as numbers in the order of the names
    Deploys,        \* owners of the tasks a node may kill
    Leaving,        \* the nodes that may be removed and added again
    Threshold,      \* VICTIM_THRESHOLD
    Window,         \* WINDOW
    Probation,      \* PROBATION
    Ceiling,        \* PROBATION_CEILING
    Ttl             \* default_ttl of a cordon lease

None == -1

ASSUME CustodyAssumption ==
    /\ Nodes \subseteq Nat /\ IsFiniteSet(Nodes) /\ Leaving \subseteq Nodes
    /\ Threshold \in Nat \ {0} /\ Window \in Nat
    /\ Probation \in Nat \ {0} /\ Ceiling \in Nat /\ Probation <= Ceiling
    /\ Ttl \in Nat

VARIABLES
    present,    \* the nodes in the store
    cordoned,   \* those with schedulable = False
    tainted,    \* those with the quarantine taint
    lease,      \* [Nodes -> ticks a lease has left, None without]
    kills,      \* [Nodes -> [Deploys \X ages -> count]], up to Threshold each
    confined,   \* [Nodes -> ticks since quarantined_at, None when free]
    probation,  \* [Nodes -> NodeRecord.probation]
    asked,      \* history: nodes the operator cordoned and did not uncordon
    clean       \* history: ticks since the node last killed, up to Ceiling

nodeVars == <<present, cordoned, tainted>>
wardenVars == <<kills, confined, probation, clean>>
custodyVars == <<nodeVars, lease, wardenVars, asked>>

Ages == 0..Window
NoKills == [c \in Deploys \X Ages |-> 0]
Least(a, b) == IF a < b THEN a ELSE b

CustodyTypeOK ==
    /\ present \subseteq Nodes
    /\ cordoned \subseteq present /\ tainted \subseteq present
    /\ lease \in [Nodes -> 0..Ttl \cup {None}]
    /\ kills \in [Nodes -> [Deploys \X Ages -> 0..Threshold]]
    /\ confined \in [Nodes -> 0..Ceiling \cup {None}]
    /\ probation \in [Nodes -> Probation..Ceiling]
    /\ asked \subseteq present
    /\ clean \in [Nodes -> 0..Ceiling]

CustodyInit ==
    /\ present = Nodes
    /\ cordoned = {} /\ tainted = {}
    /\ lease = [n \in Nodes |-> None]
    /\ kills = [n \in Nodes |-> NoKills]
    /\ confined = [n \in Nodes |-> None]
    /\ probation = [n \in Nodes |-> Probation]
    /\ asked = {}
    /\ clean = [n \in Nodes |-> Ceiling]

-----------------------------------------------------------------------------
(* The operator, the leases and the walk.                                  *)

Cordon(n) ==
    /\ n \in present
    /\ cordoned' = cordoned \cup {n}
    /\ asked' = asked \cup {n}
    /\ UNCHANGED <<present, tainted, lease, wardenVars>>

Uncordon(n) ==
    /\ n \in present
    /\ cordoned' = cordoned \ {n}
    /\ asked' = asked \ {n}
    /\ UNCHANGED <<present, tainted, lease, wardenVars>>

LeaseCordon(n) ==
    /\ n \in present
    /\ cordoned' = cordoned \cup {n}
    /\ lease' = [lease EXCEPT ![n] = Ttl]
    /\ UNCHANGED <<present, tainted, wardenVars, asked>>

RenewCordon(n) ==
    /\ lease[n] # None
    /\ lease' = [lease EXCEPT ![n] = Ttl]
    /\ UNCHANGED <<nodeVars, wardenVars, asked>>

Lapsed == {n \in Nodes : lease[n] = 0}

LeaseSweep ==
    /\ cordoned' = cordoned \ Lapsed
    /\ lease' = [n \in Nodes |-> IF n \in Lapsed THEN None ELSE lease[n]]
    /\ UNCHANGED <<present, tainted, wardenVars, asked>>

\* Walk.upgrade closes the node, drains and patches it, and opens it; only
\* the simulation's own tick runs in between.
Walk(n) ==
    /\ n \in present
    /\ cordoned' = cordoned \ {n}
    /\ UNCHANGED <<present, tainted, lease, wardenVars, asked>>

-----------------------------------------------------------------------------
(* The warden.  Deaths are reported of nodes that are in the store.         *)

\* Wrong: the clock runs on.
KillUnheeded(n) ==
    /\ n \in present /\ confined[n] # None
    /\ probation' = [probation EXCEPT ![n] = Least(Ceiling, 2 * probation[n])]
    /\ clean' = [clean EXCEPT ![n] = 0]
    /\ UNCHANGED <<nodeVars, lease, kills, confined, asked>>

\* task_died on a node in quarantine: the clock starts again, doubled.
KillInside(n) ==
    /\ n \in present /\ confined[n] # None
    /\ confined' = [confined EXCEPT ![n] = 0]
    /\ probation' = [probation EXCEPT ![n] = Least(Ceiling, 2 * probation[n])]
    /\ clean' = [clean EXCEPT ![n] = 0]
    /\ UNCHANGED <<nodeVars, lease, kills, asked>>

WithKill(n, d) == [kills[n] EXCEPT ![<<d, 0>>] = Least(Threshold, @ + 1)]

Owners(k) == {d \in Deploys : \E a \in Ages : k[<<d, a>>] > 0}

\* What a kill list must show for the node to lose custody.
Damning(k) ==
    Cardinality(Owners(k)) >= 2 /\ FoldFunction(+, 0, k) >= Threshold

KillNoted(n, d) ==
    /\ n \in present /\ confined[n] = None
    /\ ~Damning(WithKill(n, d))
    /\ kills' = [kills EXCEPT ![n] = WithKill(n, d)]
    /\ clean' = [clean EXCEPT ![n] = 0]
    /\ UNCHANGED <<nodeVars, lease, confined, probation, asked>>

\* Wrong: the node is closed and gets no taint.
QuarantineByCordon(n, d) ==
    /\ n \in present /\ confined[n] = None
    /\ Damning(WithKill(n, d))
    /\ confined' = [confined EXCEPT ![n] = 0]
    /\ kills' = [kills EXCEPT ![n] = NoKills]
    /\ clean' = [clean EXCEPT ![n] = 0]
    /\ cordoned' = cordoned \cup {n}
    /\ UNCHANGED <<present, tainted, lease, probation, asked>>

\* _quarantine.  The list is not read again before the release clears it, so
\* it is empty here from now on.
Quarantine(n, d) ==
    /\ n \in present /\ confined[n] = None
    /\ Damning(WithKill(n, d))
    /\ confined' = [confined EXCEPT ![n] = 0]
    /\ kills' = [kills EXCEPT ![n] = NoKills]
    /\ clean' = [clean EXCEPT ![n] = 0]
    /\ cordoned' = cordoned \cup {n}
    /\ tainted' = tainted \cup {n}
    /\ UNCHANGED <<present, lease, probation, asked>>

Due == {n \in Nodes : confined[n] # None /\ confined[n] >= probation[n]}

\* The patrol goes by name; get_node ends it at the first node that is gone.
Reached == {n \in Due : \A m \in Due \ present : n <= m}

\* Wrong: the taint is taken off and the node stays closed.
PatrolLeavingClosed ==
    /\ confined' = [n \in Nodes |-> IF n \in Reached THEN None ELSE confined[n]]
    /\ tainted' = tainted \ Reached
    /\ UNCHANGED <<present, cordoned, lease, kills, probation, clean, asked>>

Patrol ==
    /\ confined' = [n \in Nodes |-> IF n \in Reached THEN None ELSE confined[n]]
    /\ cordoned' = cordoned \ Reached
    /\ tainted' = tainted \ Reached
    /\ UNCHANGED <<present, lease, kills, probation, clean, asked>>

-----------------------------------------------------------------------------

\* A tick of the clock every part is handed.
CustodyTime ==
    /\ lease' = [n \in Nodes |-> IF lease[n] > 0 THEN lease[n] - 1 ELSE lease[n]]
    /\ confined' = [n \in Nodes |->
                     IF confined[n] = None THEN None ELSE Least(Ceiling, confined[n] + 1)]
    /\ kills' = [n \in Nodes |-> [c \in Deploys \X Ages |->
                   IF c[2] = 0 THEN 0 ELSE kills[n][<<c[1], c[2] - 1>>]]]
    /\ clean' = [n \in Nodes |-> Least(Ceiling, clean[n] + 1)]
    /\ UNCHANGED <<nodeVars, probation, asked>>

\* Store.remove_node and add_node: the leases and the records stay.
TakeOut(n) ==
    /\ n \in Leaving \cap present
    /\ present' = present \ {n}
    /\ cordoned' = cordoned \ {n} /\ tainted' = tainted \ {n}
    /\ asked' = asked \ {n}
    /\ UNCHANGED <<lease, wardenVars>>

Add(n) ==
    /\ n \in Nodes \ present
    /\ present' = present \cup {n}
    /\ UNCHANGED <<cordoned, tainted, lease, wardenVars, asked>>

CustodyNext ==
    \/ LeaseSweep \/ Patrol \/ CustodyTime
    \/ \E n \in Nodes :
          \/ Cordon(n) \/ Uncordon(n) \/ LeaseCordon(n) \/ RenewCordon(n) \/ Walk(n)
          \/ KillInside(n) \/ TakeOut(n) \/ Add(n)
          \/ \E d \in Deploys : KillNoted(n, d) \/ Quarantine(n, d)

CustodySpec == CustodyInit /\ [][CustodyNext]_custodyVars

\* The loop that owns the clock calls both sweeps again and again.
CustodyFairSpec ==
    /\ CustodySpec
    /\ WF_custodyVars(CustodyTime) /\ WF_custodyVars(LeaseSweep) /\ WF_custodyVars(Patrol)

-----------------------------------------------------------------------------

\* quarantine.py:1, the node "loses custody": one that is never replaced carries
\* the taint as long as it is in quarantine, whoever opens it in the meantime.
TaintGuards ==
    /\ CustodyTypeOK
    /\ \A n \in Nodes \ Leaving : confined[n] # None => n \in tainted

\* quarantine.py:6-8: only a probation without a kill gives custody back.
OnlyCleanNodesReturn ==
    [][\A n \in tainted \ tainted' :
          n \in present' => clean[n] >= probation[n]]_custodyVars

Settled == \E stay \in SUBSET Nodes : <>[](present = stay)

\* quarantine.py:6, "a node that stays clean through probation is released",
\* also when a patrol stumbles over a node that is gone for good.
TrustReturns ==
    Settled => \A n \in Nodes : []<>(confined[n] = None) \/ []<>(clean[n] = 0)

\* cordonttl.py:1-6, no forgotten cordon: a node no operator asked to close does
\* not stay closed, whichever lease, walk or warden closed it and in whatever
\* order they lapse, unless the lease is renewed or the node kills for ever.
NoCordonForgotten ==
    Settled =>
        \A n \in Nodes :
            \/ []<>(n \in asked)
            \/ []<>(n \notin cordoned)
            \/ []<>(lease[n] = Ttl)
            \/ []<>(clean[n] = 0)

\* Of a fleet whose nodes stay, both: taints and cordons end.
ClosedReopens == TrustReturns /\ NoCordonForgotten
=============================================================================
