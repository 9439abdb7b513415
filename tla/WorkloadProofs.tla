--------------------------- MODULE WorkloadProofs ---------------------------
(***************************************************************************)
(* The kept sets of children, the ledgers of departures, the job beside    *)
(* its collector, cron and the pipeline hold their promises for any names, *)
(* counts and schedules.  Each has an inductive invariant of its own; a    *)
(* step is of one of them and leaves the others as they are.  And the loop *)
(* under which they all run, for any fleet, timers, replica counts,        *)
(* failing attempts, gates and floors.                                     *)
(***************************************************************************)
EXTENDS MCWorkloads, ControlLoop, FoldFacts

-----------------------------------------------------------------------------
(* The ordinal set *)

\* Types beside the order of the ordinals.
OrdinalInv ==
    /\ OrdinalsInOrder
    /\ wanted \in [count : 1..MaxCount, revision : 1..MaxRevision]
    /\ struck \in [who : SUBSET Ordinals, blows : Nat]

\* The lowest and the highest ordinal of a set are there.
LEMMA EndsAreThere ==
    ASSUME OrdinalBounds, NEW S \in SUBSET Ordinals, S # {}
    PROVE  /\ Lowest(S) \in S /\ \A p \in S : Lowest(S) <= p
           /\ Highest(S) \in S /\ \A p \in S : Highest(S) >= p
<1>1. Ordinals \subseteq Int /\ IsFiniteSet(Ordinals)
  <2>1. MaxCount - 1 \in Nat
    BY DEF OrdinalBounds
  <2>. QED
    BY <2>1, Numbers DEF Ordinals
<1>2. IsFiniteSet(S) /\ S \subseteq Int
  BY <1>1, FS_Subset
<1>3. \E o \in S : \A p \in S : o <= p
  BY <1>2, MinIsThere
<1>4. \E o \in S : \A p \in S : o >= p
  <2>1. Max(S) \in S /\ \A p \in S : p <= Max(S)
    BY <1>2, MaxIsThere
  <2>. QED
    BY <1>2, <2>1
<1>. QED
  BY <1>3, <1>4 DEF Lowest, Highest

\* A set starts in order.
LEMMA OrdinalStarts ==
    ASSUME OrdinalBounds, OrdinalInit
    PROVE  OrdinalInv
<1>1. children = [o \in Ordinals |-> Missing] /\ Missing \in Child \cup {Missing}
  BY DEF OrdinalInit
<1>2. OrdinalsInOrder
  BY <1>1 DEF OrdinalsInOrder, Held
<1>3. wanted \in [count : 1..MaxCount, revision : 1..MaxRevision]
  BY DEF OrdinalInit, OrdinalBounds
<1>4. struck \in [who : SUBSET Ordinals, blows : Nat]
  BY DEF OrdinalInit
<1>. QED
  BY <1>2, <1>3, <1>4 DEF OrdinalInv

\* What a new child is, and what none is.
LEMMA FreshIsAChild ==
    ASSUME OrdinalInv
    PROVE  Fresh \in Child /\ Missing \notin Child
BY DEF OrdinalInv, Fresh, Missing, Child

\* Above to ten ordinals have names in their own order.
LEMMA NamesInOrder ==
    ASSUME OrdinalBounds, MaxCount <= 10, NEW o \in Ordinals, NEW p \in Ordinals,
           LaterName(o, p)
    PROVE  o > p
BY DEF OrdinalBounds, Ordinals, LaterName

\* No step of the set or of those around it leaves a gap.
LEMMA OrdinalSteps ==
    ASSUME OrdinalBounds, MaxCount <= 10, OrdinalInv, OrdinalNext
    PROVE  OrdinalInv'
<1>1. children \in [Ordinals -> Child \cup {Missing}]
  BY DEF OrdinalInv, OrdinalsInOrder
<1>2. Ordinals \subseteq Int
  BY DEF Ordinals, OrdinalBounds
<1>3. ASSUME NEW x \in Ordinals, children' = [children EXCEPT ![x] = Fresh],
             UNCHANGED <<wanted, struck>>,
             \A o \in Ordinals : o < x => Held(o)
      PROVE  OrdinalInv'
  <2>1. children' \in [Ordinals -> Child \cup {Missing}] /\ Fresh # Missing
    BY <1>1, <1>3, FreshIsAChild
  <2>2. \A o \in Ordinals : Held(o) => Held(o)'
    BY <1>1, <1>3, <2>1 DEF Held
  <2>3. \A p \in Ordinals : Held(p)' => p = x \/ Held(p)
    BY <1>1, <1>3 DEF Held
  <2>4. ASSUME NEW o \in Ordinals, NEW p \in Ordinals, o < p, Held(p)', o \notin struck.who
        PROVE  Held(o)'
    BY <1>3, <2>2, <2>3, <2>4 DEF OrdinalInv, OrdinalsInOrder
  <2>5. OrdinalsInOrder'
    BY <1>3, <2>1, <2>4 DEF OrdinalsInOrder
  <2>. QED
    BY <1>3, <2>5 DEF OrdinalInv
<1>4. CASE Bear
  <2>. DEFINE o == Lowest(Troubled)
  <2>1. Troubled # {} /\ Troubled \in SUBSET Ordinals
    BY <1>4 DEF Bear, Troubled, Asked
  <2>2. o \in Troubled /\ \A p \in Troubled : o <= p
    BY <2>1, EndsAreThere
  <2>3. o \in Ordinals /\ o < wanted.count
    BY <2>2 DEF Troubled, Asked
  <2>4. children' = [children EXCEPT ![o] = Fresh] /\ UNCHANGED <<wanted, struck>>
    BY <1>4 DEF Bear
  <2>. HIDE DEF o
  <2>5. ASSUME NEW q \in Ordinals, q < o PROVE Held(q)
    <3>1. q \notin Troubled /\ wanted.count \in Int
      BY <1>2, <2>2, <2>3, <2>5 DEF OrdinalInv
    <3>2. q \in Asked
      BY <1>2, <2>3, <2>5, <3>1 DEF Asked
    <3>. QED
      BY <3>1, <3>2 DEF Troubled
  <2>. QED
    BY <1>3, <2>3, <2>4, <2>5
<1>5. CASE Replace
  <2>. DEFINE S == {o \in Asked : children[o].revision # wanted.revision}
              o == Highest(S)
  <2>1. S # {} /\ S \in SUBSET Ordinals /\ Troubled = {}
    BY <1>5 DEF Replace, Asked
  <2>2. o \in S
    <3>. HIDE DEF S
    <3>. QED
      BY <2>1, EndsAreThere
  <2>3. o \in Ordinals /\ o < wanted.count
    BY <2>2 DEF Asked
  <2>4. children' = [children EXCEPT ![o] = Fresh] /\ UNCHANGED <<wanted, struck>>
    BY <1>5 DEF Replace
  <2>. HIDE DEF o, S
  <2>5. ASSUME NEW q \in Ordinals, q < o PROVE Held(q)
    <3>1. wanted.count \in Int
      BY DEF OrdinalInv
    <3>2. q \in Asked
      BY <1>2, <2>3, <2>5, <3>1 DEF Asked
    <3>. QED
      BY <2>1, <3>2 DEF Troubled
  <2>. QED
    BY <1>3, <2>3, <2>4, <2>5
<1>6. CASE Retire
  <2>. DEFINE S == {o \in Ordinals \ Asked : Held(o)}
  <2>1. PICK o \in S : /\ \A p \in S \ {o} : LaterName(o, p)
                       /\ children' = [children EXCEPT ![o] = Missing]
    BY <1>6 DEF Retire
  <2>2. UNCHANGED <<wanted, struck>>
    BY <1>6 DEF Retire
  <2>3. o \in Ordinals /\ ~(o < wanted.count) /\ wanted.count \in Int
    BY <2>1 DEF Asked, OrdinalInv
  <2>4. ASSUME NEW p \in Ordinals, o < p PROVE ~Held(p)
    <3>1. p \notin Asked
      BY <1>2, <2>3, <2>4 DEF Asked
    <3>2. SUFFICES ASSUME Held(p) PROVE FALSE
      OBVIOUS
    <3>3. p \in S \ {o}
      BY <1>2, <2>3, <2>4, <3>1, <3>2
    <3>4. o > p
      BY <2>1, <2>3, <3>3, NamesInOrder
    <3>. QED
      BY <1>2, <2>3, <2>4, <3>4
  <2>5. children' \in [Ordinals -> Child \cup {Missing}]
    BY <1>1, <2>1
  <2>6. \A p \in Ordinals : Held(p)' <=> Held(p) /\ p # o
    BY <1>1, <2>1, <2>3 DEF Held
  <2>7. ASSUME NEW q \in Ordinals, NEW p \in Ordinals, q < p, Held(p)', q \notin struck.who
        PROVE  Held(q)'
    <3>1. Held(q)
      BY <2>6, <2>7 DEF OrdinalInv, OrdinalsInOrder
    <3>2. q # o
      BY <2>4, <2>6, <2>7
    <3>. QED
      BY <2>6, <3>1, <3>2
  <2>8. OrdinalsInOrder'
    BY <2>2, <2>5, <2>7 DEF OrdinalsInOrder
  <2>. QED
    BY <2>2, <2>8 DEF OrdinalInv
<1>7. CASE EditSet
  <2>1. wanted' \in [count : 1..MaxCount, revision : 1..MaxRevision]
    <3>1. PICK c \in 1..MaxCount, r \in {wanted.revision, wanted.revision + 1} :
             r <= MaxRevision /\ wanted' = [count |-> c, revision |-> r]
      BY <1>7 DEF EditSet
    <3>2. r \in 1..MaxRevision
      BY <3>1 DEF OrdinalInv, OrdinalBounds
    <3>. QED
      BY <3>1, <3>2
  <2>2. UNCHANGED <<children, struck>>
    BY <1>7 DEF EditSet
  <2>. QED
    BY <2>1, <2>2 DEF OrdinalInv, OrdinalsInOrder, Held
<1>8. ASSUME NEW x \in Ordinals, NEW c \in Child, Held(x),
             children' = [children EXCEPT ![x] = c], UNCHANGED wanted,
             struck' \in [who : SUBSET Ordinals, blows : Nat],
             struck.who \subseteq struck'.who
      PROVE  OrdinalInv'
  <2>1. children' \in [Ordinals -> Child \cup {Missing}] /\ c # Missing
    BY <1>1, <1>8, FreshIsAChild
  <2>2. \A p \in Ordinals : Held(p)' <=> Held(p)
    BY <1>1, <1>8, <2>1 DEF Held
  <2>3. OrdinalsInOrder'
    BY <1>8, <2>1, <2>2 DEF OrdinalInv, OrdinalsInOrder
  <2>. QED
    BY <1>8, <2>3 DEF OrdinalInv
<1>9. ASSUME NEW x \in Ordinals, children[x] \in Child, NEW ph,
             ph \in {"Pending", "Bound", "Running", "Succeeded", "Failed"}
      PROVE  [children[x] EXCEPT !.phase = ph] \in Child
  BY <1>9 DEF Child
<1>10. ASSUME NEW x \in Ordinals, Start(x) PROVE OrdinalInv'
  <2>1. children[x] \in Child /\ Held(x)
    BY <1>1, <1>10 DEF Start, Held, Missing, Child
  <2>. DEFINE ph == IF children[x].phase = "Pending" THEN "Bound" ELSE "Running"
              c == [children[x] EXCEPT !.phase = ph]
  <2>2. c \in Child
    <3>1. ph \in {"Pending", "Bound", "Running", "Succeeded", "Failed"}
      OBVIOUS
    <3>. HIDE DEF ph
    <3>. QED
      BY <1>9, <2>1, <3>1
  <2>3. children' = [children EXCEPT ![x] = c] /\ UNCHANGED <<wanted, struck>>
    BY <1>10 DEF Start
  <2>. HIDE DEF c
  <2>. QED
    BY <1>8, <2>1, <2>2, <2>3 DEF OrdinalInv
<1>11. ASSUME NEW x \in Ordinals, Strike(x) PROVE OrdinalInv'
  <2>1. children[x] \in Child /\ Held(x)
    BY <1>1, <1>11 DEF Strike, Held
  <2>2. struck' = [who |-> struck.who \cup {x}, blows |-> struck.blows + 1]
    BY <1>11 DEF Strike
  <2>3. struck' \in [who : SUBSET Ordinals, blows : Nat] /\ struck'.who = struck.who \cup {x}
    BY <2>2 DEF OrdinalInv
  <2>4. CASE \E how \in {"Succeeded", "Failed", "Pending"} :
                children' = [children EXCEPT ![x].phase = how]
    <3>1. PICK how \in {"Succeeded", "Failed", "Pending"} :
             children' = [children EXCEPT ![x].phase = how]
      BY <2>4
    <3>. DEFINE c == [children[x] EXCEPT !.phase = how]
    <3>2. c \in Child
      BY <1>9, <2>1
    <3>3. children' = [children EXCEPT ![x] = c] /\ UNCHANGED wanted
      BY <1>11, <3>1 DEF Strike
    <3>. HIDE DEF c
    <3>. QED
      BY <1>8, <2>1, <2>3, <3>2, <3>3
  <2>5. CASE children' = [children EXCEPT ![x] = Missing]
    <3>1. children' \in [Ordinals -> Child \cup {Missing}] /\ UNCHANGED wanted
      BY <1>1, <1>11, <2>5 DEF Strike
    <3>2. \A p \in Ordinals : Held(p)' <=> Held(p) /\ p # x
      BY <1>1, <2>5 DEF Held
    <3>3. OrdinalsInOrder'
      BY <2>3, <3>1, <3>2 DEF OrdinalInv, OrdinalsInOrder
    <3>. QED
      BY <2>3, <3>1, <3>3 DEF OrdinalInv
  <2>. QED
    BY <1>11, <2>4, <2>5 DEF Strike
<1>. QED
  BY <1>4, <1>5, <1>6, <1>7, <1>10, <1>11 DEF OrdinalNext, KeepOrdinals

-----------------------------------------------------------------------------
(* The daemon set *)

\* A daemon that waits for the scheduler was unbound by the monitor.
DaemonInv ==
    /\ DaemonsAtHome
    /\ machines \subseteq Machines
    /\ \A m \in Machines : daemons[m].phase = "Pending" => m \in touched

\* A set of daemons starts empty.
LEMMA DaemonStarts ==
    ASSUME DaemonInit
    PROVE  DaemonInv
<1>1. daemons = [m \in Machines |-> NoDaemon] /\ NoDaemon.phase = "none"
  BY DEF DaemonInit, NoDaemon
<1>. QED
  BY <1>1 DEF DaemonInit, DaemonInv, DaemonsAtHome, Made

\* A daemon leaves its node by the monitor's hand only.
LEMMA DaemonSteps ==
    ASSUME DaemonInv, DaemonNext
    PROVE  DaemonInv'
<1>1. daemons \in [Machines -> Daemon \cup {NoDaemon}] /\ NoDaemon \notin Daemon
      /\ NoDaemon.phase = "none"
  BY DEF DaemonInv, DaemonsAtHome, NoDaemon, Daemon
<1>2. ASSUME NEW m \in Machines, NEW d \in Daemon,
             daemons' = [daemons EXCEPT ![m] = d], touched \subseteq touched',
             UNCHANGED machines,
             d.home # m => m \in touched', d.phase = "Pending" => m \in touched'
      PROVE  DaemonInv'
  <2>1. daemons' \in [Machines -> Daemon \cup {NoDaemon}]
    BY <1>1, <1>2
  <2>2. \A n \in Machines : daemons'[n] = IF n = m THEN d ELSE daemons[n]
    BY <1>1, <1>2
  <2>3. \A n \in Machines :
           /\ daemons'[n].phase = "Pending" => n \in touched'
           /\ daemons'[n] # NoDaemon /\ daemons'[n].home # n => n \in touched'
    BY <1>2, <2>2 DEF DaemonInv, DaemonsAtHome, Made
  <2>. QED
    BY <1>2, <2>1, <2>3 DEF DaemonInv, DaemonsAtHome, Made
<1>3. CASE Follow
  <2>1. daemons' = [m \in Machines |->
           IF m \notin machines THEN NoDaemon
           ELSE IF m \in Made THEN daemons[m] ELSE [phase |-> "Bound", home |-> m]]
    BY <1>3 DEF Follow
  <2>2. touched' = touched \cap Made \cap machines /\ UNCHANGED machines
    BY <1>3 DEF Follow
  <2>3. \A m \in Machines : [phase |-> "Bound", home |-> m] \in Daemon
    BY DEF Daemon
  <2>4. daemons' \in [Machines -> Daemon \cup {NoDaemon}]
    BY <1>1, <2>1, <2>3
  <2>5. ASSUME NEW m \in Machines
        PROVE  /\ daemons'[m].phase = "Pending" => m \in touched'
               /\ daemons'[m] # NoDaemon /\ daemons'[m].home # m => m \in touched'
    <3>1. CASE m \notin machines
      BY <1>1, <2>1, <3>1
    <3>2. CASE m \in machines /\ m \in Made
      <4>1. daemons'[m] = daemons[m]
        BY <2>1, <3>2
      <4>. QED
        BY <2>2, <3>2, <4>1 DEF DaemonInv, DaemonsAtHome
    <3>3. CASE m \in machines /\ m \notin Made
      <4>1. daemons'[m] = [phase |-> "Bound", home |-> m]
        BY <2>1, <3>3
      <4>. QED
        BY <4>1
    <3>. QED
      BY <3>1, <3>2, <3>3
  <2>. QED
    BY <2>2, <2>4, <2>5 DEF DaemonInv, DaemonsAtHome, Made
<1>4. ASSUME NEW m \in Machines, Join(m) \/ Leave(m) PROVE DaemonInv'
  BY <1>4 DEF Join, Leave, DaemonInv, DaemonsAtHome, Made
<1>5. ASSUME NEW m \in Machines, NEW ph \in {"Running", "Failed"},
             daemons[m].phase \in {"Bound", "Running"},
             daemons' = [daemons EXCEPT ![m].phase = ph], UNCHANGED <<machines, touched>>
      PROVE  DaemonInv'
  <2>. DEFINE d == [daemons[m] EXCEPT !.phase = ph]
  <2>1. daemons[m] \in Daemon /\ daemons[m] # NoDaemon
    BY <1>1, <1>5
  <2>2. d \in Daemon /\ d.home = daemons[m].home /\ d.phase = ph
    BY <2>1 DEF Daemon
  <2>3. daemons' = [daemons EXCEPT ![m] = d]
    BY <1>5
  <2>4. d.home # m => m \in touched
    BY <2>1, <2>2 DEF DaemonInv, DaemonsAtHome, Made
  <2>. HIDE DEF d
  <2>. QED
    BY <1>2, <1>5, <2>2, <2>3, <2>4
<1>6. ASSUME NEW m \in Machines, RunDaemon(m) \/ EndDaemon(m) PROVE DaemonInv'
  <2>1. CASE RunDaemon(m)
    BY <1>5, <2>1 DEF RunDaemon
  <2>2. CASE EndDaemon(m)
    BY <1>5, <2>2 DEF EndDaemon
  <2>. QED
    BY <1>6, <2>1, <2>2
<1>7. ASSUME NEW m \in Machines, Displace(m) PROVE DaemonInv'
  <2>1. [phase |-> "Pending", home |-> NoMachine] \in Daemon
    BY DEF Daemon
  <2>. QED
    BY <1>2, <1>7, <2>1 DEF Displace
<1>8. ASSUME NEW m \in Machines, PlaceDaemon(m) PROVE DaemonInv'
  <2>1. PICK n \in machines : daemons' = [daemons EXCEPT ![m] = [phase |-> "Bound", home |-> n]]
    BY <1>8 DEF PlaceDaemon
  <2>2. m \in touched /\ UNCHANGED <<machines, touched>>
    BY <1>8 DEF PlaceDaemon, DaemonInv
  <2>3. [phase |-> "Bound", home |-> n] \in Daemon
    BY <2>1 DEF Daemon, DaemonInv
  <2>. QED
    BY <1>2, <2>1, <2>2, <2>3
<1>. QED
  BY <1>3, <1>4, <1>6, <1>7, <1>8 DEF DaemonNext

-----------------------------------------------------------------------------
(* Departures *)

DepartureTypes ==
    /\ present \subseteq Members
    /\ finalizers \in [Members -> SUBSET Janitors]
    /\ leaving \subseteq Members
    /\ ownerOf \in [Members -> Members \cup {Nobody}]

DepartureInv == DepartureTypes /\ DeparturesConsistent

\* C holds what those in it refer to.
Upward(C) == \A u \in C : ownerOf[u] # Nobody => ownerOf[u] \in C

\* A chain is the least set that holds its name and is closed upwards.
ChainsAreLeast ==
    \A t \in Members :
        /\ Chain(t) \in SUBSET Members /\ t \in Chain(t) /\ Upward(Chain(t))
        /\ \A X \in SUBSET Members : t \in X /\ Upward(X) => Chain(t) \subseteq X

\* As many steps as there are names lead to the top.
LEMMA ChainsClose ==
    ASSUME DepartureAssumption, DepartureTypes
    PROVE  ChainsAreLeast
<1> DEFINE N == Cardinality(Members)
           Above(X) == X \cup ({ownerOf[u] : u \in X} \ {Nobody})
           G == [X \in SUBSET Members |-> Above(X)]
<1>1. IsFiniteSet(Members) /\ N \in Nat
  BY FS_CardinalityType DEF DepartureAssumption
<1>2. G \in [SUBSET Members -> SUBSET Members]
  BY DEF DepartureTypes
<1>3. \A X, Y \in SUBSET Members : X \subseteq Y => G[X] \subseteq G[Y]
  OBVIOUS
<1>4. SUFFICES ASSUME NEW t \in Members
               PROVE  /\ Chain(t) \in SUBSET Members /\ t \in Chain(t) /\ Upward(Chain(t))
                      /\ \A X \in SUBSET Members :
                            t \in X /\ Upward(X) => Chain(t) \subseteq X
  BY DEF ChainsAreLeast
<1> DEFINE Right(f) == f = [n \in 0..N |-> IF n = 0 THEN {t} ELSE Above(f[n - 1])]
           up == CHOOSE f : Right(f)
<1>5. \E f : Right(f)
  <2>1. PICK f : IsIteration(f, N, {t}, G)
    <3>. HIDE DEF G, N
    <3>. QED
      BY <1>1, <1>2, IterationExists
  <2>2. f = [n \in 0..N |-> IF n = 0 THEN {t} ELSE G[f[n - 1]]]
    BY <2>1 DEF IsIteration
  <2>3. \A n \in 0..N : f[n] \in SUBSET Members
    <3>1. {t} \in SUBSET Members
      OBVIOUS
    <3>2. Stepwise(f, N, SUBSET Members, {t}, G)
      <4>. HIDE DEF G, N
      <4>. QED
        BY <1>1, <1>2, <2>1, <3>1, IterationIsStepwise
    <3>. HIDE DEF G, N
    <3>. QED
      BY <3>2, StepwiseStays
  <2>4. ASSUME NEW n \in 0..N
        PROVE  (IF n = 0 THEN {t} ELSE G[f[n - 1]]) = IF n = 0 THEN {t} ELSE Above(f[n - 1])
    <3>1. n # 0 => n - 1 \in 0..N
      BY <1>1
    <3>2. n # 0 => f[n - 1] \in SUBSET Members
      BY <2>3, <3>1
    <3>3. n # 0 => G[f[n - 1]] = Above(f[n - 1])
      BY <3>2
    <3>. QED
      BY <3>3
  <2>5. [n \in 0..N |-> IF n = 0 THEN {t} ELSE G[f[n - 1]]]
           = [n \in 0..N |-> IF n = 0 THEN {t} ELSE Above(f[n - 1])]
    BY <2>4
  <2>6. Right(f)
    BY ONLY <2>2, <2>5
  <2>. QED
    BY <2>6
<1>6. Right(up)
  BY <1>5
<1>7. IsIteration(up, N, {t}, G)
  <2>. HIDE DEF up
  <2>1. \A n \in 0..N : up[n] = IF n = 0 THEN {t} ELSE Above(up[n - 1])
    BY <1>6
  <2>2. up = [n \in 0..N |-> up[n]]
    <3>1. up = [n \in 0..N |-> IF n = 0 THEN {t} ELSE Above(up[n - 1])]
      BY <1>6
    <3>2. DOMAIN up = 0..N
      BY <3>1
    <3>. QED
      BY <3>1, <3>2
  <2>3. Stepwise(up, N, SUBSET Members, {t}, G)
    <3>1. up[0] = {t}
      <4>1. 0 \in 0..N
        <5>. HIDE DEF N
        <5>. QED
          BY <1>1
      <4>. HIDE DEF N
      <4>. QED
        BY <2>1, <4>1
    <3>2. ASSUME NEW n \in 1..N, up[n - 1] \in SUBSET Members PROVE up[n] = G[up[n - 1]]
      <4>1. n \in 0..N /\ n # 0
        BY <1>1
      <4>2. up[n] = Above(up[n - 1])
        BY <2>1, <4>1
      <4>. QED
        BY <3>2, <4>2
    <3>. HIDE DEF G, N
    <3>. QED
      BY <1>1, <1>2, <3>1, <3>2 DEF Stepwise
  <2>. HIDE DEF G, N
  <2>. QED
    BY <2>2, <2>3, StepwiseIsIteration
<1>8. IsClosure(up[N], Members, {t}, G)
  <2>1. {t} \in SUBSET Members /\ {t} \subseteq G[{t}]
    OBVIOUS
  <2>. HIDE DEF G, up
  <2>. QED
    BY <1>1, <1>2, <1>3, <1>7, <2>1, IterationCloses
<1>9. Chain(t) = up[N]
  BY DEF Chain
<1>. HIDE DEF up
<1>10. /\ Chain(t) \in SUBSET Members /\ {t} \subseteq Chain(t) /\ G[Chain(t)] = Chain(t)
       /\ \A X \in SUBSET Members :
             {t} \subseteq X /\ G[X] \subseteq X => Chain(t) \subseteq X
  BY <1>8, <1>9 DEF IsClosure
<1>11. ASSUME NEW X \in SUBSET Members PROVE G[X] = Above(X)
  OBVIOUS
<1>12. Upward(Chain(t))
  <2>1. Above(Chain(t)) = Chain(t)
    BY <1>10, <1>11
  <2>. QED
    BY <2>1 DEF Upward
<1>13. ASSUME NEW X \in SUBSET Members, t \in X, Upward(X) PROVE Chain(t) \subseteq X
  <2>1. Above(X) \subseteq X
    BY <1>13 DEF Upward
  <2>. QED
    BY <1>10, <1>11, <1>13, <2>1
<1>. QED
  BY <1>10, <1>12, <1>13

\* The next state's chains.
LEMMA ChainsCloseNext ==
    ASSUME DepartureAssumption, DepartureTypes'
    PROVE  ChainsAreLeast'
BY ChainsClose, PTL

\* No reference is its own owner's, by way of others.
Forest == \A t \in Members : ownerOf[t] # Nobody => t \notin Chain(ownerOf[t])

\* Fewer references leave a forest.
LEMMA FewerReferences ==
    ASSUME DepartureAssumption, DepartureTypes, DepartureTypes', Forest,
           \A u \in Members : ownerOf'[u] \in {ownerOf[u], Nobody}
    PROVE  Forest'
<1>1. ChainsAreLeast /\ ChainsAreLeast'
  BY ChainsClose, ChainsCloseNext
<1>2. ASSUME NEW t \in Members PROVE Chain(t)' \subseteq Chain(t)
  <2>1. Chain(t) \in SUBSET Members /\ t \in Chain(t) /\ Upward(Chain(t))
    BY <1>1 DEF ChainsAreLeast
  <2>2. \A u \in Chain(t) : ownerOf'[u] # Nobody => ownerOf'[u] \in Chain(t)
    BY <2>1 DEF Upward
  <2>3. \A X \in SUBSET Members :
           t \in X /\ (\A u \in X : ownerOf'[u] # Nobody => ownerOf'[u] \in X)
              => Chain(t)' \subseteq X
    BY <1>1 DEF ChainsAreLeast, Upward
  <2>. QED
    BY <2>1, <2>2, <2>3
<1>3. ASSUME NEW t \in Members, ownerOf'[t] # Nobody PROVE t \notin Chain(ownerOf[t])'
  <2>1. ownerOf'[t] = ownerOf[t] /\ ownerOf[t] \in Members
    BY <1>3 DEF DepartureTypes
  <2>2. t \notin Chain(ownerOf[t])
    BY <1>3, <2>1 DEF Forest
  <2>. QED
    BY <1>2, <2>1, <2>2
<1>4. \A t \in Members : ownerOf'[t] # Nobody => t \notin Chain(ownerOf[t])'
  BY <1>3
<1>. QED
  BY <1>4 DEF Forest

\* A link that is not refused leaves a forest.
LEMMA LinksKeepTheForest ==
    ASSUME DepartureAssumption, DepartureTypes, DepartureTypes', Forest,
           NEW child \in Members, NEW owner \in Members, MayLink(child, owner),
           ownerOf' = [ownerOf EXCEPT ![child] = owner]
    PROVE  Forest'
<1>1. ChainsAreLeast /\ ChainsAreLeast'
  BY ChainsClose, ChainsCloseNext
<1>2. child \notin Chain(owner)
  BY DEF MayLink
<1>3. \A u \in Members : ownerOf'[u] = IF u = child THEN owner ELSE ownerOf[u]
  BY DEF DepartureTypes
<1>4. \A t \in Members : Chain(t) \in SUBSET Members /\ t \in Chain(t) /\ Upward(Chain(t))
  BY <1>1 DEF ChainsAreLeast
<1>5. ASSUME NEW t \in Members, NEW X \in SUBSET Members, t \in X,
             \A u \in X : ownerOf'[u] # Nobody => ownerOf'[u] \in X
      PROVE  Chain(t)' \subseteq X
  <2>1. Upward(X)'
    BY <1>5 DEF Upward
  <2>. QED
    BY <1>1, <1>5, <2>1 DEF ChainsAreLeast
\* A chain without the child stays as it was, and so does that of the owner.
<1>6. ASSUME NEW t \in Members, child \notin Chain(t) PROVE Chain(t)' \subseteq Chain(t)
  <2>1. \A u \in Chain(t) : ownerOf'[u] = ownerOf[u]
    BY <1>3, <1>4, <1>6
  <2>2. \A u \in Chain(t) : ownerOf'[u] # Nobody => ownerOf'[u] \in Chain(t)
    BY <1>4, <2>1 DEF Upward
  <2>. QED
    BY <1>4, <1>5, <2>2
<1>7. ASSUME NEW t \in Members PROVE Chain(t)' \subseteq Chain(t) \cup Chain(owner)
  <2>. DEFINE X == Chain(t) \cup Chain(owner)
  <2>1. X \in SUBSET Members /\ t \in X
    BY <1>4
  <2>2. ASSUME NEW u \in X, ownerOf'[u] # Nobody PROVE ownerOf'[u] \in X
    BY <1>3, <1>4, <2>1, <2>2 DEF Upward
  <2>. HIDE DEF X
  <2>3. Chain(t)' \subseteq X
    BY <1>5, <2>1, <2>2
  <2>. QED
    BY <2>3 DEF X
<1>8. ASSUME NEW t \in Members, NEW u \in Chain(t) PROVE Chain(u) \subseteq Chain(t)
  <2>1. Chain(t) \in SUBSET Members /\ Upward(Chain(t)) /\ u \in Members
    BY <1>4, <1>8
  <2>. QED
    BY <1>1, <1>8, <2>1 DEF ChainsAreLeast
<1>9. ASSUME NEW t \in Members, ownerOf'[t] # Nobody, t # child
      PROVE  t \notin Chain(ownerOf[t])'
  <2>1. PICK o \in Members : ownerOf[t] = o /\ ownerOf'[t] = o /\ o # Nobody
    BY <1>3, <1>9 DEF DepartureTypes, DepartureAssumption
  <2>2. t \notin Chain(o)
    BY <1>9, <2>1 DEF Forest
  <2>3. CASE child \notin Chain(o)
    BY <1>6, <2>1, <2>2, <2>3
  <2>4. CASE child \in Chain(o)
    <3>1. SUFFICES ASSUME t \in Chain(owner) PROVE FALSE
      BY <1>7, <2>1, <2>2
    <3>2. o \in Chain(owner)
      BY <1>4, <2>1, <3>1 DEF Upward
    <3>3. child \in Chain(owner)
      BY <1>8, <2>4, <3>2
    <3>. QED
      BY <1>2, <3>3
  <2>. QED
    BY <2>3, <2>4
<1>10. child \notin Chain(ownerOf[child])'
  <2>1. ownerOf'[child] = owner
    BY <1>3
  <2>2. Chain(owner)' \subseteq Chain(owner)
    BY <1>2, <1>6
  <2>. QED
    BY <1>2, <2>1, <2>2
<1>11. \A t \in Members : ownerOf'[t] # Nobody => t \notin Chain(ownerOf[t])'
  BY <1>9, <1>10
<1>. QED
  BY <1>11 DEF Forest

\* What the ledgers say of who leaves, beside the forest.
LeavingWaits ==
    /\ \A t \in leaving : finalizers[t] # {} /\ (t \in asked \/ t \in bypassed)
    /\ asked \subseteq present \cap leaving
    /\ bypassed \subseteq leaving

\* No reference and nobody leaving at first.
LEMMA DepartureStarts ==
    ASSUME DepartureAssumption, DepartureInit
    PROVE  DepartureInv
<1>1. DepartureTypes /\ \A t \in Members : ownerOf[t] = Nobody
  BY DEF DepartureInit, DepartureTypes
<1>. QED
  BY <1>1 DEF DepartureInit, DepartureInv, DeparturesConsistent

\* What is leaving waits for a signature, and its deletion was asked for, after every
\* step; so do the references form a forest.
LEMMA DepartureSteps ==
    ASSUME DepartureAssumption, DepartureInv, DepartureNext
    PROVE  DepartureInv'
<1>1. DepartureTypes /\ LeavingWaits /\ Forest
  BY DEF DepartureInv, DeparturesConsistent, LeavingWaits, Forest
<1>2. SUFFICES DepartureTypes' /\ LeavingWaits' /\ Forest'
  BY DEF DepartureInv, DeparturesConsistent, LeavingWaits, Forest
<1>3. ASSUME UNCHANGED ownerOf, DepartureTypes' PROVE Forest'
  BY <1>1, <1>3, FewerReferences
<1>4. ASSUME NEW t \in Members, Appear(t) PROVE DepartureTypes' /\ LeavingWaits' /\ Forest'
  <2>1. DepartureTypes'
    BY <1>1, <1>4 DEF Appear, DepartureTypes
  <2>2. LeavingWaits'
    BY <1>1, <1>4 DEF Appear, LeavingWaits
  <2>. QED
    BY <1>3, <1>4, <2>1, <2>2 DEF Appear
<1>5. ASSUME NEW t \in Members, RequestDelete(t)
      PROVE  DepartureTypes' /\ LeavingWaits' /\ Forest'
  <2>1. DepartureTypes'
    BY <1>1, <1>5 DEF RequestDelete, Gone, DepartureTypes
  <2>2. CASE finalizers[t] = {}
    <3>1. /\ UNCHANGED <<finalizers, leaving, bypassed>>
          /\ present' = present \ {t} /\ asked' = asked \ {t} /\ t \notin leaving
      BY <1>1, <1>5, <2>2 DEF RequestDelete, Gone, LeavingWaits
    <3>. QED
      BY <1>1, <1>3, <1>5, <2>1, <3>1 DEF RequestDelete, LeavingWaits
  <2>3. CASE finalizers[t] # {}
    <3>1. /\ UNCHANGED <<finalizers, present, bypassed>> /\ t \in present
          /\ leaving' = leaving \cup {t} /\ asked' = asked \cup {t}
      BY <1>1, <1>5, <2>3 DEF RequestDelete, LeavingWaits
    <3>2. LeavingWaits'
      BY <1>1, <2>3, <3>1 DEF LeavingWaits
    <3>. QED
      BY <1>3, <1>5, <2>1, <3>2 DEF RequestDelete
  <2>. QED
    BY <2>2, <2>3
<1>6. ASSUME NEW t \in Members, NEW j \in Janitors, Protect(t, j)
      PROVE  DepartureTypes' /\ LeavingWaits' /\ Forest'
  <2>1. DepartureTypes'
    BY <1>1, <1>6 DEF Protect, DepartureTypes
  <2>2. \A u \in Members : finalizers[u] \subseteq finalizers'[u]
    BY <1>1, <1>6 DEF Protect, DepartureTypes
  <2>3. UNCHANGED <<present, leaving, ownerOf, asked, bypassed>>
    BY <1>6 DEF Protect
  <2>4. LeavingWaits'
    <3>1. \A u \in leaving : finalizers'[u] # {}
      BY <1>1, <2>2 DEF LeavingWaits, DepartureTypes
    <3>. QED
      BY <1>1, <2>3, <3>1 DEF LeavingWaits
  <2>. QED
    BY <1>3, <2>1, <2>3, <2>4
<1>7. ASSUME NEW t \in Members, NEW j \in Janitors, Clear(t, j)
      PROVE  DepartureTypes' /\ LeavingWaits' /\ Forest'
  <2>1. DepartureTypes'
    BY <1>1, <1>7 DEF Clear, Gone, DepartureTypes
  <2>2. \A u \in Members : finalizers'[u] = IF u = t THEN finalizers[t] \ {j}
                                           ELSE finalizers[u]
    BY <1>1, <1>7 DEF Clear, DepartureTypes
  <2>3. CASE finalizers[t] = {j} /\ t \in leaving
    <3>1. /\ leaving' = leaving \ {t} /\ bypassed' = bypassed \ {t}
          /\ present' = present \ {t} /\ asked' = asked \ {t}
      BY <1>7, <2>3 DEF Clear, Gone
    <3>2. LeavingWaits'
      BY <1>1, <2>2, <3>1 DEF LeavingWaits, DepartureTypes
    <3>. QED
      BY <1>3, <1>7, <2>1, <3>2 DEF Clear
  <2>4. CASE ~(finalizers[t] = {j} /\ t \in leaving)
    <3>1. UNCHANGED <<leaving, bypassed, present, asked>>
      BY <1>7, <2>4 DEF Clear
    <3>2. t \in leaving => finalizers[t] \ {j} # {}
      BY <1>7, <2>4 DEF Clear
    <3>3. LeavingWaits'
      BY <1>1, <2>2, <3>1, <3>2 DEF LeavingWaits, DepartureTypes
    <3>. QED
      BY <1>3, <1>7, <2>1, <3>3 DEF Clear
  <2>. QED
    BY <2>3, <2>4
<1>8. ASSUME NEW S, Bypass(S), UNCHANGED <<finalizers, leaving>> PROVE LeavingWaits'
  <2>1. /\ present' = present \ S /\ asked' = asked \ S
        /\ bypassed' = bypassed \cup (S \cap present \cap leaving)
    BY <1>8 DEF Bypass, Gone
  <2>. QED
    BY <1>1, <1>8, <2>1 DEF LeavingWaits
<1>9. ASSUME NEW t \in Members, DeleteCascading(t)
      PROVE  DepartureTypes' /\ LeavingWaits' /\ Forest'
  <2>1. DepartureTypes'
    BY <1>1, <1>9 DEF DeleteCascading, Bypass, Gone, DepartureTypes
  <2>2. LeavingWaits'
    BY <1>8, <1>9 DEF DeleteCascading
  <2>3. \A u \in Members : ownerOf'[u] \in {ownerOf[u], Nobody}
    BY <1>9 DEF DeleteCascading
  <2>. QED
    BY <1>1, <2>1, <2>2, <2>3, FewerReferences
<1>10. ASSUME NEW t \in Members, DeleteOrphaning(t)
       PROVE  DepartureTypes' /\ LeavingWaits' /\ Forest'
  <2>1. DepartureTypes'
    BY <1>1, <1>10 DEF DeleteOrphaning, Bypass, Gone, DepartureTypes
  <2>2. LeavingWaits'
    BY <1>8, <1>10 DEF DeleteOrphaning
  <2>3. \A u \in Members : ownerOf'[u] \in {ownerOf[u], Nobody}
    BY <1>10 DEF DeleteOrphaning
  <2>. QED
    BY <1>1, <2>1, <2>2, <2>3, FewerReferences
<1>11. ASSUME NEW t \in Members, NEW u \in Members, Link(t, u)
       PROVE  DepartureTypes' /\ LeavingWaits' /\ Forest'
  <2>1. DepartureTypes'
    BY <1>1, <1>11 DEF Link, DepartureTypes
  <2>2. LeavingWaits'
    BY <1>1, <1>11 DEF Link, LeavingWaits
  <2>3. MayLink(t, u) /\ ownerOf' = [ownerOf EXCEPT ![t] = u]
    BY <1>11 DEF Link
  <2>. QED
    BY <1>1, <2>1, <2>2, <2>3, LinksKeepTheForest
<1>. QED
  BY <1>4, <1>5, <1>6, <1>7, <1>9, <1>10, <1>11 DEF DepartureNext

-----------------------------------------------------------------------------
(* The job and the collector *)

\* What the index waits for was given to it, what was not given yet is not there,
\* and no note is kept of a child that runs.
AttemptsInOrder ==
    /\ \A i \in Indexes : active[i] # NoAttempt => active[i] < attempts[i]
    /\ \A n \in Children : n[2] >= attempts[n[1]] =>
                              task[n] = "Absent" /\ finished[n] = NoAttempt
    /\ \A n \in Children : task[n] = "Active" => finished[n] = NoAttempt

\* A success is remembered, and there are no more of them than attempts.
SuccessesCounted ==
    /\ \A i \in Indexes : succeeded[i] => ran[i] > 0
    /\ \A n \in Children : task[n] = "Succeeded" => ran[n[1]] > 0
    /\ \A i \in Indexes :
          ran[i] + (IF Seen(i) = "Active" THEN 1 ELSE 0) <= attempts[i]

JobInv == JobConsistent /\ AttemptsInOrder /\ SuccessesCounted

\* Names of children, and of others.
LEMMA NamesOfChildren ==
    ASSUME JobAssumption
    PROVE  /\ \A n \in Children : n[1] \in Indexes /\ n[2] \in Attempts /\ n = <<n[1], n[2]>>
           /\ \A n \in Others : n[1] \notin Indexes
           /\ Attempts \subseteq Nat /\ Retries \in Nat /\ Indexes \subseteq Nat
           /\ Children \cap Others = {} /\ Ttl \in Nat /\ Ttl # 0 /\ Parallelism \in Nat
BY DEF JobAssumption, Children, Attempts

\* No child at first.
LEMMA JobStarts ==
    ASSUME JobAssumption, JobInit
    PROVE  JobInv
<1>1. JobTypeOK
  BY NamesOfChildren DEF JobInit, JobTypeOK
<1>2. AttemptsInOrder
  BY NamesOfChildren DEF JobInit, AttemptsInOrder, Names
<1>3. \A i \in Indexes : Seen(i) = "None"
  BY DEF JobInit, Seen
<1>4. SuccessesCounted
  BY <1>3, NamesOfChildren DEF JobInit, SuccessesCounted, Names
<1>5. ParallelismKept
  <2>1. {n \in Children : task[n] = "Active"} = {}
    BY DEF JobInit, Names
  <2>2. Cardinality({}) = 0
    BY FS_EmptySet
  <2>. QED
    BY <2>1, <2>2, NamesOfChildren DEF ParallelismKept
<1>6. NoStrays /\ DoneIsHonest
  BY DEF JobInit, NoStrays, DoneIsHonest, Names
<1>. QED
  BY <1>1, <1>2, <1>4, <1>5, <1>6 DEF JobInv, JobConsistent

\* A child that runs is the one its index waits for.
LEMMA ActiveIsSeen ==
    ASSUME JobAssumption, NoStrays, NEW n \in Children, task[n] = "Active"
    PROVE  Seen(n[1]) = "Active" /\ n = <<n[1], active[n[1]]>>
<1>1. active[n[1]] = n[2] /\ n[2] \in Attempts /\ n = <<n[1], n[2]>>
  BY NamesOfChildren DEF NoStrays
<1>2. n[2] # NoAttempt
  BY <1>1 DEF Attempts, NoAttempt
<1>. QED
  BY <1>1, <1>2 DEF Seen

\* Where fewer run, there are not more than before.
LEMMA FewerRun ==
    ASSUME JobAssumption, ParallelismKept,
           \A n \in Children : task'[n] = "Active" => task[n] = "Active"
    PROVE  ParallelismKept'
<1> DEFINE A == {n \in Children : task[n] = "Active"}
           B == {n \in Children : task'[n] = "Active"}
<1>1. IsFiniteSet(Children)
  <2>1. IsFiniteSet(Indexes) /\ IsFiniteSet(Attempts)
    <3>1. Retries \in Nat
      BY DEF JobAssumption
    <3>. QED
      BY <3>1, Numbers DEF JobAssumption, Attempts
  <2>. QED
    BY <2>1, FS_Product DEF Children
<1>2. A \subseteq Children /\ B \subseteq A
  OBVIOUS
<1>3. /\ Cardinality(B) <= Cardinality(A)
      /\ Cardinality(A) \in Nat /\ Cardinality(B) \in Nat
  <2>. HIDE DEF A, B
  <2>. QED
    BY <1>1, <1>2, FS_Subset, FS_CardinalityType
<1>. QED
  BY <1>3, NamesOfChildren DEF ParallelismKept

-----------------------------------------------------------------------------
\* A child ends.
LEMMA CompleteKeeps ==
    ASSUME JobAssumption, JobInv, NEW n \in Names, NEW p \in Finished, Complete(n, p)
    PROVE  JobInv'
<1>1. JobTypeOK /\ ParallelismKept /\ NoStrays /\ DoneIsHonest
  BY DEF JobInv, JobConsistent
<1>2. /\ task[n] = "Active" /\ task' = [task EXCEPT ![n] = p]
      /\ ran' = [i \in Indexes |->
                    IF n[1] = i /\ p = "Succeeded" THEN ran[i] + 1 ELSE ran[i]]
      /\ UNCHANGED <<succeeded, attempts, active, outcome, finished>>
  BY DEF Complete, jobVars
<1>3. p \in {"Succeeded", "Failed"} /\ p # "Active" /\ p # "Absent"
  BY DEF Finished
<1>4. \A m \in Names : task'[m] = IF m = n THEN p ELSE task[m]
  BY <1>1, <1>2 DEF JobTypeOK
<1>5. Children \subseteq Names
  BY DEF Names
<1>6. \A i \in Indexes : n[1] = i => n \in Children /\ Seen(i) = "Active" /\ n = <<i, active[i]>>
  <2>1. \A i \in Indexes : n[1] = i => n \in Children
    BY NamesOfChildren DEF Names
  <2>. QED
    BY <1>1, <1>2, <2>1, ActiveIsSeen
<1>7. ASSUME NEW i \in Indexes
      PROVE  /\ ran[i] <= ran'[i]
             /\ ran'[i] + (IF Seen(i)' = "Active" THEN 1 ELSE 0) <= attempts[i]
             /\ n[1] = i /\ p = "Succeeded" => ran'[i] > 0
  <2>1. ran[i] \in Nat /\ attempts[i] \in Nat
        /\ ran[i] + (IF Seen(i) = "Active" THEN 1 ELSE 0) <= attempts[i]
    BY <1>1, NamesOfChildren DEF JobTypeOK, JobInv, SuccessesCounted
  <2>2. CASE n[1] = i
    <3>1. Seen(i) = "Active" /\ n = <<i, active[i]>>
      BY <1>6, <2>2
    <3>2. Seen(i)' # "Active"
      <4>1. active'[i] = active[i] /\ task'[n] = p
        BY <1>2, <1>4
      <4>. QED
        BY <1>3, <3>1, <4>1 DEF Seen
    <3>3. ran'[i] \in {ran[i], ran[i] + 1} /\ (p = "Succeeded" => ran'[i] = ran[i] + 1)
      BY <1>2, <2>2
    <3>. QED
      BY <2>1, <3>1, <3>2, <3>3
  <2>3. CASE n[1] # i
    <3>1. ran'[i] = ran[i]
      BY <1>2, <2>3
    <3>2. Seen(i)' = "Active" => Seen(i) = "Active"
      <4>1. SUFFICES ASSUME Seen(i)' = "Active" PROVE Seen(i) = "Active"
        OBVIOUS
      <4>2. active'[i] = active[i] /\ active[i] # NoAttempt /\ task'[<<i, active[i]>>] = "Active"
        BY <1>2, <4>1 DEF Seen
      <4>3. <<i, active[i]>> \in Names
        BY <1>1, <4>2 DEF JobTypeOK, Names, Children
      <4>. QED
        BY <1>3, <1>4, <4>2, <4>3 DEF Seen
    <3>. QED
      BY <2>1, <2>3, <3>1, <3>2
  <2>. QED
    BY <2>2, <2>3
<1>8. JobTypeOK'
  <2>1. task' \in [Names -> {"Absent", "Active"} \cup Finished]
    BY <1>1, <1>2 DEF JobTypeOK
  <2>2. ASSUME NEW i \in Indexes PROVE ran'[i] \in 0..Retries + 1
    <3>1. ran[i] \in 0..Retries + 1 /\ attempts[i] \in 0..Retries + 1
      BY <1>1 DEF JobTypeOK
    <3>2. ran'[i] \in {ran[i], ran[i] + 1}
      BY <1>2
    <3>3. ran'[i] <= attempts[i]
      BY <1>7, <3>1, <3>2, NamesOfChildren
    <3>. QED
      BY <3>1, <3>2, <3>3, NamesOfChildren
  <2>3. ran' \in [Indexes -> 0..Retries + 1]
    BY <1>2, <2>2
  <2>. QED
    BY <1>1, <1>2, <2>1, <2>3 DEF JobTypeOK
<1>9. ParallelismKept'
  <2>1. \A m \in Children : task'[m] = "Active" => task[m] = "Active"
    BY <1>3, <1>4, <1>5
  <2>. QED
    BY <1>1, <2>1, FewerRun
<1>10. NoStrays'
  BY <1>1, <1>2, <1>3, <1>4, <1>5 DEF NoStrays
<1>11. DoneIsHonest'
  <2>1. \A i \in Indexes : ran[i] \in Nat /\ ran'[i] \in Nat
    BY <1>1, <1>8, NamesOfChildren DEF JobTypeOK
  <2>. QED
    BY <1>1, <1>2, <1>7, <2>1 DEF DoneIsHonest
<1>12. AttemptsInOrder'
  <2>1. AttemptsInOrder
    BY DEF JobInv
  <2>2. \A m \in Children : m[2] >= attempts[m[1]] => m # n
    BY <1>2, <2>1 DEF AttemptsInOrder
  <2>. QED
    BY <1>2, <1>3, <1>4, <1>5, <2>1, <2>2 DEF AttemptsInOrder
<1>13. SuccessesCounted'
  <2>1. SuccessesCounted
    BY DEF JobInv
  <2>2. \A i \in Indexes : ran[i] \in Nat /\ ran'[i] \in Nat
    BY <1>1, <1>8, NamesOfChildren DEF JobTypeOK
  <2>3. \A i \in Indexes : succeeded'[i] => ran'[i] > 0
    BY <1>2, <1>7, <2>1, <2>2 DEF SuccessesCounted
  <2>4. ASSUME NEW m \in Children, task'[m] = "Succeeded" PROVE ran'[m[1]] > 0
    <3>1. m[1] \in Indexes
      BY NamesOfChildren
    <3>2. CASE m = n
      BY <1>4, <1>5, <1>7, <2>4, <3>1, <3>2
    <3>3. CASE m # n
      <4>1. task[m] = "Succeeded"
        BY <1>4, <1>5, <2>4, <3>3
      <4>2. ran[m[1]] > 0
        BY <2>1, <4>1 DEF SuccessesCounted
      <4>3. ran[m[1]] <= ran'[m[1]] /\ ran[m[1]] \in Nat /\ ran'[m[1]] \in Nat
        BY <1>7, <2>2, <3>1
      <4>. QED
        BY <4>2, <4>3
    <3>. QED
      BY <3>2, <3>3
  <2>. QED
    BY <1>2, <1>7, <2>3, <2>4 DEF SuccessesCounted
<1>. QED
  BY <1>8, <1>9, <1>10, <1>11, <1>12, <1>13 DEF JobInv, JobConsistent

\* Where children only go, or others change, the job stays in order.
LEMMA OthersMayGo ==
    ASSUME JobAssumption, JobInv, UNCHANGED <<jobVars, ran>>,
           task' \in [Names -> {"Absent", "Active"} \cup Finished],
           finished' \in [Names -> 0..Ttl \cup {NoAttempt}],
           \A n \in Children :
              /\ task'[n] = task[n] \/ task'[n] = "Absent"
              /\ finished[n] = NoAttempt /\ task[n] \notin Finished => finished'[n] = NoAttempt
    PROVE  JobInv'
<1>1. /\ JobTypeOK /\ ParallelismKept /\ NoStrays /\ DoneIsHonest
      /\ AttemptsInOrder /\ SuccessesCounted
  BY DEF JobInv, JobConsistent
<1>2. UNCHANGED <<succeeded, attempts, active, outcome, ran>>
  BY DEF jobVars
<1>3. JobTypeOK'
  BY <1>1, <1>2 DEF JobTypeOK
<1>4. \A n \in Children : task'[n] = "Active" => task[n] = "Active"
  OBVIOUS
<1>5. ParallelismKept'
  BY <1>1, <1>4, FewerRun
<1>6. NoStrays' /\ DoneIsHonest'
  BY <1>1, <1>2, <1>4 DEF NoStrays, DoneIsHonest
<1>7. AttemptsInOrder'
  <2>1. ASSUME NEW n \in Children, n[2] >= attempts[n[1]]
        PROVE  task'[n] = "Absent" /\ finished'[n] = NoAttempt
    <3>1. task[n] = "Absent" /\ finished[n] = NoAttempt
      BY <1>1, <2>1 DEF AttemptsInOrder
    <3>. QED
      BY <3>1 DEF Finished
  <2>2. ASSUME NEW n \in Children, task'[n] = "Active" PROVE finished'[n] = NoAttempt
    <3>1. task[n] = "Active" /\ finished[n] = NoAttempt
      BY <1>1, <1>4, <2>2 DEF AttemptsInOrder
    <3>. QED
      BY <3>1 DEF Finished
  <2>. QED
    BY <1>1, <1>2, <2>1, <2>2 DEF AttemptsInOrder
<1>8. SuccessesCounted'
  <2>1. ASSUME NEW i \in Indexes, Seen(i)' = "Active" PROVE Seen(i) = "Active"
    <3>1. active'[i] = active[i] /\ active[i] # NoAttempt /\ task'[<<i, active[i]>>] = "Active"
      BY <1>2, <2>1 DEF Seen
    <3>2. <<i, active[i]>> \in Children
      BY <1>1, <3>1 DEF JobTypeOK, Children
    <3>. QED
      BY <1>4, <3>1, <3>2 DEF Seen
  <2>2. ASSUME NEW i \in Indexes
        PROVE  ran[i] + (IF Seen(i)' = "Active" THEN 1 ELSE 0) <= attempts[i]
    <3>1. ran[i] \in Nat /\ attempts[i] \in Nat
          /\ ran[i] + (IF Seen(i) = "Active" THEN 1 ELSE 0) <= attempts[i]
      BY <1>1, NamesOfChildren DEF JobTypeOK, SuccessesCounted
    <3>. QED
      BY <2>1, <3>1
  <2>3. \A n \in Children : task'[n] = "Succeeded" => ran[n[1]] > 0
    BY <1>1 DEF SuccessesCounted
  <2>. QED
    BY <1>1, <1>2, <2>2, <2>3 DEF SuccessesCounted
<1>. QED
  BY <1>3, <1>5, <1>6, <1>7, <1>8 DEF JobInv, JobConsistent

\* A sweep takes no child that runs.
LEMMA SweepSpares ==
    ASSUME JobAssumption, JobInv, Sweep, NEW n \in Children, task[n] = "Active"
    PROVE  task'[n] = "Active" /\ finished'[n] = NoAttempt
<1>1. n \in Names /\ finished[n] = NoAttempt
  BY DEF JobInv, AttemptsInOrder, Names
<1>2. Noted(n) = NoAttempt
  BY <1>1 DEF Noted, Finished
<1>3. n \notin Swept
  <2>1. ~(NoAttempt >= Ttl)
    BY NamesOfChildren DEF NoAttempt
  <2>2. n \notin Expired
    BY <1>2, <2>1 DEF Expired
  <2>3. n \notin Excess("Succeeded", KeepSucceeded) /\ n \notin Excess("Failed", KeepFailed)
    BY DEF Excess
  <2>. QED
    BY <2>2, <2>3 DEF Swept
<1>. QED
  BY <1>1, <1>2, <1>3 DEF Sweep

\* A sweep keeps the job in order.
LEMMA SweepKeeps ==
    ASSUME JobAssumption, JobInv, Sweep
    PROVE  JobInv'
<1>1. JobTypeOK
  BY DEF JobInv, JobConsistent
<1>2. /\ task' = [n \in Names |-> IF n \in Swept THEN "Absent" ELSE task[n]]
      /\ finished' = [n \in Names |-> IF n \in Swept THEN NoAttempt ELSE Noted(n)]
      /\ UNCHANGED <<jobVars, ran>>
  BY DEF Sweep
<1>3. \A n \in Names : Noted(n) \in 0..Ttl \cup {NoAttempt}
  BY <1>1, NamesOfChildren DEF Noted, JobTypeOK
<1>4. /\ task' \in [Names -> {"Absent", "Active"} \cup Finished]
      /\ finished' \in [Names -> 0..Ttl \cup {NoAttempt}]
  BY <1>1, <1>2, <1>3 DEF JobTypeOK
<1>5. \A n \in Children :
         /\ task'[n] = task[n] \/ task'[n] = "Absent"
         /\ finished[n] = NoAttempt /\ task[n] \notin Finished => finished'[n] = NoAttempt
  BY <1>2 DEF Noted, Names
<1>. QED
  BY <1>2, <1>4, <1>5, OthersMayGo

\* Time passes over the notes.
LEMMA NoteTickKeeps ==
    ASSUME JobAssumption, JobInv, NoteTick
    PROVE  JobInv'
<1>1. JobTypeOK
  BY DEF JobInv, JobConsistent
<1>2. /\ finished' = [n \in Names |-> IF finished[n] \in 0..Ttl - 1 THEN finished[n] + 1
                                      ELSE finished[n]]
      /\ UNCHANGED <<task, jobVars, ran>>
  BY DEF NoteTick
<1>3. finished' \in [Names -> 0..Ttl \cup {NoAttempt}]
  BY <1>1, <1>2, NamesOfChildren DEF JobTypeOK
<1>4. \A n \in Children : finished[n] = NoAttempt => finished'[n] = NoAttempt
  BY <1>2 DEF NoAttempt, Names
<1>. QED
  BY <1>1, <1>2, <1>3, <1>4, OthersMayGo DEF JobTypeOK

\* Others use their names as they like.
LEMMA OthersKeep ==
    ASSUME JobAssumption, JobInv, NEW n \in Names, Create(n) \/ RemoveChild(n)
    PROVE  JobInv'
<1>1. JobTypeOK
  BY DEF JobInv, JobConsistent
<1>2. n \in Others /\ UNCHANGED <<jobVars, finished, ran>>
  BY DEF Create, RemoveChild
<1>3. n \notin Children
  BY <1>2, NamesOfChildren
<1>4. /\ task' \in [Names -> {"Absent", "Active"} \cup Finished]
      /\ \A m \in Names : m # n => task'[m] = task[m]
  BY <1>1 DEF Create, RemoveChild, JobTypeOK
<1>5. \A m \in Children : task'[m] = task[m]
  <2>1. \A m \in Children : m \in Names /\ m # n
    BY <1>3 DEF Names
  <2>. QED
    BY <1>4, <2>1
<1>. QED
  BY <1>1, <1>2, <1>4, <1>5, OthersMayGo DEF JobTypeOK

-----------------------------------------------------------------------------
\* The indexes a reconcile gives a child.
Given == IF Verdict = "running" THEN Launched ELSE {}

\* What a reconcile leaves, index by index and child by child.
LEMMA ReconcileSteps ==
    ASSUME JobAssumption, JobInv, Reconcile
    PROVE  /\ \A i \in Given : i \in Indexes /\ Idle(i) /\ attempts[i] \in Attempts
           /\ UNCHANGED <<finished, ran>> /\ outcome' = Verdict
           /\ \A i \in Indexes :
                 /\ succeeded'[i] = Won(i)
                 /\ active'[i] = IF i \in Given THEN attempts[i]
                                 ELSE IF Seen(i) = "Active" THEN active[i] ELSE NoAttempt
                 /\ attempts'[i] = IF i \in Given THEN attempts[i] + 1 ELSE attempts[i]
           /\ \A n \in Names :
                 \/ task'[n] = "Absent"
                 \/ /\ \/ \E i \in Given : n = <<i, attempts[i]>>
                       \/ task[n] = "Active"
                    /\ task'[n] = "Active"
                 \/ task[n] # "Active" /\ task'[n] = task[n]
<1>1. JobTypeOK
  BY DEF JobInv, JobConsistent
<1>2. ASSUME NEW i \in Given PROVE i \in Indexes /\ Idle(i) /\ attempts[i] \in Attempts
  <2>1. i \in Indexes /\ Idle(i) /\ Verdict = "running"
    BY <1>2 DEF Given, Launched
  <2>2. ~Spent(i)
    BY <2>1 DEF Verdict
  <2>3. attempts[i] \in 0..Retries + 1 /\ ~(attempts[i] > Retries)
    BY <1>1, <2>1, <2>2 DEF Spent, JobTypeOK
  <2>. QED
    BY <2>1, <2>3, NamesOfChildren DEF Attempts
<1>3. /\ task' = [n \in Names |->
                    IF n \in Reaped THEN "Absent"
                    ELSE IF \E i \in Given : n = <<i, attempts[i]>> THEN "Active"
                    ELSE task[n]]
      /\ succeeded' = [i \in Indexes |-> Won(i)]
      /\ active' = [i \in Indexes |->
                       IF i \in Given THEN attempts[i]
                       ELSE IF Seen(i) = "Active" THEN active[i] ELSE NoAttempt]
      /\ attempts' = [i \in Indexes |->
                         IF i \in Given THEN attempts[i] + 1 ELSE attempts[i]]
      /\ UNCHANGED <<finished, ran>> /\ outcome' = Verdict
  BY DEF Reconcile, Given
<1>4. ASSUME NEW n \in Names
      PROVE  \/ task'[n] = "Absent"
             \/ /\ \/ \E i \in Given : n = <<i, attempts[i]>>
                   \/ task[n] = "Active"
                /\ task'[n] = "Active"
             \/ task[n] # "Active" /\ task'[n] = task[n]
  BY <1>3
<1>5. ASSUME NEW i \in Indexes
      PROVE  /\ succeeded'[i] = Won(i)
             /\ active'[i] = IF i \in Given THEN attempts[i]
                             ELSE IF Seen(i) = "Active" THEN active[i] ELSE NoAttempt
             /\ attempts'[i] = IF i \in Given THEN attempts[i] + 1 ELSE attempts[i]
  BY <1>3
<1>. QED
  BY <1>2, <1>3, <1>4, <1>5

\* With those that run, the new children are no more than the parallelism.
LEMMA FreshAreFew ==
    ASSUME JobAssumption
    PROVE  LET B == {i \in Indexes : Seen(i) = "Active"}
           IN  /\ IsFiniteSet(B) /\ IsFiniteSet(Given)
               /\ Cardinality(B) \in Nat /\ Cardinality(Given) \in Nat
               /\ Given \cap B = {}
               /\ \/ Given = {}
                  \/ Cardinality(B) + Cardinality(Given) <= Parallelism
<1> DEFINE B == {i \in Indexes : Seen(i) = "Active"}
           S == {i \in Indexes : Idle(i)}
<1>1. IsFiniteSet(Indexes) /\ Indexes \subseteq Int /\ Parallelism \in Nat
  BY NamesOfChildren DEF JobAssumption
<1>2. IsFiniteSet(B) /\ IsFiniteSet(S) /\ S \subseteq Int
  BY <1>1, FS_Subset
<1>3. Cardinality(B) \in Nat /\ Abreast = Cardinality(B)
  BY <1>2, FS_CardinalityType DEF Abreast
<1> DEFINE k == Parallelism - Cardinality(B)
<1>4. k \in Int
  <2>. HIDE DEF B
  <2>. QED
    BY <1>1, <1>3
<1>5. Launched = Foremost(S, k)
  <2>1. ASSUME NEW i \in Indexes
        PROVE  /\ {j \in Indexes : Idle(j) /\ j < i} = {p \in S : p < i}
               /\ Cardinality({p \in S : p < i}) \in Nat
    <3>1. {p \in S : p < i} \subseteq S /\ IsFiniteSet(S)
      BY <1>2
    <3>2. IsFiniteSet({p \in S : p < i})
      <4>. HIDE DEF S
      <4>. QED
        BY <3>1, FS_Subset
    <3>. QED
      BY <3>2, FS_CardinalityType
  <2>2. \A c \in Nat : Abreast + c < Parallelism <=> c < k
    <3>. HIDE DEF B
    <3>. QED
      BY <1>1, <1>3
  <2>3. ASSUME NEW i \in Indexes
        PROVE  Abreast + Cardinality({j \in Indexes : Idle(j) /\ j < i}) < Parallelism
                  <=> Cardinality({p \in S : p < i}) < k
    <3>. HIDE DEF k, S
    <3>. QED
      BY <2>1, <2>2
  <2>4. Launched = {i \in S : Cardinality({p \in S : p < i}) < k}
    <3>1. Launched = {i \in Indexes : Idle(i) /\ Cardinality({p \in S : p < i}) < k}
      <4>. HIDE DEF k, S
      <4>. QED
        BY <2>3 DEF Launched
    <3>. HIDE DEF k
    <3>. QED
      BY <3>1
  <2>. HIDE DEF k, S
  <2>. QED
    BY <2>4 DEF Foremost
<1>6. /\ Launched \subseteq S /\ IsFiniteSet(Launched) /\ Cardinality(Launched) \in Nat
      /\ k <= 0 => Launched = {}
      /\ k >= 0 => Cardinality(Launched) <= k
  <2>. HIDE DEF k, S
  <2>. QED
    BY <1>2, <1>4, <1>5, ForemostAreFew
<1>7. IsFiniteSet(Given) /\ Cardinality(Given) \in Nat /\ Given \subseteq Launched
  <2>1. Given \in {Launched, {}}
    BY DEF Given
  <2>2. IsFiniteSet({})
    BY FS_EmptySet
  <2>. QED
    BY <1>6, <2>1, <2>2, FS_CardinalityType
<1>8. Given \cap B = {}
  BY <1>6, <1>7 DEF Idle
<1>9. Given # {} => Cardinality(B) + Cardinality(Given) <= Parallelism
  <2>1. Given # {} => Given = Launched /\ Launched # {}
    BY DEF Given
  <2>2. Launched # {} => Cardinality(Launched) <= k
    <3>1. k <= 0 \/ k >= 0
      <4>. HIDE DEF k
      <4>. QED
        BY <1>4
    <3>. QED
      BY ONLY <1>6, <3>1
  <2>. HIDE DEF B
  <2>. QED
    BY <1>1, <1>3, <1>6, <2>1, <2>2
<1>. QED
  BY <1>2, <1>3, <1>7, <1>8, <1>9

\* A reconcile keeps the parallelism.
LEMMA ReconcileKeepsParallelism ==
    ASSUME JobAssumption, JobInv, Reconcile
    PROVE  ParallelismKept'
<1> DEFINE B == {i \in Indexes : Seen(i) = "Active"}
           A == {n \in Children : task'[n] = "Active"}
           h == [i \in Given \cup B |-> IF i \in Given THEN <<i, attempts[i]>>
                                                     ELSE <<i, active[i]>>]
           H == {h[i] : i \in Given \cup B}
<1>1. JobTypeOK /\ ParallelismKept /\ NoStrays
  BY DEF JobInv, JobConsistent
<1>2. /\ IsFiniteSet(B) /\ IsFiniteSet(Given)
      /\ Cardinality(B) \in Nat /\ Cardinality(Given) \in Nat
      /\ Given \cap B = {}
      /\ Given = {} \/ Cardinality(B) + Cardinality(Given) <= Parallelism
  BY FreshAreFew
<1>3. ASSUME NEW n \in Children, task'[n] = "Active"
      PROVE  (\E i \in Given : n = <<i, attempts[i]>>) \/ task[n] = "Active"
  BY <1>3, ReconcileSteps DEF Names
<1>4. CASE Given = {}
  BY <1>1, <1>3, <1>4, FewerRun
<1>5. CASE Cardinality(B) + Cardinality(Given) <= Parallelism
  <2>1. A \subseteq H
    <3>1. SUFFICES ASSUME NEW n \in Children, task'[n] = "Active"
                   PROVE  \E i \in Given \cup B : n = h[i]
      OBVIOUS
    <3>2. CASE \E i \in Given : n = <<i, attempts[i]>>
      BY <3>2
    <3>3. CASE task[n] = "Active"
      <4>1. n[1] \in B /\ n = <<n[1], active[n[1]]>>
        BY <1>1, <3>3, ActiveIsSeen, NamesOfChildren
      <4>2. n[1] \notin Given
        BY <1>2, <4>1
      <4>. QED
        BY <4>1, <4>2
    <3>. QED
      BY <1>3, <3>1, <3>2, <3>3
  <2>2. /\ IsFiniteSet(Given \cup B)
        /\ Cardinality(Given \cup B) = Cardinality(Given) + Cardinality(B)
    <3>. HIDE DEF B
    <3>. QED
      BY <1>2, SeparateAdd
  <2>3. IsFiniteSet(H) /\ Cardinality(H) <= Cardinality(Given \cup B)
    <3>1. h \in Surjection(Given \cup B, H)
      BY DEF Surjection
    <3>. HIDE DEF h, H, B
    <3>. QED
      BY <2>2, <3>1, FS_Surjection
  <2>4. /\ Cardinality(A) <= Cardinality(H)
        /\ Cardinality(A) \in Nat /\ Cardinality(H) \in Nat
    <3>. HIDE DEF A, H
    <3>. QED
      BY <2>1, <2>3, FS_Subset, FS_CardinalityType
  <2>5. Cardinality(A) <= Parallelism
    <3>. HIDE DEF A, H, B
    <3>. QED
      BY <1>2, <1>5, <2>2, <2>3, <2>4, NamesOfChildren
  <2>. QED
    BY <2>5 DEF ParallelismKept
<1>. QED
  BY <1>2, <1>4, <1>5

\* A reconcile keeps the job in order.
LEMMA ReconcileKeeps ==
    ASSUME JobAssumption, JobInv, Reconcile
    PROVE  JobInv'
<1>1. /\ JobTypeOK /\ ParallelismKept /\ NoStrays /\ DoneIsHonest
      /\ AttemptsInOrder /\ SuccessesCounted
  BY DEF JobInv, JobConsistent
<1>2. /\ \A i \in Given : i \in Indexes /\ Idle(i) /\ attempts[i] \in Attempts
      /\ UNCHANGED <<finished, ran>> /\ outcome' = Verdict
      /\ \A i \in Indexes :
            /\ succeeded'[i] = Won(i)
            /\ active'[i] = IF i \in Given THEN attempts[i]
                            ELSE IF Seen(i) = "Active" THEN active[i] ELSE NoAttempt
            /\ attempts'[i] = IF i \in Given THEN attempts[i] + 1 ELSE attempts[i]
  BY ReconcileSteps
<1>3. ASSUME NEW n \in Children
      PROVE  \/ task'[n] = "Absent"
             \/ /\ \/ \E i \in Given : n = <<i, attempts[i]>>
                   \/ task[n] = "Active"
                /\ task'[n] = "Active"
             \/ task[n] # "Active" /\ task'[n] = task[n]
  BY ReconcileSteps DEF Names
<1>4. /\ \A n \in Children : n[1] \in Indexes /\ n[2] \in Attempts /\ n = <<n[1], n[2]>>
      /\ Attempts \subseteq Nat /\ Retries \in Nat
  BY NamesOfChildren
<1>5. \A i \in Indexes : attempts[i] \in 0..Retries + 1 /\ attempts[i] \in Nat
  BY <1>1, <1>4 DEF JobTypeOK
<1>6. ASSUME NEW i \in Indexes, Won(i) PROVE ran[i] > 0
  <2>1. CASE succeeded[i]
    BY <1>1, <2>1 DEF SuccessesCounted
  <2>2. CASE Seen(i) = "Succeeded"
    <3>1. active[i] # NoAttempt /\ task[<<i, active[i]>>] = "Succeeded"
      BY <2>2 DEF Seen
    <3>2. <<i, active[i]>> \in Children
      BY <1>1, <3>1 DEF JobTypeOK, Children
    <3>3. ran[<<i, active[i]>>[1]] > 0
      BY <1>1, <3>1, <3>2 DEF SuccessesCounted
    <3>. QED
      BY <3>3
  <2>. QED
    BY <1>6, <2>1, <2>2 DEF Won
<1>7. JobTypeOK'
  <2>1. task' \in [Names -> {"Absent", "Active"} \cup Finished]
    BY <1>1 DEF Reconcile, JobTypeOK
  <2>2. succeeded' \in [Indexes -> BOOLEAN]
    <3>1. \A i \in Indexes : Won(i) \in BOOLEAN
      BY <1>1 DEF Won, JobTypeOK
    <3>. QED
      BY <3>1 DEF Reconcile
  <2>3. attempts' \in [Indexes -> 0..Retries + 1]
    <3>1. \A i \in Given : attempts[i] + 1 \in 0..Retries + 1
      BY <1>2, <1>4 DEF Attempts
    <3>2. attempts' = [i \in Indexes |-> IF i \in Given THEN attempts[i] + 1
                                        ELSE attempts[i]]
      BY DEF Reconcile, Given
    <3>. QED
      BY <1>5, <3>1, <3>2
  <2>4. active' \in [Indexes -> Attempts \cup {NoAttempt}]
    <3>1. active' = [i \in Indexes |-> IF i \in Given THEN attempts[i]
                                      ELSE IF Seen(i) = "Active" THEN active[i]
                                      ELSE NoAttempt]
      BY DEF Reconcile, Given
    <3>. QED
      BY <1>1, <1>2, <3>1 DEF JobTypeOK
  <2>5. outcome' \in {"running", "done", "dead"}
    BY <1>2 DEF Verdict
  <2>. QED
    BY <1>1, <1>2, <2>1, <2>2, <2>3, <2>4, <2>5 DEF JobTypeOK
<1>8. ParallelismKept'
  BY ReconcileKeepsParallelism
<1>9. ASSUME NEW n \in Children, task'[n] = "Active"
      PROVE  active'[n[1]] = n[2] /\ finished'[n] = NoAttempt
  <2>1. CASE \E i \in Given : n = <<i, attempts[i]>>
    <3>1. PICK i \in Given : n = <<i, attempts[i]>>
      BY <2>1
    <3>2. i \in Indexes /\ n[1] = i /\ n[2] = attempts[i]
      BY <1>2, <3>1
    <3>3. active'[i] = attempts[i]
      BY <1>2, <3>2
    <3>4. n[2] >= attempts[n[1]]
      BY <1>5, <3>2
    <3>5. finished[n] = NoAttempt
      BY <1>1, <3>4 DEF AttemptsInOrder
    <3>. QED
      BY <1>2, <3>2, <3>3, <3>5
  <2>2. CASE task[n] = "Active"
    <3>1. Seen(n[1]) = "Active" /\ active[n[1]] = n[2] /\ n[1] \in Indexes
      BY <1>1, <1>4, <2>2, ActiveIsSeen DEF NoStrays
    <3>2. n[1] \notin Given
      BY <1>2, <3>1 DEF Idle
    <3>3. active'[n[1]] = n[2]
      BY <1>2, <3>1, <3>2
    <3>. QED
      BY <1>1, <1>2, <2>2, <3>3 DEF AttemptsInOrder
  <2>. QED
    BY <1>3, <1>9, <2>1, <2>2
<1>10. NoStrays'
  BY <1>9 DEF NoStrays
<1>11. DoneIsHonest'
  <2>1. Verdict = "done" => \A i \in Indexes : Won(i)
    BY DEF Verdict
  <2>. QED
    BY <1>2, <1>6, <2>1 DEF DoneIsHonest
<1>12. AttemptsInOrder'
  <2>1. ASSUME NEW i \in Indexes, active'[i] # NoAttempt PROVE active'[i] < attempts'[i]
    <3>1. CASE i \in Given
      BY <1>2, <1>5, <3>1
    <3>2. CASE i \notin Given
      <4>1. active'[i] = active[i] /\ attempts'[i] = attempts[i]
        BY <1>2, <2>1, <3>2
      <4>. QED
        BY <1>1, <2>1, <4>1 DEF AttemptsInOrder
    <3>. QED
      BY <3>1, <3>2
  <2>2. ASSUME NEW n \in Children, n[2] >= attempts'[n[1]]
        PROVE  task'[n] = "Absent" /\ finished'[n] = NoAttempt
    <3>1. n[1] \in Indexes /\ n[2] \in Nat
      BY <1>4
    <3>. DEFINE a == attempts[n[1]]
                a1 == attempts'[n[1]]
    <3>2. n[2] >= attempts[n[1]] /\ (n[1] \in Given => n[2] # attempts[n[1]])
      <4>1. a \in Nat /\ n[2] >= a1
        BY <1>5, <2>2, <3>1
      <4>2. a1 = IF n[1] \in Given THEN a + 1 ELSE a
        BY <1>2, <3>1
      <4>3. n[2] >= a /\ (n[1] \in Given => n[2] # a)
        <5>. HIDE DEF a, a1
        <5>. QED
          BY <3>1, <4>1, <4>2
      <4>. QED
        BY <4>3
    <3>3. task[n] = "Absent" /\ finished[n] = NoAttempt
      BY <1>1, <3>2 DEF AttemptsInOrder
    <3>4. \A i \in Given : n # <<i, attempts[i]>>
      BY <3>2
    <3>. QED
      BY <1>2, <1>3, <3>3, <3>4
  <2>. QED
    BY <1>9, <2>1, <2>2 DEF AttemptsInOrder
<1>13. SuccessesCounted'
  <2>1. ASSUME NEW i \in Indexes
        PROVE  ran[i] + (IF Seen(i)' = "Active" THEN 1 ELSE 0) <= attempts'[i]
    <3>1. ran[i] \in Nat /\ ran[i] + (IF Seen(i) = "Active" THEN 1 ELSE 0) <= attempts[i]
      BY <1>1, <1>4 DEF JobTypeOK, SuccessesCounted
    <3>2. CASE i \in Given
      <4>1. ran[i] <= attempts[i] /\ attempts'[i] = attempts[i] + 1
        BY <1>2, <1>5, <3>1, <3>2
      <4>. QED
        BY <1>5, <3>1, <4>1
    <3>3. CASE i \notin Given
      <4>1. Seen(i)' = "Active" => Seen(i) = "Active"
        BY <1>2, <3>3 DEF Seen
      <4>2. attempts'[i] = attempts[i]
        BY <1>2, <3>3
      <4>. QED
        BY <1>5, <3>1, <4>1, <4>2
    <3>. QED
      BY <3>2, <3>3
  <2>2. ASSUME NEW n \in Children, task'[n] = "Succeeded" PROVE ran[n[1]] > 0
    <3>1. task[n] = "Succeeded"
      BY <1>3, <2>2
    <3>. QED
      BY <1>1, <3>1 DEF SuccessesCounted
  <2>3. \A i \in Indexes : succeeded'[i] => ran[i] > 0
    BY <1>2, <1>6
  <2>. QED
    BY <1>2, <2>1, <2>2, <2>3 DEF SuccessesCounted
<1>. QED
  BY <1>7, <1>8, <1>10, <1>11, <1>12, <1>13 DEF JobInv, JobConsistent

\* Every step of the job, of the collector and of others keeps the job in order.
LEMMA JobSteps ==
    ASSUME JobAssumption, JobInv, JobNext
    PROVE  JobInv'
BY ReconcileKeeps, SweepKeeps, NoteTickKeeps, CompleteKeeps, OthersKeep DEF JobNext

-----------------------------------------------------------------------------
(* Cron *)

\* Whether a schedule has a window at a tick.
OnTime(s, t) == t % Schedules[s].every = 0

CronTypes ==
    /\ seen \in [DOMAIN Schedules -> {NotYet} \cup (0..LastTick)]
    /\ launches \in [DOMAIN Schedules -> [0..LastTick -> Nat]]
    /\ awake \in [DOMAIN Schedules -> SUBSET (0..LastTick)]
    /\ \A s \in DOMAIN Schedules : \A t \in awake[s] : t <= seen[s]

Done(s) == {t \in 0..LastTick : launches[s][t] > 0}

\* What CronOnce asks of one schedule.
OnceEach(s) ==
    /\ \A t \in 0..LastTick : launches[s][t] <= 1
    /\ Done(s) \subseteq Due(s, 0, seen[s])
    /\ Schedules[s].policy = "catch-up" => Done(s) = Due(s, 0, seen[s])
    /\ Schedules[s].policy = "one-shot" =>
          /\ LatestOf(Due(s, 0, seen[s])) \subseteq Done(s)
          /\ Cardinality(Done(s) \ awake[s]) <= Cardinality(awake[s])
    /\ Schedules[s].policy = "skip" => Done(s) \ awake[s] = {}

\* The promise of cron is one for each schedule.
LEMMA CronOnceByEach == CronOnce <=> \A s \in DOMAIN Schedules : OnceEach(s)
BY DEF CronOnce, OnceEach, Done

CronInv == CronTypes /\ CronOnce

\* Nothing is launched at first.
LEMMA CronStarts ==
    ASSUME TriggersAssumption, CronInit
    PROVE  CronInv
<1>1. CronTypes
  BY DEF CronInit, CronTypes, NotYet, TriggersAssumption
<1>2. ASSUME NEW s \in DOMAIN Schedules PROVE OnceEach(s)
  <2>1. Done(s) = {} /\ awake[s] = {} /\ \A t \in 0..LastTick : launches[s][t] = 0
    BY DEF CronInit, Done
  <2>2. Due(s, 0, seen[s]) = {}
    BY DEF CronInit, Due, NotYet
  <2>3. LatestOf({}) = {} /\ {} \ {} = {} /\ Cardinality({}) = 0
    BY FS_EmptySet DEF LatestOf
  <2>. QED
    BY <2>1, <2>2, <2>3 DEF OnceEach
<1>. QED
  BY <1>1, <1>2, CronOnceByEach DEF CronInv

\* The latest of a set is one at most.
LEMMA LatestIsOne ==
    ASSUME NEW S, S \subseteq Int
    PROVE  /\ IsFiniteSet(LatestOf(S)) /\ Cardinality(LatestOf(S)) \in {0, 1}
           /\ LatestOf(S) \subseteq S
<1>1. LatestOf(S) \subseteq S /\ \A x, y \in LatestOf(S) : x = y
  BY DEF LatestOf
<1>2. LatestOf(S) = {} \/ \E x \in S : LatestOf(S) = {x}
  BY <1>1
<1>. QED
  BY <1>1, <1>2, FS_EmptySet, FS_Singleton

\* The windows up to now: those looked at, those missed and the one of this tick.
LEMMA WindowsSplit ==
    ASSUME CronTypes, LastTick \in Nat, NEW s \in DOMAIN Schedules, NEW now \in 0..LastTick,
           seen[s] < now
    PROVE  /\ Due(s, 0, now) = Due(s, 0, seen[s]) \cup Missed(s, now) \cup Due(s, now, now)
           /\ Due(s, now, now) \subseteq {now}
           /\ \A t \in Missed(s, now) : t \in 0..LastTick /\ seen[s] < t /\ t < now
           /\ \A t \in Due(s, 0, seen[s]) : t \in 0..LastTick /\ t <= seen[s] /\ t < now
<1>1. seen[s] \in Int /\ seen[s] >= -1
  BY DEF CronTypes, NotYet
<1>2. ASSUME NEW a \in Int, NEW b \in Int PROVE Due(s, a, b) = {t \in a..b : OnTime(s, t)}
  BY DEF Due, OnTime
<1>3. /\ Due(s, 0, now) = {t \in 0..now : OnTime(s, t)}
      /\ Due(s, 0, seen[s]) = {t \in 0..seen[s] : OnTime(s, t)}
      /\ Missed(s, now) = {t \in (seen[s] + 1)..(now - 1) : OnTime(s, t)}
      /\ Due(s, now, now) = {t \in now..now : OnTime(s, t)}
  BY <1>1, <1>2 DEF Missed
<1>. QED
  BY <1>1, <1>3

\* One schedule is looked at, later than before.
LEMMA LookKeepsOnce ==
    ASSUME TriggersAssumption, CronTypes, NEW s \in DOMAIN Schedules, OnceEach(s),
           NEW now \in 0..LastTick, seen[s] < now, seen'[s] = now,
           awake'[s] = awake[s] \cup {now},
           \A t \in 0..LastTick :
              launches'[s][t] = launches[s][t] + (IF t \in Launching(s, now) THEN 1 ELSE 0)
    PROVE  OnceEach(s)'
<1> DEFINE B == Due(s, 0, seen[s])
           M == Missed(s, now)
           W == Due(s, now, now)
           L == Launching(s, now)
           P == Schedules[s].policy
           D == Done(s)
           D1 == {t \in 0..LastTick : launches'[s][t] > 0}
<1>1. /\ Due(s, 0, now) = B \cup M \cup W /\ W \subseteq {now}
      /\ \A t \in M : t \in 0..LastTick /\ seen[s] < t /\ t < now
      /\ \A t \in B : t \in 0..LastTick /\ t <= seen[s] /\ t < now
  BY WindowsSplit DEF TriggersAssumption
<1>2. P \in {"skip", "catch-up", "one-shot"}
  BY DEF TriggersAssumption
<1>3. L = W \cup (IF P = "catch-up" THEN M
                  ELSE IF P = "one-shot" THEN LatestOf(M) ELSE {})
  BY <1>2 DEF Launching
<1>4. M \subseteq Int /\ now \in Int /\ seen[s] \in Int
  BY <1>1 DEF CronTypes, NotYet
<1>5. /\ IsFiniteSet(LatestOf(M)) /\ Cardinality(LatestOf(M)) \in {0, 1}
      /\ LatestOf(M) \subseteq M
  <2>. HIDE DEF M
  <2>. QED
    BY <1>4, LatestIsOne
<1>6. L \subseteq W \cup M
  BY <1>3, <1>5
<1>7. \A t \in 0..LastTick : launches[s][t] \in Nat
  BY DEF CronTypes
<1>8. D \subseteq B /\ \A t \in 0..LastTick : launches[s][t] <= 1
  BY DEF OnceEach
<1>9. \A t \in 0..LastTick : t \in L => t \notin D
  <2>. HIDE DEF B, M, W, L, D
  <2>. QED
    BY <1>1, <1>4, <1>6, <1>8
<1>10. ASSUME NEW t \in 0..LastTick
       PROVE  launches'[s][t] <= 1 /\ (t \in D1 <=> t \in D \/ t \in L)
  <2>1. launches'[s][t] = launches[s][t] + (IF t \in L THEN 1 ELSE 0)
    OBVIOUS
  <2>2. t \in D <=> launches[s][t] > 0
    BY DEF Done
  <2>3. t \in D1 <=> launches'[s][t] > 0
    OBVIOUS
  <2>. HIDE DEF L, D, D1
  <2>. QED
    BY <1>7, <1>8, <1>9, <2>1, <2>2, <2>3
<1>11. D1 = D \cup L
  <2>1. D1 \subseteq 0..LastTick /\ D \subseteq 0..LastTick
    BY DEF Done
  <2>2. L \subseteq 0..LastTick
    <3>. HIDE DEF L, W, M, B
    <3>. QED
      BY <1>1, <1>6
  <2>. HIDE DEF D1, D, L
  <2>. QED
    BY <1>10, <2>1, <2>2
<1>12. Done(s)' = D1 /\ Due(s, 0, seen[s])' = B \cup M \cup W
  BY <1>1 DEF Done, Due
<1>13. /\ P = "catch-up" => D = B
       /\ P = "one-shot" => /\ LatestOf(B) \subseteq D
                            /\ Cardinality(D \ awake[s]) <= Cardinality(awake[s])
       /\ P = "skip" => D \ awake[s] = {}
  BY DEF OnceEach
<1>. HIDE DEF B, M, W, L, D, D1, P
<1>14. D1 \subseteq B \cup M \cup W
  BY <1>6, <1>8, <1>11
<1>15. P = "catch-up" => D1 = B \cup M \cup W
  BY <1>3, <1>11, <1>13
<1>16. P = "skip" => D1 \ (awake[s] \cup {now}) = {}
  BY <1>1, <1>2, <1>3, <1>11, <1>13
<1>17. P = "one-shot" => LatestOf(B \cup M \cup W) \subseteq D1
  <2>1. LatestOf(B \cup M \cup W) \subseteq LatestOf(B) \cup LatestOf(M) \cup W
    BY DEF LatestOf
  <2>. QED
    BY <1>3, <1>11, <1>13, <2>1
<1>18. P = "one-shot" =>
          Cardinality(D1 \ (awake[s] \cup {now})) <= Cardinality(awake[s] \cup {now})
  <2>1. SUFFICES ASSUME P = "one-shot"
                 PROVE  Cardinality(D1 \ (awake[s] \cup {now}))
                           <= Cardinality(awake[s] \cup {now})
    OBVIOUS
  <2>2. D1 \ (awake[s] \cup {now}) \subseteq (D \ awake[s]) \cup LatestOf(M)
    BY <1>1, <1>3, <1>11, <2>1
  <2>3. IsFiniteSet(0..LastTick)
    BY Numbers DEF TriggersAssumption
  <2>4. IsFiniteSet(awake[s]) /\ IsFiniteSet(D \ awake[s]) /\ now \notin awake[s]
    <3>1. awake[s] \subseteq 0..LastTick /\ \A t \in awake[s] : t <= seen[s]
      BY DEF CronTypes
    <3>2. D \ awake[s] \subseteq 0..LastTick
      BY <1>1, <1>8
    <3>3. now \notin awake[s]
      BY <1>4, <3>1
    <3>. QED
      BY <2>3, <3>1, <3>2, <3>3, FS_Subset
  <2>5. Cardinality(awake[s] \cup {now}) = Cardinality(awake[s]) + 1
    BY <2>4, FS_AddElement
  <2>. DEFINE X == D \ awake[s]
              Y == LatestOf(M)
              Z == D1 \ (awake[s] \cup {now})
  <2>6. IsFiniteSet(X) /\ IsFiniteSet(Y) /\ Z \subseteq X \cup Y
    BY <1>5, <2>2, <2>4
  <2>7. Cardinality(X) <= Cardinality(awake[s]) /\ Cardinality(Y) \in {0, 1}
    BY <1>5, <1>13, <2>1
  <2>. HIDE DEF X, Y, Z
  <2>8. X \cup Y = X \cup (Y \ X) /\ X \cap (Y \ X) = {} /\ Y \ X \subseteq Y
    OBVIOUS
  <2>9. /\ IsFiniteSet(Y \ X) /\ Cardinality(Y \ X) <= Cardinality(Y)
        /\ IsFiniteSet(X \cup Y)
        /\ Cardinality(X \cup Y) = Cardinality(X) + Cardinality(Y \ X)
    <3>1. IsFiniteSet(Y \ X) /\ Cardinality(Y \ X) <= Cardinality(Y)
      BY <2>6, <2>8, FS_Subset
    <3>. QED
      BY <2>6, <2>8, <3>1, SeparateAdd
  <2>10. Cardinality(Z) <= Cardinality(X \cup Y)
    BY <2>6, <2>9, FS_Subset
  <2>11. /\ Cardinality(X) \in Nat /\ Cardinality(Y) \in Nat /\ Cardinality(Y \ X) \in Nat
         /\ Cardinality(Z) \in Nat /\ Cardinality(awake[s]) \in Nat
    <3>1. IsFiniteSet(Z)
      BY <2>6, <2>9, FS_Subset
    <3>. QED
      BY <2>4, <2>6, <2>9, <3>1, FS_CardinalityType
  <2>12. Cardinality(Z) <= Cardinality(awake[s]) + 1
    BY ONLY <2>7, <2>9, <2>10, <2>11
  <2>. QED
    BY <2>5, <2>12 DEF Z
<1>19. \A t \in 0..LastTick : launches'[s][t] <= 1
  BY <1>10
<1>. QED
  BY <1>12, <1>14, <1>15, <1>16, <1>17, <1>18, <1>19 DEF OnceEach, P

\* Cron stays in order, however long it sleeps and whatever is added.
LEMMA CronSteps ==
    ASSUME TriggersAssumption, CronInv, CronNext
    PROVE  CronInv'
<1>1. CronTypes /\ \A s \in DOMAIN Schedules : OnceEach(s)
  BY CronOnceByEach DEF CronInv
<1>2. PICK now \in 0..LastTick : \E S \in SUBSET DOMAIN Schedules : CronTick(now, S)
  BY DEF CronNext
<1>3. PICK S \in SUBSET DOMAIN Schedules : CronTick(now, S)
  BY <1>2
<1>4. ASSUME NEW s \in DOMAIN Schedules
      PROVE  /\ seen[s] < now
             /\ s \notin S => /\ seen'[s] = seen[s] /\ awake'[s] = awake[s]
                              /\ launches'[s] = launches[s]
             /\ s \in S =>
                  /\ seen'[s] = now /\ awake'[s] = awake[s] \cup {now}
                  /\ launches'[s] = [t \in 0..LastTick |->
                        launches[s][t] + (IF t \in Launching(s, now) THEN 1 ELSE 0)]
  <2>1. seen[s] = NotYet => NotYet < now
    BY DEF NotYet, TriggersAssumption
  <2>2. seen[s] < now
    BY <1>3 DEF CronTick
  <2>3. s \notin S => seen[s] = NotYet
    BY <1>3 DEF CronTick
  <2>4. /\ seen'[s] = IF s \in S THEN now ELSE seen[s]
        /\ awake'[s] = IF s \in S THEN awake[s] \cup {now} ELSE awake[s]
        /\ launches'[s] = IF s \notin S THEN launches[s]
                          ELSE [t \in 0..LastTick |->
                             launches[s][t] + (IF t \in Launching(s, now) THEN 1 ELSE 0)]
    BY <1>3 DEF CronTick
  <2>. QED
    BY <2>2, <2>4
<1>5. CronTypes'
  <2>1. ASSUME NEW s \in DOMAIN Schedules
        PROVE  /\ seen'[s] \in {NotYet} \cup (0..LastTick)
               /\ launches'[s] \in [0..LastTick -> Nat]
               /\ awake'[s] \in SUBSET (0..LastTick)
               /\ \A t \in awake'[s] : t <= seen'[s]
    <3>1. /\ seen[s] \in {NotYet} \cup (0..LastTick) /\ launches[s] \in [0..LastTick -> Nat]
          /\ awake[s] \subseteq 0..LastTick /\ \A t \in awake[s] : t <= seen[s]
          /\ seen[s] \in Int
      BY <1>1 DEF CronTypes, NotYet
    <3>2. CASE s \notin S
      BY <1>4, <3>1, <3>2
    <3>3. CASE s \in S
      <4>1. seen'[s] = now /\ awake'[s] = awake[s] \cup {now} /\ seen[s] < now
        BY <1>4, <3>3
      <4>2. launches'[s] = [t \in 0..LastTick |->
                        launches[s][t] + (IF t \in Launching(s, now) THEN 1 ELSE 0)]
        BY <1>4, <3>3
      <4>3. launches'[s] \in [0..LastTick -> Nat]
        BY <3>1, <4>2
      <4>. QED
        BY <3>1, <4>1, <4>3
    <3>. QED
      BY <3>2, <3>3
  <2>2. /\ seen' = [s \in DOMAIN Schedules |-> seen'[s]]
        /\ launches' = [s \in DOMAIN Schedules |-> launches'[s]]
        /\ awake' = [s \in DOMAIN Schedules |-> awake'[s]]
    BY <1>3 DEF CronTick
  <2>3. seen' \in [DOMAIN Schedules -> {NotYet} \cup (0..LastTick)]
    BY <2>1, <2>2
  <2>4. launches' \in [DOMAIN Schedules -> [0..LastTick -> Nat]]
    BY <2>1, <2>2
  <2>5. awake' \in [DOMAIN Schedules -> SUBSET (0..LastTick)]
    BY <2>1, <2>2
  <2>. QED
    BY <2>1, <2>3, <2>4, <2>5 DEF CronTypes
<1>6. ASSUME NEW s \in DOMAIN Schedules PROVE OnceEach(s)'
  <2>1. CASE s \in S
    <3>1. \A t \in 0..LastTick :
             launches'[s][t] = launches[s][t] + (IF t \in Launching(s, now) THEN 1 ELSE 0)
      BY <1>4, <2>1
    <3>. QED
      BY <1>1, <1>4, <2>1, <3>1, LookKeepsOnce
  <2>2. CASE s \notin S
    <3>1. seen'[s] = seen[s] /\ awake'[s] = awake[s] /\ launches'[s] = launches[s]
      BY <1>4, <2>2
    <3>2. Done(s)' = Done(s) /\ Due(s, 0, seen[s])' = Due(s, 0, seen[s])
      BY <3>1 DEF Done, Due
    <3>. QED
      BY <1>1, <3>1, <3>2 DEF OnceEach
  <2>. QED
    BY <2>1, <2>2
<1>7. CronOnce'
  <2>1. \A s \in DOMAIN Schedules : OnceEach(s)'
    BY <1>6
  <2>. QED
    BY <2>1 DEF CronOnce, OnceEach, Done
<1>. QED
  BY <1>5, <1>7 DEF CronInv

-----------------------------------------------------------------------------
(* The graph and its pipeline *)

GraphTypes ==
    /\ needs \in [Jobs -> SUBSET Jobs]
    /\ progress \in [Jobs -> {Absent, "waiting", "running", "Succeeded", "Failed", "skipped"}]

\* X holds what those in it need.
ClosedUp(X) == \A k \in X : needs[k] \subseteq X

\* What is upstream of a name is the least closed set of all it needs.
UpstreamsAreLeast ==
    \A j \in Jobs :
        /\ Upstream(j) \in SUBSET Jobs /\ needs[j] \subseteq Upstream(j)
        /\ ClosedUp(Upstream(j))
        /\ \A X \in SUBSET Jobs : needs[j] \subseteq X /\ ClosedUp(X) => Upstream(j) \subseteq X

\* As many steps as there are names lead to all that is upstream.
LEMMA UpstreamsClose ==
    ASSUME TriggersAssumption, GraphTypes
    PROVE  UpstreamsAreLeast
<1> DEFINE N == Cardinality(Jobs)
           Above(X) == X \union UNION {needs[k] : k \in X}
           G == [X \in SUBSET Jobs |-> Above(X)]
<1>1. IsFiniteSet(Jobs) /\ N \in Nat
  BY FS_CardinalityType DEF TriggersAssumption
<1>2. G \in [SUBSET Jobs -> SUBSET Jobs]
  BY DEF GraphTypes
<1>3. \A X, Y \in SUBSET Jobs : X \subseteq Y => G[X] \subseteq G[Y]
  OBVIOUS
<1>4. SUFFICES ASSUME NEW j \in Jobs
               PROVE  /\ Upstream(j) \in SUBSET Jobs /\ needs[j] \subseteq Upstream(j)
                      /\ ClosedUp(Upstream(j))
                      /\ \A X \in SUBSET Jobs :
                            needs[j] \subseteq X /\ ClosedUp(X) => Upstream(j) \subseteq X
  BY DEF UpstreamsAreLeast
<1> DEFINE a == needs[j]
           Right(f) == f = [n \in 0..N |-> IF n = 0 THEN a ELSE Above(f[n - 1])]
           up == CHOOSE f : Right(f)
<1>a. a \in SUBSET Jobs
  BY DEF GraphTypes
<1>5. \E f : Right(f)
  <2>1. PICK f : IsIteration(f, N, a, G)
    <3>. HIDE DEF G, N, a
    <3>. QED
      BY <1>1, <1>2, <1>a, IterationExists
  <2>2. f = [n \in 0..N |-> IF n = 0 THEN a ELSE G[f[n - 1]]]
    BY <2>1 DEF IsIteration
  <2>3. \A n \in 0..N : f[n] \in SUBSET Jobs
    <3>1. Stepwise(f, N, SUBSET Jobs, a, G)
      <4>. HIDE DEF G, N, a
      <4>. QED
        BY <1>1, <1>2, <1>a, <2>1, IterationIsStepwise
    <3>. HIDE DEF G, N, a
    <3>. QED
      BY <3>1, StepwiseStays
  <2>4. ASSUME NEW n \in 0..N
        PROVE  (IF n = 0 THEN a ELSE G[f[n - 1]]) = IF n = 0 THEN a ELSE Above(f[n - 1])
    <3>1. n # 0 => n - 1 \in 0..N
      BY <1>1
    <3>2. n # 0 => f[n - 1] \in SUBSET Jobs
      BY <2>3, <3>1
    <3>3. n # 0 => G[f[n - 1]] = Above(f[n - 1])
      BY <3>2
    <3>. QED
      BY <3>3
  <2>5. [n \in 0..N |-> IF n = 0 THEN a ELSE G[f[n - 1]]]
           = [n \in 0..N |-> IF n = 0 THEN a ELSE Above(f[n - 1])]
    BY <2>4
  <2>6. Right(f)
    BY ONLY <2>2, <2>5
  <2>. QED
    BY <2>6
<1>6. Right(up)
  BY <1>5
<1>7. IsIteration(up, N, a, G)
  <2>. HIDE DEF up
  <2>1. \A n \in 0..N : up[n] = IF n = 0 THEN a ELSE Above(up[n - 1])
    BY <1>6
  <2>2. up = [n \in 0..N |-> up[n]]
    <3>1. up = [n \in 0..N |-> IF n = 0 THEN a ELSE Above(up[n - 1])]
      BY <1>6
    <3>2. DOMAIN up = 0..N
      BY <3>1
    <3>. QED
      BY <3>1, <3>2
  <2>3. Stepwise(up, N, SUBSET Jobs, a, G)
    <3>1. up[0] = a
      <4>1. 0 \in 0..N
        <5>. HIDE DEF N
        <5>. QED
          BY <1>1
      <4>. HIDE DEF N, a
      <4>. QED
        BY <2>1, <4>1
    <3>2. ASSUME NEW n \in 1..N, up[n - 1] \in SUBSET Jobs PROVE up[n] = G[up[n - 1]]
      <4>1. n \in 0..N /\ n # 0
        BY <1>1
      <4>2. up[n] = Above(up[n - 1])
        BY <2>1, <4>1
      <4>. QED
        BY <3>2, <4>2
    <3>. HIDE DEF G, N, a
    <3>. QED
      BY <1>1, <1>2, <1>a, <3>1, <3>2 DEF Stepwise
  <2>. HIDE DEF G, N, a
  <2>. QED
    BY <2>2, <2>3, StepwiseIsIteration
<1>8. IsClosure(up[N], Jobs, a, G)
  <2>1. a \subseteq G[a]
    BY <1>a
  <2>. HIDE DEF G, up, a
  <2>. QED
    BY <1>1, <1>2, <1>3, <1>7, <1>a, <2>1, IterationCloses
<1>9. Upstream(j) = up[N]
  BY DEF Upstream
<1>. HIDE DEF up
<1>10. /\ Upstream(j) \in SUBSET Jobs /\ a \subseteq Upstream(j)
       /\ G[Upstream(j)] = Upstream(j)
       /\ \A X \in SUBSET Jobs : a \subseteq X /\ G[X] \subseteq X => Upstream(j) \subseteq X
  <2>. HIDE DEF G, a
  <2>1. IsClosure(Upstream(j), Jobs, a, G)
    BY <1>8, <1>9
  <2>. QED
    BY <2>1 DEF IsClosure
<1>11. ASSUME NEW X \in SUBSET Jobs PROVE G[X] = Above(X)
  OBVIOUS
<1>12. ClosedUp(Upstream(j))
  <2>1. Above(Upstream(j)) = Upstream(j)
    BY <1>10, <1>11
  <2>. QED
    BY <2>1 DEF ClosedUp
<1>13. ASSUME NEW X \in SUBSET Jobs, a \subseteq X, ClosedUp(X) PROVE Upstream(j) \subseteq X
  <2>1. Above(X) \subseteq X
    BY <1>13 DEF ClosedUp
  <2>. QED
    BY <1>10, <1>11, <1>13, <2>1
<1>. QED
  BY <1>10, <1>12, <1>13

\* So they are in the next state.
LEMMA UpstreamsCloseNext ==
    ASSUME TriggersAssumption, GraphTypes'
    PROVE  UpstreamsAreLeast'
BY UpstreamsClose, PTL

\* The rounds come to an end: who has not come needs one who has not.
LEMMA RoundsClose ==
    ASSUME TriggersAssumption
    PROVE  Started = {j \in Known : needs[j] \subseteq Started}
<1> DEFINE N == Cardinality(Jobs)
           Step(X) == {j \in Known : needs[j] \subseteq X}
           G == [X \in SUBSET Jobs |-> Step(X)]
<1>1. IsFiniteSet(Jobs) /\ N \in Nat
  BY FS_CardinalityType DEF TriggersAssumption
<1>2. G \in [SUBSET Jobs -> SUBSET Jobs]
  BY DEF Known
<1>3. \A X, Y \in SUBSET Jobs : X \subseteq Y => G[X] \subseteq G[Y]
  OBVIOUS
<1> DEFINE a == {}
           Right(f) == f = [n \in 0..N |-> IF n = 0 THEN a ELSE Step(f[n - 1])]
           round == CHOOSE f : Right(f)
<1>a. a \in SUBSET Jobs
  OBVIOUS
<1>4. \A X : X \subseteq Jobs => G[X] = Step(X)
  OBVIOUS
<1>5. \E f : Right(f)
  <2>1. PICK f : IsIteration(f, N, a, G)
    <3>. HIDE DEF G, N, a
    <3>. QED
      BY <1>1, <1>2, <1>a, IterationExists
  <2>2. f = [n \in 0..N |-> IF n = 0 THEN a ELSE G[f[n - 1]]]
    BY <2>1 DEF IsIteration
  <2>3. \A n \in 0..N : f[n] \in SUBSET Jobs
    <3>1. Stepwise(f, N, SUBSET Jobs, a, G)
      <4>. HIDE DEF G, N, a
      <4>. QED
        BY <1>1, <1>2, <1>a, <2>1, IterationIsStepwise
    <3>. HIDE DEF G, N, a
    <3>. QED
      BY <3>1, StepwiseStays
  <2>4. ASSUME NEW n \in 0..N
        PROVE  (IF n = 0 THEN a ELSE G[f[n - 1]]) = IF n = 0 THEN a ELSE Step(f[n - 1])
    <3>1. n # 0 => n - 1 \in 0..N
      BY <1>1
    <3>2. n # 0 => f[n - 1] \in SUBSET Jobs
      BY <2>3, <3>1
    <3>3. n # 0 => G[f[n - 1]] = Step(f[n - 1])
      BY <3>2
    <3>. QED
      BY <3>3
  <2>5. [n \in 0..N |-> IF n = 0 THEN a ELSE G[f[n - 1]]]
           = [n \in 0..N |-> IF n = 0 THEN a ELSE Step(f[n - 1])]
    BY <2>4
  <2>6. Right(f)
    BY ONLY <2>2, <2>5
  <2>. QED
    BY <2>6
<1>6. Right(round)
  BY <1>5
<1>7. IsIteration(round, N, a, G)
  <2>. HIDE DEF round
  <2>1. \A n \in 0..N : round[n] = IF n = 0 THEN a ELSE Step(round[n - 1])
    BY <1>6
  <2>2. round = [n \in 0..N |-> round[n]]
    <3>1. round = [n \in 0..N |-> IF n = 0 THEN a ELSE Step(round[n - 1])]
      BY <1>6
    <3>2. DOMAIN round = 0..N
      BY <3>1
    <3>. QED
      BY <3>1, <3>2
  <2>3. Stepwise(round, N, SUBSET Jobs, a, G)
    <3>1. round[0] = a
      <4>1. 0 \in 0..N
        <5>. HIDE DEF N
        <5>. QED
          BY <1>1
      <4>. HIDE DEF N, a
      <4>. QED
        BY <2>1, <4>1
    <3>2. ASSUME NEW n \in 1..N, round[n - 1] \in SUBSET Jobs PROVE round[n] = G[round[n - 1]]
      <4>1. n \in 0..N /\ n # 0
        BY <1>1
      <4>2. round[n] = Step(round[n - 1])
        BY <2>1, <4>1
      <4>. QED
        BY <3>2, <4>2
    <3>. HIDE DEF G, N, a
    <3>. QED
      BY <1>1, <1>2, <1>a, <3>1, <3>2 DEF Stepwise
  <2>. HIDE DEF G, N, a
  <2>. QED
    BY <2>2, <2>3, StepwiseIsIteration
<1>8. IsClosure(round[N], Jobs, a, G)
  <2>1. a \subseteq G[a]
    OBVIOUS
  <2>. HIDE DEF G, round, a
  <2>. QED
    BY <1>1, <1>2, <1>3, <1>7, <1>a, <2>1, IterationCloses
<1>9. Started = round[N]
  BY DEF Started
<1>. HIDE DEF round
<1>10. Started \in SUBSET Jobs /\ G[Started] = Started
  BY <1>8, <1>9 DEF IsClosure
<1>. QED
  BY <1>4, <1>10

-----------------------------------------------------------------------------
\* Only who is known needs, and is needed; and nobody needs himself, by way of others.
NeedsInOrder ==
    /\ \A j \in Known : needs[j] \subseteq Known
    /\ \A j \in Jobs \ Known : needs[j] = {}
    /\ \A j \in Jobs : j \notin Upstream(j)

\* What VerdictIsRight asks of each job.
EachIsRight ==
    \A j \in Known :
        /\ progress[j] = "skipped" => Doomed(j)
        /\ progress[j] \in {"running", "Succeeded", "Failed"} => Ready(j)

GraphInv == GraphTypes /\ NeedsInOrder /\ EachIsRight

\* A graph without a cycle can be started.
LEMMA AcyclicStarts ==
    ASSUME TriggersAssumption, GraphTypes, NeedsInOrder
    PROVE  NeverStuck
<1>1. UpstreamsAreLeast
  BY UpstreamsClose
<1>2. Started = {j \in Known : needs[j] \subseteq Started}
  BY RoundsClose
<1> DEFINE Bad == Known \ Started
           T == {Upstream(j) : j \in Bad}
<1>3. SUFFICES ASSUME Bad # {} PROVE FALSE
  BY <1>2 DEF NeverStuck
<1>4. Bad \subseteq Jobs
  BY DEF Known
<1>5. T \subseteq SUBSET Jobs /\ T # {} /\ IsFiniteSet(Jobs)
  BY <1>1, <1>3, <1>4 DEF UpstreamsAreLeast, TriggersAssumption
<1>6. PICK x \in T : \A y \in T : y \subseteq x => y = x
  <2>. HIDE DEF T
  <2>. QED
    BY <1>5, SmallestSet
<1>7. PICK j \in Bad : x = Upstream(j)
  OBVIOUS
<1>8. PICK k \in needs[j] : k \notin Started
  BY <1>2, <1>7
<1>9. k \in Bad /\ k \in Jobs
  BY <1>4, <1>7, <1>8 DEF NeedsInOrder
<1>10. k \in Upstream(j) /\ needs[k] \subseteq Upstream(j)
  BY <1>1, <1>4, <1>7, <1>8 DEF UpstreamsAreLeast, ClosedUp
<1>11. Upstream(k) \subseteq Upstream(j)
  BY <1>1, <1>4, <1>7, <1>9, <1>10 DEF UpstreamsAreLeast
<1>12. Upstream(k) = Upstream(j)
  BY <1>6, <1>7, <1>9, <1>11
<1>. QED
  BY <1>9, <1>10, <1>12 DEF NeedsInOrder

\* When each job is right, so is the verdict.
LEMMA EachMakesTheVerdict ==
    ASSUME TriggersAssumption, GraphInv
    PROVE  VerdictIsRight
<1>1. UpstreamsAreLeast
  BY UpstreamsClose DEF GraphInv
<1>2. EachIsRight /\ GraphTypes /\ NeedsInOrder
  BY DEF GraphInv
<1>3. SUFFICES ASSUME State # "running"
               PROVE  {j \in Known : progress[j] = "skipped"}
                         = UNION {BlastRadius(c) : c \in Corpses}
  BY <1>2 DEF VerdictIsRight, EachIsRight
<1>4. \A j \in Known : progress[j] \in {"Succeeded", "Failed", "skipped"}
  BY <1>3 DEF State, SettledJob
<1>5. ASSUME NEW j \in Known, progress[j] = "skipped"
      PROVE  \E c \in Corpses : j \in BlastRadius(c)
  BY <1>2, <1>5 DEF EachIsRight, Doomed, BlastRadius
<1>6. ASSUME NEW c \in Corpses, NEW k \in BlastRadius(c)
      PROVE  k \in Known /\ progress[k] = "skipped"
  <2>1. k \in Known /\ c \in Upstream(k) /\ progress[c] = "Failed"
    BY DEF BlastRadius, Corpses
  <2>. DEFINE X == {i \in Known : progress[i] = "Succeeded"}
  <2>2. X \in SUBSET Jobs /\ \A i \in X : needs[i] \subseteq X
    BY <1>2 DEF Known, EachIsRight, Ready, NeedsInOrder
  <2>3. SUFFICES ASSUME progress[k] \in {"Succeeded", "Failed"} PROVE FALSE
    BY <1>4, <2>1
  <2>4. needs[k] \subseteq X
    BY <1>2, <2>1, <2>3 DEF EachIsRight, Ready, NeedsInOrder
  <2>5. k \in Jobs
    BY <2>1 DEF Known
  <2>. HIDE DEF X
  <2>6. Upstream(k) \subseteq X
    BY <1>1, <2>2, <2>4, <2>5 DEF UpstreamsAreLeast, ClosedUp
  <2>. QED
    BY <2>1, <2>6 DEF X
<1>. QED
  BY <1>5, <1>6

\* At first nobody is known.
LEMMA GraphStarts ==
    ASSUME TriggersAssumption, GraphInit
    PROVE  GraphInv
<1>1. GraphTypes /\ Known = {} /\ \A j \in Jobs : needs[j] = {}
  BY DEF GraphInit, GraphTypes, Known
<1>2. ASSUME NEW j \in Jobs PROVE j \notin Upstream(j)
  <2>1. UpstreamsAreLeast
    BY <1>1, UpstreamsClose
  <2>2. ClosedUp({}) /\ needs[j] \subseteq {} /\ {} \in SUBSET Jobs
    BY <1>1 DEF ClosedUp
  <2>3. Upstream(j) \subseteq {}
    BY <2>1, <2>2 DEF UpstreamsAreLeast
  <2>. QED
    BY <2>3
<1>. QED
  BY <1>1, <1>2 DEF GraphInv, NeedsInOrder, EachIsRight

\* A need that is not refused leaves the graph in order.
LEMMA DeclareKeeps ==
    ASSUME TriggersAssumption, GraphInv, NEW j \in Jobs, NEW k \in Jobs, Declare(j, k)
    PROVE  GraphInv'
<1>1. GraphTypes /\ NeedsInOrder
  BY DEF GraphInv
<1>2. /\ j # k /\ j \notin Upstream(k)
      /\ \A i \in Known : progress[i] = "waiting"
      /\ needs' = [needs EXCEPT ![j] = @ \union {k}]
      /\ progress' = [progress EXCEPT ![j] = "waiting", ![k] = "waiting"]
  BY DEF Declare, MayNeed
<1>3. GraphTypes'
  BY <1>1, <1>2 DEF GraphTypes
<1>4. UpstreamsAreLeast /\ UpstreamsAreLeast'
  BY <1>1, <1>3, UpstreamsClose, UpstreamsCloseNext
<1>5. \A i \in Jobs : needs'[i] = IF i = j THEN needs[j] \union {k} ELSE needs[i]
  BY <1>1, <1>2 DEF GraphTypes
<1>6. \A i \in Jobs : progress'[i] = IF i \in {j, k} THEN "waiting" ELSE progress[i]
  BY <1>1, <1>2 DEF GraphTypes
<1>7. Known' = Known \union {j, k} /\ \A i \in Known' : progress'[i] = "waiting"
  <2>1. ASSUME NEW i \in Jobs
        PROVE  /\ progress'[i] # Absent <=> progress[i] # Absent \/ i \in {j, k}
               /\ progress'[i] # Absent => progress'[i] = "waiting"
    <3>1. progress[i] # Absent => progress[i] = "waiting"
      BY <1>2 DEF Known
    <3>. QED
      BY <1>6, <3>1 DEF Absent
  <2>2. Known' = Known \union {j, k}
    BY <2>1 DEF Known
  <2>3. \A i \in Known' : progress'[i] = "waiting"
    BY <2>1 DEF Known
  <2>. QED
    BY <2>2, <2>3
<1>8. EachIsRight'
  BY <1>7 DEF EachIsRight
<1>9. \A t \in Jobs : /\ Upstream(t) \in SUBSET Jobs /\ needs[t] \subseteq Upstream(t)
                      /\ \A u \in Upstream(t) : needs[u] \subseteq Upstream(t)
  BY <1>4 DEF UpstreamsAreLeast, ClosedUp
<1>10. ASSUME NEW t \in Jobs, NEW X \in SUBSET Jobs, needs'[t] \subseteq X,
              \A u \in X : needs'[u] \subseteq X
       PROVE  Upstream(t)' \subseteq X
  <2>1. ClosedUp(X)'
    BY <1>10 DEF ClosedUp
  <2>. QED
    BY <1>4, <1>10, <2>1 DEF UpstreamsAreLeast
<1>11. ASSUME NEW t \in Jobs, t # j, j \notin Upstream(t) PROVE Upstream(t)' \subseteq Upstream(t)
  <2>1. needs'[t] \subseteq Upstream(t) /\ Upstream(t) \in SUBSET Jobs
    BY <1>5, <1>9, <1>11
  <2>2. \A u \in Upstream(t) : needs'[u] = needs[u]
    BY <1>5, <1>9, <1>11
  <2>3. \A u \in Upstream(t) : needs'[u] \subseteq Upstream(t)
    BY <1>9, <2>2
  <2>. QED
    BY <1>10, <2>1, <2>3
<1>12. ASSUME NEW t \in Jobs PROVE Upstream(t)' \subseteq Upstream(t) \union {k} \union Upstream(k)
  <2>. DEFINE X == Upstream(t) \union {k} \union Upstream(k)
  <2>1. X \in SUBSET Jobs /\ needs'[t] \subseteq X
    BY <1>5, <1>9
  <2>2. ASSUME NEW u \in X PROVE needs'[u] \subseteq X
    <3>1. u \in Jobs /\ needs[u] \subseteq X
      BY <1>9
    <3>. QED
      BY <1>5, <3>1
  <2>. HIDE DEF X
  <2>3. Upstream(t)' \subseteq X
    BY <1>10, <2>1, <2>2
  <2>. QED
    BY <2>3 DEF X
<1>13. ASSUME NEW t \in Jobs, NEW u \in Upstream(t) PROVE Upstream(u) \subseteq Upstream(t)
  BY <1>4, <1>9 DEF UpstreamsAreLeast
<1>14. ASSUME NEW t \in Jobs PROVE t \notin Upstream(t)'
  <2>1. t \notin Upstream(t)
    BY <1>1 DEF NeedsInOrder
  <2>2. CASE t = j
    BY <1>2, <1>12, <2>1, <2>2
  <2>3. CASE t # j /\ j \notin Upstream(t)
    BY <1>11, <2>1, <2>3
  <2>4. CASE j \in Upstream(t)
    <3>1. t # k
      BY <1>2, <2>4
    <3>2. t \notin Upstream(k)
      BY <1>2, <1>13, <2>4
    <3>. QED
      BY <1>12, <2>1, <3>1, <3>2
  <2>. QED
    BY <2>2, <2>3, <2>4
<1>15. NeedsInOrder'
  <2>1. \A i \in Known' : needs'[i] \subseteq Known'
    <3>1. ASSUME NEW i \in Jobs PROVE needs[i] \subseteq Known
      BY <1>1 DEF NeedsInOrder
    <3>2. Known' \subseteq Jobs
      BY DEF Known
    <3>. QED
      BY <1>5, <1>7, <3>1, <3>2
  <2>2. \A i \in Jobs \ Known' : needs'[i] = {}
    BY <1>1, <1>5, <1>7 DEF NeedsInOrder
  <2>3. \A t \in Jobs : t \notin Upstream(t)'
    BY <1>14
  <2>. QED
    BY <2>1, <2>2, <2>3 DEF NeedsInOrder
<1>. QED
  BY <1>3, <1>8, <1>15 DEF GraphInv

\* Where needs stay, jobs that succeeded or failed stay so, and what begins to run or is
\* skipped has its reason, the graph stays in order.
LEMMA ProgressKeeps ==
    ASSUME TriggersAssumption, GraphInv, UNCHANGED needs, GraphTypes',
           \A j \in Jobs :
              /\ progress'[j] = Absent <=> progress[j] = Absent
              /\ progress[j] \in SettledJob => progress'[j] = progress[j]
              /\ progress'[j] = "skipped" => progress[j] = "skipped" \/ Doomed(j)
              /\ progress'[j] \in {"running", "Succeeded", "Failed"} =>
                    progress[j] \in {"running", "Succeeded", "Failed"} \/ Ready(j)
    PROVE  GraphInv'
<1>1. GraphTypes /\ NeedsInOrder /\ EachIsRight
  BY DEF GraphInv
<1>2. Known' = Known /\ Corpses \subseteq Corpses'
  BY DEF Known, Corpses, SettledJob
<1>3. \A j \in Jobs : Upstream(j)' = Upstream(j)
  BY DEF Upstream
<1>4. NeedsInOrder'
  BY <1>1, <1>2, <1>3 DEF NeedsInOrder
<1>5. ASSUME NEW j \in Known PROVE /\ Doomed(j) => Doomed(j)'
                                   /\ Ready(j) => Ready(j)'
  <2>1. j \in Jobs /\ needs[j] \subseteq Jobs
    BY <1>1 DEF Known, GraphTypes
  <2>2. Doomed(j) => Doomed(j)'
    BY <1>2, <1>3, <2>1 DEF Doomed
  <2>3. Ready(j) => Ready(j)'
    BY <2>1 DEF Ready, SettledJob
  <2>. QED
    BY <2>2, <2>3
<1>6. ASSUME NEW j \in Known
      PROVE  /\ progress'[j] = "skipped" => Doomed(j)'
             /\ progress'[j] \in {"running", "Succeeded", "Failed"} => Ready(j)'
  <2>1. j \in Jobs
    BY DEF Known
  <2>2. /\ progress'[j] = "skipped" => Doomed(j)
        /\ progress'[j] \in {"running", "Succeeded", "Failed"} => Ready(j)
    BY <1>1, <2>1 DEF EachIsRight
  <2>. QED
    BY <1>5, <2>2
<1>7. EachIsRight'
  BY <1>2, <1>6 DEF EachIsRight
<1>. QED
  BY <1>4, <1>7 DEF GraphInv

\* A look at the pipeline, to launch or to ask.
LEMMA LookKeeps ==
    ASSUME TriggersAssumption, GraphInv, NEW launched \in BOOLEAN, AfterLook(launched),
           UNCHANGED needs
    PROVE  GraphInv'
<1>1. GraphTypes
  BY DEF GraphInv
<1>2. \A j \in Jobs :
         progress'[j] = IF progress[j] # "waiting" THEN progress[j]
                        ELSE IF Doomed(j) THEN "skipped"
                        ELSE IF launched /\ Ready(j) THEN "running" ELSE "waiting"
  BY DEF AfterLook
<1>3. GraphTypes'
  BY <1>1 DEF AfterLook, GraphTypes
<1>. QED
  BY <1>2, <1>3, ProgressKeeps DEF Absent, SettledJob

\* Every step of graph and pipeline keeps them in order.
LEMMA GraphSteps ==
    ASSUME TriggersAssumption, GraphInv, GraphNext
    PROVE  GraphInv'
<1>1. GraphTypes
  BY DEF GraphInv
<1>2. CASE LaunchReady
  BY <1>2, LookKeeps DEF LaunchReady
<1>3. CASE AskState
  BY <1>3, LookKeeps DEF AskState
<1>4. ASSUME NEW j \in Jobs, NEW k \in Jobs, Declare(j, k) PROVE GraphInv'
  BY <1>4, DeclareKeeps
<1>5. ASSUME NEW j \in Jobs, NEW end \in {"Succeeded", "Failed"}, FinishJob(j, end)
      PROVE  GraphInv'
  <2>1. /\ progress[j] = "running" /\ UNCHANGED needs
        /\ \A i \in Jobs : progress'[i] = IF i = j THEN end ELSE progress[i]
    BY <1>1, <1>5 DEF FinishJob, GraphTypes
  <2>2. GraphTypes'
    BY <1>1, <1>5 DEF FinishJob, GraphTypes
  <2>. QED
    BY <2>1, <2>2, ProgressKeeps DEF Absent, SettledJob
<1>. QED
  BY <1>2, <1>3, <1>4, <1>5 DEF GraphNext

-----------------------------------------------------------------------------
(* The components side by side                                             *)

\* The four that keep tasks in the store, in order.
WorkloadInv == OrdinalInv /\ DaemonInv /\ DepartureInv /\ JobInv

\* The two that set work going, in order.
TriggerInv == CronInv /\ GraphInv

\* Whoever does not run stays in order.
LEMMA OrdinalsMayRest ==
    ASSUME OrdinalInv, UNCHANGED ordinalVars
    PROVE  OrdinalInv'
<1>1. UNCHANGED <<children, wanted, struck>>
  BY DEF ordinalVars
<1>. QED
  BY <1>1 DEF OrdinalInv, OrdinalsInOrder, Held

\* Daemons that rest.
LEMMA DaemonsMayRest ==
    ASSUME DaemonInv, UNCHANGED daemonVars
    PROVE  DaemonInv'
<1>1. UNCHANGED <<machines, daemons, touched, moves>>
  BY DEF daemonVars
<1>. QED
  BY <1>1 DEF DaemonInv, DaemonsAtHome, Made

\* Ledgers that rest.
LEMMA DeparturesMayRest ==
    ASSUME DepartureAssumption, DepartureInv, UNCHANGED departureVars
    PROVE  DepartureInv'
<1>1. UNCHANGED <<present, finalizers, leaving, ownerOf, births, asked, bypassed>>
  BY DEF departureVars
<1>2. DepartureTypes /\ DepartureTypes' /\ Forest
  BY <1>1 DEF DepartureInv, DeparturesConsistent, DepartureTypes, Forest
<1>3. Forest'
  BY <1>1, <1>2, FewerReferences
<1>. QED
  BY <1>1, <1>2, <1>3 DEF DepartureInv, DeparturesConsistent, Forest

\* A job that rests.
LEMMA JobMayRest ==
    ASSUME JobAssumption, JobInv, UNCHANGED jobGCVars
    PROVE  JobInv'
<1>1. UNCHANGED <<jobVars, ran>> /\ UNCHANGED <<task, finished>>
  BY DEF jobGCVars
<1>2. JobTypeOK
  BY DEF JobInv, JobConsistent
<1>3. /\ task' \in [Names -> {"Absent", "Active"} \cup Finished]
      /\ finished' \in [Names -> 0..Ttl \cup {NoAttempt}]
  BY <1>1, <1>2 DEF JobTypeOK
<1>. QED
  BY <1>1, <1>3, OthersMayGo

\* Cron at rest.
LEMMA CronMayRest ==
    ASSUME CronInv, UNCHANGED cronVars
    PROVE  CronInv'
<1>1. UNCHANGED <<seen, launches, awake>>
  BY DEF cronVars
<1>. QED
  BY <1>1 DEF CronInv, CronTypes, CronOnce

\* A graph at rest.
LEMMA GraphMayRest ==
    ASSUME TriggersAssumption, GraphInv, UNCHANGED graphVars
    PROVE  GraphInv'
<1>1. UNCHANGED <<needs, progress>>
  BY DEF graphVars
<1>2. GraphTypes'
  BY <1>1 DEF GraphInv, GraphTypes
<1>. QED
  BY <1>1, <1>2, ProgressKeeps

\* All start in order.
LEMMA WorkloadStarts ==
    ASSUME OrdinalBounds, DepartureAssumption, JobAssumption, Init
    PROVE  WorkloadInv
BY OrdinalStarts, DaemonStarts, DepartureStarts, JobStarts DEF Init, WorkloadInv

\* A step of one leaves all in order.
LEMMA WorkloadSteps ==
    ASSUME OrdinalBounds, MaxCount <= 10, DepartureAssumption, JobAssumption,
           WorkloadInv, [Next]_vars
    PROVE  WorkloadInv'
<1>1. OrdinalInv /\ DaemonInv /\ DepartureInv /\ JobInv
  BY DEF WorkloadInv
<1>2. OrdinalNext \/ UNCHANGED ordinalVars
  BY DEF Next, In, Still, vars
<1>3. DaemonNext \/ UNCHANGED daemonVars
  BY DEF Next, In, Still, vars
<1>4. DepartureNext \/ UNCHANGED departureVars
  BY DEF Next, In, Still, vars
<1>5. JobNext \/ UNCHANGED jobGCVars
  BY DEF Next, In, Still, vars
<1>6. OrdinalInv' /\ DaemonInv'
  BY <1>1, <1>2, <1>3, OrdinalSteps, OrdinalsMayRest, DaemonSteps, DaemonsMayRest
<1>7. DepartureInv' /\ JobInv'
  BY <1>1, <1>4, <1>5, DepartureSteps, DeparturesMayRest, JobSteps, JobMayRest
<1>. QED
  BY <1>6, <1>7 DEF WorkloadInv

\* So it is with what sets work going.
LEMMA TriggerSteps ==
    ASSUME TriggersAssumption, TriggerInv, [Next]_vars
    PROVE  TriggerInv'
<1>1. CronInv /\ GraphInv
  BY DEF TriggerInv
<1>2. CronNext \/ UNCHANGED cronVars
  BY DEF Next, In, Still, vars
<1>3. GraphNext \/ UNCHANGED graphVars
  BY DEF Next, In, Still, vars
<1>. QED
  BY <1>1, <1>2, <1>3, CronSteps, CronMayRest, GraphSteps, GraphMayRest DEF TriggerInv

-----------------------------------------------------------------------------
\* ordinals.py, daemons.py, finalizers.py with owners.py, jobs.py with gc.py: with any
\* names, counts, bounds and retries, below a child that lives nobody is missing but
\* the struck, a daemon is on the node of its name unless the monitor moved it,
\* what is leaving was asked to go and waits for a signature, owners form a forest,
\* and a job runs no more children than its parallelism and none it does not wait
\* for.  Above to ten ordinals: of more, the retirement takes the names in the order
\* of strings, "set-2" before "set-10".
THEOREM WorkloadsStayConsistent ==
    ASSUME OrdinalBounds, MaxCount <= 10, DepartureAssumption, JobAssumption
    PROVE  WorkloadsSpec => []WorkloadsConsistent
<1>1. Init => WorkloadInv
  BY WorkloadStarts
<1>2. WorkloadInv /\ [Next]_vars => WorkloadInv'
  BY WorkloadSteps
<1>3. WorkloadInv => WorkloadsConsistent
  BY DEF WorkloadInv, WorkloadsConsistent, OrdinalInv, DaemonInv, DepartureInv, JobInv
<1>. QED
  BY <1>1, <1>2, <1>3, PTL DEF WorkloadsSpec

\* cron.py, dagjobs.py and depends.py: however long the keeper of any schedules sleeps,
\* no window is launched twice and its policy tells which of those it slept
\* through are; needs declared in any order leave a graph that can be started; and
\* a pipeline that ends has skipped exactly what is downstream of a corpse.
THEOREM TriggersStayRight ==
    ASSUME TriggersAssumption
    PROVE  WorkloadsSpec => []TriggersRight
<1>1. Init => TriggerInv
  BY CronStarts, GraphStarts DEF Init, TriggerInv
<1>2. TriggerInv /\ [Next]_vars => TriggerInv'
  BY TriggerSteps
<1>3. TriggerInv => TriggersRight
  BY AcyclicStarts, EachMakesTheVerdict DEF TriggerInv, CronInv, GraphInv, TriggersRight
<1>. QED
  BY <1>1, <1>2, <1>3, PTL DEF WorkloadsSpec

\* gc.py:4-5: no sweep takes a child that runs, for any number of indexes, retries and
\* kept tasks, and whatever time to live is set.
THEOREM SweepsLeaveTheActive ==
    ASSUME JobAssumption
    PROVE  WorkloadsSpec => ActiveUntouched
<1>1. Init => JobInv
  BY JobStarts DEF Init
<1>2. JobInv /\ [Next]_vars => JobInv'
  <2>1. SUFFICES ASSUME JobInv, [Next]_vars PROVE JobInv'
    OBVIOUS
  <2>2. JobNext \/ UNCHANGED jobGCVars
    BY <2>1 DEF Next, In, Still, vars
  <2>. QED
    BY <2>1, <2>2, JobSteps, JobMayRest
<1>3. JobInv =>
         [Sweep => \A n \in Children : task[n] = "Active" => task'[n] = "Active"]_jobGCVars
  BY SweepSpares
<1>. QED
  BY <1>1, <1>2, <1>3, PTL DEF WorkloadsSpec, ActiveUntouched


-----------------------------------------------------------------------------
(* The control loop: the lowest of a set of ordinals                       *)

\* There are finitely many ordinals.
LEMMA OrdinalsAreFinite ==
    ASSUME LoopAssumption, NEW S, S \subseteq TaskNumbers
    PROVE  IsFiniteSet(S) /\ Cardinality(S) \in Nat
<1>1. IsFiniteSet(TaskNumbers)
  BY FS_Interval DEF TaskNumbers, LoopAssumption
<1>. QED
  BY <1>1, FS_Subset, FS_CardinalityType

\* A set of ordinals that is not empty has a last one, and without it the rest
\* are those before it.
LEMMA LastOrdinalOf ==
    ASSUME LoopAssumption, NEW S, S \subseteq TaskNumbers, S # {}
    PROVE  \E m \in S : S = {p \in S : p < m} \cup {m}
<1>1. IsFiniteSet(S) /\ S \subseteq Int
  <2>1. S \subseteq Int
    BY DEF TaskNumbers, LoopAssumption
  <2>. QED
    BY <2>1, OrdinalsAreFinite
<1>. QED
  BY <1>1, LastOf

\* The k lowest are at most k, and none when k is not positive.
LEMMA LowestAreFew ==
    ASSUME LoopAssumption, NEW S, S \subseteq TaskNumbers, NEW k \in Int
    PROVE  /\ LowestOf(S, k) \subseteq S /\ Cardinality(LowestOf(S, k)) \in Nat
           /\ k <= 0 => LowestOf(S, k) = {}
           /\ k >= 0 => Cardinality(LowestOf(S, k)) <= k
<1>1. IsFiniteSet(S) /\ S \subseteq Int
  <2>1. S \subseteq Int
    BY DEF TaskNumbers, LoopAssumption
  <2>. QED
    BY <2>1, OrdinalsAreFinite
<1>2. LowestOf(S, k) = Foremost(S, k)
  BY DEF LowestOf, Foremost
<1>. QED
  BY <1>1, <1>2, ForemostAreFew

-----------------------------------------------------------------------------
(* The invariant.                                                          *)

\* What the sweep leaves ready was heard of.
ReadyIsHeard ==
    stage \in {"converge", "place"} =>
        \A n \in joined \cap ready : age[n] <= NotReadyAfter

\* A closed node is the surge node or the one a walk is at.
ClosedByWalk == cordoned \subseteq {Spare, walk.node}

LoopInv == LoopConsistent /\ ReadyIsHeard /\ ClosedByWalk

\* The last restart that makes a difference is a number.
LEMMA TopIsNat ==
    ASSUME LoopAssumption
    PROVE  Top \in Nat
<1>. DEFINE S == Failing \cup {BackoffCap}
<1>1. IsFiniteSet(S) /\ S \subseteq Nat /\ S # {}
  BY FS_AddElement DEF LoopAssumption
<1>2. S \subseteq Int
  BY <1>1
<1>3. Top = Max(S) + 1
  BY DEF Top
<1>. HIDE DEF S
<1>4. Max(S) \in S
  BY <1>1, <1>2, MaxIsThere
<1>5. Max(S) \in Nat
  BY <1>1, <1>4
<1>. DEFINE m == Max(S)
<1>6. m \in Nat /\ Top = m + 1
  BY <1>3, <1>5
<1>. HIDE DEF m
<1>. QED
  BY <1>6

\* The loop starts with an empty fleet that beats.
LEMMA LoopBegins ==
    ASSUME LoopAssumption
    PROVE  LoopInit => LoopInv
<1>. SUFFICES ASSUME LoopInit PROVE LoopInv
  OBVIOUS
<1>1. Active = {} /\ \A n : Aboard(n) = {}
  BY DEF LoopInit, Active, Aboard
<1>2. Top \in Nat /\ EvictAfter \in Nat /\ Slots \in Nat
  BY TopIsNat DEF LoopAssumption
<1>3. LoopTypeOK
  BY <1>1, <1>2 DEF LoopInit, LoopTypeOK, AtRest, LoopAssumption, Nodes
<1>4. NeverOvercommitted
  BY <1>1, <1>2, FS_EmptySet DEF NeverOvercommitted
<1>. QED
  BY <1>1, <1>3, <1>4
  DEF LoopInv, LoopConsistent, LoopInit, GhostsLeave, HomesReal, WalkLeavesOpen, ReadyIsHeard,
      ClosedByWalk

-----------------------------------------------------------------------------
(* Types.                                                                  *)

\* Who is drained was aboard.
LEMMA EvictedAboard ==
    ASSUME LoopAssumption, LoopTypeOK, NEW n
    PROVE  /\ Evicted(n) \subseteq Aboard(n) /\ Aboard(n) \subseteq Active
           /\ Active \subseteq TaskNumbers
  BY DEF Evicted, LowestOf, Aboard, Active

\* A drain keeps the types.
LEMMA DrainTypes ==
    ASSUME LoopAssumption, LoopTypeOK, NEW n, DrainEffect(n)
    PROVE  /\ phase' \in [TaskNumbers -> {"Absent", "Pending", "Bound", "Running", "Failed"}]
           /\ home' \in [TaskNumbers -> Nodes \cup {None}]
           /\ \A o \in TaskNumbers : home'[o] # None <=> o \in Active'
           /\ Active' = Active \ Evicted(n)
           /\ \A o \in Active' : home'[o] = home[o]
<1>1. /\ Evicted(n) \subseteq Active /\ Active \subseteq TaskNumbers
  BY EvictedAboard
<1>2. \A o \in TaskNumbers :
         /\ phase'[o] = IF o \in Evicted(n) THEN "Pending" ELSE phase[o]
         /\ home'[o] = IF o \in Evicted(n) THEN None ELSE home[o]
  BY DEF DrainEffect
<1>3. \A o \in TaskNumbers : home[o] # None <=> o \in Active
  BY DEF LoopTypeOK
<1>4. Active' = Active \ Evicted(n)
  BY <1>1, <1>2 DEF Active
<1>5. /\ phase' \in [TaskNumbers -> {"Absent", "Pending", "Bound", "Running", "Failed"}]
      /\ home' \in [TaskNumbers -> Nodes \cup {None}]
  BY DEF DrainEffect, LoopTypeOK
<1>. QED
  BY <1>1, <1>2, <1>3, <1>4, <1>5

\* The sweep puts back who lived on a dead node.
LEMMA SweepTypes ==
    ASSUME LoopAssumption, LoopTypeOK, SweepDead
    PROVE  LoopTypeOK' /\ Active' = Active \ Stranded /\ \A o \in Active' : home'[o] = home[o]
<1>1. Stranded \subseteq Active /\ Active \subseteq TaskNumbers /\ Top \in Nat
  BY TopIsNat DEF Stranded, Active
<1>2. \A o \in TaskNumbers :
         /\ phase'[o] = IF o \in Stranded THEN "Pending" ELSE phase[o]
         /\ home'[o] = IF o \in Stranded THEN None ELSE home[o]
  BY DEF SweepDead
<1>3. \A o \in TaskNumbers : home[o] # None <=> o \in Active
  BY DEF LoopTypeOK
<1>4. Active' = Active \ Stranded
  BY <1>1, <1>2 DEF Active
<1>5. /\ phase' \in [TaskNumbers -> {"Absent", "Pending", "Bound", "Running", "Failed"}]
      /\ home' \in [TaskNumbers -> Nodes \cup {None}]
  BY DEF SweepDead, LoopTypeOK
<1>6. restarts' \in [TaskNumbers -> 0..Top]
  BY <1>1 DEF SweepDead, LoopTypeOK, Least
<1>7. \A o \in TaskNumbers : home'[o] # None <=> o \in Active'
  BY <1>1, <1>2, <1>3, <1>4
<1>8. LoopTypeOK'
  BY <1>5, <1>6, <1>7 DEF SweepDead, LoopTypeOK, keeperVars
<1>. QED
  BY <1>1, <1>2, <1>4, <1>8

\* Converging adds pending children and removes the highest.
LEMMA ConvergeTypes ==
    ASSUME LoopAssumption, LoopTypeOK, Converge
    PROVE  LoopTypeOK' /\ Active' = Active \ Surplus /\ \A o \in Active' : home'[o] = home[o]
<1>1. /\ Surplus \subseteq TaskNumbers /\ Active \subseteq TaskNumbers /\ Top \in Nat
      /\ \A o \in Unfilled : phase[o] = "Absent" /\ o \in TaskNumbers
      /\ \A o \in Surplus : phase[o] # "Absent"
  BY TopIsNat DEF Surplus, HighestOf, OwnTasks, Active, Unfilled, LowestOf
<1>2. \A o \in TaskNumbers :
         /\ phase'[o] = IF o \in Unfilled THEN "Pending"
                        ELSE IF o \in Surplus THEN "Absent" ELSE phase[o]
         /\ home'[o] = IF o \in Surplus THEN None ELSE home[o]
  BY DEF Converge
<1>3. \A o \in TaskNumbers : home[o] # None <=> o \in Active
  BY DEF LoopTypeOK
<1>4. Active' = Active \ Surplus
  BY <1>1, <1>2 DEF Active
<1>5. /\ phase' \in [TaskNumbers -> {"Absent", "Pending", "Bound", "Running", "Failed"}]
      /\ home' \in [TaskNumbers -> Nodes \cup {None}]
  BY DEF Converge, LoopTypeOK
<1>6. restarts' \in [TaskNumbers -> 0..Top]
  BY <1>1 DEF Converge, LoopTypeOK
<1>7. \A o \in TaskNumbers : home'[o] # None <=> o \in Active'
  BY <1>1, <1>2, <1>3, <1>4
<1>8. LoopTypeOK'
  BY <1>5, <1>6, <1>7 DEF Converge, LoopTypeOK, keeperVars, nodeVars
<1>. QED
  BY <1>1, <1>2, <1>4, <1>8

\* The scheduler seats pending children on open nodes that have room.
LEMMA PlaceTypes ==
    ASSUME LoopAssumption, LoopTypeOK, Place
    PROVE  /\ LoopTypeOK'
           /\ \E seat \in [Pending -> Open \cup {None}] :
                 /\ Seated(seat)
                 /\ Active' = Active \cup {o \in Pending : seat[o] # None}
                 /\ \A o \in Active : home'[o] = home[o] /\ o \notin Pending
                 /\ \A o \in Pending : home'[o] = seat[o]
<1>1. PICK seat \in [Pending -> Open \cup {None}] :
         /\ Seated(seat)
         /\ home' = [o \in TaskNumbers |-> IF o \in Pending THEN seat[o] ELSE home[o]]
         /\ phase' = [o \in TaskNumbers |->
                         IF o \in Pending /\ seat[o] # None THEN "Bound" ELSE phase[o]]
  BY DEF Place
<1>2. /\ Open \subseteq Nodes /\ Pending \subseteq TaskNumbers /\ Active \subseteq TaskNumbers
      /\ \A o \in Pending : o \notin Active
      /\ \A o \in Pending : phase[o] = "Pending"
      /\ None \notin Nodes
  BY DEF Open, LoopTypeOK, Pending, Active, LoopAssumption
<1>3. /\ phase' \in [TaskNumbers -> {"Absent", "Pending", "Bound", "Running", "Failed"}]
      /\ home' \in [TaskNumbers -> Nodes \cup {None}]
  BY <1>1, <1>2 DEF LoopTypeOK
<1>4. Active' = Active \cup {o \in Pending : seat[o] # None}
  BY <1>1, <1>2 DEF Active
<1>5. \A o \in TaskNumbers : home[o] # None <=> o \in Active
  BY DEF LoopTypeOK
<1>6. \A o \in TaskNumbers : home'[o] # None <=> o \in Active'
  BY <1>1, <1>2, <1>4, <1>5
<1>7. LoopTypeOK'
  BY <1>3, <1>6 DEF Place, LoopTypeOK, keeperVars, nodeVars
<1>. QED
  BY <1>1, <1>2, <1>4, <1>7

\* The keeper starts, restarts, backs off, fails and forgives.
LEMMA KeepTypes ==
    ASSUME LoopAssumption, LoopTypeOK, Keep
    PROVE  LoopTypeOK' /\ Active' = Active \ Broken /\ \A o \in Active' : home'[o] = home[o]
<1>1. /\ Top \in Nat /\ Active \subseteq TaskNumbers /\ BackoffCap \in Nat
      /\ ForgiveAfter \in Nat /\ EvictAfter \in Nat /\ budget \in Nat
      /\ ForgiveAfter >= 1
  BY TopIsNat DEF Active, LoopAssumption, LoopTypeOK
<1>2. /\ Up \subseteq Probed /\ Broken \subseteq Probed /\ Up \cap Broken = {}
      /\ \A o \in Probed : o \in TaskNumbers /\ phase[o] = "Bound"
  BY DEF Up, Broken, Gated, Down, Probed
<1>3. \A o \in TaskNumbers :
         /\ phase'[o] = IF o \in Up THEN "Running" ELSE IF o \in Broken THEN "Failed"
                        ELSE phase[o]
         /\ home'[o] = IF o \in Broken THEN None ELSE home[o]
  BY DEF Keep
<1>4. \A o \in TaskNumbers : home[o] # None <=> o \in Active
  BY DEF LoopTypeOK
<1>5. Active' = Active \ Broken
  BY <1>2, <1>3 DEF Active
<1>6. /\ phase' \in [TaskNumbers -> {"Absent", "Pending", "Bound", "Running", "Failed"}]
      /\ home' \in [TaskNumbers -> Nodes \cup {None}]
  BY DEF Keep, LoopTypeOK
<1>7. \A o \in TaskNumbers : home'[o] # None <=> o \in Active'
  BY <1>1, <1>2, <1>3, <1>4, <1>5
<1>8. restarts' \in [TaskNumbers -> 0..Top]
  BY <1>1 DEF Keep, LoopTypeOK, Least
<1>9. waiting' \in [TaskNumbers -> 0..BackoffCap]
  <2>1. ASSUME NEW r \in 0..Top PROVE BackoffFor(r + 1) \in Int /\ BackoffFor(r + 1) <= BackoffCap
    <3>1. r + 1 \in Nat
      BY <1>1
    <3>2. 2^(r + 1) \in Int
      BY <3>1
    <3>. QED
      BY <1>1, <3>2 DEF BackoffFor, Least
  <2>2. \A w \in Int : w <= BackoffCap => Sooner(w) \in 0..BackoffCap
    BY <1>1 DEF Sooner
  <2>3. \A o \in TaskNumbers : restarts[o] \in 0..Top /\ waiting[o] \in 0..BackoffCap
    BY DEF LoopTypeOK
  <2>. QED
    BY <1>1, <2>1, <2>2, <2>3 DEF Keep
<1>10. healthy' \in [TaskNumbers -> 0..ForgiveAfter]
  BY <1>1 DEF Keep, LoopTypeOK, Least
<1>11. absorbed' \in [TaskNumbers -> 0..budget] /\ started' \subseteq TaskNumbers
  <2>1. absorbed' \in [TaskNumbers -> 0..budget]
    BY <1>1 DEF Keep, LoopTypeOK, Least
  <2>. QED
    BY <1>2, <2>1 DEF Keep, LoopTypeOK
<1>12. age' \in [Nodes -> 0..EvictAfter + 1]
  BY <1>1 DEF Keep, LoopTypeOK, Least
<1>13. LoopTypeOK'
  BY <1>6, <1>7, <1>8, <1>9, <1>10, <1>11, <1>12 DEF Keep, LoopTypeOK
<1>. QED
  BY <1>1, <1>2, <1>3, <1>5, <1>13

\* Whoever is aboard a node was, and stays where it was.
LeavesOnly == Active' \subseteq Active /\ \A o \in Active' : home'[o] = home[o]

\* The records a walk can be.
Walks == [todo : SUBSET Fleet, node : Nodes \cup {None},
          left : 0..Rounds, quiet : BOOLEAN, surge : BOOLEAN]

\* A walk stays a walk when its fields are set to fitting values.
LEMMA WalkFields ==
    ASSUME NEW w \in Walks, NEW t \in SUBSET Fleet, NEW n \in Nodes \cup {None},
           NEW k \in 0..Rounds, NEW q \in BOOLEAN
    PROVE  /\ [w EXCEPT !.todo = t, !.node = n, !.left = k, !.quiet = q] \in Walks
           /\ [w EXCEPT !.left = k, !.quiet = q] \in Walks
           /\ [w EXCEPT !.node = n] \in Walks
  BY DEF Walks

\* A walk that takes a node, or drains it again, is still a walk.
LEMMA DrainingWalk ==
    ASSUME LoopAssumption, walk \in Walks, cordoned \subseteq Nodes,
           \/ \E n \in Fleet : TakeNode(n)
           \/ DrainAgain \/ DrainSpare
    PROVE  /\ walk' \in Walks /\ cordoned' \subseteq Nodes /\ joined' = joined
           /\ stage' = "beat" /\ UNCHANGED <<age, ready, restarts, keeperVars, replicas>>
<1>1. /\ Rounds \in Nat \ {0} /\ Fleet \subseteq Nodes /\ Spare \in Nodes
      /\ walk.todo \in SUBSET Fleet /\ walk.node \in Nodes \cup {None}
      /\ walk.left \in 0..Rounds /\ walk.quiet \in BOOLEAN
  BY DEF LoopAssumption, Nodes, Walks
<1>2. joined' = joined /\ stage' = "beat"
      /\ UNCHANGED <<age, ready, restarts, keeperVars, replicas>>
  BY DEF TakeNode, DrainAgain, DrainSpare, DrainEffect
<1>3. ASSUME NEW n \in Fleet, TakeNode(n)
      PROVE  walk' \in Walks /\ cordoned' \subseteq Nodes
  <2> DEFINE q == Aboard(n) = {}
             t == walk.todo \ {n}
             k == Rounds - 1
  <2>1. q \in BOOLEAN /\ t \in SUBSET Fleet /\ k \in 0..Rounds /\ n \in Nodes \cup {None}
    BY <1>1
  <2>2. walk' = [walk EXCEPT !.todo = t, !.node = n, !.left = k, !.quiet = q]
    BY <1>3 DEF TakeNode
  <2>. HIDE DEF q, t, k
  <2>3. walk' \in Walks
    BY <2>1, <2>2, WalkFields
  <2>. QED
    BY <1>1, <1>3, <2>3 DEF TakeNode
<1>4. CASE DrainAgain
  <2> DEFINE q == Aboard(walk.node) = {}
             k == walk.left - 1
  <2>1. q \in BOOLEAN /\ k \in 0..Rounds
    BY <1>1, <1>4 DEF DrainAgain
  <2>2. walk' = [walk EXCEPT !.left = k, !.quiet = q]
    BY <1>4 DEF DrainAgain
  <2>. HIDE DEF q, k
  <2>3. walk' \in Walks
    <3>1. \A x \in 0..Rounds, y \in BOOLEAN :
             [walk EXCEPT !.left = x, !.quiet = y] \in Walks
      BY DEF Walks
    <3>. QED
      BY <2>1, <2>2, <3>1
  <2>4. cordoned' \subseteq Nodes
    BY <1>4 DEF DrainAgain
  <2>. QED
    BY <1>2, <2>3, <2>4
<1>5. CASE DrainSpare
  <2>1. walk' = [walk EXCEPT !.node = Spare]
    BY <1>5 DEF DrainSpare
  <2>2. walk' \in Walks
    BY <1>1, <2>1 DEF Walks
  <2>3. cordoned' \subseteq Nodes
    BY <1>1, <1>5 DEF DrainSpare
  <2>. QED
    BY <1>2, <2>2, <2>3
<1>. QED
  BY <1>2, <1>3, <1>4, <1>5

\* A walk that starts is a walk, and the node it adds is one.
LEMMA StartingWalk ==
    ASSUME LoopAssumption, LoopTypeOK,
           NEW names \in SUBSET Fleet, NEW surge \in BOOLEAN, StartWalk(names, surge)
    PROVE  LoopTypeOK'
<1>1. Spare \in Nodes /\ EvictAfter \in Nat /\ Rounds \in Nat
  BY DEF LoopAssumption, Nodes
<1>2. AtRest \in Walks
  BY <1>1 DEF AtRest, Walks
<1>3. walk' \in Walks
  <2>1. walk' = [AtRest EXCEPT !.todo = names, !.surge = surge]
    BY DEF StartWalk
  <2>. QED
    BY <1>2, <2>1 DEF Walks
<1>4. age' \in [Nodes -> 0..EvictAfter + 1]
  <2>1. age \in [Nodes -> 0..EvictAfter + 1] /\ 0 \in 0..EvictAfter + 1
    BY <1>1 DEF LoopTypeOK
  <2>2. age' = age \/ age' = [age EXCEPT ![Spare] = 0]
    BY DEF StartWalk
  <2>. QED
    BY <1>1, <2>1, <2>2
<1>5. joined' \subseteq Nodes /\ ready' \subseteq Nodes /\ cordoned' \subseteq Nodes
  BY <1>1 DEF StartWalk, LoopTypeOK
<1>6. Active' = Active /\ UNCHANGED <<stage, taskVars, keeperVars, replicas>>
  BY DEF StartWalk, Active, taskVars
<1>. QED
  BY <1>3, <1>4, <1>5, <1>6 DEF LoopTypeOK, Walks, taskVars, keeperVars

\* Walks and drains keep the types.
LEMMA WalkTypes ==
    ASSUME LoopAssumption, LoopTypeOK,
           \/ Upgrade
           \/ \E names \in SUBSET Fleet, surge \in BOOLEAN : StartWalk(names, surge)
    PROVE  LoopTypeOK' /\ LeavesOnly
<1>1. /\ Fleet \subseteq Nodes /\ Spare \in Nodes /\ None \in Nodes \cup {None}
      /\ walk \in Walks /\ AtRest \in Walks
  BY DEF LoopAssumption, Nodes, AtRest, Walks, LoopTypeOK
<1>2. ASSUME NEW names \in SUBSET Fleet, NEW surge \in BOOLEAN, StartWalk(names, surge)
      PROVE  LoopTypeOK' /\ LeavesOnly
  BY <1>2, StartingWalk DEF StartWalk, Active, taskVars, LeavesOnly
<1>3. CASE Patch
  <2>1. walk' \in Walks
    <3>1. [walk EXCEPT !.node = None] \in Walks
      BY <1>1 DEF Walks
    <3>. QED
      BY <1>1, <1>3, <3>1 DEF Patch
  <2>2. Active' = Active /\ LeavesOnly
    BY <1>3 DEF Patch, Active, taskVars, LeavesOnly
  <2>. QED
    BY <1>3, <2>1, <2>2 DEF Patch, LoopTypeOK, Walks, taskVars, keeperVars
<1>4. CASE DropSpare
  <2>1. walk' \in Walks
    BY <1>1, <1>4 DEF DropSpare
  <2>2. Active' = Active /\ LeavesOnly
    BY <1>4 DEF DropSpare, Active, taskVars, LeavesOnly
  <2>3. joined' \subseteq Nodes /\ ready' \subseteq Nodes /\ cordoned' \subseteq Nodes
    BY <1>4 DEF DropSpare, LoopTypeOK
  <2>4. UNCHANGED <<stage, age, taskVars, keeperVars, replicas>>
    BY <1>4 DEF DropSpare
  <2>. QED
    BY <2>1, <2>2, <2>3, <2>4 DEF LoopTypeOK, Walks, taskVars, keeperVars
<1>5. CASE \/ \E n \in Fleet : TakeNode(n)
           \/ DrainAgain \/ DrainSpare
  <2>1. PICK n : DrainEffect(n)
    BY <1>5 DEF TakeNode, DrainAgain, DrainSpare
  <2>2. /\ walk' \in Walks /\ cordoned' \subseteq Nodes /\ joined' = joined
        /\ stage' = "beat" /\ UNCHANGED <<age, ready, restarts, keeperVars, replicas>>
    BY <1>1, <1>5, DrainingWalk DEF LoopTypeOK
  <2>3. /\ phase' \in [TaskNumbers -> {"Absent", "Pending", "Bound", "Running", "Failed"}]
        /\ home' \in [TaskNumbers -> Nodes \cup {None}]
        /\ \A o \in TaskNumbers : home'[o] # None <=> o \in Active'
        /\ Active' = Active \ Evicted(n)
        /\ \A o \in Active' : home'[o] = home[o]
    BY <2>1, DrainTypes
  <2>. QED
    BY <2>2, <2>3 DEF LoopTypeOK, Walks, keeperVars, LeavesOnly
<1>. QED
  BY <1>2, <1>3, <1>4, <1>5 DEF Upgrade

\* Every step keeps the types, and every step but that of the scheduler leaves
\* everyone in place or takes them away.
LEMMA StepTypes ==
    ASSUME LoopAssumption, LoopTypeOK, [LoopNext]_loopVars
    PROVE  LoopTypeOK' /\ (Place \/ LeavesOnly)
<1>1. CASE UNCHANGED loopVars
  BY <1>1 DEF loopVars, nodeVars, taskVars, keeperVars, LoopTypeOK, Active, LeavesOnly
<1>2. CASE StartTick
  BY <1>2 DEF StartTick, nodeVars, taskVars, keeperVars, LoopTypeOK, Active, LeavesOnly
<1>3. ASSUME NEW loud \in SUBSET joined, Beat(loud)
      PROVE  LoopTypeOK' /\ LeavesOnly
  <2>1. Active' = Active /\ LeavesOnly /\ EvictAfter \in Nat
    BY <1>3 DEF Beat, Active, LeavesOnly, taskVars, LoopAssumption
  <2>. QED
    BY <1>3, <2>1 DEF Beat, LoopTypeOK, taskVars, keeperVars
<1>4. ASSUME NEW k \in Replicas, Scale(k)
      PROVE  LoopTypeOK' /\ LeavesOnly
  BY <1>4 DEF Scale, nodeVars, taskVars, keeperVars, LoopTypeOK, Active, LeavesOnly
<1>5. CASE SweepDead \/ Converge \/ Keep
  BY <1>5, SweepTypes, ConvergeTypes, KeepTypes DEF LeavesOnly
<1>6. CASE Place
  BY <1>6, PlaceTypes
<1>. QED
  BY <1>1, <1>2, <1>3, <1>4, <1>5, <1>6, WalkTypes DEF LoopNext, Tick

-----------------------------------------------------------------------------
(* The parts of the invariant.                                             *)

\* Slots are not overbooked.
LEMMA SlotsHold ==
    ASSUME LoopAssumption, LoopTypeOK, LoopTypeOK', NeverOvercommitted, Place \/ LeavesOnly
    PROVE  NeverOvercommitted'
<1>. SUFFICES ASSUME NEW n \in Nodes PROVE Cardinality(Aboard(n)') <= Slots
  BY DEF NeverOvercommitted
<1>. DEFINE was == Aboard(n)
            is == Aboard(n)'
<1>1. /\ was \subseteq TaskNumbers /\ is \subseteq TaskNumbers
      /\ Cardinality(was) <= Slots /\ Slots \in Nat
  BY DEF Aboard, Active, NeverOvercommitted, LoopAssumption
<1>2. /\ IsFiniteSet(was) /\ IsFiniteSet(is)
      /\ Cardinality(was) \in Nat /\ Cardinality(is) \in Nat
  BY <1>1, OrdinalsAreFinite
<1>3. CASE LeavesOnly
  <2>1. is \subseteq was
    BY <1>3 DEF LeavesOnly, Aboard
  <2>. HIDE DEF is, was
  <2>2. Cardinality(is) <= Cardinality(was)
    BY <1>2, <2>1, FS_Subset
  <2>. QED
    BY <1>1, <1>2, <2>2 DEF is
<1>4. CASE Place
  <2>1. PICK seat \in [Pending -> Open \cup {None}] :
           /\ Seated(seat)
           /\ Active' = Active \cup {o \in Pending : seat[o] # None}
           /\ \A o \in Active : home'[o] = home[o] /\ o \notin Pending
           /\ \A o \in Pending : home'[o] = seat[o]
    BY <1>4, PlaceTypes
  <2>. DEFINE new == {o \in Pending : seat[o] = n}
  <2>2. n # None /\ Pending \subseteq TaskNumbers
    BY DEF LoopAssumption, Pending
  <2>3. is = was \cup new /\ was \cap new = {} /\ new \subseteq TaskNumbers
    BY <2>1, <2>2 DEF Aboard
  <2>4. CASE new = {}
    BY <1>1, <2>3, <2>4
  <2>5. CASE new # {}
    <3>1. PICK m \in new : new = {p \in new : p < m} \cup {m}
      BY <2>3, <2>5, LastOrdinalOf
    <3>. DEFINE others == {p \in new : p < m}
                before == {p \in Pending : p < m /\ seat[p] = n}
    <3>2. before = others /\ m \in Pending /\ seat[m] = n
      OBVIOUS
    <3>3. Cardinality(was) + Cardinality(before) < Slots
      BY <2>1, <2>2, <3>2 DEF Seated
    <3>4. m \notin others /\ others \subseteq TaskNumbers /\ new = others \cup {m}
      <4>1. m \in Int
        BY <2>3 DEF TaskNumbers, LoopAssumption
      <4>. QED
        BY <2>3, <3>1, <4>1
    <3>5. Cardinality(was) + Cardinality(others) < Slots
      BY <3>2, <3>3
    <3>. HIDE DEF others, new, is, was, before
    <3>6. IsFiniteSet(others) /\ Cardinality(others) \in Nat
      BY <3>4, OrdinalsAreFinite
    <3>7. Cardinality(new) = Cardinality(others) + 1 /\ IsFiniteSet(new)
      BY <3>4, <3>6, FS_AddElement
    <3>8. Cardinality(is) = Cardinality(was) + Cardinality(new)
      <4>1. Cardinality(was \cap new) = 0
        BY <2>3, FS_EmptySet
      <4>2. Cardinality(was \cup new) =
               Cardinality(was) + Cardinality(new) - Cardinality(was \cap new)
        BY <1>2, <3>7, FS_Union
      <4>3. Cardinality(new) \in Nat
        BY <3>7, FS_CardinalityType
      <4>. QED
        BY <1>2, <2>3, <4>1, <4>2, <4>3
    <3>. QED
      BY <1>1, <1>2, <3>5, <3>6, <3>7, <3>8 DEF is
  <2>. QED
    BY <2>4, <2>5
<1>. QED
  BY <1>3, <1>4

\* Nobody is left on a dead node once the sweep is over.
LEMMA GhostsLeaveNext ==
    ASSUME LoopAssumption, LoopTypeOK, LoopTypeOK', GhostsLeave, ReadyIsHeard, [LoopNext]_loopVars,
           Place \/ LeavesOnly
    PROVE  GhostsLeave'
<1>. SUFFICES ASSUME stage' \in {"converge", "place", "keep"}, NEW n \in joined',
                     age'[n] > EvictAfter, NEW o \in Active', home'[o] = n
              PROVE  FALSE
  BY DEF GhostsLeave, Aboard
<1>1. CASE SweepDead
  <2>1. o \in Active \ Stranded /\ home[o] = n /\ n \in joined /\ age[n] > EvictAfter
    BY <1>1, SweepTypes DEF SweepDead
  <2>. QED
    BY <2>1 DEF Stranded, Dead
<1>2. CASE /\ LeavesOnly /\ UNCHANGED <<joined, age>>
           /\ stage \in {"converge", "place", "keep"}
  BY <1>2 DEF LeavesOnly, GhostsLeave, Aboard
<1>3. CASE Converge
  <2>1. LeavesOnly
    BY <1>3, ConvergeTypes DEF LeavesOnly
  <2>. QED
    BY <1>2, <1>3, <2>1 DEF Converge, nodeVars
<1>4. CASE Place
  <2>1. UNCHANGED <<joined, age>> /\ stage = "place"
    BY <1>4 DEF Place, nodeVars
  <2>2. PICK seat \in [Pending -> Open \cup {None}] :
           /\ Active' = Active \cup {p \in Pending : seat[p] # None}
           /\ \A p \in Active : home'[p] = home[p] /\ p \notin Pending
           /\ \A p \in Pending : home'[p] = seat[p]
    BY <1>4, PlaceTypes
  <2>3. CASE o \in Active
    BY <2>1, <2>2, <2>3 DEF GhostsLeave, Aboard
  <2>4. CASE o \in Pending
    <3>1. n \in Open
      BY <2>2, <2>4
    <3>2. age[n] <= NotReadyAfter /\ age[n] \in Nat
      BY <2>1, <3>1 DEF Open, ReadyIsHeard, LoopTypeOK, LoopAssumption
    <3>. QED
      BY <2>1, <3>2 DEF LoopAssumption
  <2>. QED
    BY <2>2, <2>3, <2>4
<1>5. CASE UNCHANGED loopVars
  <2>1. LeavesOnly
    BY <1>5 DEF LeavesOnly, loopVars, taskVars, Active
  <2>. QED
    BY <1>2, <1>5, <2>1 DEF loopVars, nodeVars
<1>. QED
  BY <1>1, <1>3, <1>4, <1>5
  DEF LoopNext, Tick, StartTick, Beat, Keep, Scale, StartWalk, Upgrade, TakeNode, DrainAgain,
      Patch, DrainSpare, DropSpare, DrainEffect

\* What is ready after the sweep was heard of until the tasks are placed.
LEMMA ReadyIsHeardNext ==
    ASSUME LoopAssumption, LoopTypeOK, ReadyIsHeard, [LoopNext]_loopVars
    PROVE  ReadyIsHeard'
<1>. SUFFICES ASSUME stage' \in {"converge", "place"}, NEW n \in joined' \cap ready'
              PROVE  age'[n] <= NotReadyAfter
  BY DEF ReadyIsHeard
<1>1. CASE SweepDead
  <2>1. n \in joined /\ n \in ready /\ ~(age[n] > NotReadyAfter) /\ age' = age
    BY <1>1 DEF SweepDead
  <2>2. age[n] \in Nat /\ NotReadyAfter \in Nat
    BY <2>1 DEF LoopTypeOK, LoopAssumption
  <2>. QED
    BY <2>1, <2>2
<1>2. CASE Converge
  BY <1>2 DEF Converge, nodeVars, ReadyIsHeard
<1>3. CASE UNCHANGED loopVars
  BY <1>3 DEF loopVars, nodeVars, ReadyIsHeard
<1>. QED
  BY <1>1, <1>2, <1>3
  DEF LoopNext, Tick, StartTick, Beat, Place, Keep, Scale, StartWalk, Upgrade, TakeNode,
      DrainAgain, Patch, DrainSpare, DropSpare, DrainEffect

\* No node is taken from the store under its tasks.
LEMMA HomesStayReal ==
    ASSUME LoopAssumption, LoopTypeOK, LoopTypeOK', HomesReal, [LoopNext]_loopVars, Place \/ LeavesOnly
    PROVE  HomesReal'
<1>. SUFFICES ASSUME NEW o \in Active' PROVE home'[o] \in joined'
  BY DEF HomesReal
<1>1. CASE Place
  <2>1. PICK seat \in [Pending -> Open \cup {None}] :
           /\ Active' = Active \cup {p \in Pending : seat[p] # None}
           /\ \A p \in Active : home'[p] = home[p] /\ p \notin Pending
           /\ \A p \in Pending : home'[p] = seat[p]
    BY <1>1, PlaceTypes
  <2>2. joined' = joined /\ Open \subseteq joined
    BY <1>1 DEF Place, nodeVars, Open
  <2>. QED
    BY <2>1, <2>2 DEF HomesReal
<1>2. CASE LeavesOnly
  <2>1. home'[o] = home[o] /\ o \in Active /\ home[o] \in joined
    BY <1>2 DEF LeavesOnly, HomesReal
  <2>2. CASE DropSpare
    <3>1. Active' = Active
      BY <2>2 DEF DropSpare, taskVars, Active
    <3>2. Aboard(Spare) = {} => home[o] # Spare
      BY <2>1 DEF Aboard
    <3>. QED
      BY <2>1, <2>2, <3>2 DEF DropSpare
  <2>3. CASE joined \subseteq joined'
    BY <2>1, <2>3
  <2>4. joined \subseteq joined' \/ DropSpare
    BY DEF LoopNext, Tick, StartTick, Beat, SweepDead, Converge, Place, Keep, Scale, StartWalk,
       Upgrade, TakeNode, DrainAgain, Patch, DrainSpare, DrainEffect, loopVars, nodeVars
  <2>. QED
    BY <2>2, <2>3, <2>4
<1>. QED
  BY <1>1, <1>2

\* Only a walk closes nodes, and it opens them again.
LEMMA ClosedByWalkNext ==
    ASSUME LoopAssumption, LoopTypeOK, ClosedByWalk, [LoopNext]_loopVars
    PROVE  ClosedByWalk'
<1>1. CASE UNCHANGED <<cordoned, walk>>
  BY <1>1 DEF ClosedByWalk
<1>2. ASSUME NEW n \in Fleet, TakeNode(n) PROVE ClosedByWalk'
  <2>1. walk.node = None /\ walk'.node = n /\ cordoned' = cordoned \cup {n}
    BY <1>2 DEF TakeNode, LoopTypeOK
  <2>. QED
    BY <2>1 DEF ClosedByWalk, LoopTypeOK, LoopAssumption
<1>3. CASE DrainAgain
  BY <1>3 DEF DrainAgain, ClosedByWalk, LoopTypeOK
<1>4. CASE Patch
  BY <1>4 DEF Patch, ClosedByWalk, LoopTypeOK, AtRest
<1>5. CASE DrainSpare
  BY <1>5 DEF DrainSpare, ClosedByWalk, LoopTypeOK, LoopAssumption
<1>6. CASE DropSpare
  BY <1>6 DEF DropSpare, ClosedByWalk, LoopTypeOK
<1>7. ASSUME NEW names \in SUBSET Fleet, NEW surge \in BOOLEAN, StartWalk(names, surge)
      PROVE  ClosedByWalk'
  BY <1>7 DEF StartWalk, ClosedByWalk, LoopTypeOK, AtRest
<1>. QED
  BY <1>1, <1>2, <1>3, <1>4, <1>5, <1>6, <1>7
  DEF LoopNext, Tick, StartTick, Beat, SweepDead, Converge, Place, Keep, Scale, Upgrade, loopVars,
      nodeVars

-----------------------------------------------------------------------------

\* nodes.py:3-5, upgradewalk.py:4-6: whatever is silent, rescaled or walked, the
\* tasks of a dead node are gone for the rest of the tick, every home is in the
\* store, no slot is overbooked, and no walk leaves a node of the fleet closed.
THEOREM LoopStaysConsistent ==
    ASSUME LoopAssumption
    PROVE  LoopSpec => []LoopConsistent
<1>1. LoopInit => LoopInv
  BY LoopBegins
<1>2. LoopInv /\ [LoopNext]_loopVars => LoopInv'
  <2>. SUFFICES ASSUME LoopInv, [LoopNext]_loopVars PROVE LoopInv'
    OBVIOUS
  <2>1. LoopTypeOK' /\ (Place \/ LeavesOnly)
    BY StepTypes DEF LoopInv, LoopConsistent
  <2>2. NeverOvercommitted' /\ GhostsLeave' /\ ReadyIsHeard' /\ HomesReal' /\ ClosedByWalk'
    BY <2>1, SlotsHold, GhostsLeaveNext, ReadyIsHeardNext, HomesStayReal, ClosedByWalkNext
    DEF LoopInv, LoopConsistent
  <2>3. WalkLeavesOpen'
    BY <2>1, <2>2 DEF WalkLeavesOpen, ClosedByWalk, LoopTypeOK, AtRest, LoopAssumption
  <2>. QED
    BY <2>1, <2>2, <2>3 DEF LoopInv, LoopConsistent
<1>3. LoopInv => LoopConsistent
  BY DEF LoopInv
<1>. QED
  BY <1>1, <1>2, <1>3, PTL DEF LoopSpec

\* The actions behind TasksAreSpared.
KeepsTasks ==
    \A o \in Active : stage \in {"beat", "sweep", "place"} /\ home'[o] # home[o] =>
                         age[home[o]] > EvictAfter

KeepsFloor ==
    stage = "rest" /\ Cardinality(Active') < Cardinality(Active) =>
        Cardinality(Active') >= Floor

\* A drain stops at the floor of the guard.
LEMMA DrainStopsAtFloor ==
    ASSUME LoopAssumption, LoopTypeOK, NEW n, DrainEffect(n)
    PROVE  Cardinality(Active') < Cardinality(Active) => Cardinality(Active') >= Floor
<1>. DEFINE all == Active
            gone == Evicted(n)
            left == Active'
            k == Cardinality(all) - Floor
<1>1. left = all \ gone /\ gone \subseteq Aboard(n) /\ Aboard(n) \subseteq all
      /\ all \subseteq TaskNumbers
  BY DrainTypes, EvictedAboard
<1>2. /\ IsFiniteSet(all) /\ IsFiniteSet(gone) /\ Cardinality(all) \in Nat
      /\ Cardinality(gone) \in Nat /\ Cardinality(left) \in Nat /\ Floor \in Nat
  BY <1>1, OrdinalsAreFinite DEF LoopAssumption
<1>3. k \in Int /\ gone = LowestOf(Aboard(n), k) /\ Aboard(n) \subseteq TaskNumbers
  BY <1>1, <1>2 DEF Evicted
<1>. HIDE DEF k
<1>4. /\ k <= 0 => gone = {}
      /\ k >= 0 => Cardinality(gone) <= k
  BY <1>3, LowestAreFew
<1>. HIDE DEF all, gone, left
<1>5. Cardinality(left) = Cardinality(all) - Cardinality(gone)
  <2>1. all \cap gone = gone
    BY <1>1
  <2>2. Cardinality(all \ gone) = Cardinality(all) - Cardinality(all \cap gone)
    BY <1>2, FS_Difference
  <2>. QED
    BY <1>1, <2>1, <2>2
<1>6. gone = {} => Cardinality(gone) = 0
  BY FS_EmptySet
<1>. QED
  BY <1>2, <1>3, <1>4, <1>5, <1>6 DEF k, all, left

\* nodes.py:7-8, budget.py:3-4: a tick takes a running task off its node only when
\* the node has been silent beyond the second timer, and a walk never takes the
\* active tasks below the floor.
THEOREM TheLoopSparesTasks ==
    ASSUME LoopAssumption
    PROVE  LoopSpec => TasksAreSpared
<1>1. LoopInit => LoopTypeOK
  BY LoopBegins DEF LoopInv, LoopConsistent
<1>2. LoopTypeOK /\ [LoopNext]_loopVars => LoopTypeOK'
  BY StepTypes
<1>3. LoopTypeOK /\ [LoopNext]_loopVars => [KeepsTasks]_loopVars
  <2>. SUFFICES ASSUME LoopTypeOK, LoopNext, NEW o \in Active,
                       stage \in {"beat", "sweep", "place"}, home'[o] # home[o]
                PROVE  age[home[o]] > EvictAfter
    BY DEF KeepsTasks
  <2>1. CASE SweepDead
    <3>1. o \in Stranded
      BY <2>1 DEF SweepDead, Active
    <3>. QED
      BY <3>1 DEF Stranded, Dead
  <2>2. CASE Place
    BY <2>2, PlaceTypes
  <2>. QED
    BY <2>1, <2>2
    DEF LoopNext, Tick, StartTick, Beat, Converge, Keep, Scale, StartWalk, Upgrade, TakeNode,
        DrainAgain, Patch, DrainSpare, DropSpare, taskVars
<1>4. LoopTypeOK /\ [LoopNext]_loopVars => [KeepsFloor]_loopVars
  <2>. SUFFICES ASSUME LoopTypeOK, LoopNext, stage = "rest",
                       Cardinality(Active') < Cardinality(Active)
                PROVE  Cardinality(Active') >= Floor
    BY DEF KeepsFloor
  <2>1. CASE \E n : DrainEffect(n)
    BY <2>1, DrainStopsAtFloor
  <2>2. CASE UNCHANGED taskVars
    <3>1. Active' = Active
      BY <2>2 DEF taskVars, Active
    <3>2. Cardinality(Active) \in Nat
      BY OrdinalsAreFinite DEF Active
    <3>. QED
      BY <3>1, <3>2
  <2>. QED
    BY <2>1, <2>2
    DEF LoopNext, Tick, StartTick, Beat, SweepDead, Converge, Place, Keep, Scale, StartWalk, Upgrade,
        TakeNode, DrainAgain, Patch, DrainSpare, DropSpare
<1>. QED
  BY <1>1, <1>2, <1>3, <1>4, PTL
  DEF LoopSpec, TasksAreSpared, ReturningNodeKeepsTasks, WalkKeepsFloor, KeepsTasks, KeepsFloor
=============================================================================
