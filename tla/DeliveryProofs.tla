--------------------------- MODULE DeliveryProofs ---------------------------
(***************************************************************************)
(* Proofs about rolling updates and the other ways of a build to its       *)
(* users, about the renewal of the iron, and about what is declared, saved *)
(* and read back, for any replicas, pools, manifests and events.           *)
(***************************************************************************)
EXTENDS MCDelivery, FoldFacts, FiniteSetTheorems, TLAPS

-----------------------------------------------------------------------------
(* Rollout: what its populations count.                                    *)

\* rolling is the newest revision: apply records one and rolls it out.
NewestRolls == rolling = Len(builds)

RolloutInv == RolloutConsistent /\ NewestRolls

\* There are finitely many names, as many of one revision as replicas.
LEMMA NamesAreFinite ==
    ASSUME RolloutAssumption
    PROVE  /\ IsFiniteSet(Names)
           /\ \A r \in Revisions : /\ IsFiniteSet({r} \X (0..Replicas - 1))
                                   /\ Cardinality({r} \X (0..Replicas - 1)) = Replicas
<1>1. Replicas \in Nat \ {0} /\ MaxRevision \in Nat
  BY DEF RolloutAssumption
<1>2. IsFiniteSet(0..Replicas - 1) /\ Cardinality(0..Replicas - 1) = Replicas
  BY <1>1, FS_Interval
<1>3. IsFiniteSet(Revisions)
  BY <1>1, FS_Interval DEF Revisions
<1>4. IsFiniteSet(Names)
  BY <1>2, <1>3, FS_Product DEF Names
<1>5. ASSUME NEW r \in Revisions
      PROVE  /\ IsFiniteSet({r} \X (0..Replicas - 1))
             /\ Cardinality({r} \X (0..Replicas - 1)) = Replicas
  <2>1. IsFiniteSet({r}) /\ Cardinality({r}) = 1
    BY FS_Singleton
  <2>2. /\ IsFiniteSet({r} \X (0..Replicas - 1))
        /\ Cardinality({r} \X (0..Replicas - 1))
              = Cardinality({r}) * Cardinality(0..Replicas - 1)
    BY <1>2, <2>1, FS_Product
  <2>. QED
    BY <1>1, <1>2, <2>1, <2>2
<1>. QED
  BY <1>4, <1>5

\* Every population is a finite set of names.
LEMMA Count ==
    ASSUME RolloutAssumption, NEW S, S \subseteq Names
    PROVE  IsFiniteSet(S) /\ Cardinality(S) \in Nat
<1>1. IsFiniteSet(S)
  BY NamesAreFinite, FS_Subset
<1>. QED
  BY <1>1, FS_CardinalityType

\* A part of a population is no more than it.
LEMMA CountOfSubset ==
    ASSUME RolloutAssumption, NEW A, NEW B, A \subseteq B, B \subseteq Names
    PROVE  Cardinality(A) <= Cardinality(B)
<1>1. IsFiniteSet(B)
  BY Count
<1>. QED
  BY <1>1, FS_Subset

\* One more name adds one at most.
LEMMA CountOfOneMore ==
    ASSUME RolloutAssumption, NEW A, A \subseteq Names, NEW t \in Names
    PROVE  Cardinality(A \cup {t}) <= Cardinality(A) + 1
<1>1. IsFiniteSet(A) /\ Cardinality(A) \in Nat
  BY Count
<1>2. CASE t \in A
  <2>1. A \cup {t} = A
    BY <1>2
  <2>2. Cardinality(A \cup {t}) = Cardinality(A)
    BY <2>1, Zenon
  <2>. QED
    BY <1>1, <2>2
<1>3. CASE t \notin A
  <2>1. Cardinality(A \cup {t}) = Cardinality(A) + 1
    BY <1>1, <1>3, FS_AddElement
  <2>. QED
    BY <1>1, <2>1
<1>. QED
  BY <1>2, <1>3

\* What is left of A without t is at most one less.
LEMMA CountOfOneLess ==
    ASSUME RolloutAssumption, NEW A, A \subseteq Names, NEW t
    PROVE  Cardinality(A \ {t}) >= Cardinality(A) - 1
<1>1. IsFiniteSet(A) /\ Cardinality(A) \in Nat
  BY Count
<1>2. CASE t \in A
  <2>1. Cardinality(A \ {t}) = Cardinality(A) - 1
    BY <1>1, <1>2, FS_RemoveElement
  <2>. QED
    BY <1>1, <2>1
<1>3. CASE t \notin A
  <2>1. A \ {t} = A
    BY <1>3
  <2>. QED
    BY <1>1, <2>1
<1>. QED
  BY <1>2, <1>3

\* The fresh tasks are of one revision, so there are no more than replicas.
LEMMA FreshAreFew ==
    ASSUME RolloutAssumption, rolling \in Revisions
    PROVE  Cardinality(FreshOnes) \in 0..Replicas
<1>1. FreshOnes \subseteq {rolling} \X (0..Replicas - 1)
  BY DEF FreshOnes, Mine, Names
<1>2. Cardinality(FreshOnes) <= Cardinality({rolling} \X (0..Replicas - 1))
  BY <1>1, NamesAreFinite, FS_Subset
<1>3. Cardinality({rolling} \X (0..Replicas - 1)) = Replicas
  BY NamesAreFinite
<1>4. FreshOnes \subseteq Names
  BY DEF FreshOnes, Mine
<1>5. Cardinality(FreshOnes) \in Nat
  BY <1>4, Count
<1>. QED
  BY <1>2, <1>3, <1>5 DEF RolloutAssumption

\* The stale tasks have a last one in name order: the victim exists.
LEMMA VictimIsStale ==
    ASSUME RolloutAssumption, Stale # {}
    PROVE  Victim \in Stale
<1>. DEFINE R == {r \in Revisions : \E t \in Stale : t[1] = r}
<1>1. Stale \subseteq Names
  BY DEF Stale, Mine
<1>2. IsFiniteSet(Revisions) /\ Revisions \subseteq Int /\ IsFiniteSet(0..Replicas - 1)
  BY FS_Interval DEF Revisions, RolloutAssumption
<1>3. IsFiniteSet(R) /\ R \subseteq Int /\ R # {}
  <2>1. R \subseteq Revisions
    OBVIOUS
  <2>2. R # {}
    BY <1>1 DEF Names
  <2>. HIDE DEF R
  <2>. QED
    BY <1>2, <2>1, <2>2, FS_Subset
<1>4. Max(R) \in R /\ \A r \in R : r <= Max(R)
  <2>. HIDE DEF R
  <2>. QED
    BY <1>3, MaxIsThere
<1>. DEFINE O == {o \in 0..Replicas - 1 : <<Max(R), o>> \in Stale}
<1>5. IsFiniteSet(O) /\ O \subseteq Int /\ O # {}
  <2>1. O \subseteq 0..Replicas - 1
    OBVIOUS
  <2>2. O # {}
    BY <1>1, <1>4 DEF Names
  <2>3. O \subseteq Int
    BY <2>1
  <2>. HIDE DEF O, R
  <2>. QED
    BY <1>2, <2>1, <2>2, <2>3, FS_Subset
<1>6. Max(O) \in O /\ \A o \in O : o <= Max(O)
  <2>. HIDE DEF O
  <2>. QED
    BY <1>5, MaxIsThere
<1>. DEFINE last == <<Max(R), Max(O)>>
<1>7. last \in Stale
  BY <1>6
<1>8. ASSUME NEW u \in Stale
      PROVE  u[1] < last[1] \/ (u[1] = last[1] /\ u[2] <= last[2])
  <2>1. u = <<u[1], u[2]>> /\ u[1] \in Revisions /\ u[2] \in 0..Replicas - 1
    BY <1>1 DEF Names
  <2>2. u[1] \in R
    BY <2>1
  <2>3. u[1] <= Max(R) /\ Max(R) \in Int /\ u[1] \in Int
    BY <1>2, <1>3, <1>4, <2>1, <2>2
  <2>4. u[1] = Max(R) => u[2] \in O
    BY <2>1
  <2>. HIDE DEF R, O
  <2>. QED
    BY <1>6, <2>3, <2>4
<1>. HIDE DEF last
<1>. QED
  BY <1>7, <1>8 DEF Victim

-----------------------------------------------------------------------------
(* Rollout: what the steps do to the counts.                               *)

\* A step creates a pending task of the newest revision, deletes the last stale
\* task where enough others run and the guard, if there is one, lets it go, or
\* moves nothing.
LEMMA WhatARollerStepDoes ==
    ASSUME RolloutAssumption, TypeOK, NEW guarded \in BOOLEAN, RollerStep(guarded)
    PROVE  \/ UNCHANGED phase
           \/ /\ MayGrow
              /\ \E t \in Names : /\ t[1] = rolling /\ phase[t] = "Absent"
                                  /\ phase' = [phase EXCEPT ![t] = "Pending"]
           \/ /\ MaySpare
              /\ \E t \in Stale : /\ guarded => MayEvict(t)
                                  /\ phase' = [phase EXCEPT ![t] = "Absent"]
<1>1. rolling \in Revisions
  BY DEF TypeOK, Revisions
<1>2. CASE StepGrow
  <2>. DEFINE t == <<rolling, Cardinality(FreshOnes)>>
  <2>1. Cardinality(FreshOnes) \in 0..Replicas - 1
    BY <1>1, <1>2, FreshAreFew DEF StepGrow, MayGrow, RolloutAssumption
  <2>2. t \in Names /\ t[1] = rolling
    BY <1>1, <2>1 DEF Names
  <2>3. MayGrow
    BY <1>2 DEF StepGrow
  <2>. QED
    BY <1>2, <2>2, <2>3 DEF StepGrow
<1>3. CASE StepRetire(guarded)
  <2>1. /\ MaySpare /\ (guarded => MayEvict(Victim))
        /\ phase' = [phase EXCEPT ![Victim] = "Absent"]
    BY <1>3 DEF StepRetire
  <2>2. Victim \in Stale
    BY <2>1, VictimIsStale DEF MaySpare
  <2>. QED
    BY <2>1, <2>2
<1>. QED
  BY <1>2, <1>3 DEF RollerStep, StepDone, StepStuck

\* So it does whoever calls it, or is frozen.
LEMMA WhatAStepDoes ==
    ASSUME RolloutAssumption, TypeOK, Step
    PROVE  \/ UNCHANGED phase
           \/ /\ MayGrow
              /\ \E t \in Names : /\ t[1] = rolling /\ phase[t] = "Absent"
                                  /\ phase' = [phase EXCEPT ![t] = "Pending"]
           \/ /\ MaySpare
              /\ \E t \in Stale : phase' = [phase EXCEPT ![t] = "Absent"]
<1>1. UNCHANGED phase \/ RollerStep(TRUE) \/ RollerStep(FALSE)
  BY DEF Step, GuardedStep, BareStep, GatedStep
<1>. QED
  BY <1>1, WhatARollerStepDoes

\* What a step leaves alone, and the types of what it sets beside the tasks.
LEMMA WhatAStepLeaves ==
    ASSUME TypeOK, Step
    PROVE  /\ UNCHANGED <<builds, rolling, paused, watch, losses>>
           /\ raised' \in BOOLEAN
           /\ slo' \in [spent : BOOLEAN, glass : BOOLEAN]
<1>1. ASSUME NEW guarded \in BOOLEAN, RollerStep(guarded)
      PROVE  UNCHANGED <<builds, rolling, paused, watch, losses>> /\ raised' \in BOOLEAN
  BY <1>1 DEF RollerStep, StepDone, StepGrow, StepRetire, StepStuck, Returns
<1>2. slo \in [spent : BOOLEAN, glass : BOOLEAN]
  BY DEF TypeOK
<1>3. CASE GuardedStep \/ BareStep
  BY <1>1, <1>2, <1>3 DEF GuardedStep, BareStep
<1>4. CASE GatedStep
  <2>1. slo' \in [spent : BOOLEAN, glass : BOOLEAN]
    BY <1>2, <1>4 DEF GatedStep
  <2>2. CASE MayShip
    BY <1>1, <1>4, <2>1, <2>2 DEF GatedStep
  <2>3. CASE ~MayShip
    BY <1>4, <2>1, <2>3 DEF GatedStep, Returns
  <2>. QED
    BY <2>2, <2>3
<1>. QED
  BY <1>3, <1>4 DEF Step

\* Where no task enters a phase of S, no more tasks are in one.
LEMMA NoneEnters ==
    ASSUME RolloutAssumption, NEW S,
           \A t \in Names : phase'[t] \in S => phase[t] \in S
    PROVE  Cardinality({t \in Names : phase'[t] \in S})
              <= Cardinality({t \in Names : phase[t] \in S})
<1>. DEFINE A == {t \in Names : phase'[t] \in S}
            B == {t \in Names : phase[t] \in S}
<1>1. A \subseteq B /\ B \subseteq Names
  OBVIOUS
<1>. HIDE DEF A, B
<1>2. Cardinality(A) <= Cardinality(B)
  BY <1>1, CountOfSubset
<1>. QED
  BY <1>2 DEF A, B

\* Where none leaves one, no fewer are.
LEMMA NoneLeaves ==
    ASSUME RolloutAssumption, NEW S,
           \A t \in Names : phase[t] \in S => phase'[t] \in S
    PROVE  Cardinality({t \in Names : phase[t] \in S})
              <= Cardinality({t \in Names : phase'[t] \in S})
<1>. DEFINE A == {t \in Names : phase'[t] \in S}
            B == {t \in Names : phase[t] \in S}
<1>1. B \subseteq A /\ A \subseteq Names
  OBVIOUS
<1>. HIDE DEF A, B
<1>2. Cardinality(B) <= Cardinality(A)
  BY <1>1, CountOfSubset
<1>. QED
  BY <1>2 DEF A, B

\* The populations, by phase.
LEMMA ByPhase ==
    /\ Mine = {t \in Names : phase[t] \in Held}
    /\ Running(Mine) = {t \in Names : phase[t] \in {"Running"}}
    /\ Mine' = {t \in Names : phase'[t] \in Held}
    /\ Running(Mine)' = {t \in Names : phase'[t] \in {"Running"}}
PROOF BY DEF Mine, Running, Held, Active

\* The surge: only a step that may grow adds a task.
LEMMA SurgeStays ==
    ASSUME RolloutAssumption, TypeOK, SurgeKept, [Next]_vars
    PROVE  SurgeKept'
<1>0. /\ Cardinality(Mine) \in Nat /\ Cardinality(Mine)' \in Nat
      /\ Cardinality(Mine)' = Cardinality(Mine')
      /\ Replicas \in Nat /\ MaxSurge \in Nat
  BY Count DEF Mine, RolloutAssumption
<1>1. CASE \A t \in Names : phase'[t] \in Held => phase[t] \in Held
  <2>1. Cardinality(Mine') <= Cardinality(Mine)
    BY <1>1, NoneEnters, ByPhase, Zenon
  <2>. QED
    BY <1>0, <2>1 DEF SurgeKept
<1>2. CASE UNCHANGED vars \/ Observe \/ Resume \/ Budget
           \/ (\E b \in Builds : Apply(b)) \/ (\E r \in Revisions : Rollback(r))
  BY <1>1, <1>2 DEF vars, rollVars, Observe, Resume, Budget, Rollback, Apply
<1>3. CASE \E t \in Names : Bind(t) \/ Start(t) \/ Fault(t)
  <2>1. \A t \in Names : phase'[t] \in Held => phase[t] \in Held
    BY <1>3, SMT DEF Bind, Start, Fault, TypeOK, Held, Active
  <2>. QED
    BY <1>1, <2>1
<1>4. CASE Step
  <2>1. CASE UNCHANGED phase
    BY <1>1, <2>1
  <2>2. ASSUME MayGrow, NEW t \in Names, phase' = [phase EXCEPT ![t] = "Pending"]
        PROVE  SurgeKept'
    <3>1. Mine' = Mine \cup {t}
      BY <2>2 DEF Mine, Held, TypeOK
    <3>2. Cardinality(Mine \cup {t}) <= Cardinality(Mine) + 1
      BY CountOfOneMore DEF Mine
    <3>3. Cardinality(Mine)' <= Cardinality(Mine) + 1
      BY <1>0, <3>1, <3>2, Zenon
    <3>. QED
      BY <1>0, <2>2, <3>3 DEF SurgeKept, MayGrow
  <2>3. ASSUME NEW t \in Stale, phase' = [phase EXCEPT ![t] = "Absent"]
        PROVE  SurgeKept'
    BY <1>1, <2>3 DEF Held, Active, TypeOK
  <2>. QED
    BY <1>4, <2>1, <2>2, <2>3, WhatAStepDoes
<1>. QED
  BY <1>2, <1>3, <1>4 DEF Next

\* What a step does to the tasks that run: it spares one only from enough.
LEMMA StepSpares ==
    ASSUME RolloutAssumption, TypeOK, Step
    PROVE  Available' >= Replicas - MaxUnavailable \/ Available' = Available
<1>1. CASE UNCHANGED phase
  BY <1>1 DEF Available, Running, Mine
<1>2. ASSUME NEW t \in Names, phase[t] = "Absent", phase' = [phase EXCEPT ![t] = "Pending"]
      PROVE  Available' = Available
  <2>1. Running(Mine)' = Running(Mine)
    BY <1>2 DEF Running, Mine, TypeOK, Held, Active
  <2>. QED
    BY <2>1, Zenon DEF Available
<1>3. ASSUME MaySpare, NEW t \in Stale, phase' = [phase EXCEPT ![t] = "Absent"]
      PROVE  Available' >= Replicas - MaxUnavailable
  <2>1. Running(Mine)' = Running(Mine) \ {t} /\ Running(Mine) \subseteq Names
    BY <1>3 DEF Running, Mine, Stale, TypeOK, Held, Active
  <2>2. Cardinality(Running(Mine) \ {t}) >= Available - 1
    BY <2>1, CountOfOneLess DEF Available
  <2>3. Available' >= Available - 1
    BY <2>1, <2>2, Zenon DEF Available
  <2>4. Available \in Nat /\ Available' \in Nat
    BY <2>1, Count DEF Available, Running, Mine
  <2>. QED
    BY <1>3, <2>3, <2>4 DEF MaySpare, RolloutAssumption
<1>. QED
  BY <1>1, <1>2, <1>3, WhatAStepDoes

\* The serving count: but for losses, only a step stops what runs.
LEMMA EnoughServe ==
    ASSUME RolloutAssumption, TypeOK, ServingKept, [Next]_vars
    PROVE  ServingKept'
<1>0. /\ Available \in Nat /\ Available' \in Nat
      /\ Available = Cardinality(Running(Mine)) /\ Available' = Cardinality(Running(Mine)')
  BY Count DEF Available, Running, Mine
<1>1. CASE losses' = losses /\ \A t \in Names : phase[t] = "Running" => phase'[t] = "Running"
  <2>1. Cardinality(Running(Mine)) <= Cardinality(Running(Mine)')
    <3>1. \A t \in Names : phase[t] \in {"Running"} => phase'[t] \in {"Running"}
      BY <1>1
    <3>2. Cardinality({t \in Names : phase[t] \in {"Running"}})
             <= Cardinality({t \in Names : phase'[t] \in {"Running"}})
      BY <3>1, NoneLeaves
    <3>. QED
      BY <3>2, ByPhase, Zenon
  <2>. QED
    BY <1>0, <1>1, <2>1 DEF ServingKept, RolloutAssumption
<1>2. CASE UNCHANGED vars \/ Observe \/ Resume \/ Budget
           \/ (\E b \in Builds : Apply(b)) \/ (\E r \in Revisions : Rollback(r))
  BY <1>1, <1>2 DEF vars, rollVars, Observe, Resume, Budget, Rollback, Apply
<1>3. CASE \E t \in Names : Bind(t) \/ Start(t)
  BY <1>1, <1>3, SMT DEF Bind, Start, TypeOK
<1>4. CASE \E t \in Names : Fault(t)
  BY <1>4 DEF Fault, ServingKept, TypeOK
<1>5. CASE Step
  <2>1. losses' = losses
    BY <1>5, WhatAStepLeaves
  <2>. QED
    BY <1>5, <2>1, StepSpares DEF ServingKept
<1>. QED
  BY <1>2, <1>3, <1>4, <1>5 DEF Next

\* The newest revision rolls: apply records and rolls out in one call.
LEMMA NewestStays ==
    ASSUME TypeOK, NewestRolls, [Next]_vars
    PROVE  NewestRolls'
<1>1. CASE UNCHANGED <<builds, rolling>>
  BY <1>1 DEF NewestRolls
<1>2. ASSUME NEW b, Apply(b) PROVE NewestRolls'
  BY <1>2 DEF Apply, NewestRolls, TypeOK
<1>3. CASE Step
  BY <1>1, <1>3, WhatAStepLeaves
<1>. QED
  BY <1>1, <1>2, <1>3 DEF Next, vars, Observe, Resume, Budget, Rollback, Bind, Start,
     Fault, Others

\* What an observation notes is a status.
LEMMA StatusIsOne ==
    ASSUME RolloutAssumption, TypeOK, SurgeKept
    PROVE  /\ Status.updated \in 0..Replicas
           /\ Status.available \in 0..Replicas
           /\ Status.old \in 0..Replicas + MaxSurge
<1>1. rolling \in Revisions
  BY DEF TypeOK, Revisions
<1>2. Cardinality(FreshOnes) \in 0..Replicas
  BY <1>1, FreshAreFew
<1>3. /\ Running(FreshOnes) \subseteq FreshOnes /\ FreshOnes \subseteq Names
      /\ Running(Stale) \subseteq Mine /\ Mine \subseteq Names
  BY DEF Running, FreshOnes, Stale, Mine
<1>4. /\ Cardinality(Running(FreshOnes)) <= Cardinality(FreshOnes)
      /\ Cardinality(Running(Stale)) <= Cardinality(Mine)
  BY <1>3, CountOfSubset
<1>5. /\ Cardinality(Running(FreshOnes)) \in Nat /\ Cardinality(Running(Stale)) \in Nat
      /\ Cardinality(Mine) \in Nat
  <2>1. Running(FreshOnes) \subseteq Names /\ Running(Stale) \subseteq Names
    BY <1>3
  <2>. QED
    BY <1>3, <2>1, Count
<1>. QED
  BY <1>2, <1>4, <1>5 DEF Status, SurgeKept, RolloutAssumption

\* Every step of a rollout keeps the types.
LEMMA RolloutTypes ==
    ASSUME RolloutAssumption, RolloutInv, [Next]_vars
    PROVE  TypeOK'
<1>. USE DEF RolloutInv, RolloutConsistent
<1>1. CASE UNCHANGED vars
  BY <1>1 DEF TypeOK, vars, rollVars
<1>2. CASE Step
  <2>1. phase' \in [Names -> {"Absent", "Ended"} \cup Held]
    <3>1. CASE UNCHANGED phase
      BY <3>1 DEF TypeOK
    <3>2. ASSUME NEW t \in Names, \/ phase' = [phase EXCEPT ![t] = "Absent"]
                                   \/ phase' = [phase EXCEPT ![t] = "Pending"]
          PROVE  phase' \in [Names -> {"Absent", "Ended"} \cup Held]
      BY <3>2 DEF TypeOK, Held
    <3>. QED
      BY <1>2, <3>1, <3>2, WhatAStepDoes DEF Stale, Mine
  <2>. QED
    BY <1>2, <2>1, WhatAStepLeaves DEF TypeOK
<1>3. CASE Observe
  <2>. DEFINE n == IF Unchanged > Patience THEN Patience ELSE Unchanged
              w == [updated |-> Status.updated, available |-> Status.available,
                    old |-> Status.old, for |-> n]
  <2>1. watch.for \in 0..Patience
    BY DEF TypeOK, Statuses, NoStatus, RolloutAssumption
  <2>2. Unchanged \in Nat
    BY <2>1 DEF Unchanged, RolloutAssumption
  <2>3. n \in 0..Patience
    BY <2>2 DEF RolloutAssumption
  <2>4. w \in Statuses
    <3>. HIDE DEF n
    <3>. QED
      BY <2>3, StatusIsOne DEF Statuses
  <2>5. watch' = w /\ paused' \in BOOLEAN
    BY <1>3 DEF Observe, TypeOK
  <2>. HIDE DEF w
  <2>. QED
    BY <1>3, <2>4, <2>5 DEF Observe, TypeOK, rollVars
<1>4. CASE Resume
  BY <1>4 DEF Resume, TypeOK, rollVars
<1>5. CASE Budget
  BY <1>5 DEF Budget, TypeOK, rollVars
<1>6. ASSUME NEW b \in Builds, Apply(b) PROVE TypeOK'
  <2>1. /\ builds' \in Seq(Builds) /\ Len(builds') = Len(builds) + 1
        /\ Len(builds) \in Nat
    BY <1>6 DEF Apply, TypeOK
  <2>2. Len(builds') \in Revisions /\ rolling' \in 1..Len(builds')
    BY <1>6, <2>1 DEF Apply, Revisions, RolloutAssumption
  <2>. QED
    BY <1>6, <2>1, <2>2 DEF Apply, TypeOK, rollVars
<1>7. ASSUME NEW r \in Revisions, Rollback(r) PROVE TypeOK'
  <2>1. builds[r] \in Builds /\ Apply(builds[r])
    BY <1>7 DEF Rollback, TypeOK
  <2>. QED
    BY <1>6, <2>1
<1>8. ASSUME NEW t \in Names, Bind(t) \/ Start(t) PROVE TypeOK'
  BY <1>8 DEF Bind, Start, TypeOK, Held, Active, Others
<1>9. ASSUME NEW t \in Names, Fault(t) PROVE TypeOK'
  <2>1. losses' \in 0..MaxLosses
    BY <1>9 DEF Fault, TypeOK, RolloutAssumption
  <2>2. phase' \in [Names -> {"Absent", "Ended"} \cup Held]
    BY <1>9 DEF Fault, TypeOK, Held
  <2>. QED
    BY <1>9, <2>1, <2>2 DEF Fault, TypeOK, Others
<1>. QED
  BY <1>1, <1>2, <1>3, <1>4, <1>5, <1>6, <1>7, <1>8, <1>9 DEF Next

\* A rollout begins as the invariant says.
LEMMA RolloutBegins ==
    ASSUME RolloutAssumption
    PROVE  Init => RolloutInv
<1>. SUFFICES ASSUME Init PROVE RolloutInv
  OBVIOUS
<1>1. PICK b \in GoodBuilds : builds = <<b>>
  BY DEF Init
<1>2. builds \in Seq(Builds) /\ Len(builds) = 1
  BY <1>1 DEF RolloutAssumption
<1>3. TypeOK
  <2>1. phase \in [Names -> {"Absent", "Ended"} \cup Held]
    BY DEF Init, Held, Active
  <2>2. Len(builds) \in Revisions /\ rolling \in 1..Len(builds)
    BY <1>2 DEF Init, Revisions, RolloutAssumption
  <2>3. losses \in 0..MaxLosses
    BY DEF Init, RolloutAssumption
  <2>. QED
    BY <1>2, <2>1, <2>2, <2>3 DEF Init, TypeOK
<1>4. Mine = {1} \X (0..Replicas - 1) /\ Running(Mine) = Mine
  BY DEF Init, Mine, Running, Names, Revisions, Held, Active, RolloutAssumption
<1>5. Cardinality({1} \X (0..Replicas - 1)) = Replicas
  BY NamesAreFinite DEF Revisions, RolloutAssumption
<1>6. Cardinality(Mine) = Replicas /\ Available = Replicas
  BY <1>4, <1>5, Zenon DEF Available
<1>7. SurgeKept /\ ServingKept
  BY <1>6 DEF SurgeKept, ServingKept, RolloutAssumption
<1>8. NewestRolls
  BY <1>2 DEF Init, NewestRolls
<1>. QED
  BY <1>3, <1>7, <1>8 DEF RolloutInv, RolloutConsistent

\* The invariant holds of every rollout, fair or not.
LEMMA AlwaysRolloutInv ==
    ASSUME RolloutAssumption
    PROVE  Init /\ [][Next]_vars => []RolloutInv
<1>1. Init => RolloutInv
  BY RolloutBegins
<1>2. RolloutInv /\ [Next]_vars => RolloutInv'
  BY RolloutTypes, SurgeStays, EnoughServe, NewestStays DEF RolloutInv, RolloutConsistent
<1>. QED
  BY <1>1, <1>2, PTL

\* rolling.py:4-5: through superseded rollouts, rollbacks, pauses, freezes and
\* faults the surge is never exceeded, and without losses enough always serve.
THEOREM RolloutStaysConsistent ==
    ASSUME RolloutAssumption
    PROVE  Spec => []RolloutConsistent
<1>1. RolloutInv => RolloutConsistent
  BY DEF RolloutInv
<1>. QED
  BY <1>1, AlwaysRolloutInv, PTL DEF Spec

\* budget.py:3-6 inside a rollout: a step that was handed a guard takes no task
\* the guard needs.
LEMMA StepKeepsGuard ==
    ASSUME RolloutAssumption, TypeOK, GuardedStep, Cover >= Floor
    PROVE  Cover' >= Floor
<1>. DEFINE On == {t \in Names : phase[t] \in Active}
<1>1. CASE UNCHANGED phase
  BY <1>1 DEF Cover
<1>2. ASSUME NEW t \in Names, phase[t] = "Absent", phase' = [phase EXCEPT ![t] = "Pending"]
      PROVE  Cover' >= Floor
  <2>1. {u \in Names : phase'[u] \in Active} = On
    BY <1>2 DEF TypeOK, Active
  <2>2. Cover' = Cover
    BY <2>1, Zenon DEF Cover
  <2>. QED
    BY <2>2
<1>3. ASSUME NEW t \in Stale, MayEvict(t), phase' = [phase EXCEPT ![t] = "Absent"]
      PROVE  Cover' >= Floor
  <2>1. {u \in Names : phase'[u] \in Active} = On \ {t} /\ t \in Names
    BY <1>3 DEF TypeOK, Active, Stale, Mine
  <2>2. Cover' = Cardinality(On \ {t}) /\ Cover = Cardinality(On)
    BY <2>1, Zenon DEF Cover
  <2>3. IsFiniteSet(On) /\ Cardinality(On) \in Nat /\ Cardinality(On \ {t}) \in Nat
    BY Count
  <2>4. CASE t \in On
    <3>1. Cardinality(On \ {t}) = Cardinality(On) - 1
      <4>. HIDE DEF On
      <4>. QED
        BY <2>3, <2>4, FS_RemoveElement
    <3>2. Cover - 1 >= Floor
      BY <1>3, <2>4 DEF MayEvict
    <3>. QED
      BY <2>2, <3>1, <3>2
  <2>5. CASE t \notin On
    <3>1. On \ {t} = On
      BY <2>5
    <3>2. Cover' = Cover
      BY <2>2, <3>1, Zenon
    <3>. QED
      BY <3>2
  <2>. QED
    BY <2>4, <2>5
<1>. QED
  BY <1>1, <1>2, <1>3, WhatARollerStepDoes DEF GuardedStep

\* rolling.py:5, budget.py:3-6, history.py:5-8: no step of a rollout, whoever calls
\* it, undercuts the serving limit or creates a task of any but the newest revision,
\* and none that was handed a guard takes what the guard needs.
LEMMA EveryStepKeeps ==
    ASSUME RolloutAssumption
    PROVE  Init /\ [][Next]_vars => StepsKeep
<1>. DEFINE Below == Available' < Replicas - MaxUnavailable /\ Available' # Available
                       => ~Step
            Guarded == Cover >= Floor /\ Cover' < Floor => ~GuardedStep
            Forward == (\E t \in Names : Born(t) /\ t[1] # Len(builds)) => ~Step
<1>1. RolloutInv => Below
  <2>1. Available' \in Nat /\ Replicas - MaxUnavailable \in Int
    BY Count DEF Available, Running, Mine, RolloutAssumption
  <2>. QED
    BY <2>1, StepSpares DEF RolloutInv, RolloutConsistent
<1>2. RolloutInv => Guarded
  <2>1. Cover' \in Nat /\ Floor \in Nat
    BY Count DEF Cover, RolloutAssumption
  <2>. QED
    BY <2>1, StepKeepsGuard DEF RolloutInv, RolloutConsistent
<1>3. RolloutInv => Forward
  <2>. SUFFICES ASSUME RolloutInv, Step, NEW t \in Names, Born(t)
                PROVE  t[1] = Len(builds)
    OBVIOUS
  <2>. USE DEF Born
  <2>1. TypeOK /\ rolling = Len(builds)
    BY DEF RolloutInv, RolloutConsistent, NewestRolls
  <2>2. ASSUME NEW u \in Names, u[1] = rolling, phase' = [phase EXCEPT ![u] = "Pending"]
        PROVE  t[1] = Len(builds)
    BY <2>1, <2>2 DEF TypeOK
  <2>3. ASSUME NEW u \in Stale, phase' = [phase EXCEPT ![u] = "Absent"]
        PROVE  FALSE
    BY <2>1, <2>3 DEF TypeOK
  <2>. QED
    BY <2>1, <2>2, <2>3, WhatAStepDoes
<1>4. RolloutInv => [Below]_phase /\ [Guarded]_phase /\ [Forward]_phase
  BY <1>1, <1>2, <1>3
<1>5. Init /\ [][Next]_vars => [][Below]_phase /\ [][Guarded]_phase /\ [][Forward]_phase
  <2>. HIDE DEF Below, Guarded, Forward
  <2>. QED
    BY <1>4, AlwaysRolloutInv, PTL
<1>. QED
  BY <1>5 DEF StepsKeep, NeverBelow, GuardKept, OnlyForward

\* rolling.py:5, budget.py:3-6, history.py:5-8: for any replicas, surge, floor and
\* revisions, no caller's step undercuts the serving limit or goes back a revision,
\* and a caller that hands a guard over keeps its floor.
THEOREM RolloutStepsKeep ==
    ASSUME RolloutAssumption
    PROVE  Spec => StepsKeep
BY EveryStepKeeps, PTL DEF Spec

-----------------------------------------------------------------------------
(* Waves.                                                                  *)

\* Whatever has baked in a wave was healthy there.
WavesInv ==
    /\ walk \in [at : 1..Len(Bakes) + 1, baked : Nat,
                 state : {"rolling", "aborted", "delivered"}]
    /\ healthyFor \in [DOMAIN Bakes -> Nat]
    /\ walk.at \in DOMAIN Bakes => walk.baked <= healthyFor[walk.at]
    /\ BakedBefore

\* The wave begins with nothing baked.
LEMMA WavesBegin ==
    ASSUME DeliveryAssumption, WavesInit
    PROVE  WavesInv
<1>1. Len(Bakes) \in Nat /\ DOMAIN Bakes = 1..Len(Bakes) /\ Len(Bakes) > 0
  BY DEF DeliveryAssumption
<1>. QED
  BY <1>1 DEF WavesInit, WavesInv, BakedBefore

\* A tick of a walk keeps the evidence of the waves it has left.
LEMMA WavesKeep ==
    ASSUME DeliveryAssumption, WavesInv, NEW healthy \in BOOLEAN, WaveTick(healthy)
    PROVE  WavesInv'
<1>1. /\ Len(Bakes) \in Nat /\ DOMAIN Bakes = 1..Len(Bakes)
      /\ \A w \in DOMAIN Bakes : Bakes[w] \in Nat
  BY DEF DeliveryAssumption
<1>2. /\ walk.at \in DOMAIN Bakes /\ walk.baked \in Nat /\ walk.baked <= healthyFor[walk.at]
      /\ walk.state = "rolling" /\ healthyFor \in [DOMAIN Bakes -> Nat]
      /\ \A w \in DOMAIN Bakes : w < walk.at => healthyFor[w] >= Bakes[w]
      /\ \A w \in DOMAIN Bakes : w > walk.at => healthyFor[w] = 0
  BY <1>1 DEF WavesInv, BakedBefore, WaveTick
<1>3. CASE ~healthy
  <2>1. healthyFor' = healthyFor /\ walk' = [walk EXCEPT !.state = "aborted"]
    BY <1>3 DEF WaveTick
  <2>. QED
    BY <1>1, <1>2, <2>1 DEF WavesInv, BakedBefore
<1>4. CASE healthy
  <2>1. healthyFor' = [healthyFor EXCEPT ![walk.at] = @ + 1]
    BY <1>4 DEF WaveTick
  <2>2. /\ healthyFor' \in [DOMAIN Bakes -> Nat]
        /\ healthyFor'[walk.at] = healthyFor[walk.at] + 1
        /\ \A w \in DOMAIN Bakes : w # walk.at => healthyFor'[w] = healthyFor[w]
    BY <1>2, <2>1
  <2>3. CASE ~Promoted
    <3>1. walk' = [walk EXCEPT !.baked = @ + 1]
      BY <1>4, <2>3 DEF WaveTick
    <3>2. walk'.at = walk.at /\ walk'.baked = walk.baked + 1 /\ walk'.state = "rolling"
      BY <1>2, <3>1 DEF WavesInv
    <3>3. walk' \in [at : 1..Len(Bakes) + 1, baked : Nat,
                     state : {"rolling", "aborted", "delivered"}]
      <4> DEFINE k == walk.baked + 1
      <4>1. k \in Nat /\ walk' = [walk EXCEPT !.baked = k]
        BY <1>2, <3>1
      <4>. HIDE DEF k
      <4>. QED
        BY <4>1 DEF WavesInv
    <3>4. walk'.at \in DOMAIN Bakes => walk'.baked <= healthyFor'[walk'.at]
      <4>1. healthyFor[walk.at] \in Nat
        BY <1>2
      <4>. QED
        BY <1>2, <2>2, <3>2, <4>1
    <3>5. BakedBefore'
      <4>1. \A w \in DOMAIN Bakes : w < walk.at => w # walk.at
        BY <1>1, <1>2
      <4>2. \A w \in DOMAIN Bakes : w > walk.at => w # walk.at
        BY <1>1, <1>2
      <4>. QED
        BY <1>1, <1>2, <2>2, <3>2, <4>1, <4>2 DEF BakedBefore
    <3>. QED
      BY <2>2, <3>3, <3>4, <3>5 DEF WavesInv
  <2>4. CASE Promoted
    <3>1. walk' = [at |-> walk.at + 1, baked |-> 0,
                   state |-> IF walk.at = Len(Bakes) THEN "delivered" ELSE "rolling"]
      BY <1>4, <2>4 DEF WaveTick
    <3>2. healthyFor'[walk.at] >= Bakes[walk.at]
      BY <1>1, <1>2, <2>2, <2>4 DEF Promoted
    <3>3. /\ walk'.at = walk.at + 1 /\ walk'.baked = 0
          /\ walk'.state = "delivered" <=> walk.at = Len(Bakes)
      BY <3>1
    <3>4. walk' \in [at : 1..Len(Bakes) + 1, baked : Nat,
                     state : {"rolling", "aborted", "delivered"}]
      BY <1>1, <1>2, <3>1
    <3>5. ASSUME NEW w \in DOMAIN Bakes
          PROVE  /\ w < walk.at + 1 => healthyFor'[w] >= Bakes[w]
                 /\ w > walk.at + 1 => healthyFor'[w] = 0
      <4>1. CASE w = walk.at
        BY <1>1, <3>2, <4>1
      <4>2. CASE w # walk.at
        <5>1. w \in Nat /\ walk.at \in Nat
          BY <1>1, <1>2
        <5>2. healthyFor'[w] = healthyFor[w]
          BY <2>2, <4>2
        <5>3. w < walk.at \/ w > walk.at
          BY <4>2, <5>1
        <5>. QED
          BY <1>2, <5>1, <5>2, <5>3
      <4>. QED
        BY <4>1, <4>2
    <3>7. walk.at = Len(Bakes) <=> walk.at + 1 > Len(Bakes)
      BY <1>1, <1>2
    <3>8. BakedBefore'
      BY <3>3, <3>5, <3>7 DEF BakedBefore
    <3>9. walk'.at \in DOMAIN Bakes => walk'.baked <= healthyFor'[walk'.at]
      BY <2>2, <3>3
    <3>. QED
      BY <2>2, <3>4, <3>8, <3>9 DEF WavesInv
  <2>. QED
    BY <2>3, <2>4
<1>. QED
  BY <1>3, <1>4

-----------------------------------------------------------------------------
(* Channels.                                                               *)

\* As long as nothing is frozen, the soak is the time since anything happened.
ChannelsInv ==
    /\ channel \in [rapid : Versions \cup {NoVersion}, stable : Versions \cup {NoVersion},
                    frozen : BOOLEAN, yanked : SUBSET Versions]
    /\ soaked \in Nat /\ calm \in Nat
    /\ ~channel.frozen => calm = soaked
    /\ NothingYankedServes

\* The action behind SoakIsCalm.
SoaksFirst ==
    channel.stable' \notin {channel.stable, NoVersion}
        => calm >= Soak /\ channel.stable' = channel.rapid

\* The channels begin empty.
LEMMA ChannelsBegin ==
    ASSUME DeliveryAssumption, ChannelsInit
    PROVE  ChannelsInv
BY DEF DeliveryAssumption, ChannelsInit, ChannelsInv, NothingYankedServes

\* Whatever is released, yanked and promoted, in any order.
LEMMA ChannelsKeep ==
    ASSUME DeliveryAssumption, ChannelsInv, ChannelsNext
    PROVE  ChannelsInv' /\ SoaksFirst
<1>1. Soak \in Nat /\ NoVersion \notin Versions
  BY DEF DeliveryAssumption
<1>2. /\ channel.rapid \in Versions \cup {NoVersion}
      /\ channel.stable \in Versions \cup {NoVersion}
      /\ channel.frozen \in BOOLEAN /\ channel.yanked \in SUBSET Versions
      /\ channel.rapid \notin channel.yanked /\ channel.stable \notin channel.yanked
      /\ soaked \in Nat /\ calm \in Nat
  BY DEF ChannelsInv, NothingYankedServes
<1>3. ASSUME NEW v \in Versions, Release(v)
      PROVE  ChannelsInv' /\ SoaksFirst
  BY <1>1, <1>2, <1>3 DEF Release, ChannelsInv, NothingYankedServes, SoaksFirst
<1>4. ASSUME NEW v \in Versions, Yank(v)
      PROVE  ChannelsInv' /\ SoaksFirst
  BY <1>1, <1>2, <1>4 DEF Yank, ChannelsInv, NothingYankedServes, SoaksFirst
<1>5. CASE Promote
  BY <1>1, <1>2, <1>5 DEF Promote, ChannelsInv, NothingYankedServes, SoaksFirst
<1>6. CASE ChannelTime
  BY <1>1, <1>2, <1>6 DEF ChannelTime, AtMost, ChannelsInv, NothingYankedServes, SoaksFirst
<1>. QED
  BY <1>3, <1>4, <1>5, <1>6 DEF ChannelsNext

-----------------------------------------------------------------------------
(* Blue and green.                                                         *)

ColoursInv ==
    /\ fleet \in [Colours -> {0, Slots}] /\ serving \in Colours /\ cold \in BOOLEAN
    /\ ServingStays

\* Nobody is up, and nobody is served.
LEMMA ColoursBegin ==
    ASSUME ColoursInit
    PROVE  ColoursInv
BY DEF ColoursInit, ColoursInv, Colours, ServingStays

\* Whatever is stood up, switched and retired, in any order.
LEMMA ColoursKeep ==
    ASSUME DeliveryAssumption, ColoursInv, ColoursNext
    PROVE  ColoursInv'
<1>1. /\ Slots \in Nat /\ fleet \in [Colours -> {0, Slots}] /\ serving \in Colours
      /\ cold \in BOOLEAN /\ (fleet[serving] = Slots \/ cold)
      /\ Other(serving) \in Colours /\ Other(serving) # serving
  BY DEF DeliveryAssumption, ColoursInv, ServingStays, Colours, Other
<1>2. CASE CutOver
  <2> DEFINE short == fleet[Other(serving)] < Slots
  <2>1. short \in BOOLEAN /\ (~short => fleet[Other(serving)] = Slots)
    BY <1>1
  <2>2. serving' = Other(serving) /\ cold' = short /\ fleet' = fleet
    BY <1>2 DEF CutOver
  <2>. HIDE DEF short
  <2>. QED
    BY <1>1, <2>1, <2>2 DEF ColoursInv, ServingStays
<1>3. CASE RetireStandby
  BY <1>1, <1>3 DEF RetireStandby, ColoursInv, ServingStays
<1>4. ASSUME NEW c \in Colours, StandUp(c)
      PROVE  ColoursInv'
  BY <1>1, <1>4 DEF StandUp, ColoursInv, ServingStays
<1>. QED
  BY <1>2, <1>3, <1>4 DEF ColoursNext

-----------------------------------------------------------------------------
(* The dial.                                                               *)

\* Only those that have come are in a lane, and a session on the canary ends
\* before the dial has been at zero for the length of one.
DialInv ==
    /\ dial \in 0..10 /\ nextUser \in 0..MaxUsers /\ atZero \in 0..SessionLength
    /\ session \in [Users -> [lane : {"gone", "canary", "stable"}, left : 0..SessionLength]]
    /\ \A u \in Users : u >= nextUser => session[u] = GoneUser
    /\ \A u \in OnCanary : session[u].left >= 1 /\ session[u].left + atZero <= SessionLength
    /\ atZero > 0 => dial = 0

\* The action behind UsersStick.
Sticks ==
    \A u \in Users : session[u] # GoneUser =>
        session'[u] = GoneUser \/ session'[u].lane = session[u].lane

\* Nobody has come.
LEMMA DialBegins ==
    ASSUME DeliveryAssumption, DialInit
    PROVE  DialInv
BY DEF DeliveryAssumption, DialInit, DialInv, GoneUser, OnCanary, Users

\* Sessions begin and end under any dial.
LEMMA DialKeeps ==
    ASSUME DeliveryAssumption, DialInv, DialNext
    PROVE  DialInv' /\ Sticks
<1>1. SessionLength \in Nat \ {0} /\ MaxUsers \in Nat /\ Dials \subseteq 0..10
  BY DEF DeliveryAssumption
<1>2. ASSUME NEW to \in Dials \ {dial}, Turn(to)
      PROVE  DialInv' /\ Sticks
  <2>1. dial' = to /\ atZero' = 0 /\ nextUser' = nextUser /\ session' = session
    BY <1>2 DEF Turn
  <2>2. OnCanary' = OnCanary /\ \A u \in OnCanary : session[u].left \in 0..SessionLength
    BY <2>1 DEF OnCanary, DialInv, Users
  <2>3. \A u \in OnCanary' : session'[u].left >= 1 /\ session'[u].left + atZero' <= SessionLength
    BY <1>1, <2>1, <2>2 DEF DialInv
  <2>. QED
    BY <1>1, <2>1, <2>3 DEF DialInv, Sticks
<1>3. ASSUME NEW newcomers \in 0..2, DialTick(newcomers)
      PROVE  DialInv' /\ Sticks
  <2>1. /\ dial' = dial /\ nextUser' = nextUser + newcomers /\ nextUser' <= MaxUsers
        /\ atZero' = IF dial = 0 THEN AtMost(atZero + 1, SessionLength) ELSE 0
    BY <1>3 DEF DialTick
  <2>2. /\ dial \in 0..10 /\ nextUser \in 0..MaxUsers /\ atZero \in 0..SessionLength
        /\ atZero' \in 0..SessionLength /\ atZero' <= atZero + 1
        /\ dial # 0 => atZero' = 0
    BY <1>1, <2>1 DEF DialInv, AtMost
  <2>3. ASSUME NEW u \in Users
        PROVE  /\ session'[u] \in [lane : {"gone", "canary", "stable"}, left : 0..SessionLength]
               /\ u >= nextUser' => session'[u] = GoneUser
               /\ session'[u].lane = "canary" =>
                     session'[u].left >= 1 /\ session'[u].left + atZero' <= SessionLength
               /\ session[u] # GoneUser =>
                     session'[u] = GoneUser \/ session'[u].lane = session[u].lane
    <3>1. /\ u \in Nat
          /\ session[u] \in [lane : {"gone", "canary", "stable"}, left : 0..SessionLength]
          /\ u >= nextUser => session[u] = GoneUser
          /\ session[u].lane = "canary" => session[u].left + atZero <= SessionLength
      BY <1>1 DEF DialInv, Users, OnCanary
    <3>2. CASE u \in nextUser..(nextUser + newcomers - 1)
      <4>1. session'[u] = [lane |-> LaneOf(u), left |-> SessionLength]
        BY <1>3, <3>2 DEF DialTick
      <4>2. LaneOf(u) \in {"canary", "stable"} /\ (dial = 0 => LaneOf(u) = "stable")
        BY <3>1, <2>2 DEF LaneOf
      <4>. QED
        BY <1>1, <2>1, <2>2, <3>1, <3>2, <4>1, <4>2
    <3>3. CASE u \notin nextUser..(nextUser + newcomers - 1) /\ session[u].left <= 1
      <4>1. session'[u] = GoneUser
        BY <1>3, <3>3 DEF DialTick
      <4>. QED
        BY <1>1, <4>1 DEF GoneUser
    <3>4. CASE u \notin nextUser..(nextUser + newcomers - 1) /\ ~(session[u].left <= 1)
      <4>1. session'[u] = [session[u] EXCEPT !.left = @ - 1]
        BY <1>3, <3>4 DEF DialTick
      <4>2. u < nextUser
        BY <2>2, <3>1, <3>4 DEF GoneUser
      <4>3. /\ session[u].left \in 2..SessionLength
            /\ session'[u].left = session[u].left - 1
            /\ session'[u].lane = session[u].lane
            /\ session[u].lane \in {"gone", "canary", "stable"}
        BY <1>1, <3>1, <3>4, <4>1
      <4>4. session'[u] \in [lane : {"gone", "canary", "stable"}, left : 0..SessionLength]
        <5> DEFINE k == session[u].left - 1
        <5>1. k \in 0..SessionLength
          BY <1>1, <4>3
        <5>2. session'[u] = [session[u] EXCEPT !.left = k]
          BY <4>1
        <5>. HIDE DEF k
        <5>. QED
          BY <3>1, <5>1, <5>2
      <4>5. ~(u >= nextUser')
        <5>1. nextUser' >= nextUser
          BY <2>1, <2>2
        <5>. QED
          BY <2>1, <2>2, <3>1, <4>2, <5>1
      <4>6. session'[u].lane = "canary" =>
               session'[u].left >= 1 /\ session'[u].left + atZero' <= SessionLength
        <5>. SUFFICES ASSUME session'[u].lane = "canary"
                      PROVE  session'[u].left >= 1 /\ session'[u].left + atZero' <= SessionLength
          OBVIOUS
        <5>1. session[u].left + atZero <= SessionLength
          BY <3>1, <4>3
        <5>2. session'[u].left = session[u].left - 1
          BY <4>3
        <5>3. session[u].left \in Int /\ session[u].left >= 2
          BY <1>1, <4>3
        <5>4. SessionLength \in Int /\ atZero \in Int /\ atZero' \in Int /\ atZero' <= atZero + 1
          BY <1>1, <2>2
        <5>. QED
          BY <5>1, <5>2, <5>3, <5>4
      <4>. QED
        BY <4>3, <4>4, <4>5, <4>6
    <3>. QED
      BY <3>2, <3>3, <3>4
  <2>4. session' \in [Users -> [lane : {"gone", "canary", "stable"}, left : 0..SessionLength]]
    <3>1. session' = [u \in Users |-> session'[u]]
      BY <1>3 DEF DialTick
    <3>. QED
      BY <2>3, <3>1
  <2>5. \A u \in OnCanary' : session'[u].left >= 1 /\ session'[u].left + atZero' <= SessionLength
    BY <2>3 DEF OnCanary
  <2>. QED
    BY <1>1, <2>1, <2>2, <2>3, <2>4, <2>5 DEF DialInv, Sticks
<1>. QED
  BY <1>2, <1>3 DEF DialNext

\* Sessions on the canary are over when they must be.
LEMMA DialDrains ==
    ASSUME DeliveryAssumption, DialInv
    PROVE  CanaryDrains
<1>1. \A u \in OnCanary : session[u].left \in Nat
  BY DEF DialInv, OnCanary
<1>. QED
  BY <1>1 DEF DeliveryAssumption, DialInv, CanaryDrains

-----------------------------------------------------------------------------
(* The canary.                                                             *)

Sides == [requests : Nat, errors : Nat]
Rates == {0, 2, 10}

\* What the ledger counts of rates so far: none, all, and a request a tick.
CanaryInv ==
    /\ ledger \in [stable : Sides, canary : Sides,
                   state : {"watching", "promote", "rollback"}]
    /\ truth \in [stable : SUBSET Rates, canary : SUBSET Rates, ticks : Nat]
    /\ truth.canary \subseteq {0} => ledger.canary.errors = 0
    /\ truth.canary \subseteq {10} => ledger.canary.errors = ledger.canary.requests
    /\ truth.stable \subseteq {0} => ledger.stable.errors = 0
    /\ truth.ticks <= ledger.canary.requests
    /\ RuledOnEvidence

\* No request makes no error, and a request that fails always makes one.
LEMMA RoundedRates ==
    ASSUME NEW n \in Nat, NEW rate \in Rates
    PROVE  /\ Rounded(n * rate, 10) \in Nat
           /\ rate = 0 => Rounded(n * rate, 10) = 0
           /\ rate = 10 => Rounded(n * rate, 10) = n
<1>1. CASE rate = 0
  BY <1>1 DEF Rounded
<1>2. CASE rate = 2
  BY <1>2 DEF Rounded
<1>3. CASE rate = 10
  BY <1>3 DEF Rounded
<1>. QED
  BY <1>1, <1>2, <1>3 DEF Rates

\* A side is noted by what came and by what failed of it.
LEMMA NotedSides ==
    ASSUME NEW side \in Sides, NEW n \in Nat, NEW rate \in Rates
    PROVE  /\ Noted(side, n, rate) \in Sides
           /\ Noted(side, n, rate).requests = side.requests + n
           /\ rate = 0 => Noted(side, n, rate).errors = side.errors
           /\ rate = 10 => Noted(side, n, rate).errors = side.errors + n
<1> DEFINE e == Rounded(n * rate, 10)
<1>1. e \in Nat /\ (rate = 0 => e = 0) /\ (rate = 10 => e = n)
  BY RoundedRates
<1>2. Noted(side, n, rate) = [requests |-> side.requests + n, errors |-> side.errors + e]
  BY DEF Noted
<1>. HIDE DEF e
<1>. QED
  BY <1>1, <1>2 DEF Sides

\* The canary's share of what comes is a part of it.
LEMMA ShareIsPart ==
    ASSUME NEW total \in Nat, NEW parts \in Nat \ {0}, NEW share \in 0..parts
    PROVE  (total * share) \div parts \in 0..total
<1> DEFINE p == total * share
           q == p \div parts
<1>1. p \in Nat
  OBVIOUS
<1>2. q \in Int /\ q * parts <= p /\ p < q * parts + parts
  <2>. HIDE DEF p
  <2>. QED
    BY <1>1
<1>3. p <= total * parts
  OBVIOUS
<1>4. q >= 0
  <2>. HIDE DEF p, q
  <2>. SUFFICES ASSUME q <= -1 PROVE FALSE
    BY <1>2
  <2>1. q * parts <= -1 * parts
    BY <1>2
  <2>. QED
    BY <1>1, <1>2, <2>1
<1>5. q <= total
  <2>. HIDE DEF p, q
  <2>. SUFFICES ASSUME total + 1 <= q PROVE FALSE
    BY <1>2
  <2>1. (total + 1) * parts <= q * parts
    BY <1>2
  <2>2. (total + 1) * parts = total * parts + parts
    OBVIOUS
  <2>. QED
    BY <1>1, <1>2, <1>3, <2>1, <2>2
<1>. QED
  BY <1>2, <1>4, <1>5

\* Nobody has asked yet.
LEMMA CanaryBegins ==
    ASSUME DeliveryAssumption, CanaryInit
    PROVE  CanaryInv
BY DEF DeliveryAssumption, CanaryInit, CanaryInv, Sides, Rates, RuledOnEvidence

\* What a ruling rests on.
LEMMA RulingRests ==
    ASSUME DeliveryAssumption, NEW stable \in Sides, NEW canary \in Sides
    PROVE  /\ Ruling(stable, canary) \in {"watching", "promote", "rollback"}
           /\ canary.requests < MinimumRequests <=> Ruling(stable, canary) = "watching"
           /\ canary.errors = 0 => Ruling(stable, canary) # "rollback"
           /\ canary.errors = canary.requests /\ stable.errors = 0
                 => Ruling(stable, canary) # "promote"
<1>1. /\ MinimumRequests \in Nat \ {0} /\ Tolerance \in Nat
      /\ canary.requests \in Nat /\ canary.errors \in Nat
      /\ stable.requests \in Nat /\ stable.errors \in Nat
  BY DEF DeliveryAssumption, Sides
<1> DEFINE left == canary.errors * stable.requests
           right == Tolerance * stable.errors * canary.requests
           over == left > right
<1>2. left \in Nat /\ right \in Nat
  BY <1>1
<1>3. canary.errors = 0 => left = 0
  BY <1>1
<1>4. over \in BOOLEAN /\ (canary.errors = 0 => ~over)
  <2>. HIDE DEF left, right
  <2>. QED
    BY <1>2, <1>3
<1>5. Ruling(stable, canary) =
        IF canary.requests < MinimumRequests THEN "watching"
        ELSE IF stable.errors = 0
        THEN IF canary.errors > 0 THEN "rollback" ELSE "promote"
        ELSE IF over THEN "rollback" ELSE "promote"
  BY DEF Ruling
<1>. HIDE DEF over
<1>. QED
  BY <1>1, <1>4, <1>5

\* A tick of the canary is noted, and ruled on as its evidence allows.
LEMMA CanaryKeeps ==
    ASSUME DeliveryAssumption, CanaryInv, CanaryNext
    PROVE  CanaryInv'
<1>1. PICK total \in Volumes, stableRate \in Rates, canaryRate \in Rates :
         CanaryTick(total, stableRate, canaryRate)
  BY DEF CanaryNext, Rates
<1> DEFINE mine == (total * Share) \div Shares
           stable == Noted(ledger.stable, total - mine, stableRate)
           canary == Noted(ledger.canary, mine, canaryRate)
           ruling == Ruling(stable, canary)
<1>2. total \in Nat /\ mine \in 0..total /\ mine \in Nat /\ total - mine \in Nat
  <2>1. total \in Nat /\ Shares \in Nat \ {0} /\ Share \in 0..Shares
    BY DEF DeliveryAssumption
  <2>2. mine \in 0..total
    BY <2>1, ShareIsPart
  <2>. HIDE DEF mine
  <2>. QED
    BY <2>1, <2>2
<1>3. /\ ledger.stable \in Sides /\ ledger.canary \in Sides /\ ledger.state = "watching"
      /\ truth.ticks \in Nat /\ truth.stable \in SUBSET Rates
      /\ truth.canary \in SUBSET Rates
  BY <1>1 DEF CanaryInv, CanaryTick
<1>4. /\ ledger' = [stable |-> stable, canary |-> canary, state |-> ruling]
      /\ truth' = [stable |-> truth.stable \union {stableRate},
                   canary |-> truth.canary \union {canaryRate},
                   ticks |-> IF mine > 0 THEN truth.ticks + 1 ELSE truth.ticks]
  BY <1>1 DEF CanaryTick
<1>. HIDE DEF mine
<1>5. /\ stable \in Sides /\ (stableRate = 0 => stable.errors = ledger.stable.errors)
      /\ canary \in Sides /\ canary.requests = ledger.canary.requests + mine
      /\ canaryRate = 0 => canary.errors = ledger.canary.errors
      /\ canaryRate = 10 => canary.errors = ledger.canary.errors + mine
  <2> DEFINE rest == total - mine
             before == ledger.stable
             there == ledger.canary
  <2>1. rest \in Nat /\ before \in Sides /\ there \in Sides /\ mine \in Nat
    BY <1>2, <1>3
  <2>2. stable = Noted(before, rest, stableRate) /\ canary = Noted(there, mine, canaryRate)
    OBVIOUS
  <2>. HIDE DEF rest, before, there, stable, canary
  <2>3. stable \in Sides /\ (stableRate = 0 => stable.errors = before.errors)
    BY <2>1, <2>2, NotedSides
  <2>4. /\ canary \in Sides /\ canary.requests = there.requests + mine
        /\ canaryRate = 0 => canary.errors = there.errors
        /\ canaryRate = 10 => canary.errors = there.errors + mine
    BY <2>1, <2>2, NotedSides
  <2>. QED
    BY <2>3, <2>4 DEF before, there
<1>. HIDE DEF stable, canary
<1>6. /\ ruling \in {"watching", "promote", "rollback"}
      /\ canary.requests < MinimumRequests <=> ruling = "watching"
      /\ canary.errors = 0 => ruling # "rollback"
      /\ canary.errors = canary.requests /\ stable.errors = 0 => ruling # "promote"
  BY <1>5, RulingRests
<1>. HIDE DEF ruling
<1>7. /\ ledger' \in [stable : Sides, canary : Sides,
                      state : {"watching", "promote", "rollback"}]
      /\ truth' \in [stable : SUBSET Rates, canary : SUBSET Rates, ticks : Nat]
      /\ ledger'.stable = stable /\ ledger'.canary = canary /\ ledger'.state = ruling
  <2>1. (IF mine > 0 THEN truth.ticks + 1 ELSE truth.ticks) \in Nat
    BY <1>2, <1>3
  <2>. QED
    BY <1>3, <1>4, <1>5, <1>6, <2>1
<1>8. truth'.canary \subseteq {0} => canary.errors = 0
  BY <1>3, <1>4, <1>5 DEF CanaryInv
<1>9. truth'.canary \subseteq {10} => canary.errors = canary.requests
  <2>. SUFFICES ASSUME truth'.canary \subseteq {10} PROVE canary.errors = canary.requests
    OBVIOUS
  <2>1. truth.canary \subseteq {10} /\ canaryRate = 10
    BY <1>4
  <2>2. ledger.canary.errors = ledger.canary.requests
    BY <2>1 DEF CanaryInv
  <2>. QED
    BY <1>5, <2>1, <2>2
<1>10. truth'.stable \subseteq {0} => stable.errors = 0
  BY <1>3, <1>4, <1>5 DEF CanaryInv
<1>11. truth'.ticks <= canary.requests
  <2>1. ledger.canary.requests \in Nat /\ truth.ticks <= ledger.canary.requests
    BY <1>3 DEF CanaryInv, Sides
  <2>2. mine > 0 => truth'.ticks = truth.ticks + 1
    BY <1>4
  <2>3. ~(mine > 0) => truth'.ticks = truth.ticks
    BY <1>4
  <2>. QED
    BY <1>2, <1>3, <1>5, <2>1, <2>2, <2>3
<1>12. RuledOnEvidence'
  <2>1. /\ MinimumRequests \in Nat \ {0} /\ canary.requests \in Nat /\ truth'.ticks \in Nat
    BY <1>5, <1>7 DEF DeliveryAssumption, Sides
  <2>2. truth'.canary = {10} => canary.errors = canary.requests
    BY <1>9
  <2>3. truth'.stable = {0} => stable.errors = 0
    BY <1>10
  <2>. QED
    BY <1>6, <1>7, <1>8, <1>11, <2>1, <2>2, <2>3 DEF RuledOnEvidence
<1>. QED
  BY <1>7, <1>8, <1>9, <1>10, <1>11, <1>12 DEF CanaryInv

-----------------------------------------------------------------------------
(* The iron of a pool.                                                     *)

States == {Missing, Fenced, Open}

\* An incumbent stands, or what replaces it.
Stands(p) == Open \in {iron[Old(p)], iron[Fresh(p)], iron[Next_(p)]}

\* Only successors of the cautious refresh are on probation, behind the fence;
\* while nobody meddles, each incumbent stands in one form, and those replaced
\* are gone.
IronInv ==
    /\ iron \in [Iron -> States]
    /\ DOMAIN joined \subseteq {Next_(p) : p \in Pool}
    /\ \A n \in DOMAIN joined : iron[n] # Open
    /\ done \subseteq Pool /\ round \in Pool \cup {0} /\ meddled \in Nat
    /\ meddled = 0 => \A p \in Pool : Stands(p)
    /\ LedgerIsTrue

\* The action behind RejectedStayOut.
StayOut ==
    \A n \in DOMAIN joined : iron[n] = Fenced /\ iron'[n] = Open
        => n \notin blamed /\ (round = 0 => joined[n] >= Probation)

\* The three forms of an incumbent are different nodes.
LEMMA FormsDiffer ==
    ASSUME NEW p \in Pool, NEW q \in Pool
    PROVE  /\ Old(p) \in Iron /\ Fresh(p) \in Iron /\ Next_(p) \in Iron
           /\ Old(p) # Fresh(q) /\ Old(p) # Next_(q) /\ Fresh(p) # Next_(q)
           /\ Old(p) = Old(q) => p = q
           /\ Fresh(p) = Fresh(q) => p = q
           /\ Next_(p) = Next_(q) => p = q
  BY DEF Old, Fresh, Next_, Iron

\* The fleet begins with its incumbents.
LEMMA IronBegins ==
    ASSUME RenewalAssumption, RenewalInit
    PROVE  IronInv
<1>1. \A p \in Pool : iron[Old(p)] = Open
  <2>. SUFFICES ASSUME NEW p \in Pool PROVE iron[Old(p)] = Open
    OBVIOUS
  <2>1. Old(p) \in Iron /\ Old(p)[2] = "old"
    BY DEF Old, Iron
  <2>. QED
    BY <2>1 DEF RenewalInit
<1>2. iron \in [Iron -> States] /\ DOMAIN joined = {}
  BY DEF RenewalInit, States
<1>. QED
  BY <1>1, <1>2 DEF RenewalInit, IronInv, LedgerIsTrue, Stands

\* What a sweep of the burn-in does: it graduates or removes what is on
\* probation, and leaves the others alone.
LEMMA SweptIron ==
    ASSUME NEW nodes \in [Iron -> States], NEW ages, DOMAIN ages \subseteq Iron, NEW blame
    PROVE  LET after == Swept(nodes, ages, blame)
           IN /\ after.iron \in [Iron -> States]
              /\ \A n \in Iron : n \notin DOMAIN ages => after.iron[n] = nodes[n]
              /\ \A n \in Iron : after.iron[n] = Open /\ nodes[n] # Open =>
                    n \in DOMAIN ages /\ n \notin blame /\ ages[n] >= Probation
              /\ \A n \in DOMAIN ages : nodes[n] # Missing /\ n \notin blame
                    /\ ages[n] >= Probation => after.iron[n] = Open
              /\ DOMAIN after.joined \subseteq DOMAIN ages
              /\ \A n \in DOMAIN after.joined : after.iron[n] = nodes[n]
<1> DEFINE is(n, v) == /\ n \in DOMAIN ages /\ nodes[n] # Missing
                       /\ Verdict(n, ages[n], blame) = v
           swept == [n \in Iron |-> IF is(n, "rejected") THEN Missing
                                    ELSE IF is(n, "graduated") THEN Open ELSE nodes[n]]
           waiting == {m \in DOMAIN ages : is(m, "waits")}
<1>1. Swept(nodes, ages, blame) = [iron |-> swept, joined |-> [n \in waiting |-> ages[n]]]
  BY DEF Swept
<1>2. \A n \in DOMAIN ages :
         /\ Verdict(n, ages[n], blame) = "rejected" <=> n \in blame
         /\ Verdict(n, ages[n], blame) = "graduated" <=>
               n \notin blame /\ ages[n] >= Probation
  BY DEF Verdict
<1>3. swept \in [Iron -> States]
  BY DEF States
<1>4. \A n \in Iron : n \notin DOMAIN ages => swept[n] = nodes[n]
  OBVIOUS
<1>5. \A n \in Iron : swept[n] = Open /\ nodes[n] # Open =>
         n \in DOMAIN ages /\ n \notin blame /\ ages[n] >= Probation
  BY <1>2 DEF Missing, Open
<1>6. \A n \in DOMAIN ages : nodes[n] # Missing /\ n \notin blame
         /\ ages[n] >= Probation => swept[n] = Open
  BY <1>2
<1>7. \A n \in waiting : swept[n] = nodes[n] /\ n \in DOMAIN ages
  OBVIOUS
<1>. HIDE DEF swept, waiting
<1>. QED
  BY <1>1, <1>3, <1>4, <1>5, <1>6, <1>7

\* A step that leaves the nodes as they are, and only fenced ones on probation.
LEMMA IronRests ==
    ASSUME RenewalAssumption, IronInv, iron' = iron, UNCHANGED <<done, meddled>>,
           DOMAIN joined' = DOMAIN joined, round' \in Pool \cup {0}
    PROVE  IronInv' /\ StayOut
BY DEF IronInv, LedgerIsTrue, Stands, StayOut, Fenced, Open

\* A step in which nodes fall that are not open, and incumbents fall whose
\* replacement rises.
LEMMA IronMoves ==
    ASSUME RenewalAssumption, IronInv,
           iron' \in [Iron -> States], done' \subseteq Pool, round' \in Pool \cup {0},
           meddled' = meddled,
           DOMAIN joined' \subseteq {Next_(q) : q \in Pool},
           \A n \in DOMAIN joined' : iron'[n] # Open,
           \A q \in Pool : Stands(q) => Stands(q)',
           \A q \in Pool : q \in done' /\ (q \in done => iron[Old(q)] = Missing)
                              => iron'[Old(q)] = Missing
    PROVE  IronInv'
BY DEF IronInv, LedgerIsTrue

\* A replacement is up before its incumbent is retired, and the ledger hears of it
\* last.
LEMMA RefreshKeeps ==
    ASSUME RenewalAssumption, IronInv, NEW raises \in BOOLEAN, RefreshStep(raises)
    PROVE  IronInv' /\ StayOut
<1> DEFINE p == Min(Remaining)
           gone == iron[Old(p)] = Missing
           swaps == ~gone /\ iron[Fresh(p)] = Missing
<1>1. p \in Pool
  <2>1. Remaining \subseteq Pool /\ Remaining # {}
    BY DEF Remaining, RefreshStep
  <2>2. IsFiniteSet(Pool) /\ Pool \subseteq Int
    BY DEF RenewalAssumption
  <2>3. IsFiniteSet(Remaining) /\ Remaining \subseteq Int
    BY <2>1, <2>2, FS_Subset
  <2>. QED
    BY <2>1, <2>3, MinIsThere
<1>2. /\ iron' = IF swaps THEN [iron EXCEPT ![Fresh(p)] = Open, ![Old(p)] = Missing]
                 ELSE iron
      /\ done' = IF gone \/ (swaps /\ ~raises) THEN done \union {p} ELSE done
      /\ UNCHANGED <<joined, blamed, round, meddled>>
  BY DEF RefreshStep
<1>. HIDE DEF p
<1>3. /\ iron \in [Iron -> States] /\ done \subseteq Pool /\ round \in Pool \cup {0}
      /\ DOMAIN joined \subseteq {Next_(q) : q \in Pool}
      /\ \A n \in DOMAIN joined : iron[n] # Open
  BY DEF IronInv
<1>4. iron' \in [Iron -> States]
  BY <1>2, <1>3 DEF States
<1>5. \A n \in DOMAIN joined : n \in Iron /\ n # Fresh(p) /\ n # Old(p)
  BY <1>1, <1>3, FormsDiffer
<1>6. \A n \in DOMAIN joined : iron'[n] = iron[n]
  BY <1>2, <1>3, <1>5
<1>7. ASSUME NEW q \in Pool PROVE Stands(q) => Stands(q)'
  <2>1. /\ Old(p) \in Iron /\ Fresh(p) \in Iron /\ Old(p) # Fresh(p)
        /\ Old(q) # Fresh(p) /\ Fresh(q) # Old(p) /\ Next_(q) # Old(p) /\ Next_(q) # Fresh(p)
        /\ Old(q) = Old(p) => q = p
        /\ Old(q) \in Iron /\ Fresh(q) \in Iron /\ Next_(q) \in Iron
    BY <1>1, FormsDiffer
  <2>. QED
    BY <1>2, <1>3, <2>1 DEF Stands
<1>8. ASSUME NEW q \in Pool, q \in done', q \in done => iron[Old(q)] = Missing
      PROVE  iron'[Old(q)] = Missing
  <2>1. /\ Old(p) \in Iron /\ Fresh(p) \in Iron /\ Old(p) # Fresh(p)
        /\ Old(q) # Fresh(p) /\ Old(q) \in Iron
    BY <1>1, FormsDiffer
  <2>. QED
    BY <1>2, <1>3, <1>8, <2>1
<1>9. IronInv'
  BY <1>1, <1>2, <1>3, <1>4, <1>6, <1>7, <1>8, IronMoves
<1>. QED
  BY <1>6, <1>9 DEF StayOut, Fenced, Open

\* A round of the cautious refresh retires an incumbent only beside an open
\* successor.
LEMMA RoundKeeps ==
    ASSUME RenewalAssumption, IronInv, NEW bad \in BOOLEAN, CautiousRound(bad)
    PROVE  IronInv' /\ StayOut
<1> DEFINE p == round
           n == Next_(p)
           ages == [m \in DOMAIN joined \union {n} |-> Probation]
           blame == IF bad THEN blamed \union {n} ELSE blamed
           nodes == [iron EXCEPT ![n] = Fenced]
           swept == Swept(nodes, ages, blame)
<1>1. /\ iron \in [Iron -> States] /\ done \subseteq Pool /\ p \in Pool
      /\ DOMAIN joined \subseteq {Next_(q) : q \in Pool}
      /\ \A m \in DOMAIN joined : iron[m] # Open
      /\ Probation \in Nat /\ 0 \notin Pool
  BY DEF IronInv, CautiousRound, RenewalAssumption
<1>2. CASE iron[Old(p)] = Missing \/ iron[n] # Missing
  <2>1. round' = 0 /\ UNCHANGED <<iron, joined, done, meddled>>
    BY <1>2 DEF CautiousRound
  <2>. QED
    BY <2>1, IronRests
<1>3. CASE iron[Old(p)] # Missing /\ iron[n] = Missing
  <2>1. /\ UNCHANGED <<done, meddled>>
        /\ joined' = swept.joined
        /\ IF n \in blame THEN round' = 0 /\ iron' = swept.iron
           ELSE /\ round' = IF p + 1 \in Pool THEN p + 1 ELSE 0
                /\ iron' = [swept.iron EXCEPT ![Old(p)] = Missing]
    BY <1>3 DEF CautiousRound
  <2>2. /\ nodes \in [Iron -> States] /\ DOMAIN ages = DOMAIN joined \union {n}
        /\ n \in Iron /\ nodes[n] = Fenced /\ \A m \in Iron \ {n} : nodes[m] = iron[m]
        /\ \A m \in DOMAIN ages : ages[m] >= Probation
        /\ blamed \subseteq blame
    <3>1. n \in Iron
      BY <1>1, FormsDiffer
    <3>2. /\ nodes \in [Iron -> States] /\ nodes[n] = Fenced
          /\ \A m \in Iron \ {n} : nodes[m] = iron[m]
      <4>. HIDE DEF n
      <4>. QED
        BY <1>1, <3>1 DEF States
    <3>3. blamed \subseteq blame
      OBVIOUS
    <3>. QED
      BY <1>1, <3>1, <3>2, <3>3
  <2>3. DOMAIN ages \subseteq Iron
        /\ \A m \in DOMAIN ages : \E q \in Pool : m = Next_(q)
    <3>1. \A m \in DOMAIN ages : \E q \in Pool : m = Next_(q)
      BY <1>1, <2>2
    <3>. QED
      BY <3>1, FormsDiffer
  <2>. HIDE DEF ages, nodes, blame
  <2>4. /\ swept.iron \in [Iron -> States]
        /\ \A m \in Iron : m \notin DOMAIN ages => swept.iron[m] = nodes[m]
        /\ \A m \in Iron : swept.iron[m] = Open /\ nodes[m] # Open =>
              m \in DOMAIN ages /\ m \notin blame /\ ages[m] >= Probation
        /\ \A m \in DOMAIN ages : nodes[m] # Missing /\ m \notin blame
              /\ ages[m] >= Probation => swept.iron[m] = Open
        /\ DOMAIN swept.joined \subseteq DOMAIN ages
        /\ \A m \in DOMAIN swept.joined : swept.iron[m] = nodes[m]
    BY <2>2, <2>3, SweptIron
  <2>. HIDE DEF swept
  <2>5. iron' \in [Iron -> States] /\ round' \in Pool \cup {0}
    BY <2>1, <2>4, FormsDiffer DEF States
  <2>6. Old(p) \in Iron /\ \A m \in Iron : m # Old(p) => iron'[m] = swept.iron[m]
    BY <1>1, <2>1, <2>4, FormsDiffer
  <2>7. ASSUME NEW m \in DOMAIN ages PROVE m \in Iron /\ m # Old(p) /\ nodes[m] # Open
    <3>1. PICK q \in Pool : m = Next_(q)
      BY <2>3
    <3>2. m \in Iron /\ m # Old(p)
      BY <1>1, <3>1, FormsDiffer
    <3>. QED
      BY <1>1, <2>2, <3>2 DEF Fenced, Open
  <2>8. /\ DOMAIN joined' \subseteq {Next_(q) : q \in Pool}
        /\ \A m \in DOMAIN joined' : iron'[m] # Open
    BY <2>1, <2>3, <2>4, <2>6, <2>7
  <2>9. ASSUME NEW q \in Pool PROVE Stands(q) => Stands(q)'
    <3>1. /\ Old(q) \in Iron /\ Fresh(q) \in Iron /\ Next_(q) \in Iron
          /\ Old(q) # Next_(p) /\ Fresh(q) # Next_(p)
          /\ Fresh(q) # Old(p) /\ Next_(q) # Old(p)
          /\ Old(q) = Old(p) => q = p
          /\ Next_(q) = Next_(p) => q = p
      BY <1>1, FormsDiffer
    <3>2. Old(q) \notin DOMAIN ages /\ Fresh(q) \notin DOMAIN ages
      BY <2>3, FormsDiffer
    <3>3. iron'[Fresh(q)] = iron[Fresh(q)]
      BY <2>2, <2>4, <2>6, <3>1, <3>2
    <3>4. swept.iron[Old(q)] = iron[Old(q)]
      BY <2>2, <2>4, <3>1, <3>2
    <3>5. iron[Next_(q)] = Open => iron'[Next_(q)] = Open
      <4>. SUFFICES ASSUME iron[Next_(q)] = Open PROVE iron'[Next_(q)] = Open
        OBVIOUS
      <4>1. Next_(q) # n
        BY <1>3 DEF Missing, Open
      <4>2. Next_(q) \notin DOMAIN ages
        BY <1>1, <2>2, <4>1
      <4>. QED
        BY <2>2, <2>4, <2>6, <3>1, <4>1, <4>2
    <3>6. n \notin blame => iron'[n] = Open
      BY <2>2, <2>4, <2>6, <1>1, <2>7 DEF Fenced, Missing
    <3>7. n \in blame \/ q # p => iron'[Old(q)] = iron[Old(q)]
      BY <2>1, <2>4, <3>1, <3>4, <2>6
    <3>8. q = p /\ n \notin blame => Stands(q)'
      BY <3>6 DEF Stands
    <3>. QED
      BY <3>3, <3>5, <3>7, <3>8 DEF Stands
  <2>10. ASSUME NEW q \in Pool, q \in done', q \in done => iron[Old(q)] = Missing
         PROVE  iron'[Old(q)] = Missing
    <3>1. Old(q) \notin DOMAIN ages /\ Old(q) \in Iron /\ Old(q) # n
      BY <1>1, <2>3, FormsDiffer
    <3>2. swept.iron[Old(q)] = Missing
      BY <2>1, <2>2, <2>4, <2>10, <3>1
    <3>. QED
      BY <2>1, <2>4, <2>6, <3>1, <3>2
  <2>11. IronInv'
    BY <1>1, <2>1, <2>5, <2>8, <2>9, <2>10, IronMoves
  <2>12. ASSUME NEW m \in DOMAIN joined, iron[m] = Fenced, iron'[m] = Open
         PROVE  m \notin blamed
    <3>1. m \in DOMAIN ages /\ m # n
      BY <1>3, <2>2, <2>12 DEF Fenced, Missing
    <3>. QED
      BY <2>2, <2>4, <2>6, <2>7, <2>12, <3>1
  <2>. QED
    BY <1>1, <2>11, <2>12 DEF StayOut
<1>. QED
  BY <1>2, <1>3

\* No step of the refreshes, of the burn-in or of others breaks the invariant, and
\* none but the burn-in opens a fenced node.
LEMMA IronKeeps ==
    ASSUME RenewalAssumption, IronInv, RenewalNext
    PROVE  IronInv' /\ StayOut
<1>1. /\ iron \in [Iron -> States] /\ done \subseteq Pool /\ round \in Pool \cup {0}
      /\ DOMAIN joined \subseteq {Next_(q) : q \in Pool}
      /\ \A n \in DOMAIN joined : iron[n] # Open
      /\ meddled \in Nat /\ 0 \notin Pool
  BY DEF IronInv, RenewalAssumption
<1>2. \A n \in DOMAIN joined : n \in Iron /\ \E q \in Pool : n = Next_(q)
  BY <1>1, FormsDiffer
<1>3. CASE SweepBurnIn
  <2> DEFINE after == Swept(iron, joined, blamed)
  <2>1. iron' = after.iron /\ joined' = after.joined /\ UNCHANGED <<blamed, done, round, meddled>>
    BY <1>3 DEF SweepBurnIn
  <2>2. /\ after.iron \in [Iron -> States]
        /\ \A n \in Iron : n \notin DOMAIN joined => after.iron[n] = iron[n]
        /\ \A n \in Iron : after.iron[n] = Open /\ iron[n] # Open =>
              n \in DOMAIN joined /\ n \notin blamed /\ joined[n] >= Probation
        /\ DOMAIN after.joined \subseteq DOMAIN joined
        /\ \A n \in DOMAIN after.joined : after.iron[n] = iron[n]
    <3>1. DOMAIN joined \subseteq Iron
      BY <1>2
    <3>. QED
      BY <1>1, <3>1, SweptIron
  <2>. HIDE DEF after
  <2>3. \A q \in Pool : /\ Old(q) \in Iron /\ Fresh(q) \in Iron /\ Next_(q) \in Iron
                        /\ Old(q) \notin DOMAIN joined /\ Fresh(q) \notin DOMAIN joined
    BY <1>2, FormsDiffer
  <2>4. \A q \in Pool : Stands(q) => Stands(q)'
    BY <1>1, <2>1, <2>2, <2>3 DEF Stands
  <2>5. IronInv'
    BY <1>1, <2>1, <2>2, <2>3, <2>4, IronMoves
  <2>. QED
    BY <1>2, <2>1, <2>2, <2>5 DEF StayOut, Fenced, Open
<1>4. CASE BurnInTime
  <2>1. DOMAIN joined' = DOMAIN joined /\ UNCHANGED <<iron, blamed, done, round, meddled>>
    BY <1>4 DEF BurnInTime
  <2>. QED
    BY <1>1, <2>1, IronRests
<1>5. CASE BeginCautious
  <2>1. Pool # {} /\ IsFiniteSet(Pool) /\ Pool \subseteq Int
    BY DEF RenewalAssumption
  <2>2. Min(Pool) \in Pool
    BY <2>1, MinIsThere
  <2>. QED
    BY <1>5, <2>2, IronRests DEF BeginCautious
<1>6. ASSUME NEW b \in BOOLEAN, RefreshStep(b) PROVE IronInv' /\ StayOut
  BY <1>6, RefreshKeeps
<1>7. ASSUME NEW b \in BOOLEAN, CautiousRound(b) PROVE IronInv' /\ StayOut
  BY <1>7, RoundKeeps
<1>8. ASSUME NEW p \in Pool, JoinIron(Next_(p)) PROVE IronInv' /\ StayOut
  <2> DEFINE n == Next_(p)
  <2>1. /\ iron[n] = Missing /\ iron' = [iron EXCEPT ![n] = Fenced]
        /\ joined' = [m \in DOMAIN joined \union {n} |-> IF m = n THEN 0 ELSE joined[m]]
        /\ UNCHANGED <<blamed, done, round, meddled>>
    BY <1>8 DEF JoinIron, Join
  <2>2. \A q \in Pool : /\ Old(q) \in Iron /\ Fresh(q) \in Iron /\ Next_(q) \in Iron
                        /\ Old(q) # n /\ Fresh(q) # n
    BY FormsDiffer
  <2>3. /\ iron' \in [Iron -> States] /\ iron'[n] = Fenced
        /\ \A m \in Iron : m # n => iron'[m] = iron[m]
        /\ DOMAIN joined' = DOMAIN joined \union {n}
    BY <1>1, <2>1, <2>2 DEF States
  <2>4. \A q \in Pool : Stands(q) => Stands(q)'
    BY <1>1, <2>1, <2>2, <2>3 DEF Stands, Missing, Open
  <2>5. \A m \in DOMAIN joined' : iron'[m] # Open
    BY <1>1, <1>2, <2>3 DEF Fenced, Open
  <2>6. DOMAIN joined' \subseteq {Next_(q) : q \in Pool}
    BY <1>1, <2>3
  <2>7. IronInv'
    BY <1>1, <2>1, <2>2, <2>3, <2>4, <2>5, <2>6, IronMoves
  <2>. QED
    BY <1>2, <2>3, <2>7 DEF StayOut, Fenced, Open
<1>9. ASSUME NEW p \in Pool, NEW n \in {Old(p), Fresh(p)}, Meddle(n)
      PROVE  IronInv' /\ StayOut
  <2>1. n \in Iron /\ \A m \in DOMAIN joined : m # n
    BY <1>2, FormsDiffer
  <2>2. /\ iron' = [iron EXCEPT ![n] = IF @ = Missing THEN Open ELSE Missing]
        /\ meddled' = meddled + 1 /\ UNCHANGED <<joined, blamed, done, round>>
    BY <1>9 DEF Meddle
  <2>3. iron' \in [Iron -> States] /\ \A m \in DOMAIN joined : iron'[m] = iron[m]
    BY <1>1, <1>2, <2>1, <2>2 DEF States
  <2>4. meddled' \in Nat /\ meddled' # 0
    BY <1>1, <2>2
  <2>5. IronInv'
    BY <1>1, <2>2, <2>3, <2>4 DEF IronInv, LedgerIsTrue
  <2>. QED
    BY <2>3, <2>5 DEF StayOut, Fenced, Open
<1>10. ASSUME NEW n \in Iron, CanaryFails(n) PROVE IronInv' /\ StayOut
  BY <1>1, <1>10, IronRests DEF CanaryFails
<1>. QED
  BY <1>3, <1>4, <1>5, <1>6, <1>7, <1>8, <1>9, <1>10 DEF RenewalNext

\* The fleet is as large as it was: an incumbent goes with one open form of it.
LEMMA IronIsEnough ==
    ASSUME RenewalAssumption, IronInv
    PROVE  NeverSmaller
<1>. SUFFICES ASSUME meddled = 0
              PROVE  Cardinality({n \in Iron : iron[n] = Open}) >= Cardinality(Pool)
  BY DEF NeverSmaller
<1> DEFINE up == {n \in Iron : iron[n] = Open}
           of(p) == {Old(p), Fresh(p), Next_(p)}
           f == [p \in Pool |-> CHOOSE n \in of(p) : iron[n] = Open]
<1>1. IsFiniteSet(Pool) /\ IsFiniteSet(up)
  <2>1. IsFiniteSet({"old", "replacement", "next"})
    <3>1. IsFiniteSet({"old"}) /\ IsFiniteSet({"replacement"}) /\ IsFiniteSet({"next"})
      BY FS_Singleton
    <3>2. IsFiniteSet({"old"} \cup {"replacement"} \cup {"next"})
      BY <3>1, FS_Union
    <3>3. {"old", "replacement", "next"} = {"old"} \cup {"replacement"} \cup {"next"}
      OBVIOUS
    <3>. QED
      BY <3>2, <3>3, Zenon
  <2>2. IsFiniteSet(Iron)
    BY <2>1, FS_Product DEF RenewalAssumption, Iron
  <2>. QED
    BY <2>2, FS_Subset DEF RenewalAssumption
<1>2. ASSUME NEW p \in Pool PROVE f[p] \in of(p) /\ f[p] \in up
  <2>1. \E n \in of(p) : iron[n] = Open
    BY DEF IronInv, Stands
  <2>2. of(p) \subseteq Iron
    BY FormsDiffer
  <2>. QED
    BY <2>1, <2>2
<1>3. \A p, q \in Pool : p # q => of(p) \cap of(q) = {}
  <2>. SUFFICES ASSUME NEW p \in Pool, NEW q \in Pool, p # q PROVE of(p) \cap of(q) = {}
    OBVIOUS
  <2>1. /\ Old(p) # Fresh(q) /\ Old(p) # Next_(q) /\ Fresh(p) # Next_(q)
        /\ Old(p) # Old(q) /\ Fresh(p) # Fresh(q) /\ Next_(p) # Next_(q)
    BY FormsDiffer
  <2>2. Old(q) # Fresh(p) /\ Old(q) # Next_(p) /\ Fresh(q) # Next_(p)
    BY FormsDiffer
  <2>. QED
    BY <2>1, <2>2
<1>4. f \in Injection(Pool, up)
  <2>. HIDE DEF of
  <2>1. f \in [Pool -> up]
    <3>1. \A p \in Pool : f[p] \in up
      BY <1>2
    <3>2. f = [p \in Pool |-> f[p]]
      OBVIOUS
    <3>. HIDE DEF f, up
    <3>. QED
      BY <3>1, <3>2
  <2>. HIDE DEF f
  <2>2. \A p, q \in Pool : f[p] = f[q] => p = q
    BY <1>2, <1>3
  <2>. QED
    BY <2>1, <2>2 DEF Injection, IsInjective
<1>5. Cardinality(Pool) <= Cardinality(up)
  <2>. HIDE DEF f, up
  <2>. QED
    BY <1>1, <1>4, FS_Injection
<1>6. Cardinality(Pool) \in Nat /\ Cardinality(up) \in Nat
  <2>. HIDE DEF up
  <2>. QED
    BY <1>1, FS_CardinalityType
<1>. QED
  BY <1>5, <1>6

-----------------------------------------------------------------------------
(* The book and the robot.                                                 *)

BookInv ==
    /\ control \in Int /\ gate \in [Boards -> Int] /\ real \in [Boards -> Int]
    /\ NobodyOrphaned

\* The gate knows nobody at first.
LEMMA BookBegins ==
    ASSUME BookInit
    PROVE  BookInv
BY DEF BookInit, BookInv, NobodyOrphaned, Unknown

\* Whatever the gate admits or lets the control plane do, none it knows lags
\* further than the window.
LEMMA BookKeeps ==
    ASSUME RenewalAssumption, BookInv, BookNext
    PROVE  BookInv'
<1>1. PICK c \in 0..MaxMinor :
         \/ UpgradeControl(c)
         \/ \E p \in Boards : AdmitNode(p, c)
         \/ \E v \in 0..MaxMinor, stalls \in BOOLEAN : RunBook(c, v, stalls)
  BY DEF BookNext
<1>2. /\ c \in Int /\ MaxMinor \in Nat /\ Window \in Nat
      /\ control \in Int /\ gate \in [Boards -> Int] /\ real \in [Boards -> Int]
      /\ \A p \in Boards : gate[p] # Unknown =>
            gate[p] = real[p] /\ control - gate[p] <= Window
  BY DEF RenewalAssumption, BookInv, NobodyOrphaned, Gap
<1>3. Orphans(c) = {} =>
        \A p \in Boards : gate[p] # Unknown => c - gate[p] <= Window
  <2>. SUFFICES ASSUME Orphans(c) = {}, NEW p \in Boards, gate[p] # Unknown
                PROVE  c - gate[p] <= Window
    OBVIOUS
  <2>1. gate[p] \in Int /\ ~(c - gate[p] > Window)
    BY <1>2 DEF Orphans, Gap
  <2>. QED
    BY <1>2, <2>1
<1>4. CASE UpgradeControl(c)
  BY <1>2, <1>3, <1>4 DEF UpgradeControl, BookInv, NobodyOrphaned, Gap
<1>5. ASSUME NEW p \in Boards, AdmitNode(p, c) PROVE BookInv'
  BY <1>2, <1>5 DEF AdmitNode, Admits, BookInv, NobodyOrphaned, Gap
<1>6. ASSUME NEW v \in 0..MaxMinor, NEW stalls \in BOOLEAN, RunBook(c, v, stalls)
      PROVE  BookInv'
  <2>1. Orphans(c) = {} /\ control' = c /\ v \in Int
    BY <1>2, <1>6 DEF RunBook
  <2>2. CASE stalls
    BY <1>2, <1>3, <1>6, <2>1, <2>2 DEF RunBook, BookInv, NobodyOrphaned, Gap
  <2>3. CASE ~stalls
    <3>1. /\ real' = [p \in Boards |-> v]
          /\ gate' = [p \in Boards |-> IF Admits(c, v) THEN v ELSE Unknown]
      BY <1>6, <2>3 DEF RunBook
    <3>2. Admits(c, v) => c - v <= Window
      BY <1>2, <2>1 DEF Admits, Gap
    <3>3. Unknown \in Int
      BY DEF Unknown
    <3>. QED
      BY <1>2, <2>1, <3>1, <3>2, <3>3 DEF BookInv, NobodyOrphaned, Gap
  <2>. QED
    BY <2>2, <2>3
<1>. QED
  BY <1>1, <1>4, <1>5, <1>6

Ages == 0..(FixWindow - 1)

\* The fixes of the window are within the budget; a finding is paged for once
\* until it is fixed.
RobotInv ==
    /\ spent \in [Ages -> Nat] /\ paged \subseteq Findings
    /\ pages \in [Findings -> {0, 1}]
    /\ \A f \in Findings : pages[f] = 1 <=> f \in paged
    /\ Total(spent, Ages) <= FixBudget

\* There are finitely many ages, and zero is one of them.
LEMMA AgesAreFew ==
    ASSUME RenewalAssumption
    PROVE  /\ IsFiniteSet(Ages) /\ IsFiniteSet(Ages \ {0}) /\ IsFiniteSet({0})
           /\ Ages = (Ages \ {0}) \cup {0} /\ 0 \in Ages
<1>1. FixWindow \in Nat \ {0}
  BY DEF RenewalAssumption
<1>2. IsFiniteSet(0..(FixWindow - 1))
  BY <1>1, FS_Interval
<1>3. 0 \in 0..(FixWindow - 1)
  BY <1>1
<1>4. IsFiniteSet(Ages \ {0}) /\ IsFiniteSet({0})
  BY <1>2, FS_Subset, FS_Singleton DEF Ages
<1>. QED
  BY <1>2, <1>3, <1>4 DEF Ages

\* The invariant is what remediation.py promises.
LEMMA RobotIsTrue ==
    ASSUME RenewalAssumption, RobotInv
    PROVE  RobotStops
<1>1. SumFunction(spent) = Total(spent, Ages)
  <2>1. DOMAIN spent = Ages
    BY DEF RobotInv
  <2>. QED
    BY <2>1, SumIsTotal
<1>. QED
  BY <1>1 DEF RobotInv, RobotStops

\* Nothing was fixed yet.
LEMMA RobotBegins ==
    ASSUME RenewalAssumption, RobotInit
    PROVE  RobotInv
<1>1. /\ spent \in [Ages -> Nat] /\ \A a \in Ages : spent[a] = 0
  BY DEF RobotInit, Ages
<1>2. Total(spent, Ages) = 0
  <2>1. UnitsOf(spent, Ages) = {}
    BY <1>1 DEF UnitsOf
  <2>2. Total(spent, Ages) = Cardinality(UnitsOf(spent, Ages))
    BY <1>1, AgesAreFew, TotalCountsUnits
  <2>. QED
    BY <2>1, <2>2, FS_EmptySet
<1>3. FixBudget \in Nat
  BY DEF RenewalAssumption
<1>. QED
  BY <1>1, <1>2, <1>3 DEF RobotInit, RobotInv

\* What ages leaves the window at its end: the sum falls or stays.
LEMMA RobotAges ==
    ASSUME RenewalAssumption, RobotInv, RobotTime
    PROVE  RobotInv'
<1>1. /\ spent \in [Ages -> Nat] /\ spent' = [a \in Ages |-> IF a = 0 THEN 0 ELSE spent[a - 1]]
      /\ Total(spent, Ages) <= FixBudget /\ UNCHANGED <<paged, pages>>
  BY DEF RobotInv, RobotTime
<1>2. FixWindow \in Nat \ {0} /\ FixBudget \in Nat
  BY DEF RenewalAssumption
<1>3. \A a \in Ages : a # 0 => a - 1 \in Ages
  BY <1>2 DEF Ages
<1>4. spent' \in [Ages -> Nat] /\ spent'[0] = 0
  BY <1>1, <1>3, AgesAreFew
<1> DEFINE first == {a \in Ages : a + 1 \in Ages}
           later == Ages \ {0}
           f == [a \in first |-> a + 1]
<1>5. f \in Bijection(first, later)
  <2>1. f \in [first -> later]
    BY <1>2 DEF Ages
  <2>2. \A a, b \in first : f[a] = f[b] => a = b
    BY <1>2 DEF Ages
  <2>3. ASSUME NEW b \in later PROVE \E a \in first : f[a] = b
    <3>1. b - 1 \in first /\ (b - 1) + 1 = b
      BY <1>2 DEF Ages
    <3>. QED
      BY <3>1
  <2>4. f \in Injection(first, later) /\ f \in Surjection(first, later)
    BY <2>1, <2>2, <2>3 DEF Injection, IsInjective, Surjection
  <2>. QED
    BY <2>4 DEF Bijection
<1>6. /\ first \subseteq Ages /\ IsFiniteSet(first) /\ IsFiniteSet(later)
      /\ \A a \in first : spent[a] \in Nat /\ spent'[f[a]] = spent[a]
  <2>1. first \subseteq Ages
    OBVIOUS
  <2>2. IsFiniteSet(first)
    <3>. HIDE DEF first
    <3>. QED
      BY <2>1, AgesAreFew, FS_Subset
  <2>3. \A a \in first : f[a] = a + 1 /\ a + 1 \in Ages /\ a + 1 # 0 /\ (a + 1) - 1 = a
    BY <1>2 DEF Ages
  <2>. QED
    BY <1>1, <2>1, <2>2, <2>3, AgesAreFew
<1>. HIDE DEF first, later, f
<1>7. Total(spent', later) = Total(spent, first)
  BY <1>5, <1>6, TotalOfMoved
<1>8. Total(spent, first) <= Total(spent, Ages)
  BY <1>1, <1>6, AgesAreFew, TotalOfSubset
<1>9. Total(spent', Ages) = Total(spent', later) + Total(spent', {0})
  <2>1. Ages = later \cup {0} /\ later \cap {0} = {} /\ \A a \in later \cup {0} : spent'[a] \in Nat
    BY <1>4, AgesAreFew DEF later
  <2>2. Total(spent', later \cup {0}) = Total(spent', later) + Total(spent', {0})
    BY <1>6, <2>1, AgesAreFew, TotalOfUnion
  <2>. QED
    BY <2>1, <2>2, Zenon
<1>10. Total(spent', {0}) = 0
  <2>1. spent'[0] \in Nat
    BY <1>4
  <2>2. Total(spent', {0}) = spent'[0]
    BY <2>1, TotalOfOne
  <2>. QED
    BY <1>4, <2>2
<1>11. Total(spent, first) \in Nat /\ Total(spent, Ages) \in Nat
  BY <1>1, <1>6, AgesAreFew, TotalIsNat
<1>12. Total(spent', Ages) <= FixBudget
  BY <1>1, <1>2, <1>7, <1>8, <1>9, <1>10, <1>11
<1>. QED
  BY <1>1, <1>4, <1>12 DEF RobotInv

\* A sweep fixes no more than is left of the budget.
LEMMA RobotSweeps ==
    ASSUME RenewalAssumption, RobotInv, NEW found \in SUBSET Findings, RemediatorSweep(found)
    PROVE  RobotInv'
<1> DEFINE fixed == {f \in found : Cardinality({g \in found : g < f}) < Left}
           rest == found \ fixed
           k == Cardinality(fixed)
<1>1. /\ spent \in [Ages -> Nat] /\ paged \subseteq Findings /\ pages \in [Findings -> {0, 1}]
      /\ \A f \in Findings : pages[f] = 1 <=> f \in paged
      /\ Total(spent, Ages) <= FixBudget /\ FixBudget \in Nat
  BY DEF RobotInv, RenewalAssumption
<1>2. /\ spent' = [spent EXCEPT ![0] = @ + k]
      /\ paged' = (paged \ fixed) \union rest
      /\ pages' = [f \in Findings |-> IF f \in fixed THEN 0
                                      ELSE IF f \in rest \ paged THEN pages[f] + 1
                                      ELSE pages[f]]
  BY DEF RemediatorSweep
<1>3. Total(spent, Ages) \in Nat /\ Left = FixBudget - Total(spent, Ages)
  <2>1. DOMAIN spent = Ages
    BY <1>1
  <2>2. Total(spent, Ages) \in Nat
    BY <1>1, AgesAreFew, TotalIsNat
  <2>. QED
    BY <2>1, <2>2, SumIsTotal DEF Left
<1>4. Left \in Nat
  BY <1>1, <1>3
<1>5. fixed \subseteq found /\ k \in Nat /\ k <= Left
  <2>1. fixed = Foremost(found, Left)
    BY DEF Foremost
  <2>2. IsFiniteSet(found) /\ found \subseteq Int
    <3>1. IsFiniteSet(Findings) /\ Findings \subseteq Int
      BY DEF RenewalAssumption
    <3>. QED
      BY <3>1, FS_Subset
  <2>3. /\ Foremost(found, Left) \subseteq found /\ Cardinality(Foremost(found, Left)) \in Nat
        /\ Cardinality(Foremost(found, Left)) <= Left
    <3>1. Left \in Int /\ Left >= 0
      BY <1>4
    <3>. HIDE DEF fixed, k, rest
    <3>. QED
      BY <2>2, <3>1, ForemostAreFew
  <2>. HIDE DEF fixed
  <2>. QED
    BY <2>1, <2>3
<1>. HIDE DEF fixed, k
<1>6. /\ paged' \subseteq Findings /\ pages' \in [Findings -> {0, 1}]
      /\ \A f \in Findings : pages'[f] = 1 <=> f \in paged'
  BY <1>1, <1>2, <1>5
<1>7. /\ spent' \in [Ages -> Nat] /\ spent'[0] = spent[0] + k /\ spent[0] \in Nat
      /\ \A a \in Ages \ {0} : spent'[a] = spent[a]
  BY <1>1, <1>2, <1>5, AgesAreFew
<1> DEFINE later == Ages \ {0}
<1>8. ASSUME NEW v, \A a \in Ages : v[a] \in Nat
      PROVE  Total(v, Ages) = Total(v, later) + v[0] /\ Total(v, later) \in Nat
  <2>1. Ages = later \cup {0} /\ later \cap {0} = {} /\ \A a \in later \cup {0} : v[a] \in Nat
    BY <1>8, AgesAreFew
  <2>2. Total(v, later \cup {0}) = Total(v, later) + Total(v, {0})
    BY <2>1, AgesAreFew, TotalOfUnion
  <2>3. Total(v, {0}) = v[0] /\ Total(v, later) \in Nat
    BY <2>1, AgesAreFew, TotalOfOne, TotalIsNat
  <2>4. Total(v, Ages) = Total(v, later \cup {0})
    BY <2>1, Zenon
  <2>. QED
    BY <2>2, <2>3, <2>4
<1>9. /\ Total(spent, Ages) = Total(spent, later) + spent[0] /\ Total(spent, later) \in Nat
      /\ Total(spent', Ages) = Total(spent', later) + spent'[0]
  BY <1>1, <1>7, <1>8
<1>10. Total(spent', later) = Total(spent, later)
  <2>1. \A a \in later : spent[a] \in Nat /\ spent'[a] = spent[a]
    BY <1>1, <1>7
  <2>2. IsFiniteSet(later)
    BY AgesAreFew
  <2>. HIDE DEF later
  <2>. QED
    BY <2>1, <2>2, TotalOfSame
<1>11. Total(spent', Ages) <= FixBudget
  BY <1>1, <1>3, <1>5, <1>7, <1>9, <1>10
<1>. QED
  BY <1>6, <1>7, <1>11 DEF RobotInv

\* Sweeps and the passing of time.
LEMMA RobotKeeps ==
    ASSUME RenewalAssumption, RobotInv, RobotNext
    PROVE  RobotInv'
BY RobotAges, RobotSweeps DEF RobotNext

-----------------------------------------------------------------------------
(* The components side by side: what the others do leaves each as it is.   *)

PartsInv ==
    /\ WavesInv /\ ChannelsInv /\ ColoursInv /\ CanaryInv /\ DialInv
    /\ IronInv /\ BookInv /\ RobotInv

\* A step is one of the component, or leaves it as it is.
LEMMA OthersStay ==
    ASSUME DeliveryNext \/ UNCHANGED all
    PROVE  /\ (\E healthy \in BOOLEAN : WaveTick(healthy)) \/ UNCHANGED waveVars
           /\ ChannelsNext \/ UNCHANGED channelVars
           /\ ColoursNext \/ UNCHANGED colourVars
           /\ CanaryNext \/ UNCHANGED canaryVars
           /\ DialNext \/ UNCHANGED dialVars
           /\ RenewalNext \/ UNCHANGED ironVars
           /\ BookNext \/ UNCHANGED bookVars
           /\ RobotNext \/ UNCHANGED robotVars
<1>1. CASE UNCHANGED all
  BY <1>1 DEF all
<1>2. CASE DeliveryNext
  BY <1>2 DEF DeliveryNext, In, Still
<1>. QED
  BY <1>1, <1>2

\* The components begin as they promise.
LEMMA PartsBegin ==
    ASSUME DeliveryAssumption, RenewalAssumption, DeliveryInit
    PROVE  PartsInv
BY WavesBegin, ChannelsBegin, ColoursBegin, CanaryBegins, DialBegins, IronBegins, BookBegins,
   RobotBegins DEF DeliveryInit, PartsInv

\* Each component keeps its invariant, whichever of them runs.
LEMMA PartsKeep ==
    ASSUME DeliveryAssumption, RenewalAssumption, PartsInv, [DeliveryNext]_all
    PROVE  PartsInv'
<1>1. WavesInv'
  <2>1. WavesInv /\ UNCHANGED waveVars => WavesInv'
    BY DEF WavesInv, waveVars, BakedBefore
  <2>. QED
    BY <2>1, OthersStay, WavesKeep DEF PartsInv
<1>2. ChannelsInv'
  <2>1. ChannelsInv /\ UNCHANGED channelVars => ChannelsInv'
    BY DEF ChannelsInv, channelVars, NothingYankedServes
  <2>. QED
    BY <2>1, OthersStay, ChannelsKeep DEF PartsInv
<1>3. ColoursInv'
  <2>1. ColoursInv /\ UNCHANGED colourVars => ColoursInv'
    BY DEF ColoursInv, colourVars, ServingStays
  <2>. QED
    BY <2>1, OthersStay, ColoursKeep DEF PartsInv
<1>4. CanaryInv'
  <2>1. CanaryInv /\ UNCHANGED canaryVars => CanaryInv'
    BY DEF CanaryInv, canaryVars, RuledOnEvidence
  <2>. QED
    BY <2>1, OthersStay, CanaryKeeps DEF PartsInv
<1>5. DialInv'
  <2>1. DialInv /\ UNCHANGED dialVars => DialInv'
    BY DEF DialInv, dialVars, OnCanary
  <2>. QED
    BY <2>1, OthersStay, DialKeeps DEF PartsInv
<1>6. IronInv'
  <2>1. IronInv /\ UNCHANGED ironVars => IronInv'
    BY DEF IronInv, ironVars, LedgerIsTrue, Stands
  <2>. QED
    BY <2>1, OthersStay, IronKeeps DEF PartsInv
<1>7. BookInv'
  <2>1. BookInv /\ UNCHANGED bookVars => BookInv'
    BY DEF BookInv, bookVars, NobodyOrphaned
  <2>. QED
    BY <2>1, OthersStay, BookKeeps DEF PartsInv
<1>8. RobotInv'
  <2>1. RobotInv /\ UNCHANGED robotVars => RobotInv'
    BY DEF RobotInv, robotVars
  <2>. QED
    BY <2>1, OthersStay, RobotKeeps DEF PartsInv
<1>. QED
  BY <1>1, <1>2, <1>3, <1>4, <1>5, <1>6, <1>7, <1>8 DEF PartsInv

\* The components keep their promises together.
LEMMA AlwaysPartsInv ==
    ASSUME DeliveryAssumption, RenewalAssumption
    PROVE  DeliverySpec => []PartsInv
<1>1. DeliveryInit => PartsInv
  BY PartsBegin
<1>2. PartsInv /\ [DeliveryNext]_all => PartsInv'
  BY PartsKeep
<1>. QED
  BY <1>1, <1>2, PTL DEF DeliverySpec

\* waves.py, channels.py, bluegreen.py, canary.py, traffic.py, poolrefresh.py,
\* skewpolicy.py and remediation.py keep their promises in every state: a build
\* reaches its users on evidence and they are served, the fleet is never smaller, no
\* node is orphaned, and the robot stops at its budget.
THEOREM DeliveryStaysTrue ==
    ASSUME DeliveryAssumption, RenewalAssumption
    PROVE  DeliverySpec => []DeliveryHolds
<1>1. PartsInv => DeliveryHolds
  BY DialDrains, IronIsEnough, RobotIsTrue
  DEF PartsInv, DeliveryHolds, WavesInv, ChannelsInv, ColoursInv, CanaryInv, IronInv, BookInv
<1>. QED
  BY <1>1, AlwaysPartsInv, PTL

-----------------------------------------------------------------------------
(* What was declared.                                                      *)

Row == [Ordinals -> Nat \cup {Done}]
Up(row) == {o \in Ordinals : row[o] > 0}
Ended(row) == {o \in Ordinals : row[o] = Done}

\* A reconciler leaves no more live tasks of a deployment than it is told, and as
\* many when there are names enough; it does not touch those that finished.
LEMMA ScaledRow ==
    ASSUME DeclaredAssumption, NEW row \in Row, NEW spec,
           spec.replicas \in Nat, spec.cpu \in Nat \ {0}
    PROVE  LET after == Scaled(row, spec)
           IN /\ after \in Row /\ Ended(after) = Ended(row)
              /\ Cardinality(Up(after)) \in Nat /\ Cardinality(Up(after)) <= spec.replicas
              /\ spec.replicas + Cardinality(Ended(row)) <= Cardinality(Ordinals)
                    => Cardinality(Up(after)) = spec.replicas
<1> DEFINE children == Up(row)
           free == {o \in Ordinals : row[o] = Absent}
           missing == spec.replicas - Cardinality(children)
           made == Foremost(free, missing)
           gone == Hindmost(children, -missing)
           after == Scaled(row, spec)
           n == Cardinality(children)
<1>1. /\ IsFiniteSet(Ordinals) /\ Ordinals \subseteq Int
      /\ \A o \in Ordinals : row[o] \in Nat \cup {Done}
  BY DEF DeclaredAssumption, Row
<1>2. after = [o \in Ordinals |-> IF o \in made THEN spec.cpu
                                  ELSE IF o \in gone THEN Absent ELSE row[o]]
  BY DEF Scaled, Foremost, Hindmost, Up
<1>3. /\ children \subseteq Ordinals /\ free \subseteq Ordinals /\ Ended(row) \subseteq Ordinals
      /\ children \cap free = {} /\ children \cap Ended(row) = {} /\ free \cap Ended(row) = {}
      /\ children \cup free \cup Ended(row) = Ordinals
  <2>1. ASSUME NEW o \in Ordinals
        PROVE  /\ o \in children <=> row[o] > 0
               /\ o \in free <=> row[o] = 0
               /\ o \in Ended(row) <=> row[o] = -1
               /\ row[o] > 0 \/ row[o] = 0 \/ row[o] = -1
               /\ row[o] \in Int
    BY <1>1 DEF Up, Ended, Absent, Done
  <2>2. children \subseteq Ordinals /\ free \subseteq Ordinals /\ Ended(row) \subseteq Ordinals
    BY DEF Up, Ended
  <2>. HIDE DEF children, free
  <2>3. \A o \in Ordinals : /\ ~(o \in children /\ o \in free)
                            /\ ~(o \in children /\ o \in Ended(row))
                            /\ ~(o \in free /\ o \in Ended(row))
                            /\ o \in children \/ o \in free \/ o \in Ended(row)
    BY <2>1
  <2>. QED
    BY <2>2, <2>3
<1>4. made \subseteq free /\ gone \subseteq children
  BY DEF Foremost, Hindmost
<1>5. \A o \in Ordinals : /\ o \in made => after[o] = spec.cpu
                          /\ o \in gone => after[o] = Absent
                          /\ o \notin made /\ o \notin gone => after[o] = row[o]
  <2>. HIDE DEF after, made, gone
  <2>. QED
    BY <1>2, <1>3, <1>4
<1>. HIDE DEF after, made, gone
<1>6. after \in Row
  BY <1>1, <1>2 DEF Row, Absent
<1>7. Up(after) = (children \ gone) \cup made
  <2>1. ASSUME NEW o \in Ordinals
        PROVE  o \in Up(after) <=> o \in (children \ gone) \cup made
    <3>1. CASE o \in made
      BY <1>5, <3>1 DEF Up
    <3>2. CASE o \in gone
      <4>1. ~(Absent > 0) /\ o \notin made
        BY <1>3, <1>4, <3>2 DEF Absent
      <4>. QED
        BY <1>5, <3>2, <4>1 DEF Up
    <3>3. CASE o \notin made /\ o \notin gone
      BY <1>5, <3>3 DEF Up
    <3>. QED
      BY <3>1, <3>2, <3>3
  <2>2. Up(after) \subseteq Ordinals
    BY DEF Up
  <2>. HIDE DEF children, free
  <2>. QED
    BY <1>3, <1>4, <2>1, <2>2
<1>8. Ended(after) = Ended(row)
  <2>1. ASSUME NEW o \in Ordinals
        PROVE  o \in Ended(after) <=> o \in Ended(row)
    <3>1. CASE o \in made
      <4>1. o \in free /\ spec.cpu # Done
        BY <1>4, <3>1 DEF Done
      <4>2. o \notin Ended(row)
        <5>. HIDE DEF children, free
        <5>. QED
          BY <1>3, <4>1
      <4>. QED
        BY <1>5, <3>1, <4>1, <4>2 DEF Ended
    <3>2. CASE o \in gone
      <4>1. Absent # Done /\ o \notin Ended(row)
        <5>. HIDE DEF children, free
        <5>. QED
          BY <1>3, <1>4, <3>2 DEF Absent, Done
      <4>. QED
        BY <1>5, <3>2, <4>1 DEF Ended
    <3>3. CASE o \notin made /\ o \notin gone
      BY <1>5, <3>3 DEF Ended
    <3>. QED
      BY <3>1, <3>2, <3>3
  <2>2. Ended(after) \subseteq Ordinals /\ Ended(row) \subseteq Ordinals
    BY DEF Ended
  <2>. QED
    BY <2>1, <2>2
<1>9. /\ IsFiniteSet(children) /\ n \in Nat /\ IsFiniteSet(free) /\ Cardinality(free) \in Nat
      /\ IsFiniteSet(Ended(row)) /\ Cardinality(Ended(row)) \in Nat
  <2>. HIDE DEF children, free
  <2>. QED
    BY <1>1, <1>3, FS_Subset, FS_CardinalityType DEF n
<1>10. Cardinality(Ordinals) = n + Cardinality(free) + Cardinality(Ended(row))
  <2>. HIDE DEF children, free
  <2>1. /\ IsFiniteSet(children \cup free)
        /\ Cardinality(children \cup free) = n + Cardinality(free)
    BY <1>3, <1>9, SeparateAdd
  <2>2. (children \cup free) \cap Ended(row) = {}
    BY <1>3
  <2>3. Cardinality((children \cup free) \cup Ended(row)) =
           Cardinality(children \cup free) + Cardinality(Ended(row))
    BY <1>9, <2>1, <2>2, SeparateAdd
  <2>. QED
    BY <1>3, <2>1, <2>3
<1>11. missing \in Int /\ missing = spec.replicas - n
  BY <1>9
<1>12. CASE missing >= 0
  <2>1. gone = {}
    <3>. SUFFICES ASSUME NEW o \in gone PROVE FALSE
      OBVIOUS
    <3> DEFINE c == Cardinality({p \in children : p > o})
    <3>1. c < -missing
      BY DEF gone, Hindmost
    <3>2. c \in Nat
      <4>1. {p \in children : p > o} \subseteq children
        OBVIOUS
      <4>. HIDE DEF children
      <4>. QED
        BY <1>9, <4>1, FS_Subset, FS_CardinalityType
    <3>. HIDE DEF c, missing
    <3>. QED
      BY <1>11, <1>12, <3>1, <3>2
  <2>2. /\ IsFiniteSet(made) /\ Cardinality(made) \in Nat /\ Cardinality(made) <= missing
        /\ missing <= Cardinality(free) => Cardinality(made) = missing
    <3>. HIDE DEF missing, free
    <3>1. free \subseteq Int
      BY <1>1, <1>3
    <3>2. /\ IsFiniteSet(made) /\ Cardinality(made) \in Nat /\ Cardinality(made) <= missing
      BY <1>9, <1>11, <1>12, <3>1, ForemostAreFew DEF made
    <3>3. missing <= Cardinality(free) => missing \in 0..Cardinality(free)
      BY <1>9, <1>11, <1>12
    <3>4. missing <= Cardinality(free) => Cardinality(made) = missing
      BY <1>9, <3>1, <3>3, EndsAreExact DEF made
    <3>. QED
      BY <3>2, <3>4
  <2>3. Cardinality(Up(after)) = n + Cardinality(made)
    <3>1. Up(after) = children \cup made /\ children \cap made = {}
      BY <1>3, <1>4, <1>7, <2>1
    <3>. HIDE DEF children
    <3>. QED
      BY <1>9, <2>2, <3>1, SeparateAdd
  <2>. HIDE DEF missing, n
  <2>. QED
    BY <1>6, <1>8, <1>9, <1>10, <1>11, <1>12, <2>2, <2>3 DEF after
<1>13. CASE ~(missing >= 0)
  <2>1. made = {}
    <3>. HIDE DEF missing, free
    <3>1. free \subseteq Int
      BY <1>1, <1>3
    <3>2. missing <= 0
      BY <1>11, <1>13
    <3>. QED
      BY <1>9, <1>11, <3>1, <3>2, ForemostAreFew DEF made
  <2>2. -missing \in 0..n
    <3>. HIDE DEF missing, n
    <3>. QED
      BY <1>9, <1>11, <1>13
  <2>3. Cardinality(gone) = -missing
    <3>1. children \subseteq Int
      BY <1>1, <1>3
    <3>. HIDE DEF missing, children
    <3>. QED
      BY <1>9, <2>2, <3>1, EndsAreExact DEF gone
  <2>4. Cardinality(Up(after)) = n - Cardinality(gone)
    <3>1. Up(after) = children \ gone /\ children \cap gone = gone
      BY <1>4, <1>7, <2>1
    <3>. HIDE DEF children
    <3>. QED
      BY <1>9, <3>1, FS_Difference
  <2>5. Cardinality(Up(after)) = spec.replicas
    <3>. HIDE DEF missing, n
    <3>. QED
      BY <1>9, <1>11, <2>3, <2>4
  <2>. QED
    BY <1>6, <1>8, <2>5 DEF after
<1>. QED
  BY <1>12, <1>13

Whole(e) ==
    e = [name |-> e.name, replicas |-> e.replicas, cpu |-> e.cpu, label |-> e.label]

\* An entry that asks for what a reconciler can give.
Good(e) ==
    /\ Whole(e) /\ e.name \in Deploys /\ e.replicas \in Nat /\ e.cpu \in Nat \ {0}
    /\ e.replicas + MaxDone <= Cardinality(Ordinals)

Manifests == {Parsed(raw) : raw \in {r \in Raws : Parses(r)}}

\* Every manifest is a sequence of such entries.
LEMMA ManifestsAreGood ==
    ASSUME DeclaredAssumption, RawsAssumption, NEW m \in Manifests
    PROVE  /\ Len(m) \in Nat /\ DOMAIN m = 1..Len(m)
           /\ \A i \in DOMAIN m : Good(m[i])
<1>1. PICK raw \in Raws : Parses(raw) /\ m = Parsed(raw)
  BY DEF Manifests
<1>2. /\ raw \in Seq(Range(raw)) /\ DefaultCpu \in Nat \ {0}
      /\ \A i \in DOMAIN raw :
            /\ raw[i].name \in Deploys /\ raw[i].replicas \in Nat
            /\ raw[i].replicas + MaxDone <= Cardinality(Ordinals)
            /\ "cpu" \in DOMAIN raw[i] => raw[i].cpu \in Nat \ {0}
  BY <1>1 DEF RawsAssumption, DeclaredAssumption
<1>3. Len(raw) \in Nat /\ DOMAIN raw = 1..Len(raw)
  BY <1>2
<1>4. m = [i \in 1..Len(raw) |-> [name |-> raw[i].name, replicas |-> raw[i].replicas,
                                  cpu |-> Default(raw[i], "cpu", DefaultCpu),
                                  label |-> Default(raw[i], "label", NoLabel)]]
  BY <1>1, <1>3 DEF Parsed
<1>5. Len(m) = Len(raw) /\ DOMAIN m = 1..Len(raw)
  BY <1>3, <1>4
<1>6. \A i \in DOMAIN raw : Default(raw[i], "cpu", DefaultCpu) \in Nat \ {0}
  BY <1>2 DEF Default
<1>7. \A i \in DOMAIN m : Whole(m[i])
  BY <1>4 DEF Whole
<1>. QED
  BY <1>2, <1>3, <1>4, <1>5, <1>6, <1>7 DEF Good

\* What is wanted of a deployment is the last entry of its name.
LEMMA WantedIsThere ==
    ASSUME DeclaredAssumption, RawsAssumption, NEW m \in Manifests
    PROVE  /\ DOMAIN Wanted(m) = NamesIn(m) /\ NamesIn(m) \subseteq Deploys
           /\ \A d \in NamesIn(m) :
                 \E i \in DOMAIN m : /\ m[i].name = d /\ Wanted(m)[d] = m[i]
                                     /\ \A j \in DOMAIN m : m[j].name = d => j <= i
<1>1. /\ Len(m) \in Nat /\ DOMAIN m = 1..Len(m) /\ \A i \in DOMAIN m : Good(m[i])
  BY ManifestsAreGood
<1>2. NamesIn(m) \subseteq Deploys /\ DOMAIN Wanted(m) = NamesIn(m)
  BY <1>1 DEF NamesIn, Good, Wanted
<1>3. ASSUME NEW d \in NamesIn(m)
      PROVE  \E i \in DOMAIN m : /\ m[i].name = d /\ Wanted(m)[d] = m[i]
                                 /\ \A j \in DOMAIN m : m[j].name = d => j <= i
  <2> DEFINE K == {i \in DOMAIN m : m[i].name = d}
  <2>1. K \subseteq 1..Len(m) /\ K # {}
    BY <1>1 DEF NamesIn
  <2>2. IsFiniteSet(K) /\ K \subseteq Int
    <3>1. IsFiniteSet(1..Len(m)) /\ 1..Len(m) \subseteq Int
      BY <1>1, FS_Interval
    <3>. HIDE DEF K
    <3>. QED
      BY <2>1, <3>1, FS_Subset
  <2>3. Max(K) \in K /\ \A j \in K : j <= Max(K)
    <3>. HIDE DEF K
    <3>. QED
      BY <2>1, <2>2, MaxIsThere
  <2>4. Wanted(m)[d] = m[Max(K)]
    BY DEF Wanted
  <2>5. Max(K) \in DOMAIN m /\ m[Max(K)].name = d
    BY <2>3
  <2>6. \A j \in DOMAIN m : m[j].name = d => j <= Max(K)
    BY <2>3
  <2>. HIDE DEF K
  <2>. QED
    BY <2>4, <2>5, <2>6
<1>. QED
  BY <1>2, <1>3

\* Several deployments at once.
LEMMA ImposedRows ==
    ASSUME DeclaredAssumption, NEW ts \in [Deploys -> Row], NEW specs,
           \A d \in DOMAIN specs : specs[d].replicas \in Nat /\ specs[d].cpu \in Nat \ {0}
    PROVE  LET after == Imposed(ts, specs)
           IN /\ after \in [Deploys -> Row]
              /\ \A d \in Deploys : Ended(after[d]) = Ended(ts[d])
              /\ \A d \in Deploys \cap DOMAIN specs : after[d] = Scaled(ts[d], specs[d])
              /\ \A d \in Deploys \ DOMAIN specs : after[d] = ts[d]
<1>1. \A d \in Deploys \cap DOMAIN specs :
         /\ Scaled(ts[d], specs[d]) \in Row
         /\ Ended(Scaled(ts[d], specs[d])) = Ended(ts[d])
  BY ScaledRow
<1>. QED
  BY <1>1 DEF Imposed

\* The states of a sync on its way through the head.
SyncedBy(m, ts, f) ==
    /\ f \in [0..Len(m) -> [Deploys -> Row]]
    /\ f[0] = ts
    /\ \A i \in 1..Len(m) : f[i] = Reconciled(f[i - 1], m[i])
    /\ f[Len(m)] = FoldLeft(Reconciled, ts, m)

\* There are such states: a sync takes the entries of the head in turn.
LEMMA SyncFolds ==
    ASSUME DeclaredAssumption, RawsAssumption, NEW m \in Manifests,
           NEW ts \in [Deploys -> Row]
    PROVE  \E f : SyncedBy(m, ts, f)
<1> DEFINE n == Len(m)
           T == [Deploys -> Row]
           step == [p \in (1..n) \X T |-> Reconciled(p[2], m[p[1]])]
           Right(h) == h = [s \in SUBSET (1..n) |->
                              IF s = {} THEN ts
                              ELSE Reconciled(h[s \ {Max(s)}], m[Max(s)])]
           iter == CHOOSE h : Right(h)
<1>1. n \in Nat /\ DOMAIN m = 1..n /\ \A i \in 1..n : Good(m[i])
  BY ManifestsAreGood
<1>2. ASSUME NEW i \in 1..n, NEW v \in T PROVE Reconciled(v, m[i]) \in T
  <2>1. m[i].name \in Deploys /\ m[i].replicas \in Nat /\ m[i].cpu \in Nat \ {0}
    BY <1>1 DEF Good
  <2>2. Scaled(v[m[i].name], m[i]) \in Row
    BY <2>1, ScaledRow
  <2>. QED
    BY <2>1, <2>2 DEF Reconciled
<1>3. \A i \in 1..n : \A v \in T : step[<<i, v>>] = Reconciled(v, m[i])
  <2>. HIDE DEF n, T
  <2>. QED
    OBVIOUS
<1>4. PICK g : IsLeftFold(n, T, ts, step, g)
  <2>1. \A i \in 1..n : \A v \in T : step[<<i, v>>] \in T
    BY <1>2, <1>3
  <2>2. n \in Nat /\ ts \in T
    BY <1>1
  <2>. HIDE DEF step, n, T
  <2>. QED
    BY ONLY <2>1, <2>2, LeftFoldExists
<1>5. Right(g)
  <2>1. ASSUME NEW s \in SUBSET (1..n), s # {}
        PROVE  g[s] = Reconciled(g[s \ {Max(s)}], m[Max(s)])
    <3>1. Max(s) \in 1..n /\ s \ {Max(s)} \in SUBSET (1..n)
      BY <1>4, <2>1 DEF IsLeftFold
    <3>2. g[s \ {Max(s)}] \in T
      BY <1>4, <3>1 DEF IsLeftFold
    <3>3. g[s] = step[<<Max(s), g[s \ {Max(s)}]>>]
      BY <1>4, <2>1 DEF IsLeftFold
    <3>. HIDE DEF n, step, T
    <3>. QED
      BY <1>3, <3>1, <3>2, <3>3
  <2>. HIDE DEF n, step, T
  <2>. QED
    BY <1>4, <2>1 DEF IsLeftFold
<1>6. Right(iter)
  BY <1>5
<1>7. FoldLeft(Reconciled, ts, m) = iter[1..n]
  BY <1>1 DEF FoldLeft, MapThenFoldSet
<1> DEFINE f == [i \in 0..n |-> iter[1..i]]
<1>. HIDE DEF iter, n, T, step
<1>8. iter[{}] = ts
  BY <1>6
<1>9. ASSUME NEW i \in 1..n
      PROVE  iter[1..i] = Reconciled(iter[1..(i - 1)], m[i])
  <2>0. i \in Nat /\ i # 0
    BY <1>1
  <2>1. /\ 1..i # {} /\ Max(1..i) = i /\ (1..i) \ {Max(1..i)} = 1..(i - 1)
    BY ONLY <2>0, LastOfPrefix
  <2>2. 1..i \in SUBSET (1..n)
    BY <1>1
  <2>3. iter[1..i] = Reconciled(iter[(1..i) \ {Max(1..i)}], m[Max(1..i)])
    BY <1>6, <2>1, <2>2
  <2>. QED
    BY <2>1, <2>3
<1>10. 1..0 = {}
  OBVIOUS
<1>11. \A i \in 0..n : iter[1..i] \in T
  <2> DEFINE G == {i \in 0..n : iter[1..i] \in T}
  <2>1. 0 \in G
    BY <1>1, <1>8, <1>10 DEF T
  <2>2. ASSUME NEW i \in 1..n, i - 1 \in G PROVE i \in G
    BY <1>1, <1>2, <1>9, <2>2
  <2>3. 0..n \subseteq G
    <3>. HIDE DEF G
    <3>. QED
      BY <1>1, <2>1, <2>2, UpTo
  <2>. QED
    BY <2>3
<1>12. SyncedBy(m, ts, f)
  <2>1. f \in [0..n -> T] /\ f[0] = ts /\ f[n] = iter[1..n]
    BY <1>1, <1>8, <1>10, <1>11
  <2>2. \A i \in 1..n : f[i] = Reconciled(f[i - 1], m[i])
    BY <1>1, <1>9
  <2>. HIDE DEF f
  <2>. QED
    BY <1>7, <2>1, <2>2 DEF SyncedBy, n, T
<1>. QED
  BY <1>12

\* After a sync each deployment of the head has what its last entry asks for.
LEMMA SyncGives ==
    ASSUME DeclaredAssumption, RawsAssumption, NEW m \in Manifests,
           NEW ts \in [Deploys -> Row],
           \A d \in Deploys : Cardinality(Ended(ts[d])) <= MaxDone
    PROVE  LET after == FoldLeft(Reconciled, ts, m)
           IN /\ after \in [Deploys -> Row]
              /\ \A d \in Deploys : Ended(after[d]) = Ended(ts[d])
              /\ \A d \in Deploys \ NamesIn(m) : after[d] = ts[d]
              /\ \A d \in NamesIn(m) : Cardinality(Up(after[d])) = Wanted(m)[d].replicas
<1>1. PICK f : SyncedBy(m, ts, f)
  BY SyncFolds
<1> DEFINE n == Len(m)
           LastIs(d, i, j) == m[j].name = d /\ \A k \in 1..i : m[k].name = d => k <= j
           Holds(i) == \A d \in Deploys :
                          /\ Ended(f[i][d]) = Ended(ts[d])
                          /\ (\A j \in 1..i : m[j].name # d) => f[i][d] = ts[d]
                          /\ \A j \in 1..i : LastIs(d, i, j) =>
                                Cardinality(Up(f[i][d])) = m[j].replicas
           G == {i \in 0..n : Holds(i)}
<1>2. /\ n \in Nat /\ DOMAIN m = 1..n /\ \A i \in 1..n : Good(m[i])
      /\ f \in [0..n -> [Deploys -> Row]] /\ f[0] = ts
      /\ \A i \in 1..n : f[i] = Reconciled(f[i - 1], m[i])
  BY <1>1, ManifestsAreGood DEF SyncedBy
<1>3. 0 \in G
  BY <1>2
<1>4. ASSUME NEW i \in 1..n, i - 1 \in G PROVE i \in G
  <2> DEFINE e == m[i]
             before == f[i - 1]
  <2>0. Holds(i - 1) /\ i - 1 \in 0..n
    <3>. HIDE DEF Holds, n
    <3>. QED
      BY <1>4
  <2>1. /\ before \in [Deploys -> Row] /\ i \in 0..n
        /\ f[i] = [before EXCEPT ![e.name] = Scaled(@, e)]
        /\ e.name \in Deploys /\ e.replicas \in Nat /\ e.cpu \in Nat \ {0}
        /\ e.replicas + MaxDone <= Cardinality(Ordinals)
    <3>. HIDE DEF Holds
    <3>1. i \in 0..n
      BY <1>2
    <3>2. f[i - 1] \in [Deploys -> Row]
      <4>. HIDE DEF n
      <4>. QED
        BY <1>2, <2>0
    <3>3. Good(m[i]) /\ f[i] = Reconciled(f[i - 1], m[i])
      <4>. HIDE DEF n
      <4>. QED
        BY <1>2
    <3>. HIDE DEF n
    <3>. QED
      BY <3>1, <3>2, <3>3 DEF Reconciled, Good
  <2>2. /\ Ended(before[e.name]) = Ended(ts[e.name])
        /\ e.replicas + Cardinality(Ended(before[e.name])) <= Cardinality(Ordinals)
    <3>1. Ended(before[e.name]) = Ended(ts[e.name])
      BY <2>0, <2>1
    <3>2. IsFiniteSet(Ordinals) /\ Ended(before[e.name]) \subseteq Ordinals /\ MaxDone \in Nat
      BY DEF DeclaredAssumption, Ended
    <3>3. /\ Cardinality(Ended(before[e.name])) \in Nat /\ Cardinality(Ordinals) \in Nat
          /\ Cardinality(Ended(before[e.name])) <= MaxDone
      BY <2>1, <3>1, <3>2, FS_Subset, FS_CardinalityType
    <3>. HIDE DEF e, before
    <3>. QED
      BY <2>1, <3>1, <3>2, <3>3
  <2> DEFINE row == before[e.name]
             made == Scaled(row, e)
  <2>3. Ended(made) = Ended(row) /\ Cardinality(Up(made)) = e.replicas
    <3>1. row \in Row
      BY <2>1
    <3>. HIDE DEF e, before, row
    <3>. QED
      BY <2>1, <2>2, <3>1, ScaledRow DEF row
  <2>4. /\ f[i][e.name] = made
        /\ \A d \in Deploys \ {e.name} : f[i][d] = before[d]
    <3>. HIDE DEF e, before
    <3>. QED
      BY <2>1
  <2>5. ASSUME NEW d \in Deploys
        PROVE  /\ Ended(f[i][d]) = Ended(ts[d])
               /\ (\A j \in 1..i : m[j].name # d) => f[i][d] = ts[d]
               /\ \A j \in 1..i : LastIs(d, i, j) =>
                     Cardinality(Up(f[i][d])) = m[j].replicas
    <3>1. 1..i = 1..(i - 1) \cup {i} /\ i \in 1..i
      BY <1>2
    <3>2. CASE d = e.name
      <4>1. \A j \in 1..i : LastIs(d, i, j) => j = i
        BY <3>1, <3>2
      <4>. HIDE DEF made, row, before, LastIs
      <4>. QED
        BY <2>2, <2>3, <2>4, <3>1, <3>2, <4>1 DEF row
    <3>3. CASE d # e.name
      <4>1. \A j \in 1..i : LastIs(d, i, j) => j \in 1..(i - 1) /\ LastIs(d, i - 1, j)
        BY <3>1, <3>3
      <4>2. f[i][d] = before[d]
        BY <2>4, <3>3
      <4>. HIDE DEF LastIs, made, row
      <4>. QED
        BY <2>0, <2>1, <3>1, <4>1, <4>2
    <3>. QED
      BY <3>2, <3>3
  <2>. QED
    BY <2>1, <2>5
<1>5. Holds(n)
  <2>1. 0..n \subseteq G
    <3>. HIDE DEF G, n
    <3>. QED
      BY <1>2, <1>3, <1>4, UpTo
  <2>2. n \in 0..n
    BY <1>2
  <2>. HIDE DEF Holds, n
  <2>. QED
    BY <2>1, <2>2
<1>6. FoldLeft(Reconciled, ts, m) = f[n]
  BY <1>1 DEF SyncedBy
<1>7. f[n] \in [Deploys -> Row]
  BY <1>2
<1>8. ASSUME NEW d \in NamesIn(m) PROVE Cardinality(Up(f[n][d])) = Wanted(m)[d].replicas
  <2>1. PICK i \in DOMAIN m : /\ m[i].name = d /\ Wanted(m)[d] = m[i]
                              /\ \A j \in DOMAIN m : m[j].name = d => j <= i
    BY <1>8, WantedIsThere
  <2>2. d \in Deploys
    BY <1>8, WantedIsThere
  <2>3. i \in 1..n /\ LastIs(d, n, i)
    <3>. HIDE DEF Holds
    <3>. QED
      BY <1>2, <2>1
  <2>4. Cardinality(Up(f[n][d])) = m[i].replicas
    <3>. HIDE DEF LastIs, n
    <3>. QED
      BY <1>5, <2>2, <2>3
  <2>. QED
    BY <2>1, <2>4
<1>9. \A d \in Deploys \ NamesIn(m) : f[n][d] = ts[d]
  BY <1>2, <1>5 DEF NamesIn
<1>. HIDE DEF Holds
<1>10. \A d \in Deploys : Ended(f[n][d]) = Ended(ts[d])
  BY <1>5 DEF Holds
<1>. QED
  BY <1>6, <1>7, <1>8, <1>9, <1>10

\* What was asked of a deployment so far: by the manifests of some commits.
Asked(cs, d) ==
    {0} \cup UNION {{m[i].replicas : i \in {j \in DOMAIN m : m[j].name = d}} : m \in Range(cs)}

\* Tasks that some reconciler may have left.
Fits(ts, cs) ==
    /\ ts \in [Deploys -> Row]
    /\ \A d \in Deploys : /\ Cardinality(Ended(ts[d])) <= MaxDone
                          /\ \E r \in Asked(cs, d) : Cardinality(Up(ts[d])) <= r

DeclaredInv ==
    /\ commits \in Seq(Manifests)
    /\ applied = <<>> \/ \E i \in DOMAIN commits : applied = Wanted(commits[i])
    /\ Fits(tasks, commits)
    /\ saved # <<>> => Fits(saved[1], commits)

\* There are finitely many tasks of a deployment, live or finished.
LEMMA RowsAreFinite ==
    ASSUME DeclaredAssumption, NEW row
    PROVE  /\ IsFiniteSet(Up(row)) /\ Cardinality(Up(row)) \in Nat
           /\ IsFiniteSet(Ended(row)) /\ Cardinality(Ended(row)) \in Nat
           /\ Cardinality(Ordinals) \in Nat
<1>1. IsFiniteSet(Ordinals) /\ Up(row) \subseteq Ordinals /\ Ended(row) \subseteq Ordinals
  BY DEF DeclaredAssumption, Up, Ended
<1>. QED
  BY <1>1, FS_Subset, FS_CardinalityType

\* An entry of a commit was asked for.
LEMMA EntryIsAsked ==
    ASSUME DeclaredAssumption, RawsAssumption, NEW cs \in Seq(Manifests),
           NEW k \in DOMAIN cs, NEW d \in NamesIn(cs[k])
    PROVE  /\ cs[k] \in Manifests /\ d \in Deploys
           /\ Good(Wanted(cs[k])[d]) /\ Wanted(cs[k])[d].name = d
           /\ Wanted(cs[k])[d].replicas \in Asked(cs, d)
<1>1. cs[k] \in Manifests /\ cs[k] \in Range(cs)
  BY DEF Range
<1>2. PICK i \in DOMAIN cs[k] : cs[k][i].name = d /\ Wanted(cs[k])[d] = cs[k][i]
  BY <1>1, WantedIsThere
<1>3. Good(cs[k][i]) /\ d \in Deploys
  BY <1>1, <1>2, ManifestsAreGood, WantedIsThere
<1>4. cs[k][i].replicas \in Asked(cs, d)
  BY <1>1, <1>2 DEF Asked
<1>. QED
  BY <1>1, <1>2, <1>3, <1>4

\* No more is asked than there are names.
LEMMA AskedAreNumbers ==
    ASSUME DeclaredAssumption, RawsAssumption, NEW cs \in Seq(Manifests), NEW d,
           NEW r \in Asked(cs, d)
    PROVE  r \in Nat /\ r <= Cardinality(Ordinals)
<1>1. Cardinality(Ordinals) \in Nat /\ MaxDone \in Nat
  BY RowsAreFinite DEF DeclaredAssumption
<1>2. CASE r = 0
  BY <1>1, <1>2
<1>3. CASE r # 0
  <2>1. PICK m \in Range(cs) : \E i \in DOMAIN m : r = m[i].replicas
    BY <1>3 DEF Asked
  <2>2. m \in Manifests
    BY <2>1 DEF Range
  <2>3. PICK i \in DOMAIN m : r = m[i].replicas
    BY <2>1
  <2>4. r \in Nat /\ r + MaxDone <= Cardinality(Ordinals)
    BY <2>2, <2>3, ManifestsAreGood DEF Good
  <2>. QED
    BY <1>1, <2>4
<1>. QED
  BY <1>2, <1>3

\* Asking more does not take back what was asked.
LEMMA AskedGrows ==
    ASSUME NEW cs \in Seq(Manifests), NEW m \in Manifests, NEW ts, Fits(ts, cs)
    PROVE  Fits(ts, Append(cs, m))
<1> DEFINE more == Append(cs, m)
<1>1. Range(cs) \subseteq Range(more)
  <2>1. \A k \in DOMAIN cs : k \in DOMAIN more /\ more[k] = cs[k]
    OBVIOUS
  <2>. HIDE DEF more
  <2>. QED
    BY <2>1 DEF Range
<1>2. \A d : Asked(cs, d) \subseteq Asked(more, d)
  <2> DEFINE Of(d, mm) == {mm[i].replicas : i \in {j \in DOMAIN mm : mm[j].name = d}}
  <2>1. \A d : UNION {Of(d, mm) : mm \in Range(cs)} \subseteq UNION {Of(d, mm) : mm \in Range(more)}
    <3>. HIDE DEF more, Of
    <3>. QED
      BY <1>1
  <2>2. \A c, d : Asked(c, d) = {0} \cup UNION {Of(d, mm) : mm \in Range(c)}
    BY DEF Asked
  <2>. HIDE DEF Of, more
  <2>. QED
    BY <2>1, <2>2
<1>. HIDE DEF more
<1>3. Fits(ts, more)
  BY <1>2 DEF Fits
<1>. QED
  BY <1>3 DEF more

\* A reconciler that is told what was asked leaves what may be, and exactly that.
LEMMA ImposedFits ==
    ASSUME DeclaredAssumption, NEW cs, NEW ts, Fits(ts, cs), NEW specs,
           \A d \in DOMAIN specs : /\ specs[d].replicas \in Nat /\ specs[d].cpu \in Nat \ {0}
                                   /\ specs[d].replicas \in Asked(cs, d)
    PROVE  LET after == Imposed(ts, specs)
           IN /\ Fits(after, cs)
              /\ \A d \in Deploys \cap DOMAIN specs :
                    specs[d].replicas + MaxDone <= Cardinality(Ordinals)
                       => Cardinality(Up(after[d])) = specs[d].replicas
              /\ \A d \in Deploys \ DOMAIN specs : after[d] = ts[d]
<1> DEFINE after == Imposed(ts, specs)
<1>1. ts \in [Deploys -> Row]
  BY DEF Fits
<1>2. /\ after \in [Deploys -> Row]
      /\ \A d \in Deploys : Ended(after[d]) = Ended(ts[d])
      /\ \A d \in Deploys \cap DOMAIN specs : after[d] = Scaled(ts[d], specs[d])
      /\ \A d \in Deploys \ DOMAIN specs : after[d] = ts[d]
  BY <1>1, ImposedRows
<1>. HIDE DEF after
<1>3. ASSUME NEW d \in Deploys \cap DOMAIN specs
      PROVE  /\ Cardinality(Up(after[d])) <= specs[d].replicas
             /\ specs[d].replicas + MaxDone <= Cardinality(Ordinals)
                   => Cardinality(Up(after[d])) = specs[d].replicas
  <2>1. /\ ts[d] \in Row /\ specs[d].replicas \in Nat /\ specs[d].cpu \in Nat \ {0}
        /\ after[d] = Scaled(ts[d], specs[d])
    BY <1>1, <1>2
  <2>2. /\ Cardinality(Up(after[d])) <= specs[d].replicas
        /\ specs[d].replicas + Cardinality(Ended(ts[d])) <= Cardinality(Ordinals)
              => Cardinality(Up(after[d])) = specs[d].replicas
    BY <2>1, ScaledRow
  <2>3. Cardinality(Ended(ts[d])) <= MaxDone /\ MaxDone \in Nat
    BY DEF Fits, DeclaredAssumption
  <2>. QED
    BY <2>1, <2>2, <2>3, RowsAreFinite
<1>4. ASSUME NEW d \in Deploys
      PROVE  /\ Cardinality(Ended(after[d])) <= MaxDone
             /\ \E r \in Asked(cs, d) : Cardinality(Up(after[d])) <= r
  BY <1>2, <1>3 DEF Fits
<1>. QED
  BY <1>2, <1>3, <1>4 DEF Fits, after

\* What is held of the manifests is what one of them asks for.
LEMMA AppliedIsGood ==
    ASSUME DeclaredAssumption, RawsAssumption, DeclaredInv, NEW d \in DOMAIN applied
    PROVE  /\ d \in Deploys /\ Good(applied[d]) /\ applied[d].name = d
           /\ applied[d].replicas \in Asked(commits, d)
<1>1. applied # <<>>
  OBVIOUS
<1>2. PICK k \in DOMAIN commits : applied = Wanted(commits[k])
  BY <1>1 DEF DeclaredInv
<1>3. commits \in Seq(Manifests) /\ commits[k] \in Manifests
  BY DEF DeclaredInv
<1>4. d \in NamesIn(commits[k])
  BY <1>2, <1>3, WantedIsThere
<1>. QED
  BY <1>2, <1>3, <1>4, EntryIsAsked

\* Nothing is declared, and nothing is there.
LEMMA DeclaredBegins ==
    ASSUME DeclaredAssumption, DeclaredInit
    PROVE  DeclaredInv
<1>1. ASSUME NEW d \in Deploys
      PROVE  tasks[d] \in Row /\ Up(tasks[d]) = {} /\ Ended(tasks[d]) = {}
  BY DEF DeclaredInit, Row, Up, Ended, Absent, Done
<1>2. Cardinality({}) = 0 /\ 0 <= MaxDone /\ \A d : 0 \in Asked(commits, d)
  BY FS_EmptySet DEF DeclaredAssumption, Asked
<1>3. tasks \in [Deploys -> Row]
  BY <1>1 DEF DeclaredInit
<1>4. Fits(tasks, commits)
  <2>1. ASSUME NEW d \in Deploys
        PROVE  /\ Cardinality(Ended(tasks[d])) <= MaxDone
               /\ \E r \in Asked(commits, d) : Cardinality(Up(tasks[d])) <= r
    <3>1. Cardinality(Ended(tasks[d])) = 0 /\ Cardinality(Up(tasks[d])) = 0
      BY <1>1, <1>2
    <3>2. 0 \in Asked(commits, d) /\ 0 <= 0
      BY <1>2
    <3>. QED
      BY <1>2, <3>1, <3>2
  <2>. QED
    BY <1>3, <2>1 DEF Fits
<1>5. commits = <<>> /\ applied = <<>> /\ saved = <<>> /\ commits \in Seq(Manifests)
  BY DEF DeclaredInit
<1>. QED
  BY <1>4, <1>5 DEF DeclaredInv

\* A commit only adds to what was asked.
LEMMA CommitKeeps ==
    ASSUME RawsAssumption, DeclaredInv, NEW raw \in Raws, Commit(raw)
    PROVE  DeclaredInv'
<1>1. /\ Parsed(raw) \in Manifests /\ commits' = Append(commits, Parsed(raw))
      /\ applied' = applied /\ tasks' = tasks /\ saved' = saved
  BY DEF Commit, Manifests
<1>2. commits \in Seq(Manifests)
  BY DEF DeclaredInv
<1>3. commits' \in Seq(Manifests)
  BY <1>1, <1>2
<1>4. \A k \in DOMAIN commits : k \in DOMAIN commits' /\ commits'[k] = commits[k]
  BY <1>1, <1>2
<1>5. applied' = <<>> \/ \E k \in DOMAIN commits' : applied' = Wanted(commits'[k])
  BY <1>1, <1>4 DEF DeclaredInv
<1>6. Fits(tasks, commits') /\ (saved # <<>> => Fits(saved[1], commits'))
  BY <1>1, <1>2, AskedGrows DEF DeclaredInv
<1>. QED
  BY <1>1, <1>3, <1>5, <1>6 DEF DeclaredInv

\* The last commit is one of them.
LEMMA HeadIsThere ==
    ASSUME commits \in Seq(Manifests), commits # <<>>
    PROVE  /\ Len(commits) \in DOMAIN commits
           /\ Last(commits) = commits[Len(commits)] /\ Last(commits) \in Manifests
BY DEF Last

\* A sync gives every deployment of the head what it asks for.
LEMMA SyncKeeps ==
    ASSUME DeclaredAssumption, RawsAssumption, DeclaredInv, Sync
    PROVE  /\ DeclaredInv'
           /\ \A d \in NamesIn(Last(commits)) :
                 Cardinality(Live(tasks', d)) = Wanted(Last(commits))[d].replicas
<1> DEFINE m == Last(commits)
           after == FoldLeft(Reconciled, tasks, m)
<1>1. /\ commits # <<>> /\ tasks' = after /\ commits' = commits /\ applied' = applied
      /\ saved' = saved
  BY DEF Sync
<1>2. /\ commits \in Seq(Manifests) /\ Len(commits) \in DOMAIN commits
      /\ m = commits[Len(commits)] /\ m \in Manifests
  BY <1>1, HeadIsThere DEF DeclaredInv
<1>3. /\ tasks \in [Deploys -> Row]
      /\ \A d \in Deploys : Cardinality(Ended(tasks[d])) <= MaxDone
  BY DEF DeclaredInv, Fits
<1>4. /\ after \in [Deploys -> Row]
      /\ \A d \in Deploys : Ended(after[d]) = Ended(tasks[d])
      /\ \A d \in Deploys \ NamesIn(m) : after[d] = tasks[d]
      /\ \A d \in NamesIn(m) : Cardinality(Up(after[d])) = Wanted(m)[d].replicas
  <2>. HIDE DEF m
  <2>. QED
    BY <1>2, <1>3, SyncGives
<1>. HIDE DEF m, after
<1>5. ASSUME NEW d \in Deploys
      PROVE  /\ Cardinality(Ended(after[d])) <= MaxDone
             /\ \E r \in Asked(commits, d) : Cardinality(Up(after[d])) <= r
  <2>1. CASE d \in NamesIn(m)
    <3>1. /\ Wanted(m)[d].replicas \in Asked(commits, d)
          /\ Wanted(m)[d].replicas \in Nat
      BY <1>2, <2>1, EntryIsAsked DEF Good
    <3>2. Cardinality(Up(after[d])) <= Wanted(m)[d].replicas
      BY <1>4, <2>1, <3>1
    <3>. QED
      BY <1>3, <1>4, <3>1, <3>2
  <2>2. CASE d \notin NamesIn(m)
    BY <1>4, <2>2 DEF DeclaredInv, Fits
  <2>. QED
    BY <2>1, <2>2
<1>6. Fits(after, commits)
  BY <1>4, <1>5 DEF Fits
<1>7. DeclaredInv'
  BY <1>1, <1>6 DEF DeclaredInv
<1>8. \A d : Live(tasks', d) = Up(after[d])
  BY <1>1 DEF Live, Up
<1>. QED
  BY <1>4, <1>7, <1>8 DEF m

\* What an apply leaves was asked for.
LEMMA ApplyKeeps ==
    ASSUME DeclaredAssumption, RawsAssumption, DeclaredInv, NEW k \in DOMAIN commits,
           ApplyManifest(commits[k])
    PROVE  DeclaredInv'
<1> DEFINE m == commits[k]
           emptied == [d \in PlanOf(m).delete |-> [applied[d] EXCEPT !.replicas = 0]]
           between == Imposed(tasks, emptied)
           after == Imposed(between, Wanted(m))
<1>1. /\ tasks' = after /\ applied' = Wanted(m) /\ commits' = commits /\ saved' = saved
  BY DEF ApplyManifest
<1>2. commits \in Seq(Manifests) /\ m \in Manifests /\ Fits(tasks, commits)
  BY DEF DeclaredInv
<1>3. ASSUME NEW d \in DOMAIN emptied
      PROVE  /\ emptied[d].replicas = 0 /\ emptied[d].cpu \in Nat \ {0}
             /\ 0 \in Asked(commits, d)
  <2>1. d \in DOMAIN applied
    BY DEF PlanOf
  <2>2. Whole(applied[d]) /\ applied[d].cpu \in Nat \ {0}
    BY <2>1, AppliedIsGood DEF Good
  <2>3. 0 \in Asked(commits, d)
    BY DEF Asked
  <2>4. emptied[d] = [applied[d] EXCEPT !.replicas = 0]
    OBVIOUS
  <2>. HIDE DEF emptied
  <2>. QED
    BY <2>2, <2>3, <2>4 DEF Whole
<1>4. Fits(between, commits)
  <2>1. Fits(tasks, commits) /\ DeclaredAssumption
    BY <1>2
  <2>2. \A d \in DOMAIN emptied :
           /\ emptied[d].replicas \in Nat /\ emptied[d].cpu \in Nat \ {0}
           /\ emptied[d].replicas \in Asked(commits, d)
    <3>. HIDE DEF emptied, m
    <3>. QED
      BY <1>3
  <2>. HIDE DEF emptied, m
  <2>. QED
    BY ONLY <2>1, <2>2, ImposedFits DEF between
<1>5. DOMAIN Wanted(m) = NamesIn(m)
  BY <1>2, WantedIsThere
<1>6. \A d \in DOMAIN Wanted(m) : /\ Wanted(m)[d].replicas \in Nat
                                  /\ Wanted(m)[d].cpu \in Nat \ {0}
                                  /\ Wanted(m)[d].replicas \in Asked(commits, d)
  BY <1>2, <1>5, EntryIsAsked DEF Good
<1>. HIDE DEF m, between
<1>7. Fits(after, commits)
  BY <1>4, <1>6, ImposedFits
<1>. HIDE DEF after
<1>. QED
  BY <1>1, <1>7 DEF DeclaredInv, m

\* Drift is put right, except where it is paused.
LEMMA CorrectionKeeps ==
    ASSUME DeclaredAssumption, RawsAssumption, DeclaredInv, CorrectDrift
    PROVE  /\ DeclaredInv'
           /\ \A d \in DOMAIN applied :
                 IF d \in pausedDrift THEN tasks'[d] = tasks[d]
                 ELSE Cardinality(Live(tasks', d)) = applied[d].replicas
<1> DEFINE corrected == Drifted(tasks) \ pausedDrift
           specs == [d \in corrected |-> applied[d]]
           after == Imposed(tasks, specs)
<1>1. tasks' = after /\ applied' = applied /\ commits' = commits /\ saved' = saved
  BY DEF CorrectDrift
<1>2. corrected \subseteq DOMAIN applied /\ DOMAIN specs = corrected
  BY DEF Drifted
<1>3. \A d \in DOMAIN specs : /\ specs[d].replicas \in Nat /\ specs[d].cpu \in Nat \ {0}
                              /\ specs[d].replicas \in Asked(commits, d)
  BY <1>2, AppliedIsGood DEF Good
<1>4. Fits(tasks, commits)
  BY DEF DeclaredInv
<1>5. /\ Fits(after, commits)
      /\ \A d \in Deploys \cap DOMAIN specs :
            specs[d].replicas + MaxDone <= Cardinality(Ordinals)
               => Cardinality(Up(after[d])) = specs[d].replicas
      /\ \A d \in Deploys \ DOMAIN specs : after[d] = tasks[d]
  <2>. HIDE DEF specs
  <2>. QED
    BY <1>3, <1>4, ImposedFits
<1>. HIDE DEF after
<1>6. ASSUME NEW d \in DOMAIN applied
      PROVE  IF d \in pausedDrift THEN tasks'[d] = tasks[d]
             ELSE Cardinality(Live(tasks', d)) = applied[d].replicas
  <2>1. d \in Deploys /\ Good(applied[d])
    BY AppliedIsGood
  <2>2. CASE d \in corrected
    BY <1>1, <1>2, <1>5, <2>1, <2>2 DEF Live, Up, Good
  <2>3. CASE d \notin corrected
    <3>1. tasks'[d] = tasks[d]
      BY <1>1, <1>2, <1>5, <2>1, <2>3
    <3>2. d \notin pausedDrift => Cardinality(Live(tasks, d)) = applied[d].replicas
      BY <2>3 DEF Drifted, Children
    <3>3. Live(tasks', d) = Live(tasks, d)
      BY <3>1 DEF Live
    <3>. QED
      BY <3>1, <3>2, <3>3
  <2>. QED
    BY <2>2, <2>3
<1>7. DeclaredInv'
  BY <1>1, <1>5 DEF DeclaredInv
<1>. QED
  BY <1>6, <1>7

\* The finished tasks of one deployment are no more than those of all.
LEMMA EndedAreKept ==
    ASSUME DeclaredAssumption, NEW ts, NEW d \in Deploys
    PROVE  LET ended == {c \in Deploys \X Ordinals : ts[c[1]][c[2]] = Done}
           IN /\ Cardinality(ended) \in Nat
              /\ Cardinality(Ended(ts[d])) <= Cardinality(ended)
<1> DEFINE ended == {c \in Deploys \X Ordinals : ts[c[1]][c[2]] = Done}
           f == [o \in Ended(ts[d]) |-> <<d, o>>]
<1>1. IsFiniteSet(Deploys \X Ordinals)
  BY FS_Product DEF DeclaredAssumption
<1>2. IsFiniteSet(ended) /\ Cardinality(ended) \in Nat
  <2>1. ended \subseteq Deploys \X Ordinals
    OBVIOUS
  <2>. HIDE DEF ended
  <2>. QED
    BY <1>1, <2>1, FS_Subset, FS_CardinalityType
<1>3. f \in Injection(Ended(ts[d]), ended)
  <2>1. \A o \in Ended(ts[d]) : <<d, o>> \in ended
    BY DEF Ended
  <2>2. f \in [Ended(ts[d]) -> ended]
    BY <2>1
  <2>3. \A a, b \in Ended(ts[d]) : f[a] = f[b] => a = b
    OBVIOUS
  <2>. HIDE DEF f, ended
  <2>. QED
    BY <2>2, <2>3 DEF Injection, IsInjective
<1>. HIDE DEF f, ended
<1>4. Cardinality(Ended(ts[d])) <= Cardinality(ended)
  BY <1>2, <1>3, FS_Injection
<1>. QED
  BY <1>2, <1>4 DEF ended

\* A task that goes leaves fewer live ones.
LEMMA TaskGoesKeeps ==
    ASSUME DeclaredAssumption, RawsAssumption, DeclaredInv, NEW d \in Deploys,
           NEW o \in Ordinals, NEW left \in {Absent, Done}, TaskGoes(d, o, left)
    PROVE  DeclaredInv'
<1> DEFINE row == tasks[d]
           after == [row EXCEPT ![o] = left]
<1>1. /\ tasks' = [tasks EXCEPT ![d] = after] /\ row[o] > 0
      /\ commits' = commits /\ applied' = applied /\ saved' = saved
  BY DEF TaskGoes
<1>2. tasks \in [Deploys -> Row] /\ row \in Row /\ Fits(tasks, commits)
  BY DEF DeclaredInv, Fits
<1>3. after \in Row /\ ~(left > 0)
  BY <1>2 DEF Row, Absent, Done
<1>4. Up(after) \subseteq Up(row)
  <2>1. \A p \in Ordinals : after[p] = IF p = o THEN left ELSE row[p]
    BY <1>2 DEF Row
  <2>. HIDE DEF after
  <2>. QED
    BY <1>3, <2>1 DEF Up
<1>5. Cardinality(Up(after)) <= Cardinality(Up(row))
  BY <1>4, RowsAreFinite, FS_Subset
<1>6. Cardinality(Ended(after)) <= MaxDone
  <2>0. \A p \in Ordinals : after[p] = IF p = o THEN left ELSE row[p]
    BY <1>2 DEF Row
  <2>. HIDE DEF after
  <2>1. CASE left = Done
    <3>1. Ended(after) = Ended(row) \cup {o}
      BY <2>0, <2>1 DEF Ended
    <3>2. Cardinality(Ended(row)) < MaxDone /\ MaxDone \in Nat
      <4>1. Cardinality({c \in Deploys \X Ordinals : tasks[c[1]][c[2]] = Done}) < MaxDone
        BY <2>1 DEF TaskGoes
      <4>2. MaxDone \in Nat /\ Cardinality(Ended(row)) \in Nat
        BY RowsAreFinite DEF DeclaredAssumption
      <4>3. LET ended == {c \in Deploys \X Ordinals : tasks[c[1]][c[2]] = Done}
            IN Cardinality(ended) \in Nat /\ Cardinality(Ended(row)) <= Cardinality(ended)
        BY EndedAreKept
      <4>. QED
        BY <4>1, <4>2, <4>3
    <3>3. Cardinality(Ended(after)) <= Cardinality(Ended(row)) + 1
      <4>1. IsFiniteSet(Ended(row)) /\ Cardinality(Ended(row)) \in Nat
        BY RowsAreFinite
      <4>. DEFINE e == Ended(row)
      <4>. HIDE DEF e
      <4>2. Cardinality(e \cup {o}) <= Cardinality(e) + 1
        <5>1. IsFiniteSet(e) /\ Cardinality(e) \in Nat
          BY <4>1 DEF e
        <5>2. Cardinality(e \cup {o}) = IF o \in e THEN Cardinality(e) ELSE Cardinality(e) + 1
          BY <5>1, FS_AddElement, Zenon
        <5>. QED
          BY <5>1, <5>2
      <4>3. Cardinality(Ended(after)) = Cardinality(e \cup {o})
        BY <3>1, Zenon DEF e
      <4>. QED
        BY <4>2, <4>3 DEF e
    <3>. HIDE DEF row
    <3>. QED
      BY <3>2, <3>3, RowsAreFinite
  <2>2. CASE left # Done
    <3>1. Ended(after) \subseteq Ended(row)
      BY <2>0, <2>2 DEF Ended
    <3>2. Cardinality(Ended(row)) <= MaxDone /\ MaxDone \in Nat
      BY <1>2 DEF Fits, DeclaredAssumption
    <3>. HIDE DEF row
    <3>. QED
      BY <3>1, <3>2, RowsAreFinite, FS_Subset
  <2>. QED
    BY <2>1, <2>2
<1>. HIDE DEF after
<1>7. tasks' \in [Deploys -> Row] /\ tasks'[d] = after
      /\ \A c \in Deploys \ {d} : tasks'[c] = tasks[c]
  BY <1>1, <1>2, <1>3
<1>8. ASSUME NEW c \in Deploys
      PROVE  /\ Cardinality(Ended(tasks'[c])) <= MaxDone
             /\ \E r \in Asked(commits, c) : Cardinality(Up(tasks'[c])) <= r
  <2>1. CASE c = d
    <3>1. PICK r \in Asked(commits, d) : Cardinality(Up(row)) <= r
      BY <1>2 DEF Fits
    <3>2. r \in Nat
      BY <3>1, AskedAreNumbers DEF DeclaredInv
    <3>3. Cardinality(Up(after)) \in Nat /\ Cardinality(Up(row)) \in Nat
      BY RowsAreFinite
    <3>4. Cardinality(Up(after)) <= r
      <4>. HIDE DEF row
      <4>. QED
        BY <1>5, <3>1, <3>2, <3>3
    <3>. QED
      BY <1>6, <1>7, <2>1, <3>1, <3>4
  <2>2. CASE c # d
    BY <1>2, <1>7, <2>2 DEF Fits
  <2>. QED
    BY <2>1, <2>2
<1>9. Fits(tasks', commits)
  BY <1>7, <1>8 DEF Fits
<1>. QED
  BY <1>1, <1>9 DEF DeclaredInv

\* Whoever acts, what is there was asked for.
LEMMA DeclaredKeeps ==
    ASSUME DeclaredAssumption, RawsAssumption, DeclaredInv, DeclaredNext
    PROVE  DeclaredInv'
<1>1. CASE \E raw \in Raws : Commit(raw)
  BY <1>1, CommitKeeps
<1>2. CASE Sync
  BY <1>2, SyncKeeps
<1>3. CASE CorrectDrift
  BY <1>3, CorrectionKeeps
<1>4. CASE TakeSnapshot
  <2>1. /\ saved' = <<tasks>> /\ commits' = commits /\ applied' = applied /\ tasks' = tasks
    BY <1>4 DEF TakeSnapshot
  <2>2. saved'[1] = tasks
    BY <2>1
  <2>. QED
    BY <2>1, <2>2 DEF DeclaredInv
<1>5. CASE RestoreSnapshot
  BY <1>5 DEF RestoreSnapshot, DeclaredInv
<1>6. CASE \E i \in DOMAIN commits : ApplyManifest(commits[i])
  BY <1>6, ApplyKeeps
<1>7. CASE \E d \in DOMAIN applied : PauseDeploy(d)
  BY <1>7 DEF PauseDeploy, DeclaredInv
<1>8. CASE \E d \in pausedDrift : ResumeDeploy(d)
  BY <1>8 DEF ResumeDeploy, DeclaredInv
<1>9. CASE \E d \in Deploys, o \in Ordinals, left \in {Absent, Done} : TaskGoes(d, o, left)
  <2>1. PICK d \in Deploys : \E o \in Ordinals, left \in {Absent, Done} : TaskGoes(d, o, left)
    BY <1>9
  <2>2. PICK o \in Ordinals : \E left \in {Absent, Done} : TaskGoes(d, o, left)
    BY <2>1
  <2>. QED
    BY <2>2, TaskGoesKeeps
<1>. QED
  BY <1>1, <1>2, <1>3, <1>4, <1>5, <1>6, <1>7, <1>8, <1>9 DEF DeclaredNext

\* No more is there than somebody committed.
LEMMA LiveWasAsked ==
    ASSUME DeclaredAssumption, RawsAssumption, DeclaredInv
    PROVE  LiveIsDeclared
<1>1. commits \in Seq(Manifests)
  BY DEF DeclaredInv
<1>2. ASSUME NEW d \in Deploys
      PROVE  Cardinality(Live(tasks, d)) <= Max(Asked(commits, d))
  <2> DEFINE A == Asked(commits, d)
  <2>1. Cardinality(Ordinals) \in Nat
    BY RowsAreFinite
  <2>2. 0 \in A
    BY DEF Asked
  <2>3. \A r \in A : r \in 0..Cardinality(Ordinals)
    BY <1>1, <2>1, AskedAreNumbers
  <2>4. PICK r \in A : Cardinality(Up(tasks[d])) <= r
    BY DEF DeclaredInv, Fits
  <2>5. Live(tasks, d) = Up(tasks[d]) /\ Cardinality(Up(tasks[d])) \in Nat
    BY RowsAreFinite DEF Live, Up
  <2>. HIDE DEF A
  <2>6. IsFiniteSet(A) /\ A \subseteq Int /\ A # {}
    <3>1. A \subseteq 0..Cardinality(Ordinals)
      BY <2>3
    <3>2. IsFiniteSet(0..Cardinality(Ordinals))
      BY ONLY <2>1, Numbers
    <3>3. IsFiniteSet(A)
      BY <3>1, <3>2, FS_Subset
    <3>4. 0..Cardinality(Ordinals) \subseteq Int
      BY <2>1
    <3>. QED
      BY <2>2, <3>1, <3>3, <3>4
  <2>7. Max(A) \in A /\ r <= Max(A)
    BY <2>6, MaxIsThere
  <2>8. r \in Int /\ Max(A) \in Int
    BY <2>6, <2>7
  <2>9. Cardinality(Live(tasks, d)) <= Max(A)
    BY <2>4, <2>5, <2>7, <2>8
  <2>. QED
    BY <2>9 DEF A
<1>. QED
  BY <1>2, Zenon DEF LiveIsDeclared, Asked

\* The diff is silent about equal labels, and only about those.
LEMMA LabelsDiffer ==
    ASSUME NEW x, NEW y
    PROVE  LabelDiff(x, y) = {} <=> x = y
<1>1. CASE x = y
  BY <1>1 DEF LabelDiff
<1>2. CASE x # y /\ y = NoLabel
  BY <1>2 DEF LabelDiff
<1>3. CASE x # y /\ x = NoLabel
  BY <1>3 DEF LabelDiff
<1>4. CASE x # y /\ x # NoLabel /\ y # NoLabel
  BY <1>4 DEF LabelDiff
<1>. QED
  BY <1>1, <1>2, <1>3, <1>4

\* Two entries differ exactly when the diff says in what.
LEMMA PlanIsTrue ==
    ASSUME DeclaredAssumption, RawsAssumption, DeclaredInv
    PROVE  PlanTellsDifference
<1>. SUFFICES ASSUME NEW m \in Range(commits), NEW d \in DOMAIN Wanted(m) \cap DOMAIN applied
              PROVE  d \in PlanOf(m).change <=> SpecDiff(applied[d], Wanted(m)[d]) # {}
  BY DEF PlanTellsDifference
<1>1. PICK k \in DOMAIN commits : m = commits[k]
  BY DEF Range
<1>2. commits \in Seq(Manifests) /\ m \in Manifests
  BY <1>1 DEF DeclaredInv
<1>3. d \in NamesIn(m)
  BY <1>2, WantedIsThere
<1> DEFINE a == applied[d]
           b == Wanted(m)[d]
<1>4. Whole(a) /\ a.name = d
  BY AppliedIsGood DEF Good
<1>5. Whole(b) /\ b.name = d
  BY <1>1, <1>2, <1>3, EntryIsAsked DEF Good
<1>6. d \in PlanOf(m).change <=> a # b
  BY DEF PlanOf
<1>. HIDE DEF a, b
<1>7. a = b <=> a.replicas = b.replicas /\ a.cpu = b.cpu /\ a.label = b.label
  BY <1>4, <1>5 DEF Whole
<1>8. LabelDiff(a.label, b.label) = {} <=> a.label = b.label
  BY LabelsDiffer
<1>9. {f \in {"replicas", "cpu"} : a[f] # b[f]} = {}
         <=> a.replicas = b.replicas /\ a.cpu = b.cpu
  OBVIOUS
<1>10. SpecDiff(a, b) = {} <=> a = b
  BY <1>7, <1>8, <1>9, Zenon DEF SpecDiff
<1>. QED
  BY <1>6, <1>10 DEF a, b

-----------------------------------------------------------------------------
(* The asset ledger.                                                       *)

MetalInv == metal \in [DOMAIN Ledger -> Sizes]

\* The metal begins as the ledger says.
LEMMA MetalBegins ==
    ASSUME DeclaredAssumption, MetalInit
    PROVE  MetalInv
BY DEF DeclaredAssumption, MetalInit, MetalInv

\* It changes by one asset.
LEMMA MetalKeeps ==
    ASSUME MetalInv, NEW a \in DOMAIN Ledger, NEW s \in Sizes, MetalChanges(a, s)
    PROVE  MetalInv'
BY DEF MetalInv, MetalChanges

\* Every line is matched, dark or swapped, and every asset matched, a ghost or swapped.
LEMMA LedgerIsTold ==
    ASSUME DeclaredAssumption, MetalInv
    PROVE  LedgerAddsUp
<1> DEFINE A == DOMAIN Ledger
           there == {a \in A : metal[a] # 0}
           billed == {a \in A : Ledger[a] # 0}
           dark == billed \ there
           ghosts == there \ billed
           swapped == {a \in billed \cap there : metal[a] # Ledger[a]}
           matched == {a \in billed \cap there : metal[a] = Ledger[a]}
<1>1. IsFiniteSet(A) /\ DOMAIN metal = A
  BY DEF MetalInv, DeclaredAssumption
<1>2. /\ Reconciliation.dark = dark /\ Reconciliation.ghosts = ghosts
      /\ Reconciliation.swapped = swapped /\ Reconciliation.matched = Cardinality(matched)
  <2>1. /\ {a \in DOMAIN metal : metal[a] # 0} = there
        /\ {a \in DOMAIN Ledger : Ledger[a] # 0} = billed
    BY <1>1
  <2>. HIDE DEF there, billed
  <2>2. Reconciliation = [dark |-> dark, ghosts |-> ghosts, swapped |-> swapped,
                          matched |-> Cardinality(matched)]
    BY <2>1, Zenon DEF Reconciliation
  <2>. HIDE DEF dark, ghosts, swapped, matched
  <2>. QED
    BY <2>2
<1>3. /\ matched \subseteq A /\ dark \subseteq A /\ swapped \subseteq A /\ ghosts \subseteq A
      /\ matched \cap dark = {} /\ (matched \cup dark) \cap swapped = {}
      /\ matched \cap ghosts = {} /\ (matched \cup ghosts) \cap swapped = {}
      /\ (matched \cup dark) \cup swapped = billed
      /\ (matched \cup ghosts) \cup swapped = there
  OBVIOUS
<1>4. dark = {} /\ ghosts = {} /\ swapped = {} <=> metal = Ledger
  <2>1. dark = {} /\ ghosts = {} /\ swapped = {} <=> \A a \in A : metal[a] = Ledger[a]
    OBVIOUS
  <2>2. metal \in [A -> Sizes] /\ Ledger \in [A -> Sizes]
    BY DEF MetalInv, DeclaredAssumption
  <2>. HIDE DEF A, dark, ghosts, swapped
  <2>. QED
    BY <2>1, <2>2
<1>. HIDE DEF matched, dark, swapped, ghosts, A
<1>5. /\ IsFiniteSet(matched) /\ IsFiniteSet(dark) /\ IsFiniteSet(swapped) /\ IsFiniteSet(ghosts)
      /\ Cardinality(matched) \in Nat /\ Cardinality(dark) \in Nat
      /\ Cardinality(swapped) \in Nat /\ Cardinality(ghosts) \in Nat
  BY <1>1, <1>3, FS_Subset, FS_CardinalityType
<1>. HIDE DEF billed, there
<1>6. Cardinality(matched) + Cardinality(dark) + Cardinality(swapped) = Cardinality(billed)
  <2>1. /\ IsFiniteSet(matched \cup dark)
        /\ Cardinality(matched \cup dark) = Cardinality(matched) + Cardinality(dark)
    BY <1>3, <1>5, SeparateAdd
  <2>2. Cardinality((matched \cup dark) \cup swapped) =
           Cardinality(matched \cup dark) + Cardinality(swapped)
    BY <1>3, <1>5, <2>1, SeparateAdd
  <2>. QED
    BY <1>3, <2>1, <2>2
<1>7. Cardinality(matched) + Cardinality(ghosts) + Cardinality(swapped) = Cardinality(there)
  <2>1. /\ IsFiniteSet(matched \cup ghosts)
        /\ Cardinality(matched \cup ghosts) = Cardinality(matched) + Cardinality(ghosts)
    BY <1>3, <1>5, SeparateAdd
  <2>2. Cardinality((matched \cup ghosts) \cup swapped) =
           Cardinality(matched \cup ghosts) + Cardinality(swapped)
    BY <1>3, <1>5, <2>1, SeparateAdd
  <2>. QED
    BY <1>3, <2>1, <2>2
<1>8. billed = {a \in DOMAIN Ledger : Ledger[a] # 0} /\ there = {a \in DOMAIN metal : metal[a] # 0}
  BY <1>1 DEF billed, there, A
<1>. QED
  BY <1>2, <1>4, <1>6, <1>7, <1>8, Zenon DEF LedgerAddsUp

-----------------------------------------------------------------------------
(* What changed since a cursor.                                            *)

Verbs == {"added", "updated", "removed"}

\* ThereAfter in the log of any state.
There(events, n, k) ==
    \E i \in 1..k : /\ events[i].name = n /\ events[i].verb # "removed"
                    /\ \A j \in (i + 1)..k : events[j].name = n => events[j].verb # "removed"

InTurn(events) ==
    /\ events \in Seq([name : LogNames, verb : Verbs])
    /\ \A k \in DOMAIN events :
          events[k].verb = "added" <=> ~There(events, events[k].name, k - 1)

LogInv == InTurn(log)

\* Only the events up to k tell what is there after k.
LEMMA ThereIsPast ==
    ASSUME NEW e, NEW f, NEW n, NEW k \in Nat, \A i \in 1..k : e[i] = f[i]
    PROVE  There(e, n, k) = There(f, n, k)
<1> DEFINE Is(g, i) == /\ g[i].name = n /\ g[i].verb # "removed"
                       /\ \A j \in (i + 1)..k : g[j].name = n => g[j].verb # "removed"
<1>1. ASSUME NEW i \in 1..k PROVE Is(e, i) <=> Is(f, i)
  <2>1. \A j \in (i + 1)..k : j \in 1..k
    OBVIOUS
  <2>. QED
    BY <2>1
<1>2. There(e, n, k) <=> \E i \in 1..k : Is(e, i)
  BY Zenon DEF There
<1>3. There(f, n, k) <=> \E i \in 1..k : Is(f, i)
  BY Zenon DEF There
<1>4. There(e, n, k) \in BOOLEAN /\ There(f, n, k) \in BOOLEAN
  BY Zenon DEF There
<1>. HIDE DEF Is
<1>5. There(e, n, k) <=> There(f, n, k)
  BY <1>1, <1>2, <1>3
<1>. QED
  BY <1>4, <1>5

\* The last event of a name decides.
LEMMA LastDecides ==
    ASSUME NEW e, NEW n, NEW k \in Nat \ {0}
    PROVE  /\ There(e, n, k) \in BOOLEAN
           /\ e[k].name = n => (There(e, n, k) <=> e[k].verb # "removed")
           /\ e[k].name # n => (There(e, n, k) <=> There(e, n, k - 1))
<1>1. CASE e[k].name = n
  <2>1. ASSUME e[k].verb # "removed" PROVE There(e, n, k)
    <3>1. \A j \in (k + 1)..k : FALSE
      OBVIOUS
    <3>. QED
      BY <1>1, <2>1, <3>1 DEF There
  <2>2. ASSUME e[k].verb = "removed" PROVE ~There(e, n, k)
    <3>1. \A i \in 1..(k - 1) : k \in (i + 1)..k
      OBVIOUS
    <3>2. 1..k = 1..(k - 1) \cup {k}
      OBVIOUS
    <3>. QED
      BY <1>1, <2>2, <3>1, <3>2 DEF There
  <2>. QED
    BY <1>1, <2>1, <2>2, Zenon DEF There
<1>2. CASE e[k].name # n
  <2>1. ASSUME There(e, n, k) PROVE There(e, n, k - 1)
    <3>1. PICK i \in 1..k :
             /\ e[i].name = n /\ e[i].verb # "removed"
             /\ \A j \in (i + 1)..k : e[j].name = n => e[j].verb # "removed"
      BY <2>1 DEF There
    <3>2. i \in 1..(k - 1) /\ \A j \in (i + 1)..(k - 1) : j \in (i + 1)..k
      BY <1>2, <3>1
    <3>. QED
      BY <3>1, <3>2 DEF There
  <2>2. ASSUME There(e, n, k - 1) PROVE There(e, n, k)
    <3>1. PICK i \in 1..(k - 1) :
             /\ e[i].name = n /\ e[i].verb # "removed"
             /\ \A j \in (i + 1)..(k - 1) : e[j].name = n => e[j].verb # "removed"
      BY <2>2 DEF There
    <3>2. i \in 1..k /\ \A j \in (i + 1)..k : j = k \/ j \in (i + 1)..(k - 1)
      OBVIOUS
    <3>. QED
      BY <1>2, <3>1, <3>2 DEF There
  <2>. QED
    BY <1>2, <2>1, <2>2, Zenon DEF There
<1>. QED
  BY <1>1, <1>2

\* An empty log is in turn.
LEMMA LogBegins ==
    ASSUME LogInit
    PROVE  LogInv
BY DEF LogInit, LogInv, InTurn

\* An event is what it may be after those before it.
LEMMA LogKeeps ==
    ASSUME LogInv, NEW n \in LogNames, NEW v \in Verbs, WriteEvent(n, v)
    PROVE  LogInv'
<1> DEFINE e == [name |-> n, verb |-> v]
           more == Append(log, e)
<1>1. log \in Seq([name : LogNames, verb : Verbs]) /\ log' = more
  BY DEF LogInv, InTurn, WriteEvent
<1>2. /\ more \in Seq([name : LogNames, verb : Verbs]) /\ Len(log) \in Nat
      /\ DOMAIN log = 1..Len(log)
      /\ DOMAIN more = 1..(Len(log) + 1) /\ more[Len(log) + 1] = e
      /\ \A k \in 1..Len(log) : more[k] = log[k]
  BY <1>1
<1>. HIDE DEF more
<1>3. ASSUME NEW k \in DOMAIN more
      PROVE  more[k].verb = "added" <=> ~There(more, more[k].name, k - 1)
  <2>1. k - 1 \in Nat /\ \A i \in 1..(k - 1) : more[i] = log[i]
    BY <1>2
  <2>2. There(more, more[k].name, k - 1) = There(log, more[k].name, k - 1)
    BY <2>1, ThereIsPast
  <2>3. CASE k \in 1..Len(log)
    BY <1>2, <2>2, <2>3 DEF LogInv, InTurn
  <2>4. CASE k = Len(log) + 1
    <3>1. more[k].verb = v /\ more[k].name = n /\ k - 1 = Len(log)
      BY <1>2, <2>4
    <3>2. v = "added" <=> ~ThereAfter(n, Len(log))
      BY DEF WriteEvent
    <3>3. ThereAfter(n, Len(log)) = There(log, n, Len(log))
      BY Zenon DEF ThereAfter, There
    <3>. QED
      BY <2>2, <3>1, <3>2, <3>3
  <2>. QED
    BY <1>2, <2>3, <2>4
<1>4. InTurn(more)
  BY <1>2, <1>3 DEF InTurn
<1>. QED
  BY <1>1, <1>4 DEF LogInv

\* What is reported of a window was so: event by event, what has been written of a
\* name tells what it was and what it is.
LEMMA WindowIsTrue ==
    ASSUME LogInv
    PROVE  WindowTellsTruth
<1>. SUFFICES ASSUME NEW since \in 0..Len(log), NEW n \in LogNames
     PROVE LET net == Net(VerbsSince(n, since))
               was == ThereAfter(n, since)
               is == ThereAfter(n, Len(log))
           IN /\ net = "created" => ~was /\ is
              /\ net = "deleted" => was /\ ~is
              /\ net \in {"updated", "untouched"} => was = is
  BY DEF WindowTellsTruth
<1> DEFINE T(k) == There(log, n, since + k)
           Has(v, k) == \E j \in 1..k : log[since + j].name = n /\ log[since + j].verb = v
           Told(k) ==
              /\ Has("added", k) /\ ~Has("removed", k) => ~T(0) /\ T(k)
              /\ Has("removed", k) /\ ~Has("added", k) => T(0) /\ ~T(k)
              /\ ~Has("removed", k) /\ ~Has("added", k) => (T(k) <=> T(0))
           m == Len(log) - since
           G == {k \in 0..m : Told(k)}
<1>1. /\ since \in Nat /\ m \in Nat /\ Len(log) = since + m /\ since + 0 = since
      /\ DOMAIN log = 1..Len(log)
      /\ \A k \in DOMAIN log :
            /\ log[k].verb \in Verbs
            /\ log[k].verb = "added" <=> ~There(log, log[k].name, k - 1)
  <2>1. log \in Seq([name : LogNames, verb : Verbs])
    BY DEF LogInv, InTurn
  <2>2. /\ Len(log) \in Nat /\ DOMAIN log = 1..Len(log)
        /\ \A k \in DOMAIN log : log[k] \in [name : LogNames, verb : Verbs]
    <3> DEFINE E == [name : LogNames, verb : Verbs]
    <3>1. log \in Seq(E)
      BY <2>1
    <3>. HIDE DEF E, m
    <3>2. Len(log) \in Nat /\ DOMAIN log = 1..Len(log) /\ \A k \in DOMAIN log : log[k] \in E
      BY <3>1
    <3>. QED
      BY <3>2 DEF E
  <2>3. \A k \in DOMAIN log : log[k].verb = "added" <=> ~There(log, log[k].name, k - 1)
    BY DEF LogInv, InTurn
  <2>4. since \in Nat /\ m \in Nat /\ Len(log) = since + m /\ since + 0 = since
    BY <2>2
  <2>. HIDE DEF m
  <2>. QED
    BY <2>2, <2>3, <2>4
<1>2. 0 \in G
  BY <1>1
<1>3. ASSUME NEW k \in 1..m, k - 1 \in G PROVE k \in G
  <2> DEFINE p == since + k
             mine == log[p].name = n
             v == log[p].verb
  <2>1. k - 1 \in 0..m /\ k \in 0..m /\ Told(k - 1)
    BY <1>1, <1>3
  <2>2. p \in Nat \ {0} /\ p - 1 = since + (k - 1) /\ p \in DOMAIN log
    BY <1>1
  <2>3. /\ mine => (T(k) <=> v # "removed")
        /\ ~mine => (T(k) <=> T(k - 1))
    BY <2>2, LastDecides
  <2>4. v \in Verbs /\ (mine => (v = "added" <=> ~T(k - 1)))
    BY <1>1, <2>2
  <2>5. ASSUME NEW w PROVE Has(w, k) <=> Has(w, k - 1) \/ (mine /\ v = w)
    <3>1. 1..k = 1..(k - 1) \cup {k}
      BY <1>1
    <3>. QED
      BY <3>1
  <2>. HIDE DEF T, Has, mine, v, p
  <2>6. Told(k)
    BY <2>1, <2>3, <2>4, <2>5 DEF Verbs
  <2>. QED
    BY <2>1, <2>6
<1>4. Told(m)
  <2>1. 0..m \subseteq G
    <3>. HIDE DEF G, m
    <3>. QED
      BY <1>1, <1>2, <1>3, UpTo
  <2>2. m \in 0..m
    BY <1>1
  <2>. HIDE DEF Told, m
  <2>. QED
    BY <2>1, <2>2
<1>5. ASSUME NEW v PROVE v \in VerbsSince(n, since) <=> Has(v, m)
  <2>1. ASSUME NEW j \in 1..m PROVE since + j \in (since + 1)..Len(log)
    BY <1>1
  <2>2. ASSUME NEW i \in (since + 1)..Len(log) PROVE i - since \in 1..m /\ since + (i - since) = i
    BY <1>1
  <2>. QED
    BY <2>1, <2>2 DEF VerbsSince
<1>6. ThereAfter(n, since) <=> T(0)
  BY <1>1, Zenon DEF ThereAfter, There
<1>7. ThereAfter(n, Len(log)) <=> T(m)
  BY <1>1, Zenon DEF ThereAfter, There
<1>8. ThereAfter(n, since) \in BOOLEAN /\ ThereAfter(n, Len(log)) \in BOOLEAN
  BY Zenon DEF ThereAfter
<1> DEFINE verbs == VerbsSince(n, since)
<1>. HIDE DEF T, Has, m
<1>9. /\ Net(verbs) = "created" => "added" \in verbs /\ "removed" \notin verbs
      /\ Net(verbs) = "deleted" => "removed" \in verbs /\ "added" \notin verbs
      /\ Net(verbs) \in {"updated", "untouched"} => "added" \notin verbs /\ "removed" \notin verbs
  <2>. HIDE DEF verbs
  <2>. QED
    BY DEF Net
<1>. QED
  BY <1>4, <1>5, <1>6, <1>7, <1>8, <1>9

-----------------------------------------------------------------------------
(* Freeze windows.                                                         *)

CalendarInv == windows \in Seq(Starts \X Ends)

\* The calendar begins empty.
LEMMA CalendarBegins ==
    ASSUME CalendarInit
    PROVE  CalendarInv
BY DEF CalendarInit, CalendarInv

\* One more element of the kind keeps the kind.
LEMMA InsertedFits ==
    ASSUME NEW W, NEW q \in Seq(W), NEW x \in W, NEW c \in 0..Len(q)
    PROVE  SubSeq(q, 1, c) \o <<x>> \o SubSeq(q, c + 1, Len(q)) \in Seq(W)
<1>1. c \in Nat /\ Len(q) \in Nat
  OBVIOUS
<1> DEFINE front == SubSeq(q, 1, c)
           back == SubSeq(q, c + 1, Len(q))
<1>2. front \in Seq(W) /\ back \in Seq(W) /\ <<x>> \in Seq(W)
  BY <1>1
<1>. HIDE DEF front, back
<1>3. (front \o <<x>>) \o back \in Seq(W)
  BY <1>2
<1>. QED
  BY <1>3, Zenon DEF front, back

\* A window is put among the others.
LEMMA CalendarKeeps ==
    ASSUME CalendarInv, NEW s \in Starts, NEW e \in Ends, AddWindow(s, e)
    PROVE  CalendarInv'
<1> DEFINE W == Starts \X Ends
           K == {i \in DOMAIN windows : windows[i][1] <= s}
           c == Cardinality(K)
           w == <<s, e>>
<1>1. windows \in Seq(W) /\ w \in W
  BY DEF CalendarInv
<1>2. Len(windows) \in Nat /\ DOMAIN windows = 1..Len(windows)
  <2>. HIDE DEF W
  <2>. QED
    BY <1>1
<1>3. c \in 0..Len(windows)
  <2>1. IsFiniteSet(1..Len(windows)) /\ Cardinality(1..Len(windows)) = Len(windows)
    BY <1>2, Numbers
  <2>2. K \subseteq 1..Len(windows)
    BY <1>2
  <2>. HIDE DEF K
  <2>3. /\ Cardinality(K) \in Nat
        /\ Cardinality(K) <= Cardinality(1..Len(windows))
    BY <2>1, <2>2, FS_Subset, FS_CardinalityType
  <2>. QED
    BY <1>2, <2>1, <2>3 DEF c
<1>4. windows' = SubSeq(windows, 1, c) \o <<w>> \o SubSeq(windows, c + 1, Len(windows))
  BY Zenon DEF AddWindow
<1>. HIDE DEF c, w, W
<1>5. windows' \in Seq(W)
  BY <1>1, <1>2, <1>3, <1>4, InsertedFits
<1>. QED
  BY <1>5 DEF CalendarInv, W

\* After the last end everything is open.
LEMMA EndOfCalendar ==
    ASSUME DeclaredAssumption, CalendarInv
    PROVE  /\ Len(windows) \in Nat /\ DOMAIN windows = 1..Len(windows)
           /\ \A i \in DOMAIN windows : windows[i][1] \in Nat /\ windows[i][2] \in Nat
           /\ \E last \in Nat : \A i \in DOMAIN windows : windows[i][2] <= last
<1> DEFINE W == Starts \X Ends
           n == Len(windows)
           f == [i \in 1..n |-> windows[i][2]]
           R == {f[i] : i \in 1..n}
<1>1. windows \in Seq(W)
  BY DEF CalendarInv
<1>2. n \in Nat /\ DOMAIN windows = 1..n /\ \A i \in DOMAIN windows : windows[i] \in W
  <2>. HIDE DEF W
  <2>. QED
    BY <1>1
<1>3. \A i \in DOMAIN windows : windows[i][1] \in Nat /\ windows[i][2] \in Nat
  <2>1. \A v \in W : v[1] \in Nat /\ v[2] \in Nat
    BY DEF DeclaredAssumption
  <2>. HIDE DEF W
  <2>. QED
    BY <1>2, <2>1
<1>4. IsFiniteSet(1..n)
  BY <1>2, Numbers
<1>5. f \in Surjection(1..n, R)
  <2>1. f \in [1..n -> R]
    OBVIOUS
  <2>2. \A r \in R : \E i \in 1..n : f[i] = r
    OBVIOUS
  <2>. HIDE DEF f, R
  <2>. QED
    BY <2>1, <2>2 DEF Surjection
<1>6. IsFiniteSet(R)
  <2>. HIDE DEF f, R
  <2>. QED
    BY <1>4, <1>5, FS_Surjection
<1>7. R \subseteq Nat /\ \A i \in 1..n : windows[i][2] \in R
  BY <1>2, <1>3
<1>8. \E last \in Nat : \A i \in DOMAIN windows : windows[i][2] <= last
  <2>1. CASE R = {}
    <3>1. \A i \in DOMAIN windows : FALSE
      <4>. HIDE DEF R
      <4>. QED
        BY <1>2, <1>7, <2>1
    <3>. QED
      BY <3>1
  <2>2. CASE R # {}
    <3>. HIDE DEF R
    <3>1. Max(R) \in R /\ \A r \in R : r <= Max(R)
      BY <1>6, <1>7, <2>2, MaxIsThere
    <3>. QED
      BY <1>2, <1>7, <3>1
  <2>. QED
    BY <2>1, <2>2
<1>. QED
  BY <1>2, <1>3, <1>8

\* An open tick from t on, before which all from t on are covered.
FirstOpen(t, u) ==
    u \in Nat /\ u >= t /\ Covering(u) = {} /\ \A v \in t..(u - 1) : Covering(v) # {}

\* There is one.
LEMMA FirstOpenIsThere ==
    ASSUME DeclaredAssumption, CalendarInv, NEW t \in Nat
    PROVE  \E u : FirstOpen(t, u)
<1>1. PICK last \in Nat : \A i \in DOMAIN windows : windows[i][2] <= last
  BY EndOfCalendar
<1> DEFINE S == {u \in t..(t + last) : Covering(u) = {}}
<1>2. t + last \in S
  <2>1. \A i \in DOMAIN windows : ~(t + last < windows[i][2])
    BY <1>1, EndOfCalendar
  <2>. QED
    BY <1>1, <2>1 DEF Covering, Covers
<1>3. IsFiniteSet(S) /\ S \subseteq Int
  <2>1. IsFiniteSet(t..(t + last)) /\ t..(t + last) \subseteq Int
    BY <1>1, FS_Interval
  <2>2. S \subseteq t..(t + last)
    OBVIOUS
  <2>. HIDE DEF S
  <2>. QED
    BY <2>1, <2>2, FS_Subset
<1> DEFINE u == Min(S)
<1>4. u \in S /\ \A v \in S : u <= v
  <2>. HIDE DEF S
  <2>. QED
    BY <1>2, <1>3, MinIsThere
<1>. HIDE DEF u
<1>5. u \in t..(t + last) /\ Covering(u) = {}
  BY <1>4
<1>6. \A v \in t..(u - 1) : Covering(v) # {}
  BY <1>1, <1>4, <1>5
<1>7. FirstOpen(t, u)
  BY <1>1, <1>5, <1>6 DEF FirstOpen
<1>. QED
  BY <1>7

\* Where a tick is covered, the window that is looked at ends later, and covers all
\* until then.
LEMMA JumpsAhead ==
    ASSUME DeclaredAssumption, CalendarInv, NEW t \in Nat, Covering(t) # {}
    PROVE  LET e == windows[Min(Covering(t))][2]
           IN e \in Nat /\ e > t /\ \A v \in t..(e - 1) : Covering(v) # {}
<1> DEFINE C == Covering(t)
           i == Min(C)
<1>1. IsFiniteSet(C) /\ C \subseteq Int
  <2>1. C \subseteq 1..Len(windows) /\ Len(windows) \in Nat
    BY EndOfCalendar DEF Covering
  <2>. HIDE DEF C
  <2>. QED
    BY <2>1, Numbers, FS_Subset
<1>2. i \in C
  <2>. HIDE DEF C
  <2>. QED
    BY <1>1, MinIsThere DEF C
<1>3. i \in DOMAIN windows /\ windows[i][1] <= t /\ t < windows[i][2]
  BY <1>2 DEF Covering, Covers
<1>. HIDE DEF i
<1>4. windows[i][1] \in Nat /\ windows[i][2] \in Nat
  BY <1>3, EndOfCalendar
<1>5. ASSUME NEW v \in t..(windows[i][2] - 1) PROVE i \in Covering(v)
  BY <1>3, <1>4 DEF Covering, Covers
<1>. QED
  BY <1>3, <1>4, <1>5 DEF i

\* What NextOpen finds by going from end to end.
LEMMA NextOpenFinds ==
    ASSUME DeclaredAssumption, CalendarInv, NEW tick \in Nat
    PROVE  FirstOpen(tick, NextOpen(tick))
<1> DEFINE End(t) == windows[Min(Covering(t))][2]
           Right(h) == h = [t \in Nat |-> IF Covering(t) = {} THEN t ELSE h[End(t)]]
           first == [t \in Nat |-> CHOOSE u : FirstOpen(t, u)]
           opens == CHOOSE h : Right(h)
<1>1. \A t \in Nat : FirstOpen(t, first[t])
  BY FirstOpenIsThere
<1>2. ASSUME NEW t \in Nat, NEW u, NEW v, FirstOpen(t, u), FirstOpen(t, v)
      PROVE  u = v
  <2>1. u \in Nat /\ v \in Nat /\ u >= t /\ v >= t
    BY <1>2 DEF FirstOpen
  <2>2. ~(u < v)
    <3>. SUFFICES ASSUME u < v PROVE FALSE
      OBVIOUS
    <3>1. u \in t..(v - 1)
      BY <2>1
    <3>. QED
      BY <1>2, <3>1 DEF FirstOpen
  <2>3. ~(v < u)
    <3>. SUFFICES ASSUME v < u PROVE FALSE
      OBVIOUS
    <3>1. v \in t..(u - 1)
      BY <2>1
    <3>. QED
      BY <1>2, <3>1 DEF FirstOpen
  <2>. QED
    BY <2>1, <2>2, <2>3
<1>3. ASSUME NEW t \in Nat
      PROVE  first[t] = IF Covering(t) = {} THEN t ELSE first[End(t)]
  <2>1. CASE Covering(t) = {}
    <3>1. FirstOpen(t, t)
      BY <2>1 DEF FirstOpen
    <3>. QED
      BY <1>1, <1>2, <2>1, <3>1
  <2>2. CASE Covering(t) # {}
    <3> DEFINE e == End(t)
               u == first[e]
    <3>1. e \in Nat /\ e > t /\ \A v \in t..(e - 1) : Covering(v) # {}
      BY <2>2, JumpsAhead
    <3>2. FirstOpen(e, u)
      BY <1>1, <3>1
    <3>. HIDE DEF e, u, first
    <3>3. FirstOpen(t, u)
      <4>1. u \in Nat /\ u >= e /\ Covering(u) = {} /\ \A v \in e..(u - 1) : Covering(v) # {}
        BY <3>2 DEF FirstOpen
      <4>2. \A v \in t..(u - 1) : v \in t..(e - 1) \/ v \in e..(u - 1)
        BY <3>1, <4>1
      <4>. QED
        BY <3>1, <4>1, <4>2 DEF FirstOpen
    <3>4. first[t] = u
      BY <1>1, <1>2, <3>3
    <3>. QED
      BY <2>2, <3>4 DEF u, e
  <2>. QED
    BY <2>1, <2>2
<1>4. Right(first)
  <2>1. first = [t \in Nat |-> first[t]]
    OBVIOUS
  <2>. HIDE DEF first, End
  <2>. QED
    BY <1>3, <2>1
<1>5. Right(opens)
  <2>. HIDE DEF first, Right
  <2>. QED
    BY <1>4
<1>6. NextOpen(tick) = opens[tick]
  BY DEF NextOpen
<1>. HIDE DEF opens, first
<1>7. ASSUME NEW t \in Nat
      PROVE  opens[t] = IF Covering(t) = {} THEN t ELSE opens[End(t)]
  <2>. HIDE DEF End
  <2>. QED
    BY <1>5
<1>8. \A t \in Nat : opens[t] = first[t]
  <2> DEFINE Bad == {t \in Nat : opens[t] # first[t]}
  <2>1. PICK last \in Nat : \A i \in DOMAIN windows : windows[i][2] <= last
    BY EndOfCalendar
  <2>2. ASSUME NEW t \in Bad PROVE End(t) \in Bad /\ t < End(t) /\ t <= last
    <3>1. Covering(t) # {}
      <4>. HIDE DEF End
      <4>. QED
        BY <1>3, <1>7
    <3>2. opens[End(t)] # first[End(t)]
      <4>. HIDE DEF End
      <4>. QED
        BY <1>3, <1>7, <3>1
    <3>3. End(t) \in Nat /\ End(t) > t
      BY <3>1, JumpsAhead
    <3>4. PICK i \in Covering(t) : TRUE
      BY <3>1
    <3>5. i \in DOMAIN windows /\ t < windows[i][2]
      BY DEF Covering, Covers
    <3>6. t <= last
      BY <2>1, <3>5, EndOfCalendar
    <3>. HIDE DEF End
    <3>. QED
      BY <3>2, <3>3, <3>6
  <2>3. Bad = {}
    <3>. SUFFICES ASSUME Bad # {} PROVE FALSE
      OBVIOUS
    <3>1. Bad \subseteq 0..last /\ IsFiniteSet(0..last)
      BY <2>1, <2>2, Numbers
    <3>2. IsFiniteSet(Bad) /\ Bad \subseteq Int
      <4>1. 0..last \subseteq Int
        BY <2>1
      <4>. HIDE DEF Bad
      <4>. QED
        BY <3>1, <4>1, FS_Subset
    <3>3. Max(Bad) \in Bad /\ \A t \in Bad : t <= Max(Bad)
      <4>. HIDE DEF Bad
      <4>. QED
        BY <3>2, MaxIsThere
    <3> DEFINE b == Max(Bad)
    <3>4. End(b) \in Bad /\ b < End(b)
      <4>. HIDE DEF Bad, End
      <4>. QED
        BY <2>2, <3>3
    <3>. HIDE DEF Bad, End
    <3>. QED
      BY <3>2, <3>3, <3>4
  <2>. QED
    BY <2>3
<1>. QED
  BY <1>1, <1>6, <1>8

\* The next open tick is the first.
LEMMA SleepsPrecisely ==
    ASSUME DeclaredAssumption, CalendarInv
    PROVE  NextOpenIsFirst
<1>1. Starts \subseteq Nat
  BY DEF DeclaredAssumption
<1>2. \A tick \in Starts : FirstOpen(tick, NextOpen(tick))
  BY <1>1, NextOpenFinds
<1>. QED
  BY <1>2 DEF NextOpenIsFirst, FirstOpen

-----------------------------------------------------------------------------
(* A store, its drill and its preflight.                                   *)

\* Sums over a set that is not the whole domain.
LEMMA SumOnIsTotal ==
    ASSUME NEW f, NEW S
    PROVE  SumFunctionOnSet(f, S) = Total(f, S)
BY DEF SumFunctionOnSet, FoldFunctionOnSet, MapThenFoldSet, Total, MapThenSumSet

\* What fits home by home fits together.
LEMMA FibersFit ==
    ASSUME NEW A, NEW B, IsFiniteSet(A), IsFiniteSet(B), NEW h \in [A -> B],
           NEW w, \A t \in A : w[t] \in Nat, NEW c, \A m \in B : c[m] \in Nat,
           \A m \in B : Total(w, {t \in A : h[t] = m}) <= c[m]
    PROVE  Total(w, A) <= Total(c, B)
<1> DEFINE Into(C) == {t \in A : h[t] \in C}
           Bad == {C \in SUBSET B : ~(Total(w, Into(C)) <= Total(c, C))}
<1>1. \A C : Into(C) \subseteq A /\ IsFiniteSet(Into(C)) /\ Total(w, Into(C)) \in Nat
  <2>1. \A C : Into(C) \subseteq A
    OBVIOUS
  <2>. HIDE DEF Into
  <2>2. \A C : IsFiniteSet(Into(C))
    BY <2>1, FS_Subset
  <2>. QED
    BY <2>1, <2>2, TotalIsNat
<1>2. Bad = {}
  <2>. SUFFICES ASSUME Bad # {} PROVE FALSE
    OBVIOUS
  <2>1. PICK C \in Bad : \A D \in Bad : D \subseteq C => D = C
    <3>1. Bad \subseteq SUBSET B
      OBVIOUS
    <3>. HIDE DEF Bad
    <3>. QED
      BY <3>1, SmallestSet
  <2>2. C \subseteq B /\ ~(Total(w, Into(C)) <= Total(c, C))
    OBVIOUS
  <2>3. C # {}
    <3>. SUFFICES ASSUME C = {} PROVE FALSE
      OBVIOUS
    <3>1. Into(C) = {}
      OBVIOUS
    <3>2. Total(w, Into(C)) = 0 /\ Total(c, C) = 0
      <4>. HIDE DEF Into
      <4>. QED
        BY <3>1, TotalOfNone
    <3>. HIDE DEF Into
    <3>. QED
      BY <2>2, <3>2
  <2>4. PICK m \in C : TRUE
    BY <2>3
  <2> DEFINE D == C \ {m}
             F == {t \in A : h[t] = m}
  <2>5. D \notin Bad /\ D \subseteq B
    BY <2>1, <2>2
  <2>6. Total(w, Into(D)) <= Total(c, D)
    BY <2>5
  <2>7. Into(C) = Into(D) \cup F /\ Into(D) \cap F = {} /\ F \subseteq A
    OBVIOUS
  <2>8. C = D \cup {m} /\ D \cap {m} = {} /\ m \in B
    BY <2>2
  <2>. HIDE DEF Bad, Into, D, F
  <2>9. IsFiniteSet(F) /\ IsFiniteSet(D) /\ IsFiniteSet({m})
    BY <2>5, <2>7, FS_Subset, FS_Singleton
  <2>10. Total(w, Into(D) \cup F) = Total(w, Into(D)) + Total(w, F)
    BY <1>1, <2>7, <2>9, TotalOfUnion
  <2>11. Total(c, D \cup {m}) = Total(c, D) + Total(c, {m})
    BY <2>5, <2>8, <2>9, TotalOfUnion
  <2>12. Total(c, {m}) = c[m] /\ c[m] \in Nat
    BY <2>8, TotalOfOne
  <2>13. Total(w, F) <= c[m] /\ Total(w, F) \in Nat
    <3>1. Total(w, F) <= c[m]
      BY <2>8 DEF F
    <3>. QED
      BY <2>7, <2>9, <3>1, TotalIsNat
  <2>14. Total(w, Into(D)) \in Nat /\ Total(c, D) \in Nat
    BY <1>1, <2>5, <2>9, TotalIsNat
  <2>15. Total(w, Into(C)) = Total(w, Into(D)) + Total(w, F)
    BY <2>7, <2>10
  <2>16. Total(c, C) = Total(c, D) + c[m]
    BY <2>8, <2>11, <2>12
  <2>. QED
    BY <2>2, <2>6, <2>12, <2>13, <2>14, <2>15, <2>16
<1>3. ~(~(Total(w, Into(B)) <= Total(c, B)))
  BY <1>2
<1>4. Into(B) = A
  OBVIOUS
<1>. HIDE DEF Into, Bad
<1>. QED
  BY <1>3, <1>4

TaskStates == [phase : {"Absent", "Pending", "Bound", "Running"} \cup Ends4,
               node : Places \cup {NoPlace}]

\* A whole store of some tasks.
StoreOf(T, s) ==
    /\ s = [tasks |-> s.tasks, nodes |-> s.nodes]
    /\ s.tasks \in [T -> TaskStates]
    /\ s.nodes \in [Places -> {"ready", "cordoned", "absent"}]

SceneInv == StoreOf(Subjects, scene)

\* Whoever writes, it stays a store.
LEMMA SceneBegins ==
    ASSUME SceneInit
    PROVE  SceneInv
BY DEF SceneInit, SceneInv, StoreOf, TaskStates

\* Whoever writes, it stays a store.
LEMMA SceneKeeps ==
    ASSUME SceneInv, SceneNext
    PROVE  SceneInv'
<1>1. ASSUME NEW t \in Subjects, NEW p \in {"Absent", "Pending", "Bound", "Running"} \cup Ends4,
             NEW n \in Places \cup {NoPlace}, WriteTask(t, p, n)
      PROVE  SceneInv'
  <2> DEFINE task == [phase |-> p, node |-> n]
  <2>1. task \in TaskStates
    BY DEF TaskStates
  <2>2. scene' = [scene EXCEPT !.tasks[t] = task]
    BY <1>1 DEF WriteTask
  <2>. HIDE DEF task
  <2>. QED
    BY <2>1, <2>2 DEF SceneInv, StoreOf
<1>2. ASSUME NEW n \in Places, NEW state \in {"ready", "cordoned", "absent"}, WriteNode(n, state)
      PROVE  SceneInv'
  BY <1>2 DEF WriteNode, SceneInv, StoreOf
<1>. QED
  BY <1>1, <1>2 DEF SceneNext

\* What is allocated on a node.
On(s, n) == {t \in DOMAIN s.tasks : s.tasks[t].node = n /\ IsActive(s.tasks[t])}

\* Needs are natural numbers, and so are their sums.
LEMMA NeedsAreNumbers ==
    ASSUME DeclaredAssumption
    PROVE  /\ NeedOf \in [Subjects \cup {Probe} -> Nat]
           /\ IsFiniteSet(Subjects \cup {Probe}) /\ Subjects \cup {Probe} \subseteq Int
           /\ \A S \in SUBSET (Subjects \cup {Probe}) :
                 /\ IsFiniteSet(S) /\ SumFunctionOnSet(NeedOf, S) = Total(NeedOf, S)
                 /\ Total(NeedOf, S) \in Nat
<1>1. NeedOf \in [Subjects \cup {Probe} -> Nat]
  BY DEF NeedOf, DeclaredAssumption
<1>2. IsFiniteSet(Subjects \cup {Probe}) /\ Subjects \cup {Probe} \subseteq Int
  <2>1. IsFiniteSet(Subjects \cup {Probe})
    BY FS_AddElement DEF DeclaredAssumption
  <2>. QED
    BY <2>1 DEF Probe, DeclaredAssumption
<1> DEFINE All == Subjects \cup {Probe}
<1>. HIDE DEF All
<1>3. ASSUME NEW S \in SUBSET All
      PROVE  /\ IsFiniteSet(S) /\ SumFunctionOnSet(NeedOf, S) = Total(NeedOf, S)
             /\ Total(NeedOf, S) \in Nat
  <2>1. IsFiniteSet(S) /\ \A t \in S : NeedOf[t] \in Nat
    BY <1>1, <1>2, FS_Subset DEF All
  <2>. QED
    BY <2>1, SumOnIsTotal, TotalIsNat
<1>. QED
  BY <1>1, <1>2, <1>3 DEF All

\* Where nothing is wrong, what is allocated fits.
LEMMA CleanFits ==
    ASSUME DeclaredAssumption, NEW T \in SUBSET (Subjects \cup {Probe}), NEW s, StoreOf(T, s)
    PROVE  /\ \A n \in Places : /\ On(s, n) \in SUBSET T
                                /\ Allocated(s, n) = Total(NeedOf, On(s, n))
                                /\ Allocated(s, n) \in Nat
           /\ Clean(s) <=>
                 /\ \A t \in T : /\ IsActive(s.tasks[t]) => /\ s.tasks[t].node \in Places
                                                            /\ s.nodes[s.tasks[t].node] # "absent"
                                 /\ s.tasks[t].phase = "Pending" => s.tasks[t].node = NoPlace
                                 /\ s.tasks[t].phase \in Ends4 => s.tasks[t].node = NoPlace
                 /\ \A n \in Places : s.nodes[n] # "absent" => Allocated(s, n) <= Capacity[n]
<1>1. DOMAIN s.tasks = T
  BY DEF StoreOf
<1>2. ASSUME NEW n \in Places
      PROVE  /\ On(s, n) \in SUBSET T /\ Allocated(s, n) = Total(NeedOf, On(s, n))
             /\ Allocated(s, n) \in Nat
  <2>1. On(s, n) \in SUBSET T
    BY <1>1 DEF On
  <2>2. Allocated(s, n) = SumFunctionOnSet(NeedOf, On(s, n))
    BY Zenon DEF Allocated, On
  <2>. QED
    BY <2>1, <2>2, NeedsAreNumbers
<1>3. \A n \in Places : Allocated(s, n) \in Int /\ Capacity[n] \in Int
  BY <1>2 DEF DeclaredAssumption
<1>4. Homeless(s) = {} <=>
         \A t \in T : IsActive(s.tasks[t]) => /\ s.tasks[t].node \in Places
                                              /\ s.nodes[s.tasks[t].node] # "absent"
  BY <1>1 DEF Homeless
<1>5. PendingButHeld(s) = {} <=>
         \A t \in T : s.tasks[t].phase = "Pending" => s.tasks[t].node = NoPlace
  BY <1>1 DEF PendingButHeld
<1>6. FinishedButHeld(s) = {} <=>
         \A t \in T : s.tasks[t].phase \in Ends4 => s.tasks[t].node = NoPlace
  BY <1>1 DEF FinishedButHeld
<1>7. Overcommitted(s) = {} <=>
         \A n \in Places : s.nodes[n] # "absent" => Allocated(s, n) <= Capacity[n]
  BY <1>3 DEF Overcommitted
<1>. QED
  BY <1>2, <1>4, <1>5, <1>6, <1>7, Zenon DEF Clean

\* A task that is bound to a node with room for it leaves everything in order.
LEMMA ScheduledStaysClean ==
    ASSUME DeclaredAssumption, NEW T \in SUBSET (Subjects \cup {Probe}), NEW s, StoreOf(T, s),
           Clean(s), NEW t \in T
    PROVE  StoreOf(T, Scheduled(s, t)) /\ Clean(Scheduled(s, t))
<1> DEFINE open == {n \in Places : /\ s.nodes[n] = "ready"
                                   /\ Allocated(s, n) + NeedOf[t] <= Capacity[n]}
           m == Min(open)
           task == [phase |-> "Bound", node |-> m]
           after == [s EXCEPT !.tasks[t] = task]
<1>1. CASE ~(s.tasks[t].phase = "Pending" /\ open # {})
  BY <1>1 DEF Scheduled
<1>2. CASE s.tasks[t].phase = "Pending" /\ open # {}
  <2>1. Scheduled(s, t) = after
    BY <1>2 DEF Scheduled
  <2>2. m \in open
    <3>1. IsFiniteSet(Places) /\ Places \subseteq Int /\ open \subseteq Places
      BY DEF DeclaredAssumption
    <3>2. IsFiniteSet(open) /\ open \subseteq Int
      <4>. HIDE DEF open
      <4>. QED
        BY <3>1, FS_Subset
    <3>. HIDE DEF open
    <3>. QED
      BY <1>2, <3>2, MinIsThere
  <2>3. m \in Places /\ s.nodes[m] = "ready" /\ Allocated(s, m) + NeedOf[t] <= Capacity[m]
    BY <2>2
  <2>. HIDE DEF m, open
  <2>4. task \in TaskStates /\ IsActive(task) /\ task.node = m /\ task.phase = "Bound"
    BY <2>3 DEF TaskStates, IsActive
  <2>. HIDE DEF task
  <2>5. /\ StoreOf(T, after) /\ after.nodes = s.nodes /\ DOMAIN after.tasks = T
        /\ after.tasks[t] = task /\ \A u \in T \ {t} : after.tasks[u] = s.tasks[u]
    BY <2>4 DEF StoreOf
  <2>. HIDE DEF after
  <2>6. DOMAIN s.tasks = T
    BY DEF StoreOf
  <2>7. ~IsActive(s.tasks[t])
    BY <1>2 DEF IsActive
  <2>8. \A n \in Places \ {m} : On(after, n) = On(s, n)
    BY <2>4, <2>5, <2>6, <2>7 DEF On
  <2>9. On(after, m) = On(s, m) \cup {t} /\ On(s, m) \cap {t} = {}
    BY <2>4, <2>5, <2>6, <2>7 DEF On
  <2>10. /\ \A n \in Places : /\ Allocated(s, n) = Total(NeedOf, On(s, n))
                              /\ Allocated(after, n) = Total(NeedOf, On(after, n))
         /\ Allocated(s, m) \in Nat /\ On(s, m) \in SUBSET T
    <3>1. \A n \in Places : Allocated(s, n) = Total(NeedOf, On(s, n))
      BY CleanFits
    <3>2. StoreOf(T, after)
      BY <2>5
    <3>3. \A n \in Places : Allocated(after, n) = Total(NeedOf, On(after, n))
      BY <3>2, CleanFits
    <3>4. Allocated(s, m) \in Nat /\ On(s, m) \in SUBSET T
      BY <2>3, CleanFits
    <3>. QED
      BY <3>1, <3>3, <3>4
  <2>11. Allocated(after, m) = Allocated(s, m) + NeedOf[t]
    <3>1. /\ IsFiniteSet(On(s, m)) /\ IsFiniteSet({t})
          /\ \A u \in On(s, m) \cup {t} : NeedOf[u] \in Nat
      BY <2>10, NeedsAreNumbers, FS_Singleton
    <3>2. Total(NeedOf, On(s, m) \cup {t}) = Total(NeedOf, On(s, m)) + Total(NeedOf, {t})
      BY <2>9, <3>1, TotalOfUnion
    <3>3. Total(NeedOf, {t}) = NeedOf[t]
      BY <3>1, TotalOfOne
    <3>. QED
      BY <2>3, <2>9, <2>10, <3>2, <3>3
  <2>12. ASSUME NEW n \in Places, after.nodes[n] # "absent"
         PROVE  Allocated(after, n) <= Capacity[n]
    <3>1. CASE n = m
      BY <2>3, <2>11, <3>1
    <3>2. CASE n # m
      <4>1. Allocated(after, n) = Allocated(s, n)
        BY <2>8, <2>10, <3>2
      <4>2. Allocated(s, n) <= Capacity[n]
        BY <2>5, <2>12, CleanFits
      <4>. QED
        BY <4>1, <4>2
    <3>. QED
      BY <3>1, <3>2
  <2>13. ASSUME NEW u \in T
         PROVE  /\ IsActive(after.tasks[u]) => /\ after.tasks[u].node \in Places
                                               /\ after.nodes[after.tasks[u].node] # "absent"
                /\ after.tasks[u].phase = "Pending" => after.tasks[u].node = NoPlace
                /\ after.tasks[u].phase \in Ends4 => after.tasks[u].node = NoPlace
    <3>1. CASE u = t
      BY <2>3, <2>4, <2>5, <3>1 DEF Ends4
    <3>2. CASE u # t
      <4>1. /\ IsActive(s.tasks[u]) => /\ s.tasks[u].node \in Places
                                       /\ s.nodes[s.tasks[u].node] # "absent"
            /\ s.tasks[u].phase = "Pending" => s.tasks[u].node = NoPlace
            /\ s.tasks[u].phase \in Ends4 => s.tasks[u].node = NoPlace
        BY CleanFits
      <4>. QED
        BY <2>5, <3>2, <4>1
    <3>. QED
      BY <3>1, <3>2
  <2>14. Clean(after)
    BY <2>5, <2>12, <2>13, CleanFits
  <2>. QED
    BY <2>1, <2>5, <2>14
<1>. QED
  BY <1>1, <1>2

\* A pass takes the pending tasks one by one, and each leaves everything in order.
LEMMA PassStaysClean ==
    ASSUME DeclaredAssumption, NEW T \in SUBSET (Subjects \cup {Probe}), NEW s, StoreOf(T, s),
           Clean(s)
    PROVE  Clean(SchedulePending(s))
<1> DEFINE pick == [S \in SUBSET T |-> Max(S)]
           V == {v \in [tasks : [T -> TaskStates],
                        nodes : [Places -> {"ready", "cordoned", "absent"}]] : Clean(v)}
           step == [p \in T \X V |-> Scheduled(p[2], p[1])]
           Right(h) == h = [S \in SUBSET T |->
                              IF S = {} THEN s ELSE Scheduled(h[S \ {Max(S)}], Max(S))]
           iter == CHOOSE h : Right(h)
<1>1. IsFiniteSet(T) /\ T \subseteq Int
  BY NeedsAreNumbers
<1>2. \A S \in SUBSET T : S # {} => pick[S] \in S
  <2>1. ASSUME NEW S \in SUBSET T, S # {} PROVE Max(S) \in S
    BY <1>1, <2>1, FS_Subset, MaxIsThere
  <2>. QED
    BY <2>1
<1>3. \A v : v \in V <=> StoreOf(T, v) /\ Clean(v)
  <2>1. \A v : StoreOf(T, v) <=>
           v \in [tasks : [T -> TaskStates], nodes : [Places -> {"ready", "cordoned", "absent"}]]
    BY DEF StoreOf
  <2>. QED
    BY <2>1
<1>4. \A t \in T : \A v \in V : /\ step[<<t, v>>] = Scheduled(v, t)
                               /\ Scheduled(v, t) \in V
  <2>1. \A t \in T : \A v \in V : step[<<t, v>>] = Scheduled(v, t)
    <3>. HIDE DEF V
    <3>. QED
      OBVIOUS
  <2>2. ASSUME NEW t \in T, NEW v \in V PROVE Scheduled(v, t) \in V
    <3>1. StoreOf(T, v) /\ Clean(v)
      BY <1>3
    <3>2. StoreOf(T, Scheduled(v, t)) /\ Clean(Scheduled(v, t))
      BY <3>1, ScheduledStaysClean
    <3>. HIDE DEF V
    <3>. QED
      BY <1>3, <3>2
  <2>. HIDE DEF V, step
  <2>. QED
    BY <2>1, <2>2
<1>5. s \in V
  BY <1>3
<1>. HIDE DEF V, step, pick
<1>6. PICK g : IsFold(step, s, pick, g, T)
  BY <1>1, <1>2, FoldExists
<1>7. \A S \in SUBSET T : g[S] = FoldBody(step, s, pick, g, S)
  BY <1>6 DEF IsFold
<1>8. \A S \in SUBSET T : g[S] \in V
  <2> DEFINE Bad == {S \in SUBSET T : g[S] \notin V}
  <2>. SUFFICES ASSUME Bad # {} PROVE FALSE
    OBVIOUS
  <2>1. PICK S \in Bad : \A R \in Bad : R \subseteq S => R = S
    <3>1. Bad \subseteq SUBSET T
      OBVIOUS
    <3>. HIDE DEF Bad
    <3>. QED
      BY <1>1, <3>1, SmallestSet
  <2>2. S \in SUBSET T /\ g[S] \notin V
    OBVIOUS
  <2>3. S # {}
    BY <1>5, <1>7, <2>2 DEF FoldBody
  <2> DEFINE t == pick[S]
             R == S \ {t}
  <2>4. t \in S /\ R \in SUBSET T /\ R # S /\ R \subseteq S
    BY <1>2, <2>2, <2>3
  <2>5. g[R] \in V /\ t \in T
    BY <2>1, <2>2, <2>4
  <2>6. g[S] = step[<<t, g[R]>>]
    BY <1>7, <2>2, <2>3 DEF FoldBody
  <2>. QED
    BY <1>4, <2>2, <2>5, <2>6
<1>9. Right(g)
  <2>1. ASSUME NEW S \in SUBSET T, S # {}
        PROVE  g[S] = Scheduled(g[S \ {Max(S)}], Max(S))
    <3>1. pick[S] = Max(S) /\ Max(S) \in T /\ S \ {Max(S)} \in SUBSET T
      BY <1>2, <2>1 DEF pick
    <3>2. g[S] = step[<<Max(S), g[S \ {Max(S)}]>>]
      BY <1>7, <2>1, <3>1 DEF FoldBody
    <3>. QED
      BY <1>4, <1>8, <3>1, <3>2
  <2>2. g[{}] = s
    BY <1>7 DEF FoldBody
  <2>3. g = [S \in SUBSET T |-> g[S]]
    BY <1>6 DEF IsFold
  <2>. QED
    BY <2>1, <2>2, <2>3
<1>10. Right(iter)
  <2>. HIDE DEF Right
  <2>. QED
    BY <1>9
<1>11. SchedulePending(s) = iter[T]
  <2>1. DOMAIN s.tasks = T
    BY DEF StoreOf
  <2>2. SchedulePending(s) = (CHOOSE h : h = [S \in SUBSET DOMAIN s.tasks |->
            IF S = {} THEN s ELSE Scheduled(h[S \ {Max(S)}], Max(S))])[DOMAIN s.tasks]
    BY DEF SchedulePending, MapThenFoldSet
  <2>. QED
    BY <2>1, <2>2
<1>. HIDE DEF iter
<1>12. \A S \in SUBSET T : iter[S] \in V
  <2> DEFINE Bad == {S \in SUBSET T : iter[S] \notin V}
  <2>. SUFFICES ASSUME Bad # {} PROVE FALSE
    OBVIOUS
  <2>1. PICK S \in Bad : \A R \in Bad : R \subseteq S => R = S
    <3>1. Bad \subseteq SUBSET T
      OBVIOUS
    <3>. HIDE DEF Bad
    <3>. QED
      BY <1>1, <3>1, SmallestSet
  <2>2. S \in SUBSET T /\ iter[S] \notin V
    OBVIOUS
  <2>3. S # {}
    BY <1>5, <1>10, <2>2
  <2>4. Max(S) \in S
    BY <1>2, <2>2, <2>3 DEF pick
  <2> DEFINE t == Max(S)
             R == S \ {t}
  <2>5. R \in SUBSET T /\ R # S /\ R \subseteq S
    BY <2>2, <2>4
  <2>6. iter[R] \in V /\ t \in T
    BY <2>1, <2>2, <2>4, <2>5
  <2>7. iter[S] = Scheduled(iter[R], t)
    BY <1>10, <2>2, <2>3
  <2>. QED
    BY <1>4, <2>2, <2>6, <2>7
<1>. QED
  BY <1>3, <1>11, <1>12

\* The drill passes what is in order, and nothing else.
LEMMA DrillFair ==
    ASSUME DeclaredAssumption, SceneInv
    PROVE  DrillIsFair
<1> DEFINE T == Subjects \cup {Probe}
           probe == [phase |-> "Pending", node |-> NoPlace]
           twin == [scene EXCEPT !.tasks = [t \in T |-> IF t = Probe THEN probe ELSE @[t]]]
<1>1. CASE ~Clean(scene)
  BY <1>1 DEF DrillIsFair, Drilled
<1>2. CASE Clean(scene)
  <2>1. Probe \notin Subjects /\ Subjects \in SUBSET T /\ T \in SUBSET T /\ StoreOf(Subjects, scene)
    BY DEF Probe, DeclaredAssumption, SceneInv
  <2>2. probe \in TaskStates
    BY DEF TaskStates
  <2>3. /\ StoreOf(T, twin) /\ twin.nodes = scene.nodes /\ twin.tasks[Probe] = probe
        /\ \A t \in Subjects : twin.tasks[t] = scene.tasks[t]
        /\ DOMAIN twin.tasks = T /\ DOMAIN scene.tasks = Subjects
    <3>. HIDE DEF probe
    <3>. QED
      BY <2>1, <2>2 DEF StoreOf
  <2>4. ~IsActive(probe)
    BY DEF IsActive
  <2>. HIDE DEF twin
  <2>5. \A n \in Places : On(twin, n) = On(scene, n)
    <3>. HIDE DEF probe
    <3>. QED
      BY <2>1, <2>3, <2>4 DEF On
  <2>6. \A n \in Places : Allocated(twin, n) = Allocated(scene, n)
    <3>1. \A n \in Places : Allocated(twin, n) = Total(NeedOf, On(twin, n))
      <4>1. StoreOf(T, twin) /\ T \in SUBSET (Subjects \cup {Probe})
        BY <2>3
      <4>. QED
        BY <4>1, CleanFits
    <3>2. \A n \in Places : Allocated(scene, n) = Total(NeedOf, On(scene, n))
      BY <2>1, CleanFits
    <3>. QED
      BY <2>5, <3>1, <3>2
  <2>7. \A n \in Places : twin.nodes[n] # "absent" => Allocated(twin, n) <= Capacity[n]
    <3>1. \A n \in Places : scene.nodes[n] # "absent" => Allocated(scene, n) <= Capacity[n]
      BY <1>2, <2>1, CleanFits
    <3>. QED
      BY <2>3, <2>6, <3>1
  <2>8. ASSUME NEW t \in T
        PROVE  /\ IsActive(twin.tasks[t]) => /\ twin.tasks[t].node \in Places
                                             /\ twin.nodes[twin.tasks[t].node] # "absent"
               /\ twin.tasks[t].phase = "Pending" => twin.tasks[t].node = NoPlace
               /\ twin.tasks[t].phase \in Ends4 => twin.tasks[t].node = NoPlace
    <3>1. CASE t = Probe
      BY <2>3, <2>4, <3>1
    <3>2. CASE t \in Subjects
      <4>1. /\ IsActive(scene.tasks[t]) => /\ scene.tasks[t].node \in Places
                                           /\ scene.nodes[scene.tasks[t].node] # "absent"
            /\ scene.tasks[t].phase = "Pending" => scene.tasks[t].node = NoPlace
            /\ scene.tasks[t].phase \in Ends4 => scene.tasks[t].node = NoPlace
        BY <1>2, <2>1, <3>2, CleanFits
      <4>. QED
        BY <2>3, <3>2, <4>1
    <3>. QED
      BY <3>1, <3>2
  <2>9. Clean(twin)
    BY <2>1, <2>3, <2>7, <2>8, CleanFits
  <2>10. Clean(SchedulePending(twin))
    BY <2>1, <2>3, <2>9, PassStaysClean
  <2>11. Drilled(scene) = "passed"
    BY <1>2, <2>10 DEF Drilled, twin
  <2>. QED
    BY <1>2, <2>11 DEF DrillIsFair
<1>. QED
  BY <1>1, <1>2

\* No room in sum is no room.
LEMMA ObjectionsTrue ==
    ASSUME DeclaredAssumption, SceneInv
    PROVE  ObjectionsAreReal
<1>. SUFFICES ASSUME NEW n \in Places, "room" \in DrainObjections(n), Clean(scene),
                     NEW home \in [Tenants(n) -> OpenBeside(n)],
                     \A m \in OpenBeside(n) :
                        Allocated(scene, m)
                           + SumFunctionOnSet(NeedOf, {t \in Tenants(n) : home[t] = m})
                              <= Capacity[m]
              PROVE  FALSE
  BY Zenon DEF ObjectionsAreReal
<1> DEFINE A == Tenants(n)
           B == OpenBeside(n)
<1>1. SumFunctionOnSet(NeedOf, A) > SumFunctionOnSet(Spare, B)
  BY DEF DrainObjections, Evictees
<1>2. A \in SUBSET Subjects /\ B \subseteq Places
  BY DEF Tenants, OpenBeside
<1>3. /\ IsFiniteSet(A) /\ SumFunctionOnSet(NeedOf, A) = Total(NeedOf, A)
      /\ Total(NeedOf, A) \in Nat /\ \A t \in A : NeedOf[t] \in Nat
  <2>. HIDE DEF A
  <2>. QED
    BY <1>2, NeedsAreNumbers
<1>4. IsFiniteSet(B)
  <2>. HIDE DEF B
  <2>. QED
    BY <1>2, FS_Subset DEF DeclaredAssumption
<1>5. ASSUME NEW m \in B
      PROVE  Spare[m] \in Nat /\ Total(NeedOf, {t \in A : home[t] = m}) <= Spare[m]
  <2> DEFINE F == {t \in A : home[t] = m}
  <2>1. m \in Places /\ scene.nodes[m] = "ready"
    BY DEF OpenBeside
  <2>2. /\ Allocated(scene, m) \in Nat /\ Allocated(scene, m) <= Capacity[m]
    <3>1. StoreOf(Subjects, scene) /\ Subjects \in SUBSET (Subjects \cup {Probe})
      BY DEF SceneInv
    <3>2. Allocated(scene, m) \in Nat
      BY <2>1, <3>1, CleanFits
    <3>3. scene.nodes[m] # "absent" => Allocated(scene, m) <= Capacity[m]
      BY <2>1, <3>1, CleanFits
    <3>. QED
      BY <2>1, <3>2, <3>3
  <2>3. Spare[m] = Capacity[m] - Allocated(scene, m) /\ Capacity[m] \in Nat
    BY <2>1 DEF Spare, DeclaredAssumption
  <2>4. Allocated(scene, m) + SumFunctionOnSet(NeedOf, F) <= Capacity[m]
    OBVIOUS
  <2>5. F \in SUBSET (Subjects \cup {Probe})
    BY <1>2
  <2>. HIDE DEF F
  <2>6. SumFunctionOnSet(NeedOf, F) = Total(NeedOf, F) /\ Total(NeedOf, F) \in Nat
    BY <2>5, NeedsAreNumbers
  <2>7. Spare[m] \in Nat /\ Total(NeedOf, F) <= Spare[m]
    BY <2>2, <2>3, <2>4, <2>6
  <2>. QED
    BY <2>7 DEF F
<1>. HIDE DEF A, B
<1>6. home \in [A -> B]
  BY DEF A, B
<1>7. Total(NeedOf, A) <= Total(Spare, B)
  BY <1>3, <1>4, <1>5, <1>6, FibersFit
<1>8. Total(Spare, B) \in Nat
  BY <1>4, <1>5, TotalIsNat
<1>9. SumFunctionOnSet(Spare, B) = Total(Spare, B)
  BY SumOnIsTotal
<1>. QED
  BY <1>1, <1>3, <1>7, <1>8, <1>9

-----------------------------------------------------------------------------
(* Together.                                                               *)

RecordsInv == DeclaredInv /\ MetalInv /\ LogInv /\ CalendarInv /\ SceneInv

\* A step is one of a component of what is recorded, or leaves it as it is.
LEMMA OtherRecordsStay ==
    ASSUME DeliveryNext \/ UNCHANGED all
    PROVE  /\ DeclaredNext \/ UNCHANGED declaredVars
           /\ SceneNext \/ UNCHANGED scene
           /\ \/ \E n \in LogNames, v \in {"added", "updated", "removed"} : WriteEvent(n, v)
              \/ UNCHANGED log
           /\ (\E s \in Starts, e \in Ends : AddWindow(s, e)) \/ UNCHANGED windows
           /\ (\E a \in DOMAIN Ledger, s \in Sizes : MetalChanges(a, s)) \/ UNCHANGED metal
<1>1. CASE UNCHANGED all
  BY <1>1 DEF all
<1>2. CASE DeliveryNext
  BY <1>2 DEF DeliveryNext, In, Still
<1>. QED
  BY <1>1, <1>2

\* What is recorded stays true, whichever component runs.
LEMMA RecordsKeep ==
    ASSUME DeclaredAssumption, RawsAssumption, RecordsInv, [DeliveryNext]_all
    PROVE  RecordsInv'
<1>1. DeclaredInv'
  <2>1. DeclaredInv /\ UNCHANGED declaredVars => DeclaredInv'
    BY DEF DeclaredInv, declaredVars
  <2>. QED
    BY <2>1, OtherRecordsStay, DeclaredKeeps DEF RecordsInv
<1>2. MetalInv'
  <2>1. MetalInv /\ UNCHANGED metal => MetalInv'
    BY DEF MetalInv
  <2>. QED
    BY <2>1, OtherRecordsStay, MetalKeeps DEF RecordsInv
<1>3. LogInv'
  <2>1. LogInv /\ UNCHANGED log => LogInv'
    BY DEF LogInv
  <2>. QED
    BY <2>1, OtherRecordsStay, LogKeeps DEF RecordsInv, Verbs
<1>4. CalendarInv'
  <2>1. CalendarInv /\ UNCHANGED windows => CalendarInv'
    BY DEF CalendarInv
  <2>. QED
    BY <2>1, OtherRecordsStay, CalendarKeeps DEF RecordsInv
<1>5. SceneInv'
  <2>1. SceneInv /\ UNCHANGED scene => SceneInv'
    BY DEF SceneInv
  <2>. QED
    BY <2>1, OtherRecordsStay, SceneKeeps DEF RecordsInv
<1>. QED
  BY <1>1, <1>2, <1>3, <1>4, <1>5 DEF RecordsInv

\* What is recorded is true for ever.
LEMMA AlwaysRecordsInv ==
    ASSUME DeclaredAssumption, RawsAssumption
    PROVE  DeliverySpec => []RecordsInv
<1>1. DeliveryInit => RecordsInv
  BY DeclaredBegins, MetalBegins, LogBegins, CalendarBegins, SceneBegins
  DEF DeliveryInit, RecordsInv
<1>2. RecordsInv /\ [DeliveryNext]_all => RecordsInv'
  BY RecordsKeep
<1>. QED
  BY <1>1, <1>2, PTL DEF DeliverySpec

\* manifest.py, gitops.py, drift.py, backupdrill.py, preflight.py, whatchanged.py,
\* maintenance.py, inventory.py: for any manifests, stores, events, windows and
\* ledgers, what is declared, planned, judged, reported and booked is what is there.
THEOREM RecordsStayTrue ==
    ASSUME DeclaredAssumption, RawsAssumption
    PROVE  DeliverySpec => []RecordsHold
<1>1. RecordsInv => RecordsHold
  BY LiveWasAsked, PlanIsTrue, LedgerIsTold, WindowIsTrue, SleepsPrecisely, DrillFair,
     ObjectionsTrue DEF RecordsInv, RecordsHold
<1>. QED
  BY <1>1, AlwaysRecordsInv, PTL

\* A rollout among the other components is a rollout.
LEMMA RolloutRuns ==
    DeliverySpec => Init /\ [][Next]_vars
<1>1. DeliveryInit => Init
  BY DEF DeliveryInit
<1>2. [DeliveryNext]_all => [Next]_vars
  <2>1. CASE UNCHANGED all
    BY <2>1 DEF all
  <2>2. CASE DeliveryNext
    BY <2>2 DEF DeliveryNext, In, Still
  <2>. QED
    BY <2>1, <2>2
<1>. QED
  BY <1>1, <1>2, PTL DEF DeliverySpec

\* rolling.py, channels.py, traffic.py, burnin.py, gitops.py, drift.py: no step of a
\* rollout undercuts the guard it was handed, nothing is promoted that has not soaked in calm, no
\* user changes lane in a session, no node enters service on which a canary failed or
\* whose probation is not over, a sync leaves what the head declares, and a
\* correction leaves alone what is paused.
THEOREM DeliveryMovesWithCare ==
    ASSUME RolloutAssumption, DeliveryAssumption, RenewalAssumption, DeclaredAssumption,
           RawsAssumption
    PROVE  DeliverySpec => DeliveryMoves
<1>1. PartsInv /\ [DeliveryNext]_all => [SoaksFirst]_channelVars
  BY OthersStay, ChannelsKeep DEF PartsInv
<1>2. PartsInv /\ [DeliveryNext]_all => [Sticks]_dialVars
  BY OthersStay, DialKeeps DEF PartsInv
<1>3. PartsInv /\ [DeliveryNext]_all => [StayOut]_ironVars
  BY OthersStay, IronKeeps DEF PartsInv
<1>4. DeliverySpec => [][SoaksFirst]_channelVars /\ [][Sticks]_dialVars
                      /\ [][StayOut]_ironVars
  BY <1>1, <1>2, <1>3, AlwaysPartsInv, PTL DEF DeliverySpec
<1>5. DeliverySpec => SoakIsCalm /\ UsersStick /\ RejectedStayOut
  BY <1>4 DEF SoakIsCalm, UsersStick, RejectedStayOut, SoaksFirst, Sticks, StayOut
<1>6. RecordsInv => (declaredVars' # declaredVars /\ Sync =>
         \A d \in NamesIn(Last(commits)) :
            Cardinality(Live(tasks', d)) = Wanted(Last(commits))[d].replicas)
  BY SyncKeeps DEF RecordsInv
<1>7. RecordsInv => (declaredVars' # declaredVars /\ CorrectDrift =>
         \A d \in DOMAIN applied :
            IF d \in pausedDrift THEN tasks'[d] = tasks[d]
            ELSE Cardinality(Live(tasks', d)) = applied[d].replicas)
  BY CorrectionKeeps DEF RecordsInv
<1>8. DeliverySpec => SyncImposes /\ PausesAreRespected
  BY <1>6, <1>7, AlwaysRecordsInv, PTL DEF SyncImposes, PausesAreRespected
<1>9. DeliverySpec => StepsKeep
  BY RolloutRuns, EveryStepKeeps, PTL
<1>. QED
  BY <1>5, <1>8, <1>9 DEF DeliveryMoves
=============================================================================
