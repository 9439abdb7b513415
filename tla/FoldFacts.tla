------------------------------ MODULE FoldFacts ------------------------------
(***************************************************************************)
(* Folds over finite sets, as the models take them from the community      *)
(* modules: MapThenFoldSet is a function defined by its own equation over  *)
(* the subsets of a set.  The equation has a solution and only one, so     *)
(* what holds along the fold can be proved of its value.  A sum of natural *)
(* numbers (MapThenSumSet) counts units, so what is known of the size of   *)
(* finite sets holds of sums.                                              *)
(***************************************************************************)
EXTENDS Integers, Sequences, FiniteSets, FiniteSetsExt, FiniteSetTheorems,
        SequenceTheorems, WellFoundedInduction, TLAPS

\* Among the subsets of a finite set that share a property one is smallest: what an
\* induction over finite sets needs.
LEMMA SmallestSet ==
    ASSUME NEW S, IsFiniteSet(S), NEW T, T \subseteq SUBSET S, T # {}
    PROVE  \E x \in T : \A y \in T : y \subseteq x => y = x
<1>1. T \subseteq FiniteSubsetsOf(S)
  BY FS_FiniteSubsetsOfFinite
<1>2. IsWellFoundedOn(StrictSubsetOrdering(S), FiniteSubsetsOf(S))
  BY FS_StrictSubsetOrderingWellFounded
<1>3. PICK x \in T : \A y \in T : ~(<<y, x>> \in StrictSubsetOrdering(S))
  BY <1>1, <1>2, WFMin, Zenon
<1>. QED BY <1>3 DEF StrictSubsetOrdering

\* There are n numbers up to n.
LEMMA Numbers ==
    ASSUME NEW n \in Nat
    PROVE  /\ IsFiniteSet(1..n) /\ Cardinality(1..n) = n /\ 1..n \subseteq Int
           /\ IsFiniteSet(0..n) /\ 0..n \subseteq Int
BY FS_Interval

\* The greatest of finitely many numbers exists.
LEMMA MaxIsThere ==
    ASSUME NEW S, IsFiniteSet(S), S \subseteq Int, S # {}
    PROVE  /\ Max(S) \in S
           /\ \A y \in S : y <= Max(S)
<1>. DEFINE HasMax(s) == \E x \in s : \A y \in s : x >= y
            Bad == {s \in SUBSET S : s # {} /\ ~HasMax(s)}
<1>1. Bad = {}
  <2>. SUFFICES ASSUME Bad # {} PROVE FALSE
    OBVIOUS
  <2>1. PICK s \in Bad : \A r \in Bad : r \subseteq s => r = s
    <3>1. Bad \subseteq SUBSET S
      OBVIOUS
    <3>2. IsFiniteSet(S) /\ Bad # {}
      OBVIOUS
    <3>. HIDE DEF Bad, HasMax
    <3>. QED
      BY ONLY <3>1, <3>2, SmallestSet
  <2>2. PICK x \in s : TRUE
    OBVIOUS
  <2>3. CASE s = {x}
    BY <2>1, <2>3
  <2>4. CASE s # {x}
    <3>1. s \ {x} \in SUBSET S /\ s \ {x} # {} /\ s \ {x} \subseteq s /\ s \ {x} # s
      BY <2>1, <2>2, <2>4
    <3>2. s \ {x} \notin Bad
      BY <2>1, <3>1
    <3>3. PICK z \in s \ {x} : \A y \in s \ {x} : z >= y
      BY <3>1, <3>2
    <3>4. x \in Int /\ z \in Int /\ s \subseteq Int
      BY <2>1
    <3>5. HasMax(s)
      <4>1. CASE x >= z
        BY <2>2, <3>3, <3>4, <4>1
      <4>2. CASE ~(x >= z)
        BY <2>2, <3>3, <3>4, <4>2
      <4>. QED
        BY <4>1, <4>2
    <3>. QED
      BY <2>1, <3>5
  <2>. QED
    BY <2>3, <2>4
<1>2. PICK x \in S : \A y \in S : x >= y
  BY <1>1
<1>3. Max(S) \in S /\ \A y \in S : Max(S) >= y
  BY <1>2 DEF Max
<1>. QED
  BY <1>3

\* The least of finitely many numbers exists.
LEMMA MinIsThere ==
    ASSUME NEW S, IsFiniteSet(S), S \subseteq Int, S # {}
    PROVE  /\ Min(S) \in S
           /\ \A y \in S : Min(S) <= y
<1>. DEFINE f == [x \in S |-> 0 - x]
            N == {0 - x : x \in S}
<1>1. IsFiniteSet(N)
  <2>1. f \in Surjection(S, N)
    BY DEF Surjection
  <2>. HIDE DEF f, N
  <2>. QED
    BY <2>1, FS_Surjection
<1>2. N \subseteq Int /\ N # {} /\ \A x \in S : 0 - x \in N
  <2>1. \A x \in S : 0 - x \in Int
    OBVIOUS
  <2>. QED
    BY <2>1
<1>3. PICK m \in N : \A y \in N : y <= m
  <2>. HIDE DEF N
  <2>. QED
    BY <1>1, <1>2, MaxIsThere
<1>4. PICK x \in S : m = 0 - x
  OBVIOUS
<1>5. \A y \in S : x <= y
  <2>. SUFFICES ASSUME NEW y \in S PROVE x <= y
    OBVIOUS
  <2>1. 0 - y <= 0 - x /\ x \in Int /\ y \in Int
    BY <1>2, <1>3, <1>4
  <2>. HIDE DEF f, N
  <2>. QED
    BY <2>1
<1>6. \E a \in S : \A y \in S : a <= y
  BY <1>5
<1>7. Min(S) = CHOOSE a \in S : \A y \in S : a <= y
  BY DEF Min
<1>. HIDE DEF f, N
<1>. QED
  BY <1>6, <1>7

\* Finitely many numbers have a last one, and without it the rest are those before.
LEMMA LastOf ==
    ASSUME NEW S, IsFiniteSet(S), S \subseteq Int, S # {}
    PROVE  \E m \in S : S = {p \in S : p < m} \cup {m}
<1>1. Max(S) \in S /\ \A p \in S : p <= Max(S)
  BY MaxIsThere
<1>2. PICK m \in S : \A p \in S : p <= m
  BY <1>1
<1>3. \A p \in S : p < m \/ p = m
  BY <1>2
<1>. QED
  BY <1>2, <1>3

\* The k lowest of S.
Foremost(S, k) == {o \in S : Cardinality({p \in S : p < o}) < k}

\* They are at most k, and none when k is not positive.
LEMMA ForemostAreFew ==
    ASSUME NEW S, IsFiniteSet(S), S \subseteq Int, NEW k \in Int
    PROVE  /\ Foremost(S, k) \subseteq S /\ IsFiniteSet(Foremost(S, k))
           /\ Cardinality(Foremost(S, k)) \in Nat
           /\ k <= 0 => Foremost(S, k) = {}
           /\ k >= 0 => Cardinality(Foremost(S, k)) <= k
<1>. DEFINE L == Foremost(S, k)
<1>1. L \subseteq S /\ IsFiniteSet(L) /\ Cardinality(L) \in Nat
  <2>1. L \subseteq S
    BY DEF Foremost
  <2>. QED
    BY <2>1, FS_Subset, FS_CardinalityType
<1>2. ASSUME NEW m \in L
      PROVE  /\ Cardinality({p \in S : p < m}) < k
             /\ Cardinality({p \in S : p < m}) \in Nat /\ IsFiniteSet({p \in S : p < m})
  <2>1. {p \in S : p < m} \subseteq S
    OBVIOUS
  <2>2. Cardinality({p \in S : p < m}) < k
    BY <1>2 DEF Foremost
  <2>. QED
    BY <2>1, <2>2, FS_Subset, FS_CardinalityType
<1>3. k <= 0 => L = {}
  <2>. SUFFICES ASSUME k <= 0, NEW m \in L PROVE FALSE
    OBVIOUS
  <2>. DEFINE c == Cardinality({p \in S : p < m})
  <2>1. c < k /\ c \in Nat
    BY <1>2
  <2>. HIDE DEF c
  <2>. QED
    BY <2>1
<1>4. ASSUME k >= 0 PROVE Cardinality(L) <= k
  <2>1. CASE L = {}
    BY <1>4, <2>1, FS_EmptySet
  <2>2. CASE L # {}
    <3>1. PICK m \in L : L = {p \in L : p < m} \cup {m}
      <4>. HIDE DEF L
      <4>. QED
        BY <1>1, <2>2, LastOf
    <3>. DEFINE below == {p \in S : p < m}
    <3>2. L \subseteq below \cup {m} /\ m \notin below
      <4>1. m \in Int
        BY <1>1
      <4>. QED
        BY <1>1, <3>1, <4>1
    <3>3. Cardinality(below) < k /\ Cardinality(below) \in Nat /\ IsFiniteSet(below)
      BY <1>2
    <3>. HIDE DEF L, below
    <3>4. /\ IsFiniteSet(below \cup {m})
          /\ Cardinality(below \cup {m}) = Cardinality(below) + 1
      BY <3>2, <3>3, FS_AddElement
    <3>5. Cardinality(L) <= Cardinality(below \cup {m})
      BY <3>2, <3>4, FS_Subset
    <3>. QED
      BY <1>1, <3>3, <3>4, <3>5
  <2>. QED
    BY <2>1, <2>2
<1>. QED
  BY <1>1, <1>3, <1>4

\* Separate finite sets add up.
LEMMA SeparateAdd ==
    ASSUME NEW S, NEW T, IsFiniteSet(S), IsFiniteSet(T), S \cap T = {}
    PROVE  /\ IsFiniteSet(S \cup T)
           /\ Cardinality(S \cup T) = Cardinality(S) + Cardinality(T)
<1>1. /\ IsFiniteSet(S \cup T)
      /\ Cardinality(S \cup T) = Cardinality(S) + Cardinality(T) - Cardinality(S \cap T)
  BY FS_Union
<1>2. Cardinality(S \cap T) = Cardinality({})
  BY Zenon
<1>3. Cardinality(S) \in Nat /\ Cardinality(T) \in Nat /\ Cardinality({}) = 0
  BY FS_CardinalityType, FS_EmptySet
<1>. QED
  BY <1>1, <1>2, <1>3

\* Where everything of S has below it all that is below the things below it, as
\* many are among the first k as k says.
LEMMA FirstByRank ==
    ASSUME NEW S, IsFiniteSet(S), NEW below \in [S -> SUBSET S],
           \A o \in S : o \notin below[o],
           \A o, p \in S : o # p => \/ below[o] \cup {o} \subseteq below[p]
                                    \/ below[p] \cup {p} \subseteq below[o],
           NEW k \in 0..Cardinality(S)
    PROVE  Cardinality({o \in S : Cardinality(below[o]) < k}) = k
<1> DEFINE n == Cardinality(S)
           rank == [o \in S |-> Cardinality(below[o])]
           ranks == 0..(n - 1)
           few == {o \in S : rank[o] < k}
<1>1. n \in Nat /\ k \in Nat /\ k <= n
  BY FS_CardinalityType
<1>2. ASSUME NEW o \in S
      PROVE  rank[o] \in ranks /\ IsFiniteSet(below[o]) /\ rank[o] = Cardinality(below[o])
  <2>1. below[o] \subseteq S \ {o} /\ IsFiniteSet(below[o])
    BY FS_Subset
  <2>2. IsFiniteSet(S \ {o}) /\ Cardinality(S \ {o}) = n - 1
    BY FS_RemoveElement
  <2>3. Cardinality(below[o]) <= n - 1 /\ Cardinality(below[o]) \in Nat
    <3>. HIDE DEF n
    <3>. QED
      BY <2>1, <2>2, FS_Subset, FS_CardinalityType
  <2>4. rank[o] = Cardinality(below[o])
    OBVIOUS
  <2>. HIDE DEF rank, n
  <2>. QED
    BY <1>1, <2>1, <2>3, <2>4
<1>3. ASSUME NEW o \in S, NEW p \in S, below[o] \cup {o} \subseteq below[p]
      PROVE  rank[o] < rank[p]
  <2>1. Cardinality(below[o] \cup {o}) = rank[o] + 1 /\ IsFiniteSet(below[o] \cup {o})
    <3>. HIDE DEF rank
    <3>. QED
      BY <1>2, FS_AddElement
  <2>2. Cardinality(below[o] \cup {o}) <= rank[p]
    <3>. HIDE DEF rank
    <3>. QED
      BY <1>2, <1>3, FS_Subset
  <2>3. rank[o] \in Int /\ rank[p] \in Int
    BY <1>1, <1>2
  <2>. HIDE DEF rank
  <2>. QED
    BY <2>1, <2>2, <2>3
<1>4. \A o, p \in S : rank[o] = rank[p] => o = p
  <2>. SUFFICES ASSUME NEW o \in S, NEW p \in S, rank[o] = rank[p], o # p PROVE FALSE
    OBVIOUS
  <2>1. rank[o] < rank[p] \/ rank[p] < rank[o]
    <3>. HIDE DEF rank
    <3>. QED
      BY <1>3
  <2>2. rank[o] \in Int /\ rank[p] \in Int
    BY <1>1, <1>2
  <2>. HIDE DEF rank
  <2>. QED
    BY <2>1, <2>2
<1>5. rank \in [S -> ranks]
  <2>1. rank = [o \in S |-> rank[o]]
    OBVIOUS
  <2>. HIDE DEF rank, ranks
  <2>. QED
    BY <1>2, <2>1
<1>6. IsFiniteSet(ranks) /\ Cardinality(ranks) = n
  <2>. HIDE DEF n
  <2>. QED
    BY <1>1, FS_Interval
<1>7. rank \in Injection(S, ranks)
  <2>. HIDE DEF rank, ranks
  <2>. QED
    BY <1>4, <1>5 DEF Injection, IsInjective
<1>8. \A r \in ranks : \E o \in S : rank[o] = r
  <2>1. rank \in Surjection(S, ranks)
    <3>. HIDE DEF rank, ranks
    <3>. QED
      BY <1>6, <1>7, FS_Injection
  <2>. HIDE DEF rank, ranks
  <2>. QED
    BY <2>1 DEF Surjection
<1> DEFINE map == [o \in few |-> rank[o]]
<1>9. map \in Bijection(few, 0..(k - 1))
  <2>1. \A o \in few : map[o] \in 0..(k - 1) /\ map[o] = rank[o] /\ o \in S
    <3>1. \A o \in few : o \in S /\ rank[o] < k /\ map[o] = rank[o]
      OBVIOUS
    <3>2. \A o \in S : rank[o] \in Nat
      <4>. HIDE DEF rank
      <4>. QED
        BY <1>1, <1>2
    <3>. HIDE DEF rank, few, map
    <3>. QED
      BY <1>1, <3>1, <3>2
  <2>2. \A r \in 0..(k - 1) : \E o \in few : map[o] = r
    <3>. SUFFICES ASSUME NEW r \in 0..(k - 1) PROVE \E o \in few : map[o] = r
      OBVIOUS
    <3>1. r \in ranks /\ r < k
      <4>. HIDE DEF n
      <4>. QED
        BY <1>1
    <3>2. PICK o \in S : rank[o] = r
      <4>. HIDE DEF rank, ranks
      <4>. QED
        BY <1>8, <3>1
    <3>3. o \in few
      <4>. HIDE DEF rank
      <4>. QED
        BY <3>1, <3>2
    <3>. HIDE DEF few, rank, ranks
    <3>. QED
      BY <3>2, <3>3
  <2>3. map \in [few -> 0..(k - 1)]
    <3>1. map = [o \in few |-> map[o]]
      OBVIOUS
    <3>. HIDE DEF map, few
    <3>. QED
      BY <2>1, <3>1
  <2>. HIDE DEF map, few, rank
  <2>. QED
    BY <1>4, <2>1, <2>2, <2>3 DEF Bijection, Injection, IsInjective, Surjection
<1>10. IsFiniteSet(0..(k - 1)) /\ Cardinality(0..(k - 1)) = k
  <2>1. k - 1 \in Int /\ (0 > k - 1 => k = 0)
    BY <1>1
  <2>2. /\ IsFiniteSet(0..(k - 1))
        /\ Cardinality(0..(k - 1)) = IF 0 > k - 1 THEN 0 ELSE (k - 1) - 0 + 1
    BY <2>1, FS_Interval
  <2>. HIDE DEF n
  <2>. QED
    BY <1>1, <2>1, <2>2
<1>11. few \subseteq S
  OBVIOUS
<1>12. Cardinality(few) = k
  <2>1. ExistsBijection(few, 0..(k - 1))
    <3>. HIDE DEF map, few
    <3>. QED
      BY <1>9 DEF ExistsBijection
  <2>2. IsFiniteSet(few)
    <3>. HIDE DEF few
    <3>. QED
      BY <1>11, FS_Subset
  <2>. HIDE DEF few
  <2>. QED
    BY <1>10, <2>1, <2>2, FS_Bijection
<1>13. few = {o \in S : Cardinality(below[o]) < k}
  BY <1>2
<1>. HIDE DEF few
<1>. QED
  BY <1>12, <1>13

\* The k highest of S.
Hindmost(S, k) == {o \in S : Cardinality({p \in S : p > o}) < k}

\* There are k lowest and k highest, when there are as many at all.
LEMMA EndsAreExact ==
    ASSUME NEW S, IsFiniteSet(S), S \subseteq Int, NEW k \in 0..Cardinality(S)
    PROVE  Cardinality(Foremost(S, k)) = k /\ Cardinality(Hindmost(S, k)) = k
<1> DEFINE low == [o \in S |-> {p \in S : p < o}]
           high == [o \in S |-> {p \in S : p > o}]
<1>1. /\ low \in [S -> SUBSET S] /\ \A o \in S : o \notin low[o]
      /\ \A o, p \in S : o # p => \/ low[o] \cup {o} \subseteq low[p]
                                  \/ low[p] \cup {p} \subseteq low[o]
  <2>1. \A o, p \in S : /\ (p \in low[o] <=> p < o) /\ low[o] \subseteq S
                        /\ o \in Int /\ p \in Int
    OBVIOUS
  <2>2. low \in [S -> SUBSET S]
    OBVIOUS
  <2>. HIDE DEF low
  <2>3. ASSUME NEW o \in S, NEW p \in S, o < p PROVE low[o] \cup {o} \subseteq low[p]
    <3>1. ASSUME NEW q \in low[o] PROVE q \in S /\ q < p
      <4>1. q \in S
        BY <2>1, <3>1
      <4>2. q < o /\ q \in Int /\ o \in Int /\ p \in Int
        BY <2>1, <3>1, <4>1
      <4>. QED
        BY <2>3, <4>1, <4>2
    <3>. QED
      BY <2>1, <2>3, <3>1
  <2>4. \A o, p \in S : o # p => o < p \/ p < o
    BY <2>1
  <2>. QED
    BY <2>1, <2>2, <2>3, <2>4
<1>2. /\ high \in [S -> SUBSET S] /\ \A o \in S : o \notin high[o]
      /\ \A o, p \in S : o # p => \/ high[o] \cup {o} \subseteq high[p]
                                  \/ high[p] \cup {p} \subseteq high[o]
  <2>1. \A o, p \in S : /\ (p \in high[o] <=> p > o) /\ high[o] \subseteq S
                        /\ o \in Int /\ p \in Int
    OBVIOUS
  <2>2. high \in [S -> SUBSET S]
    OBVIOUS
  <2>. HIDE DEF high
  <2>3. ASSUME NEW o \in S, NEW p \in S, o > p PROVE high[o] \cup {o} \subseteq high[p]
    <3>1. ASSUME NEW q \in high[o] PROVE q \in S /\ q > p
      <4>1. q \in S
        BY <2>1, <3>1
      <4>2. q > o /\ q \in Int /\ o \in Int /\ p \in Int
        BY <2>1, <3>1, <4>1
      <4>. QED
        BY <2>3, <4>1, <4>2
    <3>. QED
      BY <2>1, <2>3, <3>1
  <2>4. \A o, p \in S : o # p => o > p \/ p > o
    BY <2>1
  <2>. QED
    BY <2>1, <2>2, <2>3, <2>4
<1>3. /\ Foremost(S, k) = {o \in S : Cardinality(low[o]) < k}
      /\ Hindmost(S, k) = {o \in S : Cardinality(high[o]) < k}
  BY DEF Foremost, Hindmost
<1>. HIDE DEF low, high
<1>4. Cardinality({o \in S : Cardinality(low[o]) < k}) = k
  BY <1>1, FirstByRank
<1>5. Cardinality({o \in S : Cardinality(high[o]) < k}) = k
  BY <1>2, FirstByRank
<1>. QED
  BY <1>3, <1>4, <1>5

-----------------------------------------------------------------------------
(* A fold over a finite set, whose step is the function step and which     *)
(* takes pick[s] last.                                                     *)

FoldBody(step, base, pick, g, s) ==
    IF s = {} THEN base ELSE step[<<pick[s], g[s \ {pick[s]}]>>]

IsFold(step, base, pick, g, S) ==
    g = [s \in SUBSET S |-> FoldBody(step, base, pick, g, s)]

\* Two functions that satisfy the equation agree where both are defined.
LEMMA FoldIsUnique ==
    ASSUME NEW step, NEW base, NEW pick, NEW S, IsFiniteSet(S),
           \A s \in SUBSET S : s # {} => pick[s] \in s,
           NEW A \in SUBSET S, NEW B \in SUBSET S, NEW g, NEW h,
           IsFold(step, base, pick, g, A), IsFold(step, base, pick, h, B)
    PROVE  \A s \in SUBSET (A \cap B) : g[s] = h[s]
<1>. DEFINE Bad == {s \in SUBSET (A \cap B) : g[s] # h[s]}
<1>. SUFFICES ASSUME Bad # {} PROVE FALSE
  OBVIOUS
<1>1. PICK s \in Bad : \A r \in Bad : r \subseteq s => r = s
  <2>1. Bad \subseteq SUBSET S
    OBVIOUS
  <2>. HIDE DEF Bad
  <2>. QED
    BY <2>1, SmallestSet
<1>2. s \in SUBSET A /\ s \in SUBSET B /\ s \in SUBSET S
  BY <1>1
<1>3. /\ g[s] = FoldBody(step, base, pick, g, s)
      /\ h[s] = FoldBody(step, base, pick, h, s)
  BY <1>2 DEF IsFold
<1>4. CASE s = {}
  BY <1>1, <1>3, <1>4 DEF FoldBody
<1>5. CASE s # {}
  <2>. DEFINE r == s \ {pick[s]}
  <2>1. r \subseteq s /\ r # s /\ r \in SUBSET (A \cap B)
    BY <1>1, <1>2, <1>5
  <2>2. g[r] = h[r]
    BY <1>1, <2>1
  <2>. QED
    BY <1>1, <1>3, <1>5, <2>2 DEF FoldBody
<1>. QED
  BY <1>4, <1>5

\* Some function satisfies it.
LEMMA FoldExists ==
    ASSUME NEW step, NEW base, NEW pick, NEW S, IsFiniteSet(S),
           \A s \in SUBSET S : s # {} => pick[s] \in s
    PROVE  \E g : IsFold(step, base, pick, g, S)
<1>. DEFINE Sol(s) == CHOOSE g : IsFold(step, base, pick, g, s)
            Solved(s) == \E g : IsFold(step, base, pick, g, s)
            Bad == {s \in SUBSET S : ~Solved(s)}
<1>. SUFFICES ASSUME Bad # {} PROVE FALSE
  OBVIOUS
<1>1. PICK s \in Bad : \A r \in Bad : r \subseteq s => r = s
  <2>1. Bad \subseteq SUBSET S
    OBVIOUS
  <2>. HIDE DEF Bad
  <2>. QED
    BY <2>1, SmallestSet
<1>2. s \in SUBSET S
  BY <1>1
<1>3. ASSUME NEW r \in SUBSET s, r # s
      PROVE  IsFold(step, base, pick, Sol(r), r)
  <2>1. r \in SUBSET S /\ r \notin Bad
    BY <1>1, <1>2, <1>3
  <2>2. Solved(r)
    BY <2>1
  <2>. QED
    BY <2>2
<1>. DEFINE val(r) == Sol(r)[r]
            Rem(r) == r \ {pick[r]}
<1>4. ASSUME NEW r \in SUBSET s, r # s, r # {}
      PROVE  val(r) = step[<<pick[r], val(Rem(r))>>]
  <2>1. Rem(r) \in SUBSET s /\ Rem(r) # s /\ Rem(r) \subseteq r /\ Rem(r) \in SUBSET r
    BY <1>4
  <2>2. IsFold(step, base, pick, Sol(r), r) /\ IsFold(step, base, pick, Sol(Rem(r)), Rem(r))
    <3>. HIDE DEF Sol, Rem
    <3>. QED
      BY <1>3, <1>4, <2>1
  <2>3. r \in SUBSET S /\ Rem(r) \in SUBSET S /\ Rem(r) \in SUBSET (r \cap Rem(r))
    BY <1>2, <2>1
  <2>. HIDE DEF Sol, Rem
  <2>4. Sol(r)[Rem(r)] = Sol(Rem(r))[Rem(r)]
    BY <2>2, <2>3, FoldIsUnique
  <2>5. Sol(r)[r] = FoldBody(step, base, pick, Sol(r), r)
    BY <2>2 DEF IsFold
  <2>. QED
    BY <1>4, <2>4, <2>5 DEF FoldBody, Rem
<1>5. s # {} => val({}) = base
  <2>. SUFFICES ASSUME s # {} PROVE val({}) = base
    OBVIOUS
  <2>1. {} \in SUBSET s
    OBVIOUS
  <2>. HIDE DEF Sol
  <2>2. IsFold(step, base, pick, Sol({}), {})
    BY <1>3, <2>1
  <2>3. Sol({})[{}] = FoldBody(step, base, pick, Sol({}), {})
    BY <2>2 DEF IsFold
  <2>. QED
    BY <2>3 DEF FoldBody
<1>6. CASE s = {}
  <2>. DEFINE g == [r \in SUBSET s |-> base]
  <2>1. IsFold(step, base, pick, g, s)
    BY <1>6 DEF IsFold, FoldBody
  <2>. QED
    BY <1>1, <2>1
<1>7. CASE s # {}
  <2>. HIDE DEF val
  <2>. DEFINE g == [r \in SUBSET s |->
                      IF r = s THEN step[<<pick[s], val(Rem(s))>>] ELSE val(r)]
  <2>1. ASSUME NEW r \in SUBSET s
        PROVE  g[r] = FoldBody(step, base, pick, g, r)
    <3>1. CASE r = {}
      BY <1>5, <1>7, <3>1 DEF FoldBody
    <3>2. CASE r # {}
      <4>1. Rem(r) \in SUBSET s /\ Rem(r) # s
        BY <1>2, <3>2
      <4>2. g[Rem(r)] = val(Rem(r))
        BY <4>1
      <4>3. g[r] = step[<<pick[r], val(Rem(r))>>]
        BY <1>4, <3>2
      <4>. QED
        BY <3>2, <4>2, <4>3 DEF FoldBody
    <3>. QED
      BY <3>1, <3>2
  <2>2. IsFold(step, base, pick, g, s)
    BY <2>1 DEF IsFold
  <2>. QED
    BY <1>1, <2>2
<1>. QED
  BY <1>6, <1>7

-----------------------------------------------------------------------------
(* Sums.                                                                   *)

\* What the elements of S weigh together.
Total(w, S) == MapThenSumSet(LAMBDA t : w[t], S)

\* As many pairs as the sum has units.
UnitsOf(w, S) == UNION {{t} \X (1..w[t]) : t \in S}

\* The fold takes one element and goes on with the rest.
Rest(s) == s \ {CHOOSE x \in s : TRUE}
Body(w, g, s) == IF s = {} THEN 0 ELSE w[CHOOSE x \in s : TRUE] + g[Rest(s)]

\* The sum, unfolded: the function that satisfies the fold's own equation.
LEMMA TotalIsAFold ==
    ASSUME NEW w, NEW S
    PROVE  Total(w, S) = (CHOOSE g : g = [s \in SUBSET S |-> Body(w, g, s)])[S]
BY DEF Total, MapThenSumSet, MapThenFoldSet, Body, Rest

\* One element has as many units as it weighs.
LEMMA UnitsOfOne ==
    ASSUME NEW k \in Nat, NEW t
    PROVE  /\ IsFiniteSet({t} \X (1..k))
           /\ Cardinality({t} \X (1..k)) = k
<1>1. IsFiniteSet({t}) /\ Cardinality({t}) = 1
  BY FS_Singleton
<1>2. IsFiniteSet(1..k) /\ Cardinality(1..k) = k
  BY FS_Interval
<1>3. /\ IsFiniteSet({t} \X (1..k))
      /\ Cardinality({t} \X (1..k)) = Cardinality({t}) * Cardinality(1..k)
  BY <1>1, <1>2, FS_Product
<1>. QED BY <1>1, <1>2, <1>3

\* Finitely many elements have finitely many units.
LEMMA UnitsFinite ==
    ASSUME NEW S, IsFiniteSet(S), NEW w, \A t \in S : w[t] \in Nat
    PROVE  IsFiniteSet(UnitsOf(w, S))
<1>1. \A U \in {{t} \X (1..w[t]) : t \in S} : IsFiniteSet(U)
  BY UnitsOfOne
<1>2. IsFiniteSet({{t} \X (1..w[t]) : t \in S})
  <2>. DEFINE T == {{t} \X (1..w[t]) : t \in S}
              f == [t \in S |-> {t} \X (1..w[t])]
  <2>1. f \in Surjection(S, T)
    BY DEF Surjection
  <2>. QED BY <2>1, FS_Surjection
<1>. QED BY <1>1, <1>2, FS_UNION DEF UnitsOf

\* The units of a set are those of one element and those of the others.
LEMMA UnitsAddUp ==
    ASSUME NEW S, IsFiniteSet(S), NEW w, \A t \in S : w[t] \in Nat, NEW x \in S
    PROVE  /\ Cardinality(UnitsOf(w, S)) = w[x] + Cardinality(UnitsOf(w, S \ {x}))
           /\ Cardinality(UnitsOf(w, S)) \in Nat
           /\ Cardinality(UnitsOf(w, S \ {x})) \in Nat
<1>. DEFINE A == {x} \X (1..w[x])
            B == UnitsOf(w, S \ {x})
<1>1. UnitsOf(w, S) = A \cup B /\ A \cap B = {}
  BY DEF UnitsOf
<1>2. IsFiniteSet(A) /\ Cardinality(A) = w[x]
  BY UnitsOfOne
<1>3. IsFiniteSet(B)
  <2>1. IsFiniteSet(S \ {x})
    BY FS_RemoveElement
  <2>. QED BY <2>1, UnitsFinite
<1>4. Cardinality(A \cup B) = Cardinality(A) + Cardinality(B) - Cardinality(A \cap B)
  BY <1>2, <1>3, FS_Union
<1>5. Cardinality(A \cap B) = 0
  BY <1>1, FS_EmptySet
<1>6. Cardinality(B) \in Nat
  BY <1>3, FS_CardinalityType
<1>. HIDE DEF A, B
<1>7. QED BY <1>1, <1>2, <1>4, <1>5, <1>6 DEF B

\* The empty set has no unit.
LEMMA UnitsOfNone == ASSUME NEW w PROVE Cardinality(UnitsOf(w, {})) = 0
<1>1. UnitsOf(w, {}) = {}
  BY DEF UnitsOf
<1>. QED BY <1>1, FS_EmptySet

\* A sum is the number of its units: the fold's equation has one solution.
LEMMA TotalCountsUnits ==
    ASSUME NEW S, IsFiniteSet(S), NEW w, \A t \in S : w[t] \in Nat
    PROVE  Total(w, S) = Cardinality(UnitsOf(w, S))
<1>. DEFINE Solves(g) == g = [s \in SUBSET S |-> Body(w, g, s)]
            count == [s \in SUBSET S |-> Cardinality(UnitsOf(w, s))]
            fold == CHOOSE g : Solves(g)
<1>0. ASSUME NEW s \in SUBSET S, s # {}
      PROVE  /\ (CHOOSE x \in s : TRUE) \in s
             /\ Rest(s) \in SUBSET S /\ Rest(s) \subseteq s /\ Rest(s) # s
  BY <1>0 DEF Rest
<1>1. Solves(count)
  <2>1. ASSUME NEW s \in SUBSET S PROVE count[s] = Body(w, count, s)
    <3>1. CASE s = {}
      BY <3>1, UnitsOfNone DEF Body
    <3>2. CASE s # {}
      <4>1. IsFiniteSet(s) /\ \A t \in s : w[t] \in Nat
        BY FS_Subset
      <4>2. (CHOOSE x \in s : TRUE) \in s
        BY <3>2, <1>0
      <4>3. Cardinality(UnitsOf(w, s))
              = w[CHOOSE x \in s : TRUE]
                + Cardinality(UnitsOf(w, s \ {CHOOSE x \in s : TRUE}))
        BY <4>1, <4>2, UnitsAddUp, ZenonT(25)
      <4>. QED BY <3>2, <4>3, <1>0 DEF Body, Rest
    <3>. QED BY <3>1, <3>2
  <2>. QED BY <2>1
<1>2. Solves(fold)
  BY <1>1
<1>. HIDE DEF fold
<1>3. \A s \in SUBSET S : fold[s] = count[s]
  <2>. DEFINE Bad == {s \in SUBSET S : fold[s] # count[s]}
  <2>. SUFFICES ASSUME Bad # {} PROVE FALSE
    OBVIOUS
  <2>1. PICK s \in Bad : \A r \in Bad : r \subseteq s => r = s
    <3>1. Bad \subseteq SUBSET S
      OBVIOUS
    <3>. HIDE DEF Bad
    <3>. QED BY <3>1, SmallestSet
  <2>2. fold[s] = Body(w, fold, s) /\ count[s] = Body(w, count, s)
    BY <1>1, <1>2
  <2>3. CASE s = {}
    BY <2>2, <2>3 DEF Body
  <2>4. CASE s # {}
    <3>1. Rest(s) \notin Bad /\ Rest(s) \in SUBSET S
      <4>1. Rest(s) \in SUBSET S /\ Rest(s) \subseteq s /\ Rest(s) # s
        BY <1>0, <2>1, <2>4
      <4>2. Rest(s) \in Bad => Rest(s) = s
        BY <4>1, <2>1
      <4>. QED BY <4>1, <4>2
    <3>2. fold[Rest(s)] = count[Rest(s)]
      BY <3>1
    <3>. QED BY <2>2, <2>4, <3>2 DEF Body
  <2>. QED BY <2>3, <2>4
<1>4. Total(w, S) = fold[S]
  BY TotalIsAFold DEF fold
<1>. QED BY <1>3, <1>4

-----------------------------------------------------------------------------
(* What the models need of sums.                                           *)

\* A sum of natural numbers is one, and nothing weighs nothing.
LEMMA TotalIsNat ==
    ASSUME NEW S, IsFiniteSet(S), NEW w, \A t \in S : w[t] \in Nat
    PROVE  Total(w, S) \in Nat
<1>1. IsFiniteSet(UnitsOf(w, S))
  BY UnitsFinite
<1>. QED
  BY <1>1, TotalCountsUnits, FS_CardinalityType

\* Nothing weighs nothing.
LEMMA TotalOfNone ==
    ASSUME NEW w
    PROVE  Total(w, {}) = 0
<1>1. IsFiniteSet({})
  BY FS_EmptySet
<1>2. Total(w, {}) = Cardinality(UnitsOf(w, {}))
  BY <1>1, TotalCountsUnits
<1>. QED
  BY <1>2, UnitsOfNone

\* Separate sets add up.
LEMMA TotalOfUnion ==
    ASSUME NEW A, NEW B, IsFiniteSet(A), IsFiniteSet(B), A \cap B = {},
           NEW w, \A t \in A \cup B : w[t] \in Nat
    PROVE  Total(w, A \cup B) = Total(w, A) + Total(w, B)
<1>1. IsFiniteSet(A \cup B)
  BY FS_Union
<1>2. /\ Total(w, A) = Cardinality(UnitsOf(w, A))
      /\ Total(w, B) = Cardinality(UnitsOf(w, B))
      /\ Total(w, A \cup B) = Cardinality(UnitsOf(w, A \cup B))
  BY <1>1, TotalCountsUnits
<1>3. /\ UnitsOf(w, A \cup B) = UnitsOf(w, A) \cup UnitsOf(w, B)
      /\ UnitsOf(w, A) \cap UnitsOf(w, B) = {}
  BY DEF UnitsOf
<1>4. IsFiniteSet(UnitsOf(w, A)) /\ IsFiniteSet(UnitsOf(w, B))
  BY UnitsFinite
<1>5. Cardinality(UnitsOf(w, A) \cup UnitsOf(w, B))
        = Cardinality(UnitsOf(w, A)) + Cardinality(UnitsOf(w, B)) - Cardinality({})
  BY <1>3, <1>4, FS_Union
<1>6. /\ Cardinality({}) = 0
      /\ Cardinality(UnitsOf(w, A)) \in Nat /\ Cardinality(UnitsOf(w, B)) \in Nat
  BY <1>4, FS_EmptySet, FS_CardinalityType
<1>7. Total(w, A \cup B)
        = Cardinality(UnitsOf(w, A)) + Cardinality(UnitsOf(w, B)) - Cardinality({})
  BY <1>2, <1>3, <1>5, Zenon
<1>. QED
  BY <1>2, <1>6, <1>7

\* A part weighs no more than the whole.
LEMMA TotalOfSubset ==
    ASSUME NEW A, NEW B, IsFiniteSet(B), A \subseteq B,
           NEW w, \A t \in B : w[t] \in Nat
    PROVE  Total(w, A) <= Total(w, B)
<1>1. IsFiniteSet(A) /\ IsFiniteSet(B \ A)
  BY FS_Subset
<1>2. Total(w, A \cup (B \ A)) = Total(w, A) + Total(w, B \ A)
  BY <1>1, TotalOfUnion
<1>3. Total(w, A) \in Nat /\ Total(w, B \ A) \in Nat
  BY <1>1, TotalIsNat
<1>4. A \cup (B \ A) = B
  OBVIOUS
<1>5. Total(w, B) = Total(w, A) + Total(w, B \ A)
  BY <1>2, <1>4, Zenon
<1>. QED
  BY <1>3, <1>5

\* One element weighs its weight.
LEMMA TotalOfOne ==
    ASSUME NEW w, NEW t, w[t] \in Nat
    PROVE  Total(w, {t}) = w[t]
<1>1. IsFiniteSet({t})
  BY FS_Singleton
<1>2. Total(w, {t}) = Cardinality(UnitsOf(w, {t}))
  BY <1>1, TotalCountsUnits
<1>3. UnitsOf(w, {t}) = {t} \X (1..w[t])
  BY DEF UnitsOf
<1>. QED
  BY <1>2, <1>3, UnitsOfOne

\* The same weights weigh the same.
LEMMA TotalOfSame ==
    ASSUME NEW S, IsFiniteSet(S), NEW v, NEW w,
           \A t \in S : w[t] \in Nat /\ v[t] = w[t]
    PROVE  Total(v, S) = Total(w, S)
<1>1. UnitsOf(v, S) = UnitsOf(w, S)
  BY DEF UnitsOf
<1>2. Total(v, S) = Cardinality(UnitsOf(v, S)) /\ Total(w, S) = Cardinality(UnitsOf(w, S))
  BY TotalCountsUnits
<1>. QED
  BY <1>1, <1>2, Zenon

\* Weights that move from one set to another, one to one, weigh the same there.
LEMMA TotalOfMoved ==
    ASSUME NEW A, NEW B, IsFiniteSet(A), IsFiniteSet(B), NEW f \in Bijection(A, B),
           NEW v, NEW w, \A t \in A : w[t] \in Nat /\ v[f[t]] = w[t]
    PROVE  Total(v, B) = Total(w, A)
<1>1. /\ \A t \in A : f[t] \in B
      /\ \A s, t \in A : f[s] = f[t] => s = t
      /\ \A b \in B : \E t \in A : f[t] = b
  BY DEF Bijection, Injection, Surjection, IsInjective
<1>2. \A b \in B : v[b] \in Nat
  BY <1>1
<1>. DEFINE U == UnitsOf(w, A)
            V == UnitsOf(v, B)
            g == [u \in U |-> <<f[u[1]], u[2]>>]
<1>3. /\ \A u \in U : u = <<u[1], u[2]>> /\ u[1] \in A /\ u[2] \in 1..w[u[1]]
      /\ \A t \in A, i \in Nat : i \in 1..w[t] => <<t, i>> \in U
      /\ \A u \in V : u = <<u[1], u[2]>> /\ u[1] \in B /\ u[2] \in 1..v[u[1]]
      /\ \A b \in B, i \in Nat : i \in 1..v[b] => <<b, i>> \in V
  BY DEF UnitsOf
<1>4. g \in [U -> V]
  <2>. SUFFICES ASSUME NEW u \in U PROVE <<f[u[1]], u[2]>> \in V
    OBVIOUS
  <2>1. u[1] \in A /\ u[2] \in 1..w[u[1]] /\ w[u[1]] \in Nat
    BY <1>3
  <2>2. f[u[1]] \in B /\ v[f[u[1]]] = w[u[1]] /\ u[2] \in Nat
    BY <1>1, <2>1
  <2>. QED
    BY <1>3, <2>1, <2>2
<1>5. \A x, y \in U : g[x] = g[y] => x = y
  <2>. SUFFICES ASSUME NEW x \in U, NEW y \in U, g[x] = g[y] PROVE x = y
    OBVIOUS
  <2>1. f[x[1]] = f[y[1]] /\ x[2] = y[2]
    OBVIOUS
  <2>2. x[1] = y[1]
    BY <1>1, <1>3, <2>1
  <2>. QED
    BY <1>3, <2>1, <2>2
<1>6. \A z \in V : \E u \in U : g[u] = z
  <2>. SUFFICES ASSUME NEW z \in V PROVE \E u \in U : g[u] = z
    OBVIOUS
  <2>1. z = <<z[1], z[2]>> /\ z[1] \in B /\ z[2] \in 1..v[z[1]] /\ v[z[1]] \in Nat
    BY <1>2, <1>3
  <2>2. PICK t \in A : f[t] = z[1]
    BY <1>1, <2>1
  <2>3. <<t, z[2]>> \in U
    BY <1>3, <2>1, <2>2
  <2>4. g[<<t, z[2]>>] = z
    BY <2>1, <2>2, <2>3
  <2>. QED
    BY <2>3, <2>4
<1>. HIDE DEF U, V, g
<1>7. g \in Bijection(U, V)
  BY <1>4, <1>5, <1>6 DEF Bijection, Injection, Surjection, IsInjective
<1>8. IsFiniteSet(U)
  BY UnitsFinite DEF U
<1>9. Cardinality(V) = Cardinality(U)
  BY <1>7, <1>8, FS_Bijection DEF ExistsBijection
<1>10. Total(w, A) = Cardinality(U) /\ Total(v, B) = Cardinality(V)
  BY <1>2, TotalCountsUnits DEF U, V
<1>. QED
  BY <1>9, <1>10

\* The sum of a function is what its arguments weigh.
LEMMA SumIsTotal ==
    ASSUME NEW f
    PROVE  SumFunction(f) = Total(f, DOMAIN f)
BY DEF SumFunction, SumFunctionOnSet, FoldFunctionOnSet, MapThenFoldSet, Total,
       MapThenSumSet

-----------------------------------------------------------------------------
(* A fold over the indices of a sequence, from left to right.              *)

\* What holds of 0, and of a number when it holds of the one before, holds up
\* to n.
LEMMA UpTo ==
    ASSUME NEW n \in Nat, NEW G, 0 \in G, \A i \in 1..n : i - 1 \in G => i \in G
    PROVE  0..n \subseteq G
<1>. DEFINE Done == {i \in 0..n : 0..i \subseteq G}
<1>1. IsFiniteSet(0..n)
  BY FS_Interval
<1>2. 0 \in Done
  OBVIOUS
<1>3. Done \subseteq Int /\ IsFiniteSet(Done) /\ Done # {}
  BY <1>1, <1>2, FS_Subset
<1>4. PICK m \in Done : \A i \in Done : i <= m
  <2>. HIDE DEF Done
  <2>. QED
    BY <1>3, MaxIsThere
<1>5. m = n
  <2>. SUFFICES ASSUME m # n PROVE FALSE
    OBVIOUS
  <2>1. m + 1 \in 1..n /\ 0..(m + 1) = (0..m) \cup {m + 1}
    BY <1>4
  <2>2. m + 1 \in G
    BY <1>4, <2>1
  <2>3. m + 1 \in Done
    BY <1>4, <2>1, <2>2
  <2>. QED
    BY <1>4, <2>3
<1>. QED
  BY <1>4, <1>5

\* The last index of a prefix.
LEMMA LastOfPrefix ==
    ASSUME NEW i \in Nat, i # 0
    PROVE  /\ 1..i # {} /\ Max(1..i) = i
           /\ (1..i) \ {Max(1..i)} = 1..(i - 1)
<1>1. IsFiniteSet(1..i) /\ 1..i \subseteq Int /\ i \in 1..i
  BY FS_Interval
<1>2. Max(1..i) \in 1..i /\ i <= Max(1..i)
  BY <1>1, MaxIsThere
<1>3. Max(1..i) = i
  BY <1>2
<1>. QED
  BY <1>1, <1>3

IsLeftFold(n, T, base, step, g) ==
    /\ g \in [SUBSET (1..n) -> T]
    /\ g[{}] = base
    /\ \A s \in SUBSET (1..n) :
          s # {} => /\ Max(s) \in s
                    /\ g[s] = step[<<Max(s), g[s \ {Max(s)}]>>]

\* The equation of FoldLeft has a solution with values of one type.
LEMMA LeftFoldExists ==
    ASSUME NEW n \in Nat, NEW T, NEW base \in T, NEW step,
           \A i \in 1..n : \A v \in T : step[<<i, v>>] \in T
    PROVE  \E g : IsLeftFold(n, T, base, step, g)
<1>. DEFINE S == 1..n
            pick == [s \in SUBSET S |-> Max(s)]
<1>1. IsFiniteSet(S) /\ S \subseteq Int
  BY FS_Interval
<1>2. ASSUME NEW s \in SUBSET S, s # {} PROVE Max(s) \in s
  <2>1. IsFiniteSet(s) /\ s \subseteq Int
    BY <1>1, FS_Subset
  <2>. QED
    BY <1>2, <2>1, MaxIsThere
<1>3. \A s \in SUBSET S : s # {} => pick[s] \in s
  BY <1>2
<1>4. PICK g : IsFold(step, base, pick, g, S)
  <2>. HIDE DEF S, pick
  <2>. QED
    BY <1>1, <1>3, FoldExists
<1>5. g[{}] = base
  BY <1>4 DEF IsFold, FoldBody
<1>6. ASSUME NEW s \in SUBSET S, s # {}
      PROVE  g[s] = step[<<Max(s), g[s \ {Max(s)}]>>]
  BY <1>4, <1>6 DEF IsFold, FoldBody
<1>7. \A s \in SUBSET S : g[s] \in T
  <2>. DEFINE Bad == {s \in SUBSET S : g[s] \notin T}
  <2>. SUFFICES ASSUME Bad # {} PROVE FALSE
    OBVIOUS
  <2>1. PICK s \in Bad : \A r \in Bad : r \subseteq s => r = s
    <3>1. Bad \subseteq SUBSET S /\ IsFiniteSet(S) /\ Bad # {}
      BY <1>1
    <3>. HIDE DEF Bad, S
    <3>. QED
      BY ONLY <3>1, SmallestSet
  <2>2. s # {}
    BY <1>5, <2>1
  <2>. DEFINE r == s \ {Max(s)}
  <2>3. Max(s) \in s /\ r \in SUBSET S /\ r # s /\ r \subseteq s
    BY <1>2, <2>1, <2>2
  <2>4. g[r] \in T
    BY <2>1, <2>3
  <2>5. g[s] = step[<<Max(s), g[r]>>]
    BY <1>6, <2>1, <2>2
  <2>6. step[<<Max(s), g[r]>>] \in T
    BY <2>1, <2>3, <2>4
  <2>. QED
    BY <2>1, <2>5, <2>6
<1>8. g \in [SUBSET S -> T]
  <2>1. g = [s \in SUBSET S |-> FoldBody(step, base, pick, g, s)]
    BY <1>4 DEF IsFold
  <2>. HIDE DEF pick, S
  <2>. QED
    BY <1>7, <2>1
<1>. QED
  BY <1>2, <1>5, <1>6, <1>8 DEF IsLeftFold
-----------------------------------------------------------------------------
(* Growing to a fixpoint.                                                  *)

\* Of numbers up to N there is a least one.
LEMMA LeastNumber ==
    ASSUME NEW N \in Nat, NEW B, B \subseteq 0..N, B # {}
    PROVE  \E m \in B : m \in 0..N /\ \A k \in 0..N : k < m => k \notin B
<1>1. IsFiniteSet(B) /\ B \subseteq Int
  BY Numbers, FS_Subset
<1>2. PICK m \in B : \A y \in B : m <= y
  BY <1>1, MinIsThere
<1>. QED
  BY <1>1, <1>2

\* f goes from a by the step G, N times.
IsIteration(f, N, a, G) ==
    f = [n \in 0..N |-> IF n = 0 THEN a ELSE G[f[n - 1]]]

\* The equation has a solution.
LEMMA IterationExists ==
    ASSUME NEW N \in Nat, NEW V, NEW a \in V, NEW G \in [V -> V]
    PROVE  \E f : IsIteration(f, N, a, G)
<1>. DEFINE Goes(k) == \E f : IsIteration(f, k, a, G)
            Bad == {k \in 0..N : ~Goes(k)}
<1>1. Bad = {}
  <2>. SUFFICES ASSUME Bad # {} PROVE FALSE
    OBVIOUS
  <2>1. PICK m \in Bad : m \in 0..N /\ \A k \in 0..N : k < m => k \notin Bad
    <3>1. Bad \subseteq 0..N
      OBVIOUS
    <3>. HIDE DEF Bad
    <3>. QED
      BY <3>1, LeastNumber
  <2>2. CASE m = 0
    <3>. DEFINE f == [n \in 0..0 |-> a]
    <3>1. \A n \in 0..0 : n = 0
      OBVIOUS
    <3>2. IsIteration(f, 0, a, G)
      BY <3>1 DEF IsIteration
    <3>. QED
      BY <2>1, <2>2, <3>2
  <2>3. CASE m # 0
    <3>1. m - 1 \in 0..N /\ m - 1 < m /\ m \in Nat
      BY <2>1, <2>3
    <3>2. PICK f : IsIteration(f, m - 1, a, G)
      BY <2>1, <3>1
    <3>. DEFINE g == [n \in 0..m |-> IF n = m THEN G[f[m - 1]] ELSE f[n]]
    <3>3. f = [n \in 0..(m - 1) |-> IF n = 0 THEN a ELSE G[f[n - 1]]]
      BY <3>2 DEF IsIteration
    <3>4. ASSUME NEW n \in 0..m
          PROVE  g[n] = IF n = 0 THEN a ELSE G[g[n - 1]]
      <4>1. CASE n = m
        <5>1. m - 1 \in 0..m /\ m - 1 # m /\ n # 0
          BY <2>3, <3>1, <4>1
        <5>2. g[m - 1] = f[m - 1]
          BY <5>1
        <5>. QED
          BY <4>1, <5>1, <5>2
      <4>2. CASE n # m
        <5>1. n \in 0..(m - 1)
          BY <3>1, <4>2
        <5>2. f[n] = IF n = 0 THEN a ELSE G[f[n - 1]]
          BY <3>3, <5>1
        <5>3. g[n] = f[n]
          BY <4>2
        <5>4. CASE n # 0
          <6>1. n - 1 \in 0..m /\ n - 1 # m
            BY <3>1, <5>1, <5>4
          <6>2. g[n - 1] = f[n - 1]
            BY <6>1
          <6>. QED
            BY <5>2, <5>3, <5>4, <6>2
        <5>. QED
          BY <5>2, <5>3, <5>4
      <4>. QED
        BY <4>1, <4>2
    <3>5. g = [n \in 0..m |-> IF n = 0 THEN a ELSE G[g[n - 1]]]
      <4>1. g = [n \in 0..m |-> g[n]]
        OBVIOUS
      <4>. HIDE DEF g
      <4>. QED
        BY <3>4, <4>1
    <3>. HIDE DEF g
    <3>6. IsIteration(g, m, a, G)
      BY <3>5 DEF IsIteration
    <3>. QED
      BY <2>1, <3>6
  <2>. QED
    BY <2>2, <2>3
<1>2. N \in 0..N
  OBVIOUS
<1>. QED
  BY <1>1, <1>2

\* f starts at a and goes by the step G as long as it stays in V.
Stepwise(f, N, V, a, G) ==
    /\ N \in Nat /\ a \in V /\ G \in [V -> V]
    /\ f[0] = a
    /\ \A n \in 1..N : f[n - 1] \in V => f[n] = G[f[n - 1]]

\* So it does stay there.
LEMMA StepwiseStays ==
    ASSUME NEW f, NEW N, NEW V, NEW a, NEW G, Stepwise(f, N, V, a, G)
    PROVE  \A n \in 0..N : f[n] \in V
<1>. DEFINE Bad == {n \in 0..N : f[n] \notin V}
<1>. SUFFICES ASSUME Bad # {} PROVE FALSE
  OBVIOUS
<1>1. /\ N \in Nat /\ a \in V /\ G \in [V -> V] /\ f[0] = a
      /\ \A n \in 1..N : f[n - 1] \in V => f[n] = G[f[n - 1]]
  BY DEF Stepwise
<1>2. PICK m \in Bad : m \in 0..N /\ \A k \in 0..N : k < m => k \notin Bad
  <2>1. Bad \subseteq 0..N
    OBVIOUS
  <2>. HIDE DEF Bad
  <2>. QED
    BY <1>1, <2>1, LeastNumber
<1>3. m # 0
  BY <1>1, <1>2
<1>4. m - 1 \in 0..N /\ m - 1 < m /\ m \in 1..N
  BY <1>1, <1>2, <1>3
<1>5. f[m - 1] \in V
  BY <1>2, <1>4
<1>6. f[m] = G[f[m - 1]]
  BY <1>1, <1>4, <1>5
<1>. QED
  BY <1>1, <1>2, <1>5, <1>6

\* An iteration goes by its step.
LEMMA IterationIsStepwise ==
    ASSUME NEW f, NEW N \in Nat, NEW V, NEW a \in V, NEW G \in [V -> V],
           IsIteration(f, N, a, G)
    PROVE  Stepwise(f, N, V, a, G)
<1>1. f = [n \in 0..N |-> IF n = 0 THEN a ELSE G[f[n - 1]]]
  BY DEF IsIteration
<1>2. \A n \in 0..N : f[n] = IF n = 0 THEN a ELSE G[f[n - 1]]
  BY <1>1
<1>3. 0 \in 0..N /\ \A n \in 1..N : n \in 0..N /\ n # 0
  OBVIOUS
<1>. QED
  BY <1>2, <1>3 DEF Stepwise

\* What goes by a step, and is a function of 0..N, is the iteration.
LEMMA StepwiseIsIteration ==
    ASSUME NEW f, NEW N, NEW V, NEW a, NEW G, Stepwise(f, N, V, a, G),
           f = [n \in 0..N |-> f[n]]
    PROVE  IsIteration(f, N, a, G)
<1>1. \A n \in 0..N : f[n] \in V
  BY StepwiseStays
<1>2. ASSUME NEW n \in 0..N PROVE f[n] = IF n = 0 THEN a ELSE G[f[n - 1]]
  <2>1. CASE n = 0
    BY <2>1 DEF Stepwise
  <2>2. CASE n # 0
    <3>1. n \in 1..N /\ n - 1 \in 0..N
      BY <2>2 DEF Stepwise
    <3>. QED
      BY <1>1, <2>2, <3>1 DEF Stepwise
  <2>. QED
    BY <2>1, <2>2
<1>3. [n \in 0..N |-> f[n]] = [n \in 0..N |-> IF n = 0 THEN a ELSE G[f[n - 1]]]
  BY <1>2
<1>4. f = [n \in 0..N |-> IF n = 0 THEN a ELSE G[f[n - 1]]]
  BY ONLY <1>3, f = [n \in 0..N |-> f[n]]
<1>. QED
  BY <1>4 DEF IsIteration

\* The least c of S that holds a and is closed under G.
IsClosure(c, S, a, G) ==
    /\ c \in SUBSET S /\ a \subseteq c /\ G[c] = c
    /\ \A x \in SUBSET S : a \subseteq x /\ G[x] \subseteq x => c \subseteq x

\* As many steps as S has members are enough to come to the end of what grows.
LEMMA IterationCloses ==
    ASSUME NEW S, IsFiniteSet(S), NEW a \in SUBSET S,
           NEW G \in [SUBSET S -> SUBSET S], a \subseteq G[a],
           \A x, y \in SUBSET S : x \subseteq y => G[x] \subseteq G[y],
           NEW f, IsIteration(f, Cardinality(S), a, G)
    PROVE  IsClosure(f[Cardinality(S)], S, a, G)
<1>. DEFINE N == Cardinality(S)
<1>1. N \in Nat
  BY FS_CardinalityType
<1>. HIDE DEF N
<1>2. /\ f[0] = a
      /\ \A n \in 0..N : n # 0 => f[n] = G[f[n - 1]]
  <2>1. f = [n \in 0..N |-> IF n = 0 THEN a ELSE G[f[n - 1]]]
    BY DEF IsIteration, N
  <2>2. \A n \in 0..N : f[n] = IF n = 0 THEN a ELSE G[f[n - 1]]
    BY <2>1
  <2>3. 0 \in 0..N
    BY <1>1
  <2>. QED
    BY <2>2, <2>3
<1>3. \A n \in 0..N : f[n] \in SUBSET S
  <2>. DEFINE Bad == {n \in 0..N : f[n] \notin SUBSET S}
  <2>. SUFFICES ASSUME Bad # {} PROVE FALSE
    OBVIOUS
  <2>1. PICK m \in Bad : m \in 0..N /\ \A k \in 0..N : k < m => k \notin Bad
    <3>1. Bad \subseteq 0..N
      OBVIOUS
    <3>. HIDE DEF Bad
    <3>. QED
      BY <1>1, <3>1, LeastNumber
  <2>2. m # 0
    BY <1>2, <2>1
  <2>3. m - 1 \in 0..N /\ m - 1 < m
    BY <1>1, <2>1, <2>2
  <2>4. f[m - 1] \in SUBSET S
    BY <2>1, <2>3
  <2>. QED
    BY <1>2, <2>1, <2>2, <2>4
<1>4. \A n \in 0..N : f[n] \subseteq G[f[n]]
  <2>. DEFINE Bad == {n \in 0..N : ~(f[n] \subseteq G[f[n]])}
  <2>. SUFFICES ASSUME Bad # {} PROVE FALSE
    OBVIOUS
  <2>1. PICK m \in Bad : m \in 0..N /\ \A k \in 0..N : k < m => k \notin Bad
    <3>1. Bad \subseteq 0..N
      OBVIOUS
    <3>. HIDE DEF Bad
    <3>. QED
      BY <1>1, <3>1, LeastNumber
  <2>2. m # 0
    BY <1>2, <2>1
  <2>3. m - 1 \in 0..N /\ m - 1 < m
    BY <1>1, <2>1, <2>2
  <2>4. f[m - 1] \subseteq G[f[m - 1]] /\ f[m] = G[f[m - 1]]
    BY <1>2, <2>1, <2>2, <2>3
  <2>5. f[m - 1] \in SUBSET S /\ f[m] \in SUBSET S
    BY <1>3, <2>1, <2>3
  <2>6. G[f[m - 1]] \subseteq G[f[m]]
    BY <2>4, <2>5
  <2>. QED
    BY <2>1, <2>4, <2>6
<1>5. ASSUME NEW x \in SUBSET S, a \subseteq x, G[x] \subseteq x
      PROVE  \A n \in 0..N : f[n] \subseteq x
  <2>. DEFINE Bad == {n \in 0..N : ~(f[n] \subseteq x)}
  <2>. SUFFICES ASSUME Bad # {} PROVE FALSE
    OBVIOUS
  <2>1. PICK m \in Bad : m \in 0..N /\ \A k \in 0..N : k < m => k \notin Bad
    <3>1. Bad \subseteq 0..N
      OBVIOUS
    <3>. HIDE DEF Bad
    <3>. QED
      BY <1>1, <3>1, LeastNumber
  <2>2. m # 0
    BY <1>2, <1>5, <2>1
  <2>3. m - 1 \in 0..N /\ m - 1 < m
    BY <1>1, <2>1, <2>2
  <2>4. f[m - 1] \subseteq x /\ f[m] = G[f[m - 1]]
    BY <1>2, <2>1, <2>2, <2>3
  <2>5. f[m - 1] \in SUBSET S
    BY <1>3, <2>3
  <2>6. G[f[m - 1]] \subseteq G[x]
    BY <2>4, <2>5
  <2>. QED
    BY <1>5, <2>1, <2>4, <2>6
<1>6. N \in 0..N /\ 0 \in 0..N
  BY <1>1
<1>7. a \subseteq f[N]
  <2>. DEFINE Bad == {n \in 0..N : ~(a \subseteq f[n])}
  <2>. SUFFICES ASSUME Bad # {} PROVE FALSE
    BY <1>6
  <2>1. PICK m \in Bad : m \in 0..N /\ \A k \in 0..N : k < m => k \notin Bad
    <3>1. Bad \subseteq 0..N
      OBVIOUS
    <3>. HIDE DEF Bad
    <3>. QED
      BY <1>1, <3>1, LeastNumber
  <2>2. m # 0
    BY <1>2, <2>1
  <2>3. m - 1 \in 0..N /\ m - 1 < m
    BY <1>1, <2>1, <2>2
  <2>4. a \subseteq f[m - 1] /\ f[m] = G[f[m - 1]] /\ f[m - 1] \subseteq G[f[m - 1]]
    BY <1>2, <1>4, <2>1, <2>2, <2>3
  <2>. QED
    BY <2>1, <2>4
<1>8. G[f[N]] = f[N]
  <2>. SUFFICES ASSUME G[f[N]] # f[N] PROVE FALSE
    OBVIOUS
  <2>1. \A n \in 0..N : G[f[n]] # f[n]
    <3>. SUFFICES ASSUME NEW n \in 0..N, G[f[n]] = f[n] PROVE FALSE
      OBVIOUS
    <3>. DEFINE Bad == {k \in 0..N : n <= k /\ f[k] # f[n]}
    <3>1. N \in Bad
      BY <1>6
    <3>2. PICK m \in Bad : m \in 0..N /\ \A k \in 0..N : k < m => k \notin Bad
      <4>1. Bad \subseteq 0..N /\ Bad # {}
        BY <3>1
      <4>. HIDE DEF Bad
      <4>. QED
        BY <1>1, <4>1, LeastNumber
    <3>3. m # n /\ n <= m /\ f[m] # f[n]
      BY <3>2
    <3>4. m # 0 /\ m - 1 \in 0..N /\ m - 1 < m /\ n <= m - 1
      BY <1>1, <3>2, <3>3
    <3>5. f[m - 1] = f[n]
      BY <3>2, <3>4
    <3>. QED
      BY <1>2, <3>2, <3>3, <3>4, <3>5
  <2>2. \A n \in 0..N : IsFiniteSet(f[n]) /\ Cardinality(f[n]) \in Nat
    BY <1>3, FS_Subset, FS_CardinalityType
  <2>3. \A n \in 0..N : Cardinality(f[n]) >= n
    <3>. DEFINE Bad == {n \in 0..N : ~(Cardinality(f[n]) >= n)}
    <3>. SUFFICES ASSUME Bad # {} PROVE FALSE
      OBVIOUS
    <3>1. PICK m \in Bad : m \in 0..N /\ \A k \in 0..N : k < m => k \notin Bad
      <4>1. Bad \subseteq 0..N
        OBVIOUS
      <4>. HIDE DEF Bad
      <4>. QED
        BY <1>1, <4>1, LeastNumber
    <3>2. m # 0
      BY <2>2, <3>1
    <3>3. m - 1 \in 0..N /\ m - 1 < m
      BY <1>1, <3>1, <3>2
    <3>4. Cardinality(f[m - 1]) >= m - 1
      BY <3>1, <3>3
    <3>5. f[m] = G[f[m - 1]] /\ f[m - 1] \subseteq f[m] /\ f[m - 1] # f[m]
      BY <1>2, <1>4, <2>1, <3>1, <3>2, <3>3
    <3>6. PICK x \in f[m] : x \notin f[m - 1]
      BY <3>5
    <3>7. Cardinality(f[m - 1] \cup {x}) = Cardinality(f[m - 1]) + 1
      BY <2>2, <3>3, <3>6, FS_AddElement
    <3>8. f[m - 1] \cup {x} \subseteq f[m]
      BY <3>5, <3>6
    <3>9. Cardinality(f[m - 1] \cup {x}) <= Cardinality(f[m])
      BY <2>2, <3>1, <3>8, FS_Subset
    <3>10. Cardinality(f[m]) >= m
      BY <2>2, <3>1, <3>3, <3>4, <3>7, <3>9
    <3>. QED
      BY <3>1, <3>10
  <2>4. f[N] = S
    <3>1. Cardinality(f[N]) >= Cardinality(S) /\ f[N] \subseteq S
      BY <1>3, <1>6, <2>3 DEF N
    <3>2. Cardinality(f[N]) <= Cardinality(S) /\ Cardinality(f[N]) \in Nat
      BY <3>1, FS_Subset, FS_CardinalityType
    <3>3. Cardinality(f[N]) = Cardinality(S)
      BY <1>1, <3>1, <3>2 DEF N
    <3>. QED
      BY <3>1, <3>3, FS_Subset
  <2>5. G[f[N]] \in SUBSET S /\ f[N] \subseteq G[f[N]]
    BY <1>3, <1>4, <1>6
  <2>. QED
    BY <2>4, <2>5
<1>9. f[N] \in SUBSET S
  BY <1>3, <1>6
<1>10. \A x \in SUBSET S : a \subseteq x /\ G[x] \subseteq x => f[N] \subseteq x
  BY <1>5, <1>6
<1>. QED
  BY <1>7, <1>8, <1>9, <1>10 DEF IsClosure, N

\* A sum of natural numbers is one.
LEMMA SumIsNat ==
    ASSUME NEW S, IsFiniteSet(S), NEW f, DOMAIN f = S, \A x \in S : f[x] \in Nat
    PROVE  SumFunction(f) \in Nat
BY SumIsTotal, TotalIsNat

\* A sum is that over a part and that over the rest.
LEMMA TotalOfPart ==
    ASSUME NEW A, NEW B, IsFiniteSet(B), A \subseteq B, NEW w, \A t \in B : w[t] \in Nat
    PROVE  /\ Total(w, B) = Total(w, A) + Total(w, B \ A)
           /\ Total(w, B) \in Nat /\ Total(w, A) \in Nat /\ Total(w, B \ A) \in Nat
<1>1. IsFiniteSet(A) /\ IsFiniteSet(B \ A)
  BY FS_Subset
<1>2. Total(w, A \cup (B \ A)) = Total(w, A) + Total(w, B \ A)
  BY <1>1, TotalOfUnion
<1>3. Total(w, A) \in Nat /\ Total(w, B \ A) \in Nat
  BY <1>1, TotalIsNat
<1>4. A \cup (B \ A) = B
  OBVIOUS
<1>5. Total(w, B) = Total(w, A) + Total(w, B \ A)
  BY <1>2, <1>4, Zenon
<1>. QED
  BY <1>3, <1>5

\* A sum is one of its terms and the others.
LEMMA TotalApart ==
    ASSUME NEW S, IsFiniteSet(S), NEW w, \A t \in S : w[t] \in Nat, NEW x \in S
    PROVE  /\ Total(w, S) = w[x] + Total(w, S \ {x})
           /\ Total(w, S) \in Nat /\ Total(w, S \ {x}) \in Nat
<1>1. Total(w, {x}) = w[x]
  BY TotalOfOne
<1>. QED
  BY <1>1, TotalOfPart, Zenon

\* Sums that differ in one term differ by it.
LEMMA TotalOfChange ==
    ASSUME NEW S, IsFiniteSet(S), NEW v, NEW w, NEW x \in S,
           \A t \in S : v[t] \in Nat /\ w[t] \in Nat,
           \A t \in S : t # x => v[t] = w[t]
    PROVE  Total(v, S) = Total(w, S) + v[x] - w[x]
<1>1. Total(v, S \ {x}) = Total(w, S \ {x})
  <2>1. IsFiniteSet(S \ {x})
    BY FS_RemoveElement
  <2>. QED
    BY <2>1, TotalOfSame
<1>. QED
  BY <1>1, TotalApart

\* One more in one place is one more in all.
LEMMA TotalOfOneMore ==
    ASSUME NEW S, IsFiniteSet(S), NEW x \in S, NEW v \in [S -> Nat], NEW w \in [S -> Nat],
           v[x] = w[x] + 1, \A t \in S : t # x => v[t] = w[t]
    PROVE  Total(v, S) = Total(w, S) + 1
<1>1. \A t \in S : v[t] \in Nat /\ w[t] \in Nat
  OBVIOUS
<1>2. Total(v, S) = Total(w, S) + v[x] - w[x]
  BY <1>1, TotalOfChange
<1>3. Total(w, S) \in Nat /\ w[x] \in Nat
  BY <1>1, TotalIsNat
<1>. QED
  BY <1>2, <1>3

\* Terms that are no greater add up to no more.
LEMMA TotalOfLess ==
    ASSUME NEW S, IsFiniteSet(S), NEW v, NEW w,
           \A t \in S : v[t] \in Nat /\ w[t] \in Nat /\ v[t] <= w[t]
    PROVE  Total(v, S) <= Total(w, S)
<1>1. UnitsOf(v, S) \subseteq UnitsOf(w, S)
  BY DEF UnitsOf
<1>2. IsFiniteSet(UnitsOf(w, S))
  BY UnitsFinite
<1>3. Cardinality(UnitsOf(v, S)) <= Cardinality(UnitsOf(w, S))
  BY <1>1, <1>2, FS_Subset
<1>. QED
  BY <1>3, TotalCountsUnits

\* Terms that are zero add up to nothing.
LEMMA TotalOfZeros ==
    ASSUME NEW S, IsFiniteSet(S), NEW w, \A t \in S : w[t] = 0
    PROVE  Total(w, S) = 0
<1>1. UnitsOf(w, S) = UnitsOf(w, {})
  BY DEF UnitsOf
<1>. QED
  BY <1>1, TotalCountsUnits, UnitsOfNone

\* Terms that move up by one place add up to what they did, without the last.
LEMMA TotalOfShifted ==
    ASSUME NEW n \in Nat, NEW f, NEW g, \A i \in 0..n : f[i] \in Nat,
           g[0] = 0, \A i \in 0..n : i # 0 => g[i] = f[i - 1]
    PROVE  /\ Total(f, 0..n) = Total(g, 0..n) + f[n]
           /\ Total(f, 0..n) \in Nat /\ Total(g, 0..n) \in Nat
<1>. DEFINE S == 0..n
            A == 0..(n - 1)
            B == 1..n
            move == [a \in A |-> a + 1]
<1>1. A \subseteq S /\ B \subseteq S /\ S \ {0} = B /\ S \ {n} = A
  OBVIOUS
<1>2. IsFiniteSet(S) /\ IsFiniteSet(B) /\ IsFiniteSet(A)
  <2>. HIDE DEF A, B
  <2>1. IsFiniteSet(S)
    BY Numbers
  <2>. HIDE DEF S
  <2>. QED
    BY <1>1, <2>1, FS_Subset
<1>3. move \in Bijection(A, B)
  <2>1. move \in [A -> B] /\ \A a, b \in A : move[a] = move[b] => a = b
    OBVIOUS
  <2>2. \A b \in B : b - 1 \in A /\ move[b - 1] = b
    OBVIOUS
  <2>. QED
    BY <2>1, <2>2 DEF Bijection, Injection, Surjection, IsInjective
<1>4. \A a \in A : f[a] \in Nat /\ g[move[a]] = f[a]
  <2>. SUFFICES ASSUME NEW a \in A PROVE f[a] \in Nat /\ g[a + 1] = f[a]
    OBVIOUS
  <2>1. a + 1 \in 0..n /\ a + 1 # 0 /\ (a + 1) - 1 = a /\ a \in 0..n
    OBVIOUS
  <2>. QED
    BY <2>1
<1>5. \A s \in S : f[s] \in Nat /\ g[s] \in Nat
  <2>. SUFFICES ASSUME NEW s \in 0..n PROVE g[s] \in Nat
    OBVIOUS
  <2>1. s # 0 => s - 1 \in 0..n
    OBVIOUS
  <2>. QED
    BY <2>1
<1>6. \A s \in S : /\ Total(g, S) = g[s] + Total(g, S \ {s})
                   /\ Total(f, S) = f[s] + Total(f, S \ {s})
                   /\ Total(f, S) \in Nat /\ Total(g, S) \in Nat
                   /\ Total(g, S \ {s}) \in Nat
  <2>. HIDE DEF S
  <2>. QED
    BY <1>2, <1>5, TotalApart
<1>7. Total(g, B) = Total(f, A)
  <2>. HIDE DEF A, B, move
  <2>. QED
    BY <1>2, <1>3, <1>4, TotalOfMoved
<1>8. 0 \in S /\ n \in S
  OBVIOUS
<1>9. /\ Total(g, S) = g[0] + Total(g, S \ {0})
      /\ Total(f, S) = f[n] + Total(f, S \ {n})
      /\ Total(f, S) \in Nat /\ Total(g, S) \in Nat /\ Total(g, S \ {0}) \in Nat
  <2>. HIDE DEF S
  <2>. QED
    BY <1>6, <1>8
<1>10. /\ Total(g, S) = Total(g, B)
       /\ Total(f, S) = f[n] + Total(f, A)
  <2>. HIDE DEF S, A, B
  <2>1. Total(g, S) = Total(g, S \ {0})
    BY <1>9
  <2>. QED
    BY <1>1, <1>9, <2>1
<1>. QED
  BY <1>7, <1>8, <1>9, <1>10

\* One more in the first place is one more in all.
LEMMA TotalOfNoted ==
    ASSUME NEW n \in Nat, NEW f, NEW g, \A i \in 0..n : f[i] \in Nat,
           g[0] = f[0] + 1, \A i \in 0..n : i # 0 => g[i] = f[i]
    PROVE  Total(g, 0..n) = Total(f, 0..n) + 1 /\ Total(f, 0..n) \in Nat
<1>. DEFINE S == 0..n
<1>1. 0 \in S /\ f[0] \in Nat
  OBVIOUS
<1>2. \A i \in S : f[i] \in Nat /\ g[i] \in Nat
  BY <1>1
<1>3. IsFiniteSet(S)
  BY Numbers
<1>4. \A i \in S : i # 0 => g[i] = f[i]
  OBVIOUS
<1>. HIDE DEF S
<1>5. ASSUME NEW x \in S, \A i \in S : i # x => g[i] = f[i]
      PROVE  Total(g, S) = Total(f, S) + g[x] - f[x]
  BY <1>2, <1>3, <1>5, TotalOfChange
<1>6. Total(g, S) = Total(f, S) + g[0] - f[0]
  BY <1>1, <1>4, <1>5
<1>7. Total(f, S) \in Nat
  BY <1>2, <1>3, TotalIsNat
<1>. QED
  BY <1>1, <1>6, <1>7 DEF S

\* The lesser of two numbers.
LEMMA LesserOfTwo ==
    ASSUME NEW a \in Int, NEW b \in Int
    PROVE  Min({a, b}) = IF a <= b THEN a ELSE b
<1>1. {a, b} = {a} \cup {b} /\ {a, b} \subseteq Int /\ {a, b} # {}
  OBVIOUS
<1>2. IsFiniteSet({a, b})
  <2>1. IsFiniteSet({a}) /\ IsFiniteSet({b})
    BY FS_Singleton
  <2>2. IsFiniteSet({a} \cup {b})
    BY <2>1, FS_Union
  <2>. QED
    BY <1>1, <2>2
<1>3. Min({a, b}) \in {a, b} /\ \A y \in {a, b} : Min({a, b}) <= y
  BY <1>1, <1>2, MinIsThere
<1>. QED
  BY <1>3

\* The greater of two numbers.
LEMMA GreaterOfTwo ==
    ASSUME NEW a \in Int, NEW b \in Int
    PROVE  Max({a, b}) = IF a >= b THEN a ELSE b
<1>1. {a, b} = {a} \cup {b} /\ {a, b} \subseteq Int /\ {a, b} # {}
  OBVIOUS
<1>2. IsFiniteSet({a, b})
  <2>1. IsFiniteSet({a}) /\ IsFiniteSet({b})
    BY FS_Singleton
  <2>2. IsFiniteSet({a} \cup {b})
    BY <2>1, FS_Union
  <2>. QED
    BY <1>1, <2>2
<1>3. Max({a, b}) \in {a, b} /\ \A y \in {a, b} : y <= Max({a, b})
  BY <1>1, <1>2, MaxIsThere
<1>. QED
  BY <1>3

\* The sum of a sequence is that of its places; without the first, or the last, it is
\* less by it; and only nothing adds up to nothing.
LEMMA SumOfSequence ==
    ASSUME NEW q \in Seq(Nat)
    PROVE  /\ SumFunction(q) = Total(q, 1..Len(q)) /\ SumFunction(q) \in Nat
           /\ q = <<>> => SumFunction(q) = 0
           /\ \A i \in 1..Len(q) : q[i] <= SumFunction(q)
<1>. DEFINE S == 1..Len(q)
<1>1. /\ Len(q) \in Nat /\ DOMAIN q = S /\ \A i \in S : q[i] \in Nat
      /\ q = <<>> => S = {}
  BY LenProperties, ElementOfSeq
<1>2. IsFiniteSet(S)
  BY <1>1, Numbers
<1>3. SumFunction(q) = Total(q, DOMAIN q)
  BY SumIsTotal
<1>. HIDE DEF S
<1>4. SumFunction(q) = Total(q, S) /\ Total(q, S) \in Nat
  BY <1>1, <1>2, <1>3, TotalIsNat
<1>5. q = <<>> => Total(q, S) = 0
  BY <1>1, TotalOfNone
<1>6. ASSUME NEW i \in S PROVE q[i] <= Total(q, S)
  <2>1. Total(q, S) = q[i] + Total(q, S \ {i}) /\ Total(q, S \ {i}) \in Nat
    BY <1>1, <1>2, <1>6, TotalApart
  <2>2. q[i] \in Nat
    BY <1>1, <1>6
  <2>. QED
    BY <2>1, <2>2
<1>. QED
  BY <1>4, <1>5, <1>6 DEF S

\* Without its first entry a sequence sums to less by that entry.
LEMMA SumOfTail ==
    ASSUME NEW q \in Seq(Nat), q # <<>>
    PROVE  /\ SumFunction(q) = q[1] + SumFunction(Tail(q))
           /\ Tail(q) \in Seq(Nat) /\ SumFunction(Tail(q)) \in Nat /\ q[1] \in Nat
<1>. DEFINE L == Len(q)
            S == 1..L
            A == 1..(L - 1)
            B == 2..L
            move == [i \in A |-> i + 1]
            t == Tail(q)
<1>1. /\ L \in Nat \ {0} /\ \A i \in S : q[i] \in Nat
      /\ t \in Seq(Nat) /\ Len(t) = L - 1 /\ \A i \in A : t[i] = q[i + 1]
  <2>1. L \in Nat /\ L # 0 /\ \A i \in S : q[i] \in Nat
    BY LenProperties, ElementOfSeq, EmptySeq
  <2>2. t \in Seq(Nat) /\ Len(t) = L - 1 /\ \A i \in A : t[i] = q[i + 1]
    BY HeadTailProperties
  <2>. QED
    BY <2>1, <2>2
<1>. HIDE DEF L, t
<1>2. /\ A \subseteq S /\ B \subseteq S /\ 1 \in S /\ S \ {1} = B
  BY <1>1
<1>3. /\ move \in [A -> B] /\ \A a, b \in A : move[a] = move[b] => a = b
      /\ \A b \in B : b - 1 \in A /\ move[b - 1] = b
  BY <1>1
<1>4. move \in Bijection(A, B)
  BY <1>3 DEF Bijection, Injection, Surjection, IsInjective
<1>5. \A a \in A : t[a] \in Nat /\ q[move[a]] = t[a]
  BY <1>1, <1>2
<1>6. IsFiniteSet(S)
  BY <1>1, Numbers
<1>7. \A x \in S : q[x] \in Nat
  BY <1>1
<1>8. SumFunction(q) = Total(q, S) /\ SumFunction(t) = Total(t, A)
  <2>1. SumFunction(q) = Total(q, S)
    BY SumOfSequence DEF L
  <2>2. SumFunction(t) = Total(t, 1..Len(t))
    BY <1>1, SumOfSequence
  <2>. QED
    BY <1>1, <2>1, <2>2
<1>. HIDE DEF S, A, B, move
<1>9. IsFiniteSet(A) /\ IsFiniteSet(B)
  BY <1>2, <1>6, FS_Subset
<1>10. Total(q, B) = Total(t, A)
  BY <1>4, <1>5, <1>9, TotalOfMoved
<1>11. \A x \in S : Total(q, S) = q[x] + Total(q, S \ {x}) /\ Total(q, S \ {x}) \in Nat
  BY <1>6, <1>7, TotalApart
<1>12. SumFunction(q) = q[1] + SumFunction(t) /\ SumFunction(t) \in Nat
  BY <1>2, <1>8, <1>10, <1>11
<1>. QED
  BY <1>1, <1>2, <1>12 DEF t, S

\* Without its last entry it sums to less by that one.
LEMMA SumOfFront ==
    ASSUME NEW q \in Seq(Nat), q # <<>>, NEW f \in Seq(Nat), Len(f) = Len(q) - 1,
           \A i \in 1..(Len(q) - 1) : f[i] = q[i]
    PROVE  /\ SumFunction(q) = q[Len(q)] + SumFunction(f)
           /\ SumFunction(f) \in Nat /\ q[Len(q)] \in Nat
<1>. DEFINE L == Len(q)
            S == 1..L
            A == 1..(L - 1)
<1>1. L \in Nat \ {0} /\ \A i \in S : q[i] \in Nat
  BY LenProperties, ElementOfSeq, EmptySeq
<1>2. SumFunction(q) = Total(q, S) /\ SumFunction(f) = Total(f, A) /\ SumFunction(f) \in Nat
  BY SumOfSequence
<1>3. \A i \in A : f[i] = q[i]
  OBVIOUS
<1>. HIDE DEF L
<1>4. L \in S /\ S \ {L} = A /\ A \subseteq S
  BY <1>1
<1>5. IsFiniteSet(S)
  BY <1>1, Numbers
<1>. HIDE DEF S, A
<1>6. IsFiniteSet(A)
  BY <1>4, <1>5, FS_Subset
<1>7. Total(f, A) = Total(q, A)
  BY <1>1, <1>3, <1>4, <1>6, TotalOfSame
<1>8. Total(q, S) = q[L] + Total(q, S \ {L})
  BY <1>1, <1>4, <1>5, TotalApart
<1>. QED
  BY <1>1, <1>2, <1>4, <1>7, <1>8 DEF L

\* What a function takes to w.
PartOf(S, P, w) == {s \in S : P[s] = w}

\* A sum is that of the sums of its parts.
LEMMA TotalOfParts ==
    ASSUME NEW S, IsFiniteSet(S), NEW W, IsFiniteSet(W), NEW P \in [S -> W],
           NEW f, \A s \in S : f[s] \in Nat,
           NEW g, \A w \in W : g[w] = Total(f, PartOf(S, P, w))
    PROVE  Total(g, W) = Total(f, S)
<1>. DEFINE Part(V) == {s \in S : P[s] \in V}
            Bad == {V \in SUBSET W : Total(g, V) # Total(f, Part(V))}
<1>1. \A V : IsFiniteSet(Part(V)) /\ \A s \in Part(V) : f[s] \in Nat
  BY FS_Subset
<1>2. Bad = {}
  <2>. SUFFICES ASSUME Bad # {} PROVE FALSE
    OBVIOUS
  <2>1. Bad \subseteq SUBSET W
    OBVIOUS
  <2>. HIDE DEF Bad
  <2>2. PICK V \in Bad : \A U \in Bad : U \subseteq V => U = V
    BY <2>1, SmallestSet
  <2>3. V \subseteq W
    BY <2>1
  <2>4. V # {}
    <3>1. Total(g, {}) = 0 /\ Total(f, {}) = 0 /\ Part({}) = {}
      BY TotalOfNone
    <3>. QED
      BY <2>2, <3>1 DEF Bad
  <2>5. PICK w \in V : TRUE
    BY <2>4
  <2>. DEFINE U == V \ {w}
  <2>6. U \subseteq W /\ U \notin Bad
    BY <2>2, <2>3, <2>5
  <2>7. Total(g, U) = Total(f, Part(U))
    BY <2>6 DEF Bad
  <2>8. \A v \in W : g[v] = Total(f, Part({v})) /\ g[v] \in Nat
    <3>1. \A v : Part({v}) = {s \in S : P[s] = v}
      OBVIOUS
    <3>2. \A v : Total(f, Part({v})) \in Nat
      <4>. HIDE DEF Part
      <4>. QED
        BY <1>1, TotalIsNat
    <3>3. ASSUME NEW v \in W PROVE g[v] = Total(f, Part({v}))
      <4>1. g[v] = Total(f, PartOf(S, P, v))
        OBVIOUS
      <4>2. PartOf(S, P, v) = Part({v})
        BY <3>1 DEF PartOf
      <4>. HIDE DEF Part
      <4>. QED
        BY ONLY <4>1, <4>2, Zenon
    <3>. HIDE DEF Part
    <3>. QED
      BY <3>2, <3>3
  <2>9. IsFiniteSet(V) /\ \A v \in V : g[v] \in Nat
    BY <2>3, <2>8, FS_Subset
  <2>10. Total(g, V) = g[w] + Total(g, U)
    BY <2>5, <2>9, TotalApart
  <2>11. Part(V) = Part(U) \cup Part({w}) /\ Part(U) \cap Part({w}) = {}
    BY <2>5
  <2>12. Total(f, Part(V)) = Total(f, Part(U)) + Total(f, Part({w}))
    <3>1. \A s \in Part(U) \cup Part({w}) : f[s] \in Nat
      BY <1>1
    <3>2. IsFiniteSet(Part(U)) /\ IsFiniteSet(Part({w}))
      BY <1>1
    <3>. HIDE DEF Part, U
    <3>3. Total(f, Part(U) \cup Part({w})) = Total(f, Part(U)) + Total(f, Part({w}))
      BY <2>11, <3>1, <3>2, TotalOfUnion
    <3>. QED
      BY <2>11, <3>3
  <2>13. Total(f, Part(U)) \in Nat
    <3>1. IsFiniteSet(Part(U)) /\ \A s \in Part(U) : f[s] \in Nat
      BY <1>1
    <3>. HIDE DEF Part
    <3>. QED
      BY <3>1, TotalIsNat
  <2>14. g[w] = Total(f, Part({w})) /\ g[w] \in Nat
    BY <2>3, <2>5, <2>8
  <2>15. Total(g, V) = Total(f, Part(V))
    <3>. HIDE DEF Part, U
    <3>. QED
      BY <2>7, <2>10, <2>12, <2>13, <2>14
  <2>. QED
    BY <2>2, <2>15 DEF Bad
<1>3. Total(g, W) = Total(f, Part(W))
  BY <1>2
<1>4. Part(W) = S
  OBVIOUS
<1>. QED
  BY <1>3, <1>4

\* Where each term is one more, the sum is as much more as there are terms.
LEMMA TotalOfMore ==
    ASSUME NEW S, IsFiniteSet(S), NEW f, NEW g, \A s \in S : g[s] \in Nat /\ f[s] = g[s] + 1
    PROVE  Total(f, S) = Total(g, S) + Cardinality(S)
<1>. DEFINE Bad == {V \in SUBSET S : Total(f, V) # Total(g, V) + Cardinality(V)}
<1>1. Bad = {}
  <2>. SUFFICES ASSUME Bad # {} PROVE FALSE
    OBVIOUS
  <2>1. Bad \subseteq SUBSET S
    OBVIOUS
  <2>. HIDE DEF Bad
  <2>2. PICK V \in Bad : \A U \in Bad : U \subseteq V => U = V
    BY <2>1, SmallestSet
  <2>3. V \subseteq S /\ IsFiniteSet(V)
    BY <2>1, FS_Subset
  <2>4. V # {}
    <3>1. Total(f, {}) = 0 /\ Total(g, {}) = 0 /\ Cardinality({}) = 0
      BY TotalOfNone, FS_EmptySet
    <3>2. Total(f, {}) = Total(g, {}) + Cardinality({})
      BY <3>1
    <3>. QED
      BY <2>2, <3>2 DEF Bad
  <2>5. PICK s \in V : TRUE
    BY <2>4
  <2>. DEFINE U == V \ {s}
  <2>6. U \subseteq S /\ U \notin Bad
    BY <2>2, <2>3, <2>5
  <2>7. Total(f, U) = Total(g, U) + Cardinality(U)
    BY <2>6 DEF Bad
  <2>8. /\ Total(f, V) = f[s] + Total(f, U) /\ Total(g, V) = g[s] + Total(g, U)
        /\ Total(f, U) \in Nat /\ Total(g, U) \in Nat
    <3>1. \A x \in V : f[x] \in Nat /\ g[x] \in Nat
      BY <2>3
    <3>. QED
      BY <2>3, <2>5, <3>1, TotalApart
  <2>9. Cardinality(V) = Cardinality(U) + 1 /\ Cardinality(U) \in Nat
    <3>1. Cardinality(U) = Cardinality(V) - 1 /\ IsFiniteSet(U)
      BY <2>3, <2>5, FS_RemoveElement
    <3>2. Cardinality(U) \in Nat /\ Cardinality(V) \in Nat
      BY <2>3, <3>1, FS_CardinalityType
    <3>. QED
      BY <3>1, <3>2
  <2>10. g[s] \in Nat /\ f[s] = g[s] + 1
    BY <2>3, <2>5
  <2>. HIDE DEF U
  <2>11. Total(f, V) = Total(g, V) + Cardinality(V)
    BY <2>7, <2>8, <2>9, <2>10
  <2>. QED
    BY <2>2, <2>11 DEF Bad
<1>. QED
  BY <1>1

\* Quotient and remainder are what they are.
LEMMA Divided ==
    ASSUME NEW a \in Nat, NEW P \in Nat \ {0}
    PROVE  /\ a \div P \in Nat /\ a % P \in 0..(P - 1)
           /\ a = P * (a \div P) + (a % P)
OBVIOUS

\* What is no more stays so, so many times over.
LEMMA ManyTimes ==
    ASSUME NEW a \in Int, NEW b \in Int, a <= b, NEW P \in Nat
    PROVE  a * P <= b * P /\ P * a <= P * b
OBVIOUS

\* Only one way to divide leaves a remainder below the divisor.
LEMMA RemainderIsUnique ==
    ASSUME NEW P \in Nat \ {0}, NEW m \in Nat, NEW s \in 0..(P - 1), NEW a, a = P * m + s
    PROVE  a \in Nat /\ a % P = s
<1>1. P * m \in Nat /\ a \in Nat
  OBVIOUS
<1>. DEFINE q == a \div P
            r == a % P
<1>2. q \in Nat /\ r \in 0..(P - 1) /\ a = P * q + r
  BY <1>1, Divided
<1>. HIDE DEF q, r
<1>3. CASE m = q
  BY <1>2, <1>3 DEF r
<1>4. CASE m < q
  <2>1. P * (m + 1) <= P * q
    BY <1>2, <1>4, ManyTimes
  <2>2. P * (m + 1) = P * m + P /\ P * m \in Nat /\ P * q \in Nat
    BY <1>2
  <2>. QED
    BY <1>2, <2>1, <2>2
<1>5. CASE q < m
  <2>1. P * (q + 1) <= P * m
    BY <1>2, <1>5, ManyTimes
  <2>2. P * (q + 1) = P * q + P /\ P * m \in Nat /\ P * q \in Nat
    BY <1>2
  <2>. QED
    BY <1>2, <2>1, <2>2
<1>. QED
  BY <1>2, <1>3, <1>4, <1>5

\* The places 1..L dealt out to P in turn: how many w gets, the i-th of them, and who
\* gets place k.
Dealt(P, L, w) == (L - w + P) \div P
DealtPlace(P, w, i) == w + (i - 1) * P
DealtTo(P, k) == ((k - 1) % P) + 1

\* Those of one are P apart.
LEMMA DealtOut ==
    ASSUME NEW P \in Nat \ {0}, NEW L \in Nat, NEW w \in 1..P
    PROVE  /\ Dealt(P, L, w) \in Nat
           /\ \A i \in 1..Dealt(P, L, w) : /\ DealtPlace(P, w, i) \in 1..L
                                           /\ DealtTo(P, DealtPlace(P, w, i)) = w
           /\ \A i, j \in 1..Dealt(P, L, w) :
                 DealtPlace(P, w, i) = DealtPlace(P, w, j) => i = j
           /\ \A k \in 1..L : DealtTo(P, k) = w
                => \E i \in 1..Dealt(P, L, w) : DealtPlace(P, w, i) = k
           /\ \A k \in 1..L : DealtTo(P, k) \in 1..P
<1>. DEFINE len == Dealt(P, L, w)
            r == (L - w + P) % P
<1>1. L - w + P \in Nat
  OBVIOUS
<1>2. len \in Nat /\ r \in 0..(P - 1) /\ L - w + P = P * len + r
  BY <1>1, Divided DEF Dealt
<1>. HIDE DEF r, len
<1>3. ASSUME NEW i \in 1..len
      PROVE  w + (i - 1) * P \in 1..L /\ ((w + (i - 1) * P - 1) % P) + 1 = w
  <2>1. (i - 1) * P <= (len - 1) * P /\ i - 1 \in Nat
    BY <1>2, ManyTimes
  <2>2. (len - 1) * P = P * len - P /\ (i - 1) * P \in Nat /\ P * len \in Nat
    BY <1>2, <2>1
  <2>3. w + (i - 1) * P \in 1..L
    BY <1>2, <2>1, <2>2
  <2>. DEFINE a == w + (i - 1) * P - 1
  <2>4. a = P * (i - 1) + (w - 1) /\ w - 1 \in 0..(P - 1)
    BY <2>2
  <2>. HIDE DEF a
  <2>5. a % P = w - 1
    BY ONLY <2>1, <2>4, RemainderIsUnique, P \in Nat \ {0}, SMTT(20)
  <2>. QED
    BY <2>3, <2>5 DEF a
<1>4. ASSUME NEW i \in 1..len, NEW j \in 1..len, i < j
      PROVE  w + (i - 1) * P # w + (j - 1) * P
  <2>1. i * P <= (j - 1) * P
    BY <1>2, <1>4, ManyTimes
  <2>2. i * P = (i - 1) * P + P /\ (i - 1) * P \in Int /\ (j - 1) * P \in Int
    BY <1>2
  <2>. QED
    BY <2>1, <2>2
<1>5. ASSUME NEW k \in 1..L, ((k - 1) % P) + 1 = w
      PROVE  \E i \in 1..len : w + (i - 1) * P = k
  <2>. DEFINE q == (k - 1) \div P
  <2>1. k - 1 \in Nat
    OBVIOUS
  <2>2. q \in Nat /\ k - 1 = P * q + ((k - 1) % P) /\ (k - 1) % P \in 0..(P - 1)
    BY <2>1, Divided
  <2>. HIDE DEF q
  <2>3. k = w + q * P /\ P * q \in Nat /\ P * q = q * P
    BY <1>5, <2>2
  <2>4. q + 1 <= len
    <3>. SUFFICES ASSUME len <= q PROVE FALSE
      BY <1>2, <2>2
    <3>1. P * len <= P * q /\ P * len \in Nat
      BY <1>2, <2>2, ManyTimes
    <3>. QED
      BY <1>2, <2>3, <3>1
  <2>5. q + 1 \in 1..len /\ (q + 1) - 1 = q
    BY <1>2, <2>2, <2>4
  <2>. QED
    BY <2>3, <2>5
<1>6. \A i, j \in 1..len : i < j \/ j < i \/ i = j
  BY <1>2
<1>7. ASSUME NEW k \in 1..L PROVE DealtTo(P, k) \in 1..P
  <2>1. (k - 1) % P \in 0..(P - 1)
    BY Divided
  <2>. QED
    BY <2>1 DEF DealtTo
<1>. QED
  BY <1>2, <1>3, <1>4, <1>5, <1>6, <1>7 DEF DealtPlace, DealtTo, len

\* The values of a function on a finite set are finitely many.
LEMMA ValuesAreFew ==
    ASSUME NEW S, IsFiniteSet(S), NEW f, NEW T, T = {f[x] : x \in S}
    PROVE  IsFiniteSet(T)
<1>. DEFINE g == [x \in S |-> f[x]]
<1>1. g \in Surjection(S, T)
  BY DEF Surjection
<1>. QED
  BY <1>1, FS_Surjection

\* A sequence without its last element.
LEMMA WithoutLast ==
    ASSUME NEW T, NEW q \in Seq(T), q # <<>>
    PROVE  /\ SubSeq(q, 1, Len(q) - 1) \in Seq(T)
           /\ Len(SubSeq(q, 1, Len(q) - 1)) = Len(q) - 1
           /\ \A i \in 1..(Len(q) - 1) : SubSeq(q, 1, Len(q) - 1)[i] = q[i]
<1>. DEFINE n == Len(q) - 1
<1>1. Len(q) \in Nat /\ Len(q) # 0 /\ \A i \in 1..Len(q) : q[i] \in T
  BY LenProperties, EmptySeq, ElementOfSeq
<1>2. n \in Nat /\ n - 1 + 1 = n /\ \A i \in 1..n : q[i] \in T
  BY <1>1
<1>. HIDE DEF n
<1>3. /\ SubSeq(q, 1, n) \in Seq(T)
      /\ Len(SubSeq(q, 1, n)) = IF 1 <= n THEN n - 1 + 1 ELSE 0
      /\ \A i \in 1..(n - 1 + 1) : SubSeq(q, 1, n)[i] = q[1 + i - 1]
  BY ONLY <1>2, SubSeqProperties
<1>4. Len(SubSeq(q, 1, n)) = n /\ \A i \in 1..n : SubSeq(q, 1, n)[i] = q[i]
  BY ONLY <1>2, <1>3
<1>. QED
  BY <1>3, <1>4 DEF n

=============================================================================
