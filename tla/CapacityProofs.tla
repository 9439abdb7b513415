---------------------------- MODULE CapacityProofs ----------------------------
(***************************************************************************)
(* What holds of capacity that is promised, lent, scaled and bought,       *)
(* whatever part of MCCapacity runs.  Of each component an invariant is    *)
(* kept by its own steps: the sums of Bookings (holds and the broker), of  *)
(* Lending (quotas and devices), and of Scaling (nodes, bursts, rented     *)
(* nodes, the shop).  A step of the whole is a step of one of them and     *)
(* leaves the others alone, so all are kept together, and PromisesFit and  *)
(* ScalingHolds follow for every value of the constants.                   *)
(***************************************************************************)
EXTENDS MCCapacity, FoldFacts
(* Holds and bookings                                                      *)

\* The windows there may be, the empty one with them.
Frames == [cpu : Nat, starts : Nat, ends : Nat]

\* What each name of a ledger takes at a tick, and of a window it meets.
Here(ledger, tick) ==
    [n \in DOMAIN ledger |->
        IF ledger[n].starts <= tick /\ tick < ledger[n].ends THEN ledger[n].cpu ELSE 0]
Beside(ledger, w) == [n \in DOMAIN ledger |-> IF Meets(ledger[n], w) THEN ledger[n].cpu ELSE 0]

\* What a ledger has at a tick is a sum over its names.
LEMMA AtIsTotal ==
    ASSUME NEW names, IsFiniteSet(names), NEW l, l \in [names -> Frames], NEW tick \in Int
    PROVE  /\ At(l, tick) = Total(Here(l, tick), names) /\ At(l, tick) \in Nat
           /\ \A n \in names : /\ Here(l, tick)[n] \in Nat
                               /\ Here(l, tick)[n] = IF l[n].starts <= tick /\ tick < l[n].ends
                                                     THEN l[n].cpu ELSE 0
<1>1. DOMAIN Here(l, tick) = names /\ At(l, tick) = SumFunction(Here(l, tick))
  BY DEF Here, At
<1>2. \A n \in names : /\ Here(l, tick)[n] = IF l[n].starts <= tick /\ tick < l[n].ends
                                             THEN l[n].cpu ELSE 0
                       /\ l[n].cpu \in Nat
  BY DEF Here, Frames
<1>3. \A n \in names : Here(l, tick)[n] \in Nat
  BY <1>2
<1>4. At(l, tick) = Total(Here(l, tick), names)
  BY <1>1, SumIsTotal
<1>5. Total(Here(l, tick), names) \in Nat
  BY <1>3, TotalIsNat
<1>. QED
  BY <1>2, <1>3, <1>4, <1>5

\* So is its peak beside a window, and in the window it is never above the peak.
LEMMA PeakIsAbove ==
    ASSUME NEW names, IsFiniteSet(names), NEW l, l \in [names -> Frames], NEW w,
           w.starts \in Int, w.ends \in Int
    PROVE  /\ Peak(l, w) \in Nat
           /\ \A tick \in Int : w.starts <= tick /\ tick < w.ends => At(l, tick) <= Peak(l, w)
<1>. DEFINE B == Beside(l, w)
<1>1. DOMAIN B = names /\ Peak(l, w) = SumFunction(B)
  BY DEF Beside, Peak
<1>2. \A n \in names : /\ B[n] = IF Meets(l[n], w) THEN l[n].cpu ELSE 0
                       /\ l[n].cpu \in Nat /\ l[n].starts \in Nat /\ l[n].ends \in Nat
  BY DEF Beside, Frames
<1>3. \A n \in names : B[n] \in Nat
  BY <1>2
<1>. HIDE DEF B
<1>4. Peak(l, w) = Total(B, names) /\ Total(B, names) \in Nat
  BY <1>1, <1>3, SumIsTotal, TotalIsNat
<1>5. ASSUME NEW tick \in Int, w.starts <= tick, tick < w.ends
      PROVE  At(l, tick) <= Peak(l, w)
  <2>. DEFINE H == Here(l, tick)
  <2>1. At(l, tick) = Total(H, names)
        /\ \A n \in names : H[n] \in Nat /\ H[n] = IF l[n].starts <= tick /\ tick < l[n].ends
                                                   THEN l[n].cpu ELSE 0
    BY AtIsTotal
  <2>. HIDE DEF H
  <2>2. \A n \in names : H[n] \in Nat /\ B[n] \in Nat /\ H[n] <= B[n]
    <3>1. ASSUME NEW n \in names PROVE H[n] <= B[n]
      <4>1. CASE l[n].starts <= tick /\ tick < l[n].ends
        <5>1. Meets(l[n], w)
          BY <1>2, <1>5, <4>1 DEF Meets
        <5>. QED
          BY <1>2, <2>1, <4>1, <5>1
      <4>2. CASE ~(l[n].starts <= tick /\ tick < l[n].ends)
        <5>1. H[n] = 0 /\ B[n] \in Nat
          BY <1>3, <2>1, <4>2
        <5>. QED
          BY <5>1
      <4>. QED
        BY <4>1, <4>2
    <3>. QED
      BY <1>3, <2>1, <3>1
  <2>3. Total(H, names) <= Total(B, names)
    BY <2>2, TotalOfLess
  <2>. QED
    BY <1>4, <2>1, <2>3
<1>. QED
  BY <1>4, <1>5

\* Where one name of a ledger changes, what it has at a tick changes by that.
LEMMA OneIsEntered ==
    ASSUME NEW names, IsFiniteSet(names), NEW l, l \in [names -> Frames],
           NEW m, m \in [names -> Frames], NEW b \in names,
           \A n \in names : n # b => m[n] = l[n], NEW tick \in Int
    PROVE  At(m, tick) = At(l, tick) + Here(m, tick)[b] - Here(l, tick)[b]
<1>. DEFINE H == Here(l, tick)
            K == Here(m, tick)
<1>1. /\ At(l, tick) = Total(H, names)
      /\ \A n \in names : H[n] \in Nat /\ H[n] = IF l[n].starts <= tick /\ tick < l[n].ends
                                                 THEN l[n].cpu ELSE 0
  BY AtIsTotal
<1>2. /\ At(m, tick) = Total(K, names)
      /\ \A n \in names : K[n] \in Nat /\ K[n] = IF m[n].starts <= tick /\ tick < m[n].ends
                                                 THEN m[n].cpu ELSE 0
  BY AtIsTotal
<1>3. \A n \in names : n # b => K[n] = H[n]
  BY <1>1, <1>2
<1>4. \A n \in names : K[n] \in Nat /\ H[n] \in Nat
  BY <1>1, <1>2
<1>. HIDE DEF H, K
<1>5. Total(K, names) = Total(H, names) + K[b] - H[b]
  BY <1>3, <1>4, TotalOfChange
<1>. QED
  BY <1>1, <1>2, <1>5 DEF H, K

\* Where names only lose their windows, a ledger has no more at any tick.
LEMMA NoneIsEntered ==
    ASSUME NEW names, IsFiniteSet(names), NEW l, l \in [names -> Frames],
           NEW m, m \in [names -> Frames],
           \A n \in names : m[n] = l[n] \/ m[n] = NoWindow, NEW tick \in Int
    PROVE  At(m, tick) <= At(l, tick)
<1>. DEFINE H == Here(l, tick)
            K == Here(m, tick)
<1>1. /\ At(l, tick) = Total(H, names)
      /\ \A n \in names : H[n] \in Nat /\ H[n] = IF l[n].starts <= tick /\ tick < l[n].ends
                                                 THEN l[n].cpu ELSE 0
  BY AtIsTotal
<1>2. /\ At(m, tick) = Total(K, names)
      /\ \A n \in names : K[n] \in Nat /\ K[n] = IF m[n].starts <= tick /\ tick < m[n].ends
                                                 THEN m[n].cpu ELSE 0
  BY AtIsTotal
<1>. HIDE DEF H, K
<1>3. ASSUME NEW n \in names PROVE K[n] \in Nat /\ H[n] \in Nat /\ K[n] <= H[n]
  <2>1. CASE m[n] = l[n]
    BY <1>1, <1>2, <2>1
  <2>2. CASE m[n] = NoWindow
    <3>1. m[n].cpu = 0
      BY <2>2 DEF NoWindow
    <3>2. K[n] = 0
      BY <1>2, <3>1
    <3>. QED
      BY <1>1, <3>2
  <2>. QED
    BY <2>1, <2>2
<1>4. Total(K, names) <= Total(H, names)
  BY <1>3, TotalOfLess
<1>. QED
  BY <1>1, <1>2, <1>4

\* The windows one may book, and the empty one.
LEMMA FramesOfWindows ==
    /\ NoWindow \in Frames /\ NoWindow.cpu = 0 /\ NoWindow.starts = 0 /\ NoWindow.ends = 0
    /\ Windows \subseteq Frames
    /\ \A w \in Windows : /\ w.cpu \in Nat \ {0} /\ w.starts \in 0..Horizon
                          /\ w.ends \in 0..Horizon /\ w.starts < w.ends
<1>1. Capacity \in Nat /\ Horizon \in Nat
  BY BookingBounds DEF BookingBounds
<1>2. /\ NoWindow \in Frames /\ NoWindow.cpu = 0 /\ NoWindow.starts = 0 /\ NoWindow.ends = 0
  BY DEF NoWindow, Frames
<1>3. ASSUME NEW w \in Windows
      PROVE  /\ w.cpu \in Nat \ {0} /\ w.starts \in 0..Horizon
             /\ w.ends \in 0..Horizon /\ w.starts < w.ends /\ w \in Frames
  <2>1. w \in [cpu : 1..Capacity, starts : 0..Horizon, ends : 0..Horizon] /\ w.starts < w.ends
    BY DEF Windows
  <2>2. 1..Capacity \subseteq Nat /\ 0..Horizon \subseteq Nat
    BY <1>1
  <2>3. w \in Frames
    BY <2>1, <2>2 DEF Frames
  <2>. QED
    BY <2>1, <2>3
<1>. QED
  BY <1>2, <1>3

-----------------------------------------------------------------------------
(* Holds and loans                                                         *)

Loans == [hold : HoldNames \cup {"none"}, cpu : Nat, due : Nat]

\* What each scavenger has of a hold.
Borrows(debts, h) == [t \in Scavengers |-> IF debts[t].hold = h THEN debts[t].cpu ELSE 0]

\* Types, and that a loan is of something, with what holds promise.
HoldInv ==
    /\ now \in 0..Horizon
    /\ holds \in [HoldNames -> Frames]
    /\ loans \in [Scavengers -> Loans]
    /\ \A t \in Scavengers : loans[t].hold # "none" => loans[t].cpu # 0
    /\ HoldsFit

\* Nothing is held at first.
LEMMA HoldStarts ==
    ASSUME BookingInit
    PROVE  HoldInv
<1>1. /\ now = 0 /\ holds = [h \in HoldNames |-> NoWindow]
      /\ loans = [t \in Scavengers |-> NoLoan]
  BY DEF BookingInit
<1>2. /\ IsFiniteSet(HoldNames) /\ "none" \notin HoldNames /\ Capacity \in Nat /\ Horizon \in Nat
  BY BookingBounds DEF BookingBounds
<1>3. holds \in [HoldNames -> Frames]
  BY <1>1, FramesOfWindows
<1>4. /\ loans \in [Scavengers -> Loans]
      /\ \A t \in Scavengers : loans[t].hold = "none"
  <2>1. NoLoan \in Loans /\ NoLoan.hold = "none"
    BY DEF NoLoan, Loans
  <2>. QED
    BY <1>1, <2>1
<1>5. ASSUME NEW tick \in 0..Horizon
      PROVE  At(holds, tick) <= Capacity
  <2>1. tick \in Int
    BY <1>2
  <2>2. /\ At(holds, tick) = Total(Here(holds, tick), HoldNames)
        /\ \A n \in HoldNames : Here(holds, tick)[n] =
              IF holds[n].starts <= tick /\ tick < holds[n].ends THEN holds[n].cpu ELSE 0
    BY <1>2, <1>3, <2>1, AtIsTotal
  <2>3. \A n \in HoldNames : holds[n].cpu = 0
    BY <1>1, FramesOfWindows
  <2>4. \A n \in HoldNames : Here(holds, tick)[n] = 0
    BY <2>2, <2>3
  <2>5. Total(Here(holds, tick), HoldNames) = 0
    BY <1>2, <2>4, TotalOfZeros
  <2>. QED
    BY <1>2, <2>2, <2>5
<1>6. \A t \in Scavengers, h \in HoldNames : loans[t].hold # h
  BY <1>2, <1>4
<1>7. HoldsFit
  BY <1>5, <1>6 DEF HoldsFit
<1>8. now \in 0..Horizon
  BY <1>1, <1>2
<1>. QED
  BY <1>3, <1>4, <1>7, <1>8 DEF HoldInv

\* What is lent of a hold is a sum over the scavengers.
LEMMA LentIsTotal ==
    ASSUME NEW debts, debts \in [Scavengers -> Loans], NEW h
    PROVE  /\ SumFunction(Borrows(debts, h)) = Total(Borrows(debts, h), Scavengers)
           /\ SumFunction(Borrows(debts, h)) \in Nat
           /\ \A t \in Scavengers :
                 /\ Borrows(debts, h)[t] \in Nat
                 /\ Borrows(debts, h)[t] = IF debts[t].hold = h THEN debts[t].cpu ELSE 0
                 /\ Borrows(debts, h)[t] <= SumFunction(Borrows(debts, h))
<1>. DEFINE B == Borrows(debts, h)
<1>1. IsFiniteSet(Scavengers)
  BY BookingBounds DEF BookingBounds
<1>2. /\ DOMAIN B = Scavengers
      /\ \A t \in Scavengers : B[t] = IF debts[t].hold = h THEN debts[t].cpu ELSE 0
  BY DEF Borrows
<1>3. \A t \in Scavengers : B[t] \in Nat
  BY <1>2 DEF Loans
<1>. HIDE DEF B
<1>4. SumFunction(B) = Total(B, Scavengers) /\ Total(B, Scavengers) \in Nat
  BY <1>1, <1>2, <1>3, SumIsTotal, TotalIsNat
<1>5. \A t \in Scavengers : B[t] <= Total(B, Scavengers)
  <2>1. ASSUME NEW t \in Scavengers PROVE B[t] <= Total(B, Scavengers)
    <3>1. /\ Total(B, Scavengers) = B[t] + Total(B, Scavengers \ {t})
          /\ Total(B, Scavengers \ {t}) \in Nat
      BY <1>1, <1>3, TotalApart
    <3>. QED
      BY <1>3, <3>1
  <2>. QED
    BY <2>1
<1>. QED
  BY <1>2, <1>3, <1>4, <1>5 DEF B

\* A hold that is booked fits beside all it meets, and nobody has borrowed from a
\* name that is free, but from one that slipped.
LEMMA BookingFits ==
    ASSUME HoldInv, NEW h \in HoldNames, NEW w \in Windows, BookHold(h, w)
    PROVE  HoldInv'
<1>1. /\ now \in 0..Horizon /\ holds \in [HoldNames -> Frames]
      /\ loans \in [Scavengers -> Loans]
      /\ \A t \in Scavengers : loans[t].hold # "none" => loans[t].cpu # 0
      /\ \A tick \in 0..Horizon : At(holds, tick) <= Capacity
      /\ \A t \in Scavengers, g \in HoldNames \ slipped :
            loans[t].hold = g => loans[t].due = holds[g].starts /\ Lent(g) <= holds[g].cpu
  BY DEF HoldInv, HoldsFit
<1>2. /\ holds[h] = NoWindow /\ Peak(holds, w) + w.cpu <= Capacity
      /\ holds' = [holds EXCEPT ![h] = w] /\ UNCHANGED <<now, loans, slipped>>
  BY DEF BookHold, MayHold
<1>3. /\ w.cpu \in Nat /\ w.starts \in Int /\ w.ends \in Int /\ w \in Frames
      /\ NoWindow.cpu = 0
  BY FramesOfWindows
<1>4. IsFiniteSet(HoldNames) /\ "none" \notin HoldNames /\ Capacity \in Nat /\ Horizon \in Nat
  BY BookingBounds DEF BookingBounds
<1>5. /\ holds' \in [HoldNames -> Frames] /\ holds'[h] = w
      /\ \A g \in HoldNames : g # h => holds'[g] = holds[g]
  BY <1>1, <1>2, <1>3
<1>6. ASSUME NEW tick \in 0..Horizon
      PROVE  At(holds', tick) <= Capacity
  <2>1. tick \in Int
    BY <1>4
  <2>2. At(holds', tick) = At(holds, tick) + Here(holds', tick)[h] - Here(holds, tick)[h]
    BY <1>1, <1>4, <1>5, <2>1, OneIsEntered
  <2>3. /\ At(holds, tick) \in Nat /\ Here(holds, tick)[h] \in Nat
        /\ At(holds, tick) <= Capacity
    BY <1>1, <1>4, <2>1, AtIsTotal
  <2>4. Here(holds', tick)[h] = IF w.starts <= tick /\ tick < w.ends THEN w.cpu ELSE 0
    BY <1>4, <1>5, <2>1, AtIsTotal
  <2>5. CASE w.starts <= tick /\ tick < w.ends
    <3>1. Peak(holds, w) \in Nat /\ At(holds, tick) <= Peak(holds, w)
      BY <1>1, <1>3, <1>4, <2>1, <2>5, PeakIsAbove
    <3>. QED
      BY <1>2, <1>3, <1>4, <2>2, <2>3, <2>4, <2>5, <3>1
  <2>6. CASE ~(w.starts <= tick /\ tick < w.ends)
    BY <1>4, <2>2, <2>3, <2>4, <2>6
  <2>. QED
    BY <2>5, <2>6
<1>7. ASSUME NEW t \in Scavengers, NEW g \in HoldNames \ slipped, loans[t].hold = g
      PROVE  g # h
  <2>1. SUFFICES ASSUME g = h PROVE FALSE
    OBVIOUS
  <2>2. Lent(h) <= 0
    BY <1>1, <1>2, <1>3, <1>7, <2>1
  <2>3. loans[t].cpu \in Nat /\ loans[t].cpu # 0
    <3>1. loans[t] \in Loans /\ loans[t].hold # "none"
      BY <1>1, <1>4, <1>7
    <3>. QED
      BY <1>1, <3>1 DEF Loans
  <2>4. /\ Lent(h) \in Nat /\ loans[t].cpu <= Lent(h)
    <3>1. Lent(h) = SumFunction(Borrows(loans, h))
      BY DEF Lent, Borrows
    <3>2. /\ SumFunction(Borrows(loans, h)) \in Nat
          /\ Borrows(loans, h)[t] = loans[t].cpu
          /\ Borrows(loans, h)[t] <= SumFunction(Borrows(loans, h))
      BY <1>1, <1>7, <2>1, LentIsTotal
    <3>. QED
      BY <3>1, <3>2
  <2>. QED
    BY <2>2, <2>3, <2>4
<1>8. HoldsFit'
  <2>1. \A g : Lent(g)' = Lent(g)
    BY <1>2 DEF Lent
  <2>2. ASSUME NEW t \in Scavengers, NEW g \in HoldNames \ slipped', loans'[t].hold = g
        PROVE  loans'[t].due = holds'[g].starts /\ Lent(g)' <= holds'[g].cpu
    BY <1>1, <1>2, <1>5, <1>7, <2>1, <2>2
  <2>. QED
    BY <1>6, <2>2 DEF HoldsFit
<1>. QED
  BY <1>1, <1>2, <1>5, <1>8 DEF HoldInv

\* Where holds are taken off, no tick has more, and who borrowed from them slipped.
LEMMA TakingOffFits ==
    ASSUME HoldInv, NEW S, TakenOff(S), UNCHANGED <<now, loans>>
    PROVE  HoldInv'
<1>1. /\ now \in 0..Horizon /\ holds \in [HoldNames -> Frames]
      /\ loans \in [Scavengers -> Loans]
      /\ \A t \in Scavengers : loans[t].hold # "none" => loans[t].cpu # 0
      /\ \A tick \in 0..Horizon : At(holds, tick) <= Capacity
      /\ \A t \in Scavengers, g \in HoldNames \ slipped :
            loans[t].hold = g => loans[t].due = holds[g].starts /\ Lent(g) <= holds[g].cpu
  BY DEF HoldInv, HoldsFit
<1>2. /\ holds' = [h \in HoldNames |-> IF h \in S THEN NoWindow ELSE holds[h]]
      /\ slipped' = slipped \union {h \in S : \E t \in Scavengers : loans[t].hold = h}
  BY DEF TakenOff
<1>3. IsFiniteSet(HoldNames) /\ Capacity \in Nat /\ Horizon \in Nat
  BY BookingBounds DEF BookingBounds
<1>4. /\ holds' \in [HoldNames -> Frames]
      /\ \A g \in HoldNames : holds'[g] = holds[g] \/ holds'[g] = NoWindow
      /\ \A g \in HoldNames : g \notin S => holds'[g] = holds[g]
  BY <1>1, <1>2, FramesOfWindows
<1>5. ASSUME NEW tick \in 0..Horizon
      PROVE  At(holds', tick) <= Capacity
  <2>1. tick \in Int
    BY <1>3
  <2>2. At(holds', tick) <= At(holds, tick)
    BY <1>1, <1>3, <1>4, <2>1, NoneIsEntered
  <2>3. At(holds, tick) \in Nat /\ At(holds', tick) \in Nat
    BY <1>1, <1>3, <1>4, <2>1, AtIsTotal
  <2>. QED
    BY <1>1, <1>3, <2>2, <2>3
<1>6. HoldsFit'
  <2>1. \A g : Lent(g)' = Lent(g)
    BY DEF Lent
  <2>2. ASSUME NEW t \in Scavengers, NEW g \in HoldNames \ slipped', loans'[t].hold = g
        PROVE  loans'[t].due = holds'[g].starts /\ Lent(g)' <= holds'[g].cpu
    <3>1. g \in HoldNames \ slipped /\ g \notin S /\ loans[t].hold = g
      BY <1>2, <2>2
    <3>. QED
      BY <1>1, <1>4, <2>1, <3>1
  <2>. QED
    BY <1>5, <2>2 DEF HoldsFit
<1>. QED
  BY <1>1, <1>4, <1>6 DEF HoldInv

\* What is borrowed fits into its hold and ends when that opens.
LEMMA BorrowingFits ==
    ASSUME HoldInv, NEW t \in Scavengers, NEW h \in HoldNames, NEW cpu, cpu \in 1..Capacity,
           NEW needs, Borrow(t, h, cpu, needs)
    PROVE  HoldInv'
<1>1. /\ now \in 0..Horizon /\ holds \in [HoldNames -> Frames]
      /\ loans \in [Scavengers -> Loans]
      /\ \A s \in Scavengers : loans[s].hold # "none" => loans[s].cpu # 0
      /\ \A s \in Scavengers, g \in HoldNames \ slipped :
            loans[s].hold = g => loans[s].due = holds[g].starts /\ Lent(g) <= holds[g].cpu
  BY DEF HoldInv, HoldsFit
<1>. DEFINE loan == [hold |-> h, cpu |-> cpu, due |-> holds[h].starts]
<1>2. /\ loans[t] = NoLoan /\ Lent(h) + cpu <= holds[h].cpu
      /\ loans' = [loans EXCEPT ![t] = loan] /\ UNCHANGED <<now, holds, slipped>>
  BY DEF Borrow, Lends
<1>3. /\ "none" \notin HoldNames /\ Capacity \in Nat /\ IsFiniteSet(Scavengers)
      /\ NoLoan.hold = "none" /\ cpu \in Nat /\ cpu # 0
  BY BookingBounds DEF BookingBounds, NoLoan
<1>4. /\ loan \in Loans /\ loan.hold = h /\ loan.cpu = cpu /\ loan.due = holds[h].starts
      /\ holds[h].cpu \in Nat
  BY <1>1, <1>3 DEF Loans, Frames
<1>. HIDE DEF loan
<1>5. /\ loans' \in [Scavengers -> Loans] /\ loans'[t] = loan
      /\ \A s \in Scavengers : s # t => loans'[s] = loans[s]
  BY <1>1, <1>2, <1>4
<1>6. ASSUME NEW g \in HoldNames
      PROVE  /\ Lent(g)' \in Nat
             /\ Lent(g)' = IF g = h THEN Lent(g) + cpu ELSE Lent(g)
  <2>. DEFINE B == Borrows(loans, g)
              D == Borrows(loans', g)
  <2>1. Lent(g) = SumFunction(B) /\ Lent(g)' = SumFunction(D)
    BY DEF Lent, Borrows
  <2>2. /\ SumFunction(B) = Total(B, Scavengers) /\ SumFunction(B) \in Nat
        /\ \A s \in Scavengers : /\ B[s] \in Nat
                                 /\ B[s] = IF loans[s].hold = g THEN loans[s].cpu ELSE 0
    BY <1>1, LentIsTotal
  <2>3. /\ SumFunction(D) = Total(D, Scavengers) /\ SumFunction(D) \in Nat
        /\ \A s \in Scavengers : /\ D[s] \in Nat
                                 /\ D[s] = IF loans'[s].hold = g THEN loans'[s].cpu ELSE 0
    BY <1>5, LentIsTotal
  <2>. HIDE DEF B, D
  <2>4. \A s \in Scavengers : B[s] \in Nat /\ D[s] \in Nat
    BY <2>2, <2>3
  <2>5. \A s \in Scavengers : s # t => D[s] = B[s]
    BY <1>5, <2>2, <2>3
  <2>6. Total(D, Scavengers) = Total(B, Scavengers) + D[t] - B[t]
    <3>1. IsFiniteSet(Scavengers) /\ t \in Scavengers
      BY <1>3
    <3>. QED
      BY ONLY <2>4, <2>5, <3>1, TotalOfChange
  <2>7. B[t] = 0
    BY <1>2, <1>3, <2>2
  <2>8. D[t] = IF g = h THEN cpu ELSE 0
    BY <1>4, <1>5, <2>3
  <2>. QED
    BY <1>3, <2>1, <2>2, <2>3, <2>6, <2>7, <2>8
<1>7. ASSUME NEW s \in Scavengers, NEW g \in HoldNames \ slipped', loans'[s].hold = g
      PROVE  loans'[s].due = holds'[g].starts /\ Lent(g)' <= holds'[g].cpu
  <2>1. g \in HoldNames \ slipped /\ holds' = holds /\ g \in HoldNames
    BY <1>2
  <2>2. CASE g = h
    <3>1. Lent(g)' <= holds'[g].cpu
      BY <1>2, <1>6, <2>1, <2>2
    <3>2. s = t \/ loans[s].hold = h
      BY <1>5, <1>7, <2>2
    <3>3. loans'[s].due = holds[h].starts
      BY <1>1, <1>4, <1>5, <2>1, <2>2, <3>2
    <3>. QED
      BY <2>1, <2>2, <3>1, <3>3
  <2>3. CASE g # h
    <3>1. s # t /\ loans[s].hold = g /\ loans'[s] = loans[s]
      BY <1>4, <1>5, <1>7, <2>3
    <3>2. Lent(g)' = Lent(g)
      BY <1>6, <2>1, <2>3
    <3>. QED
      BY <1>1, <2>1, <3>1, <3>2
  <2>. QED
    BY <2>2, <2>3
<1>8. HoldsFit'
  <2>1. \A tick \in 0..Horizon : At(holds, tick)' <= Capacity
    BY <1>2 DEF HoldInv, HoldsFit, At
  <2>. QED
    BY <1>7, <2>1 DEF HoldsFit
<1>9. \A s \in Scavengers : loans'[s].hold # "none" => loans'[s].cpu # 0
  BY <1>1, <1>3, <1>4, <1>5
<1>. QED
  BY <1>1, <1>2, <1>5, <1>8, <1>9 DEF HoldInv

\* Where loans are only given back, no hold has lent more.
LEMMA ReturningFits ==
    ASSUME HoldInv, UNCHANGED <<now, holds, slipped>>,
           DOMAIN loans' = Scavengers, loans' = [t \in Scavengers |-> loans'[t]],
           \A t \in Scavengers : loans'[t] = loans[t] \/ loans'[t] = NoLoan
    PROVE  HoldInv'
<1>1. /\ now \in 0..Horizon /\ holds \in [HoldNames -> Frames]
      /\ loans \in [Scavengers -> Loans]
      /\ \A s \in Scavengers : loans[s].hold # "none" => loans[s].cpu # 0
      /\ \A s \in Scavengers, g \in HoldNames \ slipped :
            loans[s].hold = g => loans[s].due = holds[g].starts /\ Lent(g) <= holds[g].cpu
  BY DEF HoldInv, HoldsFit
<1>2. /\ NoLoan \in Loans /\ NoLoan.hold = "none" /\ NoLoan.cpu = 0
  BY DEF NoLoan, Loans
<1>3. "none" \notin HoldNames /\ IsFiniteSet(Scavengers)
  BY BookingBounds DEF BookingBounds
<1>4. loans' \in [Scavengers -> Loans]
  BY <1>1, <1>2
<1>5. ASSUME NEW g \in HoldNames
      PROVE  Lent(g)' \in Nat /\ Lent(g) \in Nat /\ Lent(g)' <= Lent(g)
  <2>. DEFINE B == Borrows(loans, g)
              D == Borrows(loans', g)
  <2>1. Lent(g) = SumFunction(B) /\ Lent(g)' = SumFunction(D)
    BY DEF Lent, Borrows
  <2>2. /\ SumFunction(B) = Total(B, Scavengers) /\ SumFunction(B) \in Nat
        /\ \A s \in Scavengers : /\ B[s] \in Nat
                                 /\ B[s] = IF loans[s].hold = g THEN loans[s].cpu ELSE 0
    BY <1>1, LentIsTotal
  <2>3. /\ SumFunction(D) = Total(D, Scavengers) /\ SumFunction(D) \in Nat
        /\ \A s \in Scavengers : /\ D[s] \in Nat
                                 /\ D[s] = IF loans'[s].hold = g THEN loans'[s].cpu ELSE 0
    BY <1>4, LentIsTotal
  <2>. HIDE DEF B, D
  <2>4. ASSUME NEW s \in Scavengers PROVE D[s] \in Nat /\ B[s] \in Nat /\ D[s] <= B[s]
    <3>1. CASE loans'[s] = loans[s]
      BY <2>2, <2>3, <3>1
    <3>2. CASE loans'[s] = NoLoan
      <4>1. D[s] = 0
        BY <1>2, <2>3, <3>2
      <4>. QED
        BY <2>2, <4>1
    <3>. QED
      BY <3>1, <3>2
  <2>5. Total(D, Scavengers) <= Total(B, Scavengers)
    BY <1>3, <2>4, TotalOfLess
  <2>. QED
    BY <2>1, <2>2, <2>3, <2>5
<1>6. ASSUME NEW s \in Scavengers, NEW g \in HoldNames \ slipped', loans'[s].hold = g
      PROVE  loans'[s].due = holds'[g].starts /\ Lent(g)' <= holds'[g].cpu
  <2>1. g \in HoldNames \ slipped /\ holds' = holds /\ g \in HoldNames
    OBVIOUS
  <2>2. loans'[s] = loans[s]
    BY <1>2, <1>3, <1>6, <2>1
  <2>3. loans[s].due = holds[g].starts /\ Lent(g) <= holds[g].cpu
    BY <1>1, <1>6, <2>1, <2>2
  <2>4. holds[g].cpu \in Nat
    BY <1>1, <2>1 DEF Frames
  <2>. QED
    BY <1>5, <2>1, <2>2, <2>3, <2>4
<1>7. HoldsFit'
  <2>1. \A tick \in 0..Horizon : At(holds, tick)' <= Capacity
    BY DEF HoldInv, HoldsFit, At
  <2>. QED
    BY <1>6, <2>1 DEF HoldsFit
<1>8. \A s \in Scavengers : loans'[s].hold # "none" => loans'[s].cpu # 0
  BY <1>1, <1>2
<1>. QED
  BY <1>1, <1>4, <1>7, <1>8 DEF HoldInv

\* No step oversells a tick, or lends what the hold has not.
LEMMA HoldKeeps ==
    ASSUME HoldInv, [HoldNext \/ BrokerNext \/ BookingTick]_bookingVars
    PROVE  HoldInv'
<1>1. ASSUME NEW h \in HoldNames, CancelHold(h) PROVE HoldInv'
  <2>1. TakenOff({h}) /\ UNCHANGED <<now, loans>>
    BY <1>1 DEF CancelHold
  <2>. QED
    BY <2>1, TakingOffFits
<1>2. ASSUME ExpireHolds PROVE HoldInv'
  <2>. DEFINE S == {h \in HoldNames : holds[h].ends <= now}
  <2>1. TakenOff(S) /\ UNCHANGED <<now, loans>>
    BY <1>2 DEF ExpireHolds
  <2>. HIDE DEF S
  <2>. QED
    BY <2>1, TakingOffFits
<1>3. ASSUME SweepLoans PROVE HoldInv'
  <2>1. /\ UNCHANGED <<now, holds, slipped>>
        /\ DOMAIN loans' = Scavengers /\ loans' = [t \in Scavengers |-> loans'[t]]
        /\ \A t \in Scavengers : loans'[t] = loans[t] \/ loans'[t] = NoLoan
    BY <1>3 DEF SweepLoans
  <2>. QED
    BY <2>1, ReturningFits
<1>4. ASSUME NEW t \in Scavengers, FinishLoan(t) PROVE HoldInv'
  <2>1. loans \in [Scavengers -> Loans]
    BY DEF HoldInv
  <2>2. /\ UNCHANGED <<now, holds, slipped>>
        /\ DOMAIN loans' = Scavengers /\ loans' = [s \in Scavengers |-> loans'[s]]
        /\ \A s \in Scavengers : loans'[s] = loans[s] \/ loans'[s] = NoLoan
    BY <1>4, <2>1 DEF FinishLoan
  <2>. QED
    BY <2>2, ReturningFits
<1>5. ASSUME \/ UNCHANGED bookingVars
             \/ now < Horizon /\ now' = now + 1 /\ UNCHANGED holdVars
             \/ UNCHANGED <<now, holdVars>>
      PROVE  HoldInv'
  <2>1. now' \in 0..Horizon /\ UNCHANGED <<holds, loans, slipped>>
    BY <1>5, BookingBounds DEF BookingBounds, HoldInv, bookingVars, holdVars
  <2>2. HoldsFit'
    BY <2>1 DEF HoldInv, HoldsFit, At, Lent
  <2>. QED
    BY <2>1, <2>2 DEF HoldInv
<1>6. ASSUME BrokerNext PROVE UNCHANGED <<now, holdVars>>
  BY <1>6 DEF BrokerNext, Release, Claim, Yield, BookWindow, ScaleUp, ScaleDown
<1>. QED
  BY <1>1, <1>2, <1>3, <1>4, <1>5, <1>6, BookingFits, BorrowingFits DEF HoldNext, BookingTick

-----------------------------------------------------------------------------
(* The broker                                                              *)

\* What is given back by a tick.
BackBy(running, tick) ==
    [b \in BookingNames |-> IF running[b].ends <= tick THEN running[b].cpu ELSE 0]

\* Types, and that a name is booked or its batch runs, with what finds room.
BrokerInv ==
    /\ now \in 0..Horizon /\ fleetFree \in Int
    /\ bookings \in [BookingNames -> Frames]
    /\ batches \in [BookingNames -> Frames]
    /\ \A b \in BookingNames : bookings[b].starts < bookings[b].ends => batches[b].cpu = 0
    /\ BatchesFindRoom

\* What is given back by a tick is a sum over the names.
LEMMA BackIsTotal ==
    ASSUME NEW running, running \in [BookingNames -> Frames], NEW tick \in Int
    PROVE  /\ SumFunction(BackBy(running, tick)) = Total(BackBy(running, tick), BookingNames)
           /\ SumFunction(BackBy(running, tick)) \in Nat
           /\ \A b \in BookingNames :
                 /\ BackBy(running, tick)[b] \in Nat
                 /\ BackBy(running, tick)[b]
                       = IF running[b].ends <= tick THEN running[b].cpu ELSE 0
<1>. DEFINE B == BackBy(running, tick)
<1>1. IsFiniteSet(BookingNames)
  BY BookingBounds DEF BookingBounds
<1>2. /\ DOMAIN B = BookingNames
      /\ \A b \in BookingNames : B[b] = IF running[b].ends <= tick THEN running[b].cpu ELSE 0
  BY DEF BackBy
<1>3. \A b \in BookingNames : B[b] \in Nat
  BY <1>2 DEF Frames
<1>. HIDE DEF B
<1>4. SumFunction(B) = Total(B, BookingNames) /\ Total(B, BookingNames) \in Nat
  BY <1>1, <1>2, <1>3, SumIsTotal, TotalIsNat
<1>. QED
  BY <1>2, <1>3, <1>4 DEF B

\* Where one batch changes, what is given back by a tick changes by that.
LEMMA OneGivesBack ==
    ASSUME NEW running, running \in [BookingNames -> Frames],
           NEW after, after \in [BookingNames -> Frames], NEW b \in BookingNames,
           \A n \in BookingNames : n # b => after[n] = running[n], NEW tick \in Int
    PROVE  SumFunction(BackBy(after, tick)) = SumFunction(BackBy(running, tick))
              + BackBy(after, tick)[b] - BackBy(running, tick)[b]
<1>. DEFINE B == BackBy(running, tick)
            D == BackBy(after, tick)
<1>1. IsFiniteSet(BookingNames)
  BY BookingBounds DEF BookingBounds
<1>2. /\ SumFunction(B) = Total(B, BookingNames)
      /\ \A n \in BookingNames : /\ B[n] \in Nat
                                 /\ B[n] = IF running[n].ends <= tick THEN running[n].cpu ELSE 0
  BY BackIsTotal
<1>3. /\ SumFunction(D) = Total(D, BookingNames)
      /\ \A n \in BookingNames : /\ D[n] \in Nat
                                 /\ D[n] = IF after[n].ends <= tick THEN after[n].cpu ELSE 0
  BY BackIsTotal
<1>4. \A n \in BookingNames : n # b => D[n] = B[n]
  BY <1>2, <1>3
<1>5. \A n \in BookingNames : D[n] \in Nat /\ B[n] \in Nat
  BY <1>2, <1>3
<1>. HIDE DEF B, D
<1>6. Total(D, BookingNames) = Total(B, BookingNames) + D[b] - B[b]
  BY <1>1, <1>4, <1>5, TotalOfChange
<1>. QED
  BY <1>2, <1>3, <1>6 DEF B, D

\* Everything is free at first.
LEMMA BrokerStarts ==
    ASSUME BookingInit
    PROVE  BrokerInv
<1>1. /\ now = 0 /\ bookings = [b \in BookingNames |-> NoWindow]
      /\ batches = [b \in BookingNames |-> NoWindow] /\ fleetFree = FleetFree
  BY DEF BookingInit
<1>2. IsFiniteSet(BookingNames) /\ FleetFree \in Nat /\ Horizon \in Nat
  BY BookingBounds DEF BookingBounds
<1>3. /\ bookings \in [BookingNames -> Frames] /\ batches \in [BookingNames -> Frames]
      /\ \A b \in BookingNames : bookings[b].cpu = 0 /\ batches[b].cpu = 0
  BY <1>1, FramesOfWindows
<1>4. ASSUME NEW tick \in now..Horizon
      PROVE  At(bookings, tick) <= fleetFree + SumFunction(BackBy(batches, tick))
  <2>1. tick \in Int
    BY <1>1, <1>2
  <2>2. /\ At(bookings, tick) = Total(Here(bookings, tick), BookingNames)
        /\ \A n \in BookingNames : Here(bookings, tick)[n] =
              IF bookings[n].starts <= tick /\ tick < bookings[n].ends
              THEN bookings[n].cpu ELSE 0
    BY <1>2, <1>3, <2>1, AtIsTotal
  <2>3. \A n \in BookingNames : Here(bookings, tick)[n] = 0
    BY <1>3, <2>2
  <2>4. Total(Here(bookings, tick), BookingNames) = 0
    BY <1>2, <2>3, TotalOfZeros
  <2>5. SumFunction(BackBy(batches, tick)) \in Nat
    BY <1>3, <2>1, BackIsTotal
  <2>. QED
    BY <1>1, <1>2, <2>2, <2>4, <2>5
<1>5. BatchesFindRoom
  BY <1>4 DEF BatchesFindRoom, BackBy
<1>. QED
  BY <1>1, <1>2, <1>3, <1>5 DEF BrokerInv

\* What the invariant says of a tick to come.
LEMMA RoomToCome ==
    ASSUME BrokerInv, NEW tick, tick \in now..Horizon
    PROVE  /\ tick \in Int /\ now <= tick /\ tick <= Horizon
           /\ At(bookings, tick) \in Nat /\ SumFunction(BackBy(batches, tick)) \in Nat
           /\ At(bookings, tick) <= fleetFree + SumFunction(BackBy(batches, tick))
<1>1. /\ now \in 0..Horizon /\ Horizon \in Nat /\ IsFiniteSet(BookingNames)
      /\ bookings \in [BookingNames -> Frames] /\ batches \in [BookingNames -> Frames]
  BY BookingBounds DEF BookingBounds, BrokerInv
<1>2. tick \in Int /\ now <= tick /\ tick <= Horizon
  BY <1>1
<1>3. At(bookings, tick) \in Nat
  BY <1>1, <1>2, AtIsTotal
<1>4. SumFunction(BackBy(batches, tick)) \in Nat
  BY <1>1, <1>2, BackIsTotal
<1>5. At(bookings, tick) <= fleetFree + SumFunction(BackBy(batches, tick))
  BY DEF BrokerInv, BatchesFindRoom, BackBy
<1>. QED
  BY <1>2, <1>3, <1>4, <1>5

\* Room for all in every tick to come is what the property says.
LEMMA RoomIsFound ==
    ASSUME \A tick \in now'..Horizon :
               At(bookings', tick) <= fleetFree' + SumFunction(BackBy(batches', tick))
    PROVE  BatchesFindRoom'
BY DEF BatchesFindRoom, BackBy, At

\* A window is booked where its peak leaves room.
LEMMA WindowFindsRoom ==
    ASSUME BrokerInv, NEW b \in BookingNames, NEW w \in Windows, BookWindow(b, w)
    PROVE  BrokerInv'
<1>1. /\ now \in 0..Horizon /\ Horizon \in Nat /\ IsFiniteSet(BookingNames)
      /\ bookings \in [BookingNames -> Frames] /\ batches \in [BookingNames -> Frames]
      /\ fleetFree \in Int
      /\ \A n \in BookingNames : bookings[n].starts < bookings[n].ends => batches[n].cpu = 0
  BY BookingBounds DEF BookingBounds, BrokerInv
<1>2. /\ bookings[b] = NoWindow /\ batches[b] = NoWindow
      /\ w.cpu <= fleetFree - Peak(bookings, w)
      /\ bookings' = [bookings EXCEPT ![b] = w] /\ UNCHANGED <<now, fleetFree, batches>>
  BY DEF BookWindow
<1>3. /\ w.cpu \in Nat /\ w.starts \in Int /\ w.ends \in Int /\ w \in Frames
      /\ NoWindow.cpu = 0
  BY FramesOfWindows
<1>4. /\ bookings' \in [BookingNames -> Frames] /\ bookings'[b] = w
      /\ \A n \in BookingNames : n # b => bookings'[n] = bookings[n]
  BY <1>1, <1>2, <1>3
<1>5. ASSUME NEW tick, tick \in now..Horizon
      PROVE  At(bookings', tick) <= fleetFree + SumFunction(BackBy(batches, tick))
  <2>1. /\ tick \in Int /\ At(bookings, tick) \in Nat
        /\ SumFunction(BackBy(batches, tick)) \in Nat
        /\ At(bookings, tick) <= fleetFree + SumFunction(BackBy(batches, tick))
    BY <1>5, RoomToCome
  <2>2. At(bookings', tick) = At(bookings, tick) + Here(bookings', tick)[b]
                                - Here(bookings, tick)[b]
    BY <1>1, <1>4, <2>1, OneIsEntered
  <2>3. Here(bookings, tick)[b] \in Nat
    BY <1>1, <2>1, AtIsTotal
  <2>4. Here(bookings', tick)[b] = IF w.starts <= tick /\ tick < w.ends THEN w.cpu ELSE 0
    BY <1>1, <1>4, <2>1, AtIsTotal
  <2>5. CASE w.starts <= tick /\ tick < w.ends
    <3>1. Peak(bookings, w) \in Nat /\ At(bookings, tick) <= Peak(bookings, w)
      BY <1>1, <1>3, <2>1, <2>5, PeakIsAbove
    <3>. QED
      BY <1>1, <1>2, <1>3, <2>1, <2>2, <2>3, <2>4, <2>5, <3>1
  <2>6. CASE ~(w.starts <= tick /\ tick < w.ends)
    BY <1>1, <2>1, <2>2, <2>3, <2>4, <2>6
  <2>. QED
    BY <2>5, <2>6
<1>6. BatchesFindRoom'
  BY <1>2, <1>5, RoomIsFound
<1>7. \A n \in BookingNames : bookings'[n].starts < bookings'[n].ends => batches'[n].cpu = 0
  BY <1>1, <1>2, <1>3, <1>4
<1>. QED
  BY <1>1, <1>2, <1>4, <1>6, <1>7 DEF BrokerInv

\* What is released leaves more room.
LEMMA ReleaseFindsRoom ==
    ASSUME BrokerInv, NEW b \in BookingNames, Release(b)
    PROVE  BrokerInv'
<1>1. /\ now \in 0..Horizon /\ Horizon \in Nat /\ IsFiniteSet(BookingNames)
      /\ bookings \in [BookingNames -> Frames] /\ batches \in [BookingNames -> Frames]
      /\ fleetFree \in Int
      /\ \A n \in BookingNames : bookings[n].starts < bookings[n].ends => batches[n].cpu = 0
  BY BookingBounds DEF BookingBounds, BrokerInv
<1>2. /\ bookings' = [bookings EXCEPT ![b] = NoWindow] /\ UNCHANGED <<now, fleetFree, batches>>
  BY DEF Release
<1>3. /\ bookings' \in [BookingNames -> Frames]
      /\ \A n \in BookingNames : bookings'[n] = bookings[n] \/ bookings'[n] = NoWindow
  BY <1>1, <1>2, FramesOfWindows
<1>4. ASSUME NEW tick, tick \in now..Horizon
      PROVE  At(bookings', tick) <= fleetFree + SumFunction(BackBy(batches, tick))
  <2>1. /\ tick \in Int /\ At(bookings, tick) \in Nat
        /\ SumFunction(BackBy(batches, tick)) \in Nat
        /\ At(bookings, tick) <= fleetFree + SumFunction(BackBy(batches, tick))
    BY <1>4, RoomToCome
  <2>2. At(bookings', tick) <= At(bookings, tick)
    BY <1>1, <1>3, <2>1, NoneIsEntered
  <2>3. At(bookings', tick) \in Nat
    BY <1>1, <1>3, <2>1, AtIsTotal
  <2>. QED
    BY <1>1, <2>1, <2>2, <2>3
<1>5. BatchesFindRoom'
  BY <1>2, <1>4, RoomIsFound
<1>6. \A n \in BookingNames : bookings'[n].starts < bookings'[n].ends => batches'[n].cpu = 0
  BY <1>1, <1>2, <1>3, FramesOfWindows
<1>. QED
  BY <1>1, <1>2, <1>3, <1>5, <1>6 DEF BrokerInv

\* A batch takes what its booking kept for it, up to its end.
LEMMA ClaimFindsRoom ==
    ASSUME BrokerInv, NEW b \in BookingNames, Claim(b)
    PROVE  BrokerInv'
<1>1. /\ now \in 0..Horizon /\ Horizon \in Nat /\ IsFiniteSet(BookingNames)
      /\ bookings \in [BookingNames -> Frames] /\ batches \in [BookingNames -> Frames]
      /\ fleetFree \in Int
      /\ \A n \in BookingNames : bookings[n].starts < bookings[n].ends => batches[n].cpu = 0
  BY BookingBounds DEF BookingBounds, BrokerInv
<1>. DEFINE w == bookings[b]
<1>2. /\ w.starts <= now /\ now < w.ends
      /\ bookings' = [bookings EXCEPT ![b] = NoWindow]
      /\ batches' = [batches EXCEPT ![b] = w]
      /\ fleetFree' = fleetFree - w.cpu /\ UNCHANGED now
  BY DEF Claim
<1>3. /\ w \in Frames /\ w.cpu \in Nat /\ w.starts \in Nat /\ w.ends \in Nat
      /\ NoWindow.cpu = 0 /\ NoWindow.starts = 0 /\ NoWindow.ends = 0
  BY <1>1, FramesOfWindows DEF Frames
<1>4. batches[b].cpu = 0
  BY <1>1, <1>2, <1>3
<1>5. /\ bookings' \in [BookingNames -> Frames] /\ bookings'[b] = NoWindow
      /\ \A n \in BookingNames : n # b => bookings'[n] = bookings[n]
      /\ batches' \in [BookingNames -> Frames] /\ batches'[b] = w
      /\ \A n \in BookingNames : n # b => batches'[n] = batches[n]
      /\ fleetFree' \in Int
  BY <1>1, <1>2, <1>3, FramesOfWindows
<1>6. ASSUME NEW tick, tick \in now..Horizon
      PROVE  At(bookings', tick) <= fleetFree' + SumFunction(BackBy(batches', tick))
  <2>1. /\ tick \in Int /\ now <= tick /\ At(bookings, tick) \in Nat
        /\ SumFunction(BackBy(batches, tick)) \in Nat
        /\ At(bookings, tick) <= fleetFree + SumFunction(BackBy(batches, tick))
    BY <1>6, RoomToCome
  <2>2. At(bookings', tick) = At(bookings, tick) + Here(bookings', tick)[b]
                                - Here(bookings, tick)[b]
    BY <1>1, <1>5, <2>1, OneIsEntered
  <2>3. Here(bookings, tick)[b] = IF w.starts <= tick /\ tick < w.ends THEN w.cpu ELSE 0
    BY <1>1, <2>1, AtIsTotal
  <2>4. Here(bookings', tick)[b] = 0
    <3>1. Here(bookings', tick)[b] = IF bookings'[b].starts <= tick /\ tick < bookings'[b].ends
                                     THEN bookings'[b].cpu ELSE 0
      BY <1>1, <1>5, <2>1, AtIsTotal
    <3>. QED
      BY <1>3, <1>5, <3>1
  <2>5. SumFunction(BackBy(batches', tick)) = SumFunction(BackBy(batches, tick))
           + BackBy(batches', tick)[b] - BackBy(batches, tick)[b]
    BY <1>1, <1>5, <2>1, OneGivesBack
  <2>6. BackBy(batches, tick)[b] = 0
    <3>1. BackBy(batches, tick)[b] = IF batches[b].ends <= tick THEN batches[b].cpu ELSE 0
      BY <1>1, <2>1, BackIsTotal
    <3>. QED
      BY <1>4, <3>1
  <2>7. BackBy(batches', tick)[b] = IF w.ends <= tick THEN w.cpu ELSE 0
    BY <1>5, <2>1, BackIsTotal
  <2>8. w.starts <= tick
    BY <1>1, <1>2, <1>3, <2>1
  <2>. HIDE DEF w
  <2>. QED
    BY <1>1, <1>2, <1>3, <2>1, <2>2, <2>3, <2>4, <2>5, <2>6, <2>7, <2>8
<1>7. BatchesFindRoom'
  BY <1>2, <1>6, RoomIsFound
<1>8. \A n \in BookingNames : bookings'[n].starts < bookings'[n].ends => batches'[n].cpu = 0
  BY <1>1, <1>3, <1>5
<1>. QED
  BY <1>1, <1>2, <1>5, <1>7, <1>8 DEF BrokerInv

\* What a batch gives back early is free at once, and by its end anyway.
LEMMA YieldFindsRoom ==
    ASSUME BrokerInv, NEW b \in BookingNames, Yield(b)
    PROVE  BrokerInv'
<1>1. /\ now \in 0..Horizon /\ Horizon \in Nat /\ IsFiniteSet(BookingNames)
      /\ bookings \in [BookingNames -> Frames] /\ batches \in [BookingNames -> Frames]
      /\ fleetFree \in Int
      /\ \A n \in BookingNames : bookings[n].starts < bookings[n].ends => batches[n].cpu = 0
  BY BookingBounds DEF BookingBounds, BrokerInv
<1>. DEFINE w == batches[b]
<1>2. /\ batches' = [batches EXCEPT ![b] = NoWindow]
      /\ fleetFree' = fleetFree + w.cpu /\ UNCHANGED <<now, bookings>>
  BY DEF Yield
<1>3. /\ w \in Frames /\ w.cpu \in Nat /\ w.starts \in Nat /\ w.ends \in Nat
      /\ NoWindow.cpu = 0
  BY <1>1, FramesOfWindows DEF Frames
<1>4. /\ batches' \in [BookingNames -> Frames] /\ batches'[b] = NoWindow
      /\ \A n \in BookingNames : n # b => batches'[n] = batches[n]
      /\ fleetFree' \in Int
  BY <1>1, <1>2, <1>3, FramesOfWindows
<1>5. ASSUME NEW tick, tick \in now..Horizon
      PROVE  At(bookings, tick) <= fleetFree' + SumFunction(BackBy(batches', tick))
  <2>1. /\ tick \in Int /\ now <= tick /\ At(bookings, tick) \in Nat
        /\ SumFunction(BackBy(batches, tick)) \in Nat
        /\ At(bookings, tick) <= fleetFree + SumFunction(BackBy(batches, tick))
    BY <1>5, RoomToCome
  <2>2. SumFunction(BackBy(batches', tick)) = SumFunction(BackBy(batches, tick))
           + BackBy(batches', tick)[b] - BackBy(batches, tick)[b]
    BY <1>1, <1>4, <2>1, OneGivesBack
  <2>3. BackBy(batches, tick)[b] = IF w.ends <= tick THEN w.cpu ELSE 0
    BY <1>1, <2>1, BackIsTotal
  <2>4. BackBy(batches', tick)[b] \in Nat
    BY <1>4, <2>1, BackIsTotal
  <2>. HIDE DEF w
  <2>. QED
    BY <1>1, <1>2, <1>3, <2>1, <2>2, <2>3, <2>4
<1>6. BatchesFindRoom'
  BY <1>2, <1>5, RoomIsFound
<1>7. \A n \in BookingNames : bookings'[n].starts < bookings'[n].ends => batches'[n].cpu = 0
  BY <1>1, <1>2, <1>3, <1>4
<1>. QED
  BY <1>1, <1>2, <1>4, <1>6, <1>7 DEF BrokerInv

\* A scale-up clears every booking to come, and a scale-down leaves more room.
LEMMA ScalingFindsRoom ==
    ASSUME BrokerInv, NEW cpu, cpu \in 1..Capacity, ScaleUp(cpu) \/ ScaleDown(cpu)
    PROVE  BrokerInv'
<1>1. /\ now \in 0..Horizon /\ Horizon \in Nat /\ IsFiniteSet(BookingNames)
      /\ bookings \in [BookingNames -> Frames] /\ batches \in [BookingNames -> Frames]
      /\ fleetFree \in Int /\ Capacity \in Nat
  BY BookingBounds DEF BookingBounds, BrokerInv
<1>2. cpu \in Nat
  BY <1>1
<1>. DEFINE rest == [starts |-> now, ends |-> Horizon + 1]
<1>3. /\ \/ fleetFree' = fleetFree + cpu
         \/ fleetFree' = fleetFree - cpu /\ cpu <= fleetFree - Peak(bookings, rest)
      /\ UNCHANGED <<now, bookings, batches>>
  BY DEF ScaleUp, ScaleDown, MayScale
<1>4. rest.starts = now /\ rest.ends = Horizon + 1
  OBVIOUS
<1>. HIDE DEF rest
<1>5. ASSUME NEW tick, tick \in now..Horizon
      PROVE  At(bookings, tick) <= fleetFree' + SumFunction(BackBy(batches, tick))
  <2>1. /\ tick \in Int /\ now <= tick /\ tick <= Horizon /\ At(bookings, tick) \in Nat
        /\ SumFunction(BackBy(batches, tick)) \in Nat
        /\ At(bookings, tick) <= fleetFree + SumFunction(BackBy(batches, tick))
    BY <1>5, RoomToCome
  <2>2. CASE fleetFree' = fleetFree + cpu
    BY <1>1, <1>2, <2>1, <2>2
  <2>3. CASE fleetFree' = fleetFree - cpu /\ cpu <= fleetFree - Peak(bookings, rest)
    <3>1. /\ rest.starts \in Int /\ rest.ends \in Int
          /\ rest.starts <= tick /\ tick < rest.ends
      BY <1>1, <1>4, <2>1
    <3>2. Peak(bookings, rest) \in Nat /\ At(bookings, tick) <= Peak(bookings, rest)
      BY <1>1, <2>1, <3>1, PeakIsAbove
    <3>. QED
      BY <1>1, <1>2, <2>1, <2>3, <3>2
  <2>. QED
    BY <1>3, <2>2, <2>3
<1>6. BatchesFindRoom'
  BY <1>3, <1>5, RoomIsFound
<1>7. fleetFree' \in Int
  BY <1>1, <1>2, <1>3
<1>. QED
  BY <1>3, <1>6, <1>7 DEF BrokerInv

\* In every step each batch to come keeps its room.
LEMMA BrokerKeeps ==
    ASSUME BrokerInv, [HoldNext \/ BrokerNext \/ BookingTick]_bookingVars
    PROVE  BrokerInv'
<1>1. ASSUME \/ UNCHANGED bookingVars
             \/ now < Horizon /\ now' = now + 1 /\ UNCHANGED brokerVars
             \/ UNCHANGED <<now, brokerVars>>
      PROVE  BrokerInv'
  <2>1. /\ now' \in 0..Horizon /\ now <= now' /\ UNCHANGED <<bookings, fleetFree, batches>>
        /\ now \in 0..Horizon /\ Horizon \in Nat
    BY <1>1, BookingBounds DEF BookingBounds, BrokerInv, bookingVars, brokerVars
  <2>2. ASSUME NEW tick, tick \in now'..Horizon
        PROVE  At(bookings, tick) <= fleetFree + SumFunction(BackBy(batches, tick))
    <3>1. tick \in now..Horizon
      BY <2>1, <2>2
    <3>. QED
      BY <3>1, RoomToCome
  <2>3. BatchesFindRoom'
    BY <2>1, <2>2, RoomIsFound
  <2>. QED
    BY <2>1, <2>3 DEF BrokerInv
<1>2. ASSUME HoldNext PROVE UNCHANGED <<now, brokerVars>>
  BY <1>2 DEF HoldNext, CancelHold, BookHold, ExpireHolds, SweepLoans, FinishLoan, Borrow
<1>3. ASSUME NEW b \in BookingNames,
             Release(b) \/ Claim(b) \/ Yield(b) \/ (\E w \in Windows : BookWindow(b, w))
      PROVE  BrokerInv'
  BY <1>3, WindowFindsRoom, ReleaseFindsRoom, ClaimFindsRoom, YieldFindsRoom
<1>4. ASSUME NEW cpu, cpu \in 1..Capacity, ScaleUp(cpu) \/ ScaleDown(cpu)
      PROVE  BrokerInv'
  BY <1>4, ScalingFindsRoom
<1>. QED
  BY <1>1, <1>2, <1>3, <1>4 DEF BrokerNext, BookingTick

-----------------------------------------------------------------------------
(* The lender                                                              *)

\* What of a guarantee is idle, by team.
Idle(usage) == [t \in Teams |-> Positive(Guarantee[t] - usage[t])]

\* The teams that are called, and those before one by name.
Called(notices) == {t \in Teams : notices[t] # NotCalled}
Before(d) == {e \in Teams : e < d}

\* What a team has over its guarantee is what it borrowed.
OverIsBorrowed(usage, debts) ==
    \A t \in Teams : usage[t] > Guarantee[t] \/ debts[t] > 0
                        => usage[t] = Guarantee[t] + debts[t]

\* Types, with what is promised of loans.
LenderInv ==
    /\ used \in [Teams -> Nat] /\ borrowed \in [Teams -> Nat]
    /\ due \in [Teams -> Nat \cup {NotCalled}]
    /\ LentIsCalled

\* A sum over some of the places is their total.
LEMMA SumOfSome ==
    ASSUME NEW S, IsFiniteSet(S), NEW w, \A t \in S : w[t] \in Nat
    PROVE  SumFunction([t \in S |-> w[t]]) = Total(w, S) /\ Total(w, S) \in Nat
<1>. DEFINE f == [t \in S |-> w[t]]
<1>1. DOMAIN f = S /\ \A t \in S : w[t] \in Nat /\ f[t] = w[t]
  OBVIOUS
<1>. HIDE DEF f
<1>2. SumFunction(f) = Total(f, S)
  BY <1>1, SumIsTotal
<1>3. Total(f, S) = Total(w, S)
  BY <1>1, TotalOfSame
<1>4. Total(w, S) \in Nat
  BY TotalIsNat
<1>. QED
  BY <1>2, <1>3, <1>4 DEF f

\* What is idle is a sum over the teams.
LEMMA IdleIsTotal ==
    ASSUME NEW usage, usage \in [Teams -> Nat]
    PROVE  /\ IdleOf(usage) = Total(Idle(usage), Teams) /\ IdleOf(usage) \in Nat
           /\ \A t \in Teams : /\ Idle(usage)[t] \in Nat
                               /\ Idle(usage)[t] = IF Guarantee[t] > usage[t]
                                                   THEN Guarantee[t] - usage[t] ELSE 0
<1>. DEFINE I == Idle(usage)
<1>1. IsFiniteSet(Teams) /\ \A t \in Teams : Guarantee[t] \in Nat /\ usage[t] \in Nat
  BY LendingAssumption DEF LendingAssumption
<1>2. DOMAIN I = Teams /\ IdleOf(usage) = SumFunction(I)
  BY DEF Idle, IdleOf
<1>3. \A t \in Teams : I[t] = IF Guarantee[t] - usage[t] > 0 THEN Guarantee[t] - usage[t] ELSE 0
  BY DEF Idle, Positive
<1>4. \A t \in Teams : /\ I[t] \in Nat
                       /\ I[t] = IF Guarantee[t] > usage[t] THEN Guarantee[t] - usage[t] ELSE 0
  BY <1>1, <1>3
<1>. HIDE DEF I
<1>5. SumFunction(I) = Total(I, Teams) /\ Total(I, Teams) \in Nat
  BY <1>1, <1>2, <1>4, SumIsTotal, TotalIsNat
<1>. QED
  BY <1>2, <1>4, <1>5 DEF I

\* The property, by totals.
LEMMA LentByTotals ==
    ASSUME NEW debts, debts \in [Teams -> Nat], NEW notices
    PROVE  /\ SumFunction(debts) = Total(debts, Teams) /\ Total(debts, Teams) \in Nat
           /\ SumFunction([t \in {d \in Teams : notices[d] # NotCalled} |-> debts[t]])
                 = Total(debts, Called(notices))
           /\ Total(debts, Called(notices)) \in Nat
           /\ Total(debts, Called(notices)) <= Total(debts, Teams)
<1>1. IsFiniteSet(Teams) /\ \A t \in Teams : debts[t] \in Nat
  BY LendingAssumption DEF LendingAssumption
<1>2. /\ Called(notices) \subseteq Teams
      /\ Called(notices) = {d \in Teams : notices[d] # NotCalled}
  BY DEF Called
<1>3. IsFiniteSet(Called(notices)) /\ \A t \in Called(notices) : debts[t] \in Nat
  BY <1>1, <1>2, FS_Subset
<1>4. SumFunction(debts) = Total(debts, Teams) /\ Total(debts, Teams) \in Nat
  BY <1>1, SumIsTotal, TotalIsNat
<1>5. /\ SumFunction([t \in Called(notices) |-> debts[t]]) = Total(debts, Called(notices))
      /\ Total(debts, Called(notices)) \in Nat
  BY <1>3, SumOfSome
<1>6. Total(debts, Called(notices)) <= Total(debts, Teams)
  BY <1>1, <1>2, TotalOfSubset
<1>. QED
  BY <1>2, <1>4, <1>5, <1>6

\* Those called in the order of their names cover what is short, or they are all.
LEMMA CalledCover ==
    ASSUME NEW debts, debts \in [Teams -> Nat], NEW short, short \in Int, NEW C,
           C = {d \in Teams : debts[d] > 0 /\ short > Total(debts, Before(d))}
    PROVE  /\ Total(debts, C) >= short \/ Total(debts, C) = Total(debts, Teams)
           /\ Total(debts, C) \in Nat
<1>1. /\ IsFiniteSet(Teams) /\ Teams \subseteq Int /\ \A t \in Teams : debts[t] \in Nat
      /\ C \subseteq Teams
  BY LendingAssumption DEF LendingAssumption
<1>2. /\ Total(debts, Teams) = Total(debts, C) + Total(debts, Teams \ C)
      /\ Total(debts, C) \in Nat /\ Total(debts, Teams \ C) \in Nat
  BY <1>1, TotalOfPart
<1>. DEFINE Missed == {d \in Teams : debts[d] > 0 /\ d \notin C}
<1>3. CASE Missed = {}
  <2>1. \A t \in Teams \ C : debts[t] = 0
    BY <1>1, <1>3
  <2>2. IsFiniteSet(Teams \ C)
    BY <1>1, FS_Difference
  <2>3. Total(debts, Teams \ C) = 0
    BY <2>1, <2>2, TotalOfZeros
  <2>. QED
    BY <1>2, <2>3
<1>4. CASE Missed # {}
  <2>. DEFINE m == Min(Missed)
  <2>1. IsFiniteSet(Missed) /\ Missed \subseteq Int
    BY <1>1, FS_Subset
  <2>2. m \in Missed /\ \A y \in Missed : m <= y
    BY <1>4, <2>1, MinIsThere
  <2>. HIDE DEF m
  <2>. DEFINE B == Before(m)
  <2>3. m \in Teams /\ B \subseteq Teams /\ Total(debts, B) >= short
    <3>1. m \in Teams /\ ~(short > Total(debts, B))
      BY <2>2
    <3>2. B \subseteq Teams /\ IsFiniteSet(B) /\ \A t \in B : debts[t] \in Nat
      BY <1>1, FS_Subset DEF Before
    <3>3. Total(debts, B) \in Nat
      BY <3>2, TotalIsNat
    <3>. QED
      BY <3>1, <3>2, <3>3
  <2>4. \A t \in B \ C : debts[t] = 0
    <3>1. ASSUME NEW t \in B \ C, debts[t] # 0 PROVE FALSE
      <4>1. t \in Teams /\ t < m /\ t \in Int /\ m \in Int
        BY <1>1, <2>3, <3>1 DEF Before
      <4>2. t \in Missed
        BY <1>1, <3>1, <4>1
      <4>. QED
        BY <2>2, <4>1, <4>2
    <3>. QED
      BY <3>1
  <2>. HIDE DEF B, Missed
  <2>5. /\ IsFiniteSet(B) /\ IsFiniteSet(B \ C) /\ IsFiniteSet(C)
        /\ B \cap C \subseteq B /\ B \cap C \subseteq C /\ B \ (B \cap C) = B \ C
        /\ \A t \in B : debts[t] \in Nat
        /\ \A t \in C : debts[t] \in Nat
    BY <1>1, <2>3, FS_Subset
  <2>6. /\ Total(debts, B) = Total(debts, B \cap C) + Total(debts, B \ (B \cap C))
        /\ Total(debts, B \cap C) \in Nat
    BY <2>5, TotalOfPart
  <2>7. Total(debts, B \ C) = 0
    BY <2>4, <2>5, TotalOfZeros
  <2>8. Total(debts, B \cap C) <= Total(debts, C)
    BY <2>5, TotalOfSubset
  <2>9. Total(debts, B) = Total(debts, B \cap C) + 0
    BY <2>5, <2>6, <2>7
  <2>. QED
    BY <1>2, <2>3, <2>6, <2>8, <2>9
<1>. QED
  BY <1>2, <1>3, <1>4

\* A team uses its own first and borrows the rest or nothing: either the debts are as
\* they were and no more is taken from what is idle than it asked for, or what is
\* idle covers all debts.
LEMMA UseAsIdle ==
    ASSUME used \in [Teams -> Nat], borrowed \in [Teams -> Nat],
           OverIsBorrowed(used, borrowed),
           NEW t, t \in Teams, NEW amount, amount \in Nat, Use(t, amount)
    PROVE  /\ used' \in [Teams -> Nat] /\ borrowed' \in [Teams -> Nat]
           /\ OverIsBorrowed(used', borrowed')
           /\ \/ borrowed' = borrowed /\ IdleOf(used') >= IdleOf(used) - amount
              \/ /\ Total(borrowed', Teams) <= IdleOf(used')
                 /\ \A d \in Teams : borrowed'[d] >= borrowed[d]
<1>. DEFINE u == used[t]
            g == Guarantee[t]
            own == Positive(g - u)
            over == Positive(amount - own)
            after == [used EXCEPT ![t] = @ + amount - over]
            lent == IF over <= IdleOf(after) - SumFunction(borrowed) THEN over ELSE 0
<1>1. /\ used' = [after EXCEPT ![t] = @ + lent]
      /\ borrowed' = [borrowed EXCEPT ![t] = @ + lent]
  BY DEF Use
<1>2. /\ IsFiniteSet(Teams) /\ \A d \in Teams : Guarantee[d] \in Nat
      /\ u \in Nat /\ g \in Nat /\ borrowed[t] \in Nat
  BY LendingAssumption DEF LendingAssumption
<1>3. u > g \/ borrowed[t] > 0 => u = g + borrowed[t]
  BY DEF OverIsBorrowed
<1>4. /\ own \in Nat /\ own = IF g > u THEN g - u ELSE 0
      /\ over \in Nat /\ over = IF amount > own THEN amount - own ELSE 0
  <2>1. own \in Nat /\ own = IF g > u THEN g - u ELSE 0
    BY <1>2 DEF Positive
  <2>. HIDE DEF own
  <2>. QED
    BY <2>1 DEF Positive
<1>. DEFINE mid == u + amount - over
<1>5. mid \in Nat /\ mid >= u /\ (over # 0 => mid >= g) /\ (mid > u => mid <= g)
      /\ mid - u <= amount
  <2>. HIDE DEF own, over, u, g
  <2>. QED
    BY <1>2, <1>4
<1>6. after \in [Teams -> Nat] /\ after[t] = mid /\ \A d \in Teams : d # t => after[d] = used[d]
  <2>. HIDE DEF over
  <2>. QED
    BY <1>5
<1>7. /\ SumFunction(borrowed) = Total(borrowed, Teams) /\ Total(borrowed, Teams) \in Nat
      /\ IdleOf(after) = Total(Idle(after), Teams) /\ IdleOf(after) \in Nat
      /\ IdleOf(used) = Total(Idle(used), Teams) /\ IdleOf(used) \in Nat
  BY <1>6, LentByTotals, IdleIsTotal
<1>8. lent \in Nat /\ (lent = over \/ lent = 0)
  BY <1>4
<1>. HIDE DEF own, over, after, lent, mid
<1>9. /\ used' \in [Teams -> Nat] /\ used'[t] = mid + lent
      /\ \A d \in Teams : d # t => used'[d] = after[d]
      /\ borrowed' \in [Teams -> Nat] /\ borrowed'[t] = borrowed[t] + lent
      /\ \A d \in Teams : d # t => borrowed'[d] = borrowed[d]
  BY <1>1, <1>2, <1>5, <1>6, <1>8
<1>10. OverIsBorrowed(used', borrowed')
  <2>1. ASSUME NEW d \in Teams, used'[d] > Guarantee[d] \/ borrowed'[d] > 0
        PROVE  used'[d] = Guarantee[d] + borrowed'[d]
    <3>1. CASE d # t
      BY <1>6, <1>9, <2>1, <3>1 DEF OverIsBorrowed
    <3>2. CASE d = t
      <4>1. mid + lent > g \/ borrowed[t] + lent > 0
        BY <1>9, <2>1, <3>2
      <4>2. mid + lent = g + (borrowed[t] + lent)
        <5>. HIDE DEF u, g
        <5>1. CASE u > g \/ borrowed[t] > 0
          BY <1>2, <1>3, <1>5, <1>8, <5>1
        <5>2. CASE ~(u > g \/ borrowed[t] > 0)
          BY <1>2, <1>5, <1>8, <4>1, <5>2
        <5>. QED
          BY <5>1, <5>2
      <4>. QED
        BY <1>9, <3>2, <4>2
    <3>. QED
      BY <3>1, <3>2
  <2>. QED
    BY <2>1 DEF OverIsBorrowed
<1>11. IdleOf(used') = IdleOf(after)
  <2>. DEFINE I == Idle(after)
              J == Idle(used')
  <2>1. /\ \A d \in Teams : I[d] \in Nat /\ I[d] = IF Guarantee[d] > after[d]
                                                   THEN Guarantee[d] - after[d] ELSE 0
        /\ \A d \in Teams : J[d] \in Nat /\ J[d] = IF Guarantee[d] > used'[d]
                                                   THEN Guarantee[d] - used'[d] ELSE 0
        /\ IdleOf(after) = Total(I, Teams) /\ IdleOf(used') = Total(J, Teams)
    BY <1>6, <1>9, IdleIsTotal
  <2>. HIDE DEF I, J
  <2>2. ASSUME NEW d \in Teams PROVE J[d] = I[d] /\ I[d] \in Nat
    <3>1. CASE d # t
      BY <1>9, <2>1, <3>1
    <3>2. CASE d = t /\ lent = 0
      <4>1. used'[d] = after[d]
        BY <1>5, <1>6, <1>9, <3>2
      <4>. QED
        BY <2>1, <4>1
    <3>3. CASE d = t /\ lent # 0
      <4>1. mid >= g /\ mid + lent >= g
        BY <1>2, <1>5, <1>8, <3>3
      <4>2. I[d] = 0 /\ J[d] = 0
        BY <1>2, <1>5, <1>6, <1>8, <1>9, <2>1, <3>3, <4>1
      <4>. QED
        BY <4>2
    <3>. QED
      BY <3>1, <3>2, <3>3
  <2>3. Total(J, Teams) = Total(I, Teams)
    BY <1>2, <2>2, TotalOfSame
  <2>. QED
    BY <2>1, <2>3
<1>12. IdleOf(after) >= IdleOf(used) - amount
  <2>. DEFINE I == Idle(used)
              J == Idle(after)
  <2>1. /\ \A d \in Teams : I[d] \in Nat /\ I[d] = IF Guarantee[d] > used[d]
                                                   THEN Guarantee[d] - used[d] ELSE 0
        /\ \A d \in Teams : J[d] \in Nat /\ J[d] = IF Guarantee[d] > after[d]
                                                   THEN Guarantee[d] - after[d] ELSE 0
        /\ IdleOf(used) = Total(I, Teams) /\ IdleOf(after) = Total(J, Teams)
    BY <1>6, IdleIsTotal
  <2>. HIDE DEF I, J
  <2>2. \A d \in Teams : d # t => J[d] = I[d]
    BY <1>6, <2>1
  <2>3. \A d \in Teams : J[d] \in Nat /\ I[d] \in Nat
    BY <2>1
  <2>4. Total(J, Teams) = Total(I, Teams) + J[t] - I[t]
    <3>. HIDE DEF u, g
    <3>1. IsFiniteSet(Teams) /\ t \in Teams /\ IsFiniteSet(Teams \ {t})
      BY <1>2, FS_RemoveElement
    <3>2. Total(J, Teams \ {t}) = Total(I, Teams \ {t})
      BY <2>2, <2>3, <3>1, TotalOfSame
    <3>3. /\ Total(J, Teams) = J[t] + Total(J, Teams \ {t})
          /\ Total(J, Teams \ {t}) \in Nat
      BY ONLY <2>3, <3>1, TotalApart
    <3>4. /\ Total(I, Teams) = I[t] + Total(I, Teams \ {t})
          /\ Total(I, Teams \ {t}) \in Nat
      BY ONLY <2>3, <3>1, TotalApart
    <3>. QED
      BY <2>3, <3>1, <3>2, <3>3, <3>4
  <2>5. I[t] = (IF g > u THEN g - u ELSE 0) /\ J[t] = IF g > mid THEN g - mid ELSE 0
    BY <1>6, <2>1
  <2>6. I[t] - J[t] <= amount
    <3>. HIDE DEF u, g
    <3>. QED
      BY <1>2, <1>5, <2>5
  <2>7. I[t] \in Nat /\ J[t] \in Nat /\ Total(I, Teams) \in Nat
    BY <1>7, <2>1, <2>3
  <2>. QED
    BY <2>1, <2>4, <2>6, <2>7
<1>13. CASE lent = 0
  <2>1. borrowed' = borrowed
    BY <1>1, <1>2, <1>13
  <2>. QED
    BY <1>9, <1>10, <1>11, <1>12, <2>1
<1>14. CASE lent # 0
  <2>1. lent = over /\ over <= IdleOf(after) - SumFunction(borrowed)
    BY <1>14 DEF lent
  <2>2. Total(borrowed', Teams) = Total(borrowed, Teams) + borrowed'[t] - borrowed[t]
    <3>1. IsFiniteSet(Teams) /\ t \in Teams
      BY <1>2
    <3>2. \A d \in Teams : borrowed'[d] \in Nat /\ borrowed[d] \in Nat
      BY <1>9
    <3>3. \A d \in Teams : d # t => borrowed'[d] = borrowed[d]
      BY <1>9
    <3>. QED
      BY ONLY <3>1, <3>2, <3>3, TotalOfChange
  <2>3. Total(borrowed', Teams) = Total(borrowed, Teams) + lent
    BY <1>2, <1>7, <1>8, <1>9, <2>2
  <2>4. Total(borrowed', Teams) <= IdleOf(used')
    BY <1>7, <1>8, <1>11, <2>1, <2>3
  <2>5. \A d \in Teams : borrowed'[d] >= borrowed[d]
    BY <1>2, <1>8, <1>9
  <2>. QED
    BY <1>9, <1>10, <2>4, <2>5
<1>. QED
  BY <1>13, <1>14

\* The second part of what is promised of loans.
LoansCovered ==
    ~barged => Total(borrowed, Teams) - IdleOf(used) <= Total(borrowed, Called(due))

\* The property in these terms.
LEMMA LentInParts ==
    ASSUME borrowed \in [Teams -> Nat]
    PROVE  LentIsCalled <=> OverIsBorrowed(used, borrowed) /\ LoansCovered
BY LentByTotals DEF LentIsCalled, OverIsBorrowed, LoansCovered

\* And of the next state.
LEMMA LentInPartsNext ==
    ASSUME borrowed' \in [Teams -> Nat]
    PROVE  LentIsCalled' <=> OverIsBorrowed(used', borrowed') /\ LoansCovered'
BY LentByTotals DEF LentIsCalled, OverIsBorrowed, LoansCovered

\* The lender starts with nothing lent.
LEMMA LenderStarts == LenderInit => LenderInv
<1>. SUFFICES ASSUME LenderInit PROVE LenderInv
  OBVIOUS
<1>1. /\ IsFiniteSet(Teams) /\ \A t \in Teams : Guarantee[t] \in Nat
      /\ used \in [Teams -> Nat] /\ borrowed \in [Teams -> Nat]
      /\ \A t \in Teams : used[t] = 0 /\ borrowed[t] = 0
      /\ due \in [Teams -> Nat \cup {NotCalled}]
  BY LendingAssumption DEF LendingAssumption, LenderInit
<1>2. OverIsBorrowed(used, borrowed)
  BY <1>1 DEF OverIsBorrowed
<1>3. LoansCovered
  <2>1. Total(borrowed, Teams) = 0
    BY <1>1, TotalOfZeros
  <2>2. IdleOf(used) \in Nat /\ Total(borrowed, Called(due)) \in Nat
    BY <1>1, IdleIsTotal, LentByTotals
  <2>. QED
    BY <2>1, <2>2 DEF LoansCovered
<1>. QED
  BY <1>1, <1>2, <1>3, LentInParts DEF LenderInv

\* Whoever takes without calling bars the promise unless all debts are covered.
LEMMA TakeKeepsLoans ==
    ASSUME LenderInv, NEW t, t \in Teams, NEW amount, amount \in 1..MaxAsk, Take(t, amount)
    PROVE  LenderInv'
<1>1. /\ used \in [Teams -> Nat] /\ borrowed \in [Teams -> Nat]
      /\ OverIsBorrowed(used, borrowed) /\ due \in [Teams -> Nat \cup {NotCalled}]
  BY LentInParts DEF LenderInv
<1>2. amount \in Nat
  BY LendingAssumption DEF LendingAssumption
<1>3. Use(t, amount)
  BY DEF Take
<1>4. /\ used' \in [Teams -> Nat] /\ borrowed' \in [Teams -> Nat]
      /\ OverIsBorrowed(used', borrowed')
  BY <1>1, <1>2, <1>3, UseAsIdle
<1>5. LoansCovered'
  <2>1. barged' = (barged \/ IdleOf(used') < SumFunction(borrowed'))
    BY DEF Take
  <2>2. /\ SumFunction(borrowed') = Total(borrowed', Teams)
        /\ Total(borrowed', Teams) \in Nat /\ IdleOf(used') \in Nat
        /\ Total(borrowed', Called(due')) \in Nat
    BY <1>4, LentByTotals, IdleIsTotal
  <2>3. SUFFICES ASSUME ~barged'
                 PROVE  Total(borrowed', Teams) - IdleOf(used') <= Total(borrowed', Called(due'))
    BY DEF LoansCovered
  <2>4. ~(IdleOf(used') < SumFunction(borrowed'))
    BY <2>1, <2>3, Zenon
  <2>. QED
    BY <2>2, <2>4
<1>6. LentIsCalled'
  BY <1>4, <1>5, LentInPartsNext
<1>7. due' \in [Teams -> Nat \cup {NotCalled}]
  BY <1>1 DEF Take
<1>. QED
  BY <1>4, <1>6, <1>7 DEF LenderInv

\* The owner calls enough to cover what is short.
LEMMA ReturnKeepsLoans ==
    ASSUME LenderInv, NEW t, t \in Teams, NEW amount, amount \in 1..MaxAsk,
           OwnerReturns(t, amount)
    PROVE  LenderInv'
<1>1. /\ used \in [Teams -> Nat] /\ borrowed \in [Teams -> Nat]
      /\ OverIsBorrowed(used, borrowed) /\ due \in [Teams -> Nat \cup {NotCalled}]
  BY LentInParts DEF LenderInv
<1>2. amount \in Nat /\ NoticeWindow \in Nat /\ IsFiniteSet(Teams)
  BY LendingAssumption DEF LendingAssumption
<1>3. Use(t, amount)
  BY DEF OwnerReturns
<1>4. /\ used' \in [Teams -> Nat] /\ borrowed' \in [Teams -> Nat]
      /\ OverIsBorrowed(used', borrowed')
      /\ \/ borrowed' = borrowed /\ IdleOf(used') >= IdleOf(used) - amount
         \/ Total(borrowed', Teams) <= IdleOf(used')
  BY <1>1, <1>2, <1>3, UseAsIdle
<1>. DEFINE short == amount - Available
            debtBefore(d) == SumFunction([e \in {e \in Teams : e < d} |-> borrowed[e]])
            C == {d \in Teams : borrowed[d] > 0 /\ short > debtBefore(d)}
<1>5. /\ due' = [d \in Teams |-> IF d \in C THEN NoticeWindow ELSE due[d]]
      /\ barged' = barged
  BY DEF OwnerReturns
<1>6. /\ due' \in [Teams -> Nat \cup {NotCalled}]
      /\ \A d \in C : d \in Called(due')
      /\ \A d \in Called(due) : d \in Called(due')
  <2>1. C \subseteq Teams
    OBVIOUS
  <2>. HIDE DEF C
  <2>2. NoticeWindow # NotCalled
    BY <1>2 DEF NotCalled
  <2>. QED
    BY <1>1, <1>2, <1>5, <2>1, <2>2 DEF Called
<1>7. /\ SumFunction(borrowed) = Total(borrowed, Teams) /\ Total(borrowed, Teams) \in Nat
      /\ IdleOf(used) \in Nat /\ short = amount - (IdleOf(used) - Total(borrowed, Teams))
      /\ short \in Int
  <2>1. /\ SumFunction(borrowed) = Total(borrowed, Teams) /\ Total(borrowed, Teams) \in Nat
        /\ IdleOf(used) \in Nat
    BY <1>1, LentByTotals, IdleIsTotal
  <2>. QED
    BY <1>2, <2>1 DEF Available
<1>. HIDE DEF short
<1>8. C = {d \in Teams : borrowed[d] > 0 /\ short > Total(borrowed, Before(d))}
  <2>1. ASSUME NEW d PROVE debtBefore(d) = Total(borrowed, Before(d))
    <3>1. Before(d) \subseteq Teams /\ Before(d) = {e \in Teams : e < d}
      BY DEF Before
    <3>2. IsFiniteSet(Before(d)) /\ \A e \in Before(d) : borrowed[e] \in Nat
      BY <1>1, <1>2, <3>1, FS_Subset
    <3>3. SumFunction([e \in Before(d) |-> borrowed[e]]) = Total(borrowed, Before(d))
      BY <3>2, SumOfSome
    <3>. QED
      BY <3>1, <3>3
  <2>. HIDE DEF debtBefore
  <2>. QED
    BY <2>1
<1>9. C \subseteq Teams
  OBVIOUS
<1>. HIDE DEF C, debtBefore
<1>10. /\ Total(borrowed, C) >= short \/ Total(borrowed, C) = Total(borrowed, Teams)
       /\ Total(borrowed, C) \in Nat
  BY <1>1, <1>7, <1>8, CalledCover
<1>11. LoansCovered'
  <2>1. /\ Total(borrowed', Teams) \in Nat /\ IdleOf(used') \in Nat
        /\ Total(borrowed', Called(due')) \in Nat
    BY <1>4, LentByTotals, IdleIsTotal
  <2>2. CASE Total(borrowed', Teams) <= IdleOf(used')
    BY <2>1, <2>2 DEF LoansCovered
  <2>3. CASE borrowed' = borrowed /\ IdleOf(used') >= IdleOf(used) - amount
    <3>1. C \subseteq Called(due') /\ Called(due') \subseteq Teams
      BY <1>6 DEF Called
    <3>2. IsFiniteSet(Called(due')) /\ \A d \in Called(due') : borrowed[d] \in Nat
      BY <1>1, <1>2, <3>1, FS_Subset
    <3>3. Total(borrowed, C) <= Total(borrowed, Called(due'))
      BY <3>1, <3>2, TotalOfSubset
    <3>4. /\ Total(borrowed', Teams) = Total(borrowed, Teams)
          /\ Total(borrowed', Called(due')) = Total(borrowed, Called(due'))
      BY <2>3
    <3>5. Total(borrowed', Teams) - IdleOf(used') <= Total(borrowed', Called(due'))
      BY <1>2, <1>7, <1>10, <2>1, <2>3, <3>3, <3>4
    <3>. QED
      BY <3>5 DEF LoansCovered
  <2>. QED
    BY <1>4, <2>2, <2>3
<1>12. LentIsCalled'
  BY <1>4, <1>11, LentInPartsNext
<1>. QED
  BY <1>4, <1>6, <1>12 DEF LenderInv

\* An eviction takes what is owed by those called off both sides.
LEMMA EnforceKeepsLoans ==
    ASSUME LenderInv, Enforce
    PROVE  LenderInv'
<1>1. /\ used \in [Teams -> Nat] /\ borrowed \in [Teams -> Nat]
      /\ OverIsBorrowed(used, borrowed) /\ LoansCovered
      /\ due \in [Teams -> Nat \cup {NotCalled}]
      /\ IsFiniteSet(Teams) /\ \A t \in Teams : Guarantee[t] \in Nat
  BY LentInParts, LendingAssumption DEF LenderInv, LendingAssumption
<1>. DEFINE over == {t \in Teams : due[t] = 0}
<1>2. /\ used' = [t \in Teams |-> used[t] - (IF t \in over THEN borrowed[t] ELSE 0)]
      /\ borrowed' = [t \in Teams |-> IF t \in over THEN 0 ELSE borrowed[t]]
      /\ due' = [t \in Teams |-> IF t \in over THEN NotCalled ELSE due[t]]
      /\ barged' = barged
  BY DEF Enforce
<1>3. /\ over \subseteq Teams /\ over \subseteq Called(due)
      /\ Called(due') = Called(due) \ over /\ Called(due) \subseteq Teams
  <2>1. 0 # NotCalled
    BY DEF NotCalled
  <2>. QED
    BY <1>2, <2>1 DEF Called
<1>4. /\ due' \in [Teams -> Nat \cup {NotCalled}] /\ borrowed' \in [Teams -> Nat]
      /\ \A t \in over : borrowed'[t] = 0
      /\ \A t \in Teams \ over : borrowed'[t] = borrowed[t] /\ used'[t] = used[t]
  <2>1. over \subseteq Teams
    OBVIOUS
  <2>. HIDE DEF over
  <2>2. /\ \A t \in over : borrowed'[t] = 0
        /\ \A t \in Teams \ over : borrowed'[t] = borrowed[t] /\ used'[t] = used[t] - 0
    BY <1>2, <2>1
  <2>3. due' \in [Teams -> Nat \cup {NotCalled}] /\ borrowed' \in [Teams -> Nat]
    BY <1>1, <1>2
  <2>. QED
    BY <1>1, <2>2, <2>3
<1>. HIDE DEF over
<1>5. \A t \in Teams : /\ used'[t] \in Nat
                       /\ used'[t] > Guarantee[t] \/ borrowed'[t] > 0
                             => used'[t] = Guarantee[t] + borrowed'[t]
                       /\ used'[t] = used[t] \/ (used'[t] = Guarantee[t] /\ used[t] > used'[t])
  <2>1. ASSUME NEW t, t \in Teams
        PROVE  /\ used'[t] \in Nat
               /\ used'[t] > Guarantee[t] \/ borrowed'[t] > 0
                     => used'[t] = Guarantee[t] + borrowed'[t]
               /\ used'[t] = used[t] \/ (used'[t] = Guarantee[t] /\ used[t] > used'[t])
    <3>1. /\ used[t] \in Nat /\ borrowed[t] \in Nat /\ Guarantee[t] \in Nat
          /\ used[t] > Guarantee[t] \/ borrowed[t] > 0 => used[t] = Guarantee[t] + borrowed[t]
      BY <1>1, <2>1 DEF OverIsBorrowed
    <3>2. CASE t \in over
      <4>1. used'[t] = used[t] - borrowed[t] /\ borrowed'[t] = 0
        BY <1>2, <2>1, <3>2
      <4>. QED
        BY <3>1, <4>1
    <3>3. CASE t \notin over
      BY <1>4, <2>1, <3>1, <3>3
    <3>. QED
      BY <3>2, <3>3
  <2>. QED
    BY <2>1
<1>6. used' \in [Teams -> Nat] /\ OverIsBorrowed(used', borrowed')
  BY <1>2, <1>5 DEF OverIsBorrowed
<1>7. IdleOf(used') = IdleOf(used) /\ IdleOf(used) \in Nat
  <2>. DEFINE I == Idle(used)
              J == Idle(used')
  <2>1. /\ \A d \in Teams : I[d] \in Nat /\ I[d] = IF Guarantee[d] > used[d]
                                                   THEN Guarantee[d] - used[d] ELSE 0
        /\ \A d \in Teams : J[d] \in Nat /\ J[d] = IF Guarantee[d] > used'[d]
                                                   THEN Guarantee[d] - used'[d] ELSE 0
        /\ IdleOf(used) = Total(I, Teams) /\ IdleOf(used') = Total(J, Teams)
        /\ IdleOf(used) \in Nat
    BY <1>1, <1>6, IdleIsTotal
  <2>. HIDE DEF I, J
  <2>2. ASSUME NEW d, d \in Teams PROVE J[d] = I[d]
    <3>1. used[d] \in Nat /\ used'[d] \in Nat /\ Guarantee[d] \in Nat
      BY <1>1, <1>5, <2>2
    <3>2. used'[d] = used[d] \/ (used'[d] = Guarantee[d] /\ used[d] > used'[d])
      BY <1>5, <2>2
    <3>3. CASE used'[d] = used[d]
      BY <2>1, <2>2, <3>3
    <3>4. CASE used'[d] = Guarantee[d] /\ used[d] > used'[d]
      <4>1. ~(Guarantee[d] > used[d]) /\ ~(Guarantee[d] > used'[d])
        BY <3>1, <3>4
      <4>. QED
        BY <2>1, <2>2, <4>1
    <3>. QED
      BY <3>2, <3>3, <3>4
  <2>3. Total(J, Teams) = Total(I, Teams)
    BY <1>1, <2>1, <2>2, TotalOfSame
  <2>. QED
    BY <2>1, <2>3
<1>8. /\ Total(borrowed', Teams) = Total(borrowed, Teams) - Total(borrowed, over)
      /\ Total(borrowed', Called(due')) = Total(borrowed, Called(due)) - Total(borrowed, over)
      /\ Total(borrowed, Teams) \in Nat /\ Total(borrowed, over) \in Nat
      /\ Total(borrowed, Called(due)) \in Nat
  <2>1. ASSUME NEW S, over \subseteq S, S \subseteq Teams
        PROVE  /\ Total(borrowed', S) = Total(borrowed, S) - Total(borrowed, over)
               /\ Total(borrowed', S \ over) = Total(borrowed, S) - Total(borrowed, over)
               /\ Total(borrowed, S) \in Nat /\ Total(borrowed, over) \in Nat
    <3>1. /\ IsFiniteSet(S) /\ IsFiniteSet(over) /\ IsFiniteSet(S \ over)
          /\ \A d \in S : borrowed[d] \in Nat /\ borrowed'[d] \in Nat
          /\ \A d \in S \ over : borrowed'[d] = borrowed[d]
      BY <1>1, <1>4, <2>1, FS_Subset
    <3>2. /\ Total(borrowed, S) = Total(borrowed, over) + Total(borrowed, S \ over)
          /\ Total(borrowed, S) \in Nat /\ Total(borrowed, over) \in Nat
          /\ Total(borrowed, S \ over) \in Nat
      BY <2>1, <3>1, TotalOfPart
    <3>3. Total(borrowed', S) = Total(borrowed', over) + Total(borrowed', S \ over)
      BY <2>1, <3>1, TotalOfPart
    <3>4. Total(borrowed', over) = 0
      BY <1>4, <3>1, TotalOfZeros
    <3>5. Total(borrowed', S \ over) = Total(borrowed, S \ over)
      <4>1. \A d \in S \ over : borrowed[d] \in Nat /\ borrowed'[d] = borrowed[d]
        BY <3>1
      <4>. QED
        BY <3>1, <4>1, TotalOfSame
    <3>. QED
      BY <3>2, <3>3, <3>4, <3>5
  <2>. QED
    BY <1>3, <2>1
<1>9. LoansCovered'
  <2>1. IdleOf(used') \in Nat
    BY <1>7
  <2>. QED
    BY <1>1, <1>2, <1>7, <1>8, <2>1 DEF LoansCovered
<1>10. LentIsCalled'
  BY <1>4, <1>6, <1>9, LentInPartsNext
<1>. QED
  BY <1>4, <1>6, <1>10 DEF LenderInv

\* Every step of the lender keeps this.
LEMMA LenderKeeps ==
    ASSUME LenderInv, [LenderNext]_lenderVars
    PROVE  LenderInv'
<1>1. CASE \E t \in Teams, amount \in 1..MaxAsk : Take(t, amount) \/ OwnerReturns(t, amount)
  BY <1>1, TakeKeepsLoans, ReturnKeepsLoans
<1>2. CASE Enforce
  BY <1>2, EnforceKeepsLoans
<1>3. CASE LenderTick
  <2>1. /\ used \in [Teams -> Nat] /\ borrowed \in [Teams -> Nat]
        /\ OverIsBorrowed(used, borrowed) /\ LoansCovered
        /\ due \in [Teams -> Nat \cup {NotCalled}]
    BY LentInParts DEF LenderInv
  <2>2. /\ used' = used /\ borrowed' = borrowed /\ barged' = barged
        /\ due' = [t \in Teams |-> IF due[t] > 0 THEN due[t] - 1 ELSE due[t]]
    BY <1>3 DEF LenderTick
  <2>3. \A t \in Teams : /\ due'[t] \in Nat \cup {NotCalled}
                         /\ due'[t] # NotCalled <=> due[t] # NotCalled
    BY <2>1, <2>2 DEF NotCalled
  <2>4. due' \in [Teams -> Nat \cup {NotCalled}] /\ Called(due') = Called(due)
    BY <2>2, <2>3 DEF Called
  <2>5. LoansCovered'
    BY <2>1, <2>2, <2>4 DEF LoansCovered
  <2>6. OverIsBorrowed(used', borrowed')
    BY <2>1, <2>2
  <2>7. LentIsCalled'
    BY <2>1, <2>2, <2>5, <2>6, LentInPartsNext
  <2>. QED
    BY <2>1, <2>2, <2>4, <2>7 DEF LenderInv
<1>4. CASE UNCHANGED lenderVars
  BY <1>4 DEF lenderVars, LenderInv, LentIsCalled
<1>. QED
  BY <1>1, <1>2, <1>3, <1>4 DEF LenderNext

-----------------------------------------------------------------------------
(* The devices of a node                                                   *)

Tenant == [task : Holders, share : Shares]

\* Who is known to hold a slot.
HoldersOf(known, s) == {t \in Holders : s \in known[t]}

\* Each tenant of a slot is there once; a task is there.
Apart(q) == \A i, j \in 1..Len(q) : q[i].task = q[j].task => i = j
There(q, u) == \E i \in 1..Len(q) : q[i].task = u

\* A slot that is used whole has one holder; the holders of one that is not are its
\* tenants, each of which is there once.
Known(taken, guests, H) ==
    /\ taken => \E t \in Holders : H = {t}
    /\ ~taken => \A t \in Holders : t \in H <=> There(guests, t)
    /\ Apart(guests)

\* Every tenant of a slot has a share that was more than those there before it.
Fitted(guests) == \A i \in 1..Len(guests) : guests[i].share >= i

\* A whole slot has no slices, equal shares fit, and but for what leaked each slot is known.
DeviceInv ==
    /\ whole \subseteq Slots /\ slices \in [Slots -> Seq(Tenant)]
    /\ placements \in [Holders -> SUBSET Slots]
    /\ \A s \in whole : slices[s] = <<>>
    /\ \A s \in Slots : Fitted(slices[s])
    /\ \A s \in Slots \ leaked : Known(s \in whole, slices[s], HoldersOf(placements, s))

\* A sequence of tenants, its places and a share.
LEMMA TenantsAre ==
    ASSUME NEW q \in Seq(Tenant)
    PROVE  /\ Len(q) \in Nat /\ DOMAIN q = 1..Len(q)
           /\ \A i \in 1..Len(q) : /\ q[i] \in Tenant /\ q[i].task \in Holders
                                   /\ q[i].share \in Nat \ {0}
<1>1. Len(q) \in Nat /\ DOMAIN q = 1..Len(q) /\ \A i \in 1..Len(q) : q[i] \in Tenant
  BY LenProperties, ElementOfSeq
<1>2. \A x \in Tenant : x.task \in Holders /\ x.share \in Shares
  BY DEF Tenant
<1>3. Shares \subseteq Nat \ {0}
  BY LendingAssumption DEF LendingAssumption
<1>. QED
  BY <1>1, <1>2, <1>3

\* The property follows.
LEMMA DevicesAccounted == DeviceInv => SlotsAccounted
<1>. SUFFICES ASSUME DeviceInv PROVE SlotsAccounted
  OBVIOUS
<1>1. \A s \in whole : slices[s] = <<>>
  BY DEF DeviceInv
<1>2. ASSUME NEW s \in Slots PROVE slices[s] \in Seq(Tenant)
  BY DEF DeviceInv
<1>3. ASSUME NEW s \in Slots \ leaked
      PROVE  LET holders == {t \in Holders : s \in placements[t]}
             IN IF s \in whole THEN Cardinality(holders) = 1
                ELSE holders = {x.task : x \in ToSet(slices[s])}
  <2>. DEFINE H == HoldersOf(placements, s)
              q == slices[s]
  <2>1. Known(s \in whole, q, H)
    BY <1>3 DEF DeviceInv
  <2>2. H = {t \in Holders : s \in placements[t]} /\ H \subseteq Holders
    BY DEF HoldersOf
  <2>3. q \in Seq(Tenant)
    BY <1>2
  <2>. HIDE DEF H, q
  <2>4. CASE s \in whole
    <3>1. PICK t \in Holders : H = {t}
      BY <2>1, <2>4 DEF Known
    <3>2. Cardinality(H) = 1
      BY <3>1, FS_Singleton
    <3>. QED
      BY <2>2, <2>4, <3>2
  <2>5. CASE s \notin whole
    <3>1. \A t \in Holders : t \in H <=> \E i \in 1..Len(q) : q[i].task = t
      BY <2>1, <2>5 DEF Known, There
    <3>2. DOMAIN q = 1..Len(q) /\ \A i \in 1..Len(q) : q[i].task \in Holders
      BY <2>3, TenantsAre
    <3>3. ToSet(q) = {q[i] : i \in 1..Len(q)}
      BY <3>2 DEF ToSet
    <3>4. \A t : t \in H <=> t \in {x.task : x \in ToSet(q)}
      BY <2>2, <3>1, <3>2, <3>3
    <3>5. H = {x.task : x \in ToSet(q)}
      BY <3>4
    <3>. QED
      BY <2>2, <2>5, <3>5 DEF q
  <2>. QED
    BY <2>4, <2>5
<1>4. ASSUME NEW s \in Slots, NEW x \in ToSet(slices[s]),
             \A y \in ToSet(slices[s]) : y.share = x.share
      PROVE  Len(slices[s]) <= x.share
  <2>. DEFINE q == slices[s]
              n == Len(q)
  <2>1. Fitted(q)
    BY DEF DeviceInv
  <2>2. /\ n \in Nat /\ DOMAIN q = 1..n
        /\ \A i \in 1..n : q[i].share \in Nat \ {0}
    BY <1>2, TenantsAre
  <2>3. PICK i \in 1..n : x = q[i]
    BY <2>2 DEF ToSet
  <2>4. n \in 1..n /\ q[n] \in ToSet(q)
    BY <2>2, <2>3 DEF ToSet
  <2>5. q[n].share = x.share
    BY <1>4, <2>4
  <2>. QED
    BY <2>1, <2>4, <2>5 DEF Fitted
<1>. QED
  BY <1>1, <1>3, <1>4 DEF SlotsAccounted

\* What is left of a sequence of tenants when the first of a task goes.
Without(q, t) == RemoveFirstMatch(q, LAMBDA x : x.task = t)

FirstIsGone(q, t, r) ==
    \/ r = q /\ \A i \in 1..Len(q) : q[i].task # t
    \/ \E k \in 1..Len(q) : /\ q[k].task = t /\ Len(r) = Len(q) - 1
                            /\ \A i \in 1..(Len(q) - 1) :
                                  r[i] = IF i < k THEN q[i] ELSE q[i + 1]

LEMMA FirstRemoved ==
    ASSUME NEW q \in Seq(Tenant), NEW t
    PROVE  Without(q, t) \in Seq(Tenant) /\ FirstIsGone(q, t, Without(q, t))
<1>. DEFINE I == {i \in 1..Len(q) : q[i].task = t}
            n == Len(q)
<1>1. n \in Nat /\ \A i \in 1..n : q[i] \in Tenant
  BY TenantsAre
<1>2. CASE I = {}
  <2>1. Without(q, t) = q
    BY <1>2 DEF Without, RemoveFirstMatch
  <2>2. \A i \in 1..Len(q) : q[i].task # t
    BY <1>2
  <2>. QED
    BY <2>1, <2>2 DEF FirstIsGone
<1>3. CASE I # {}
  <2>. DEFINE k == Min(I)
  <2>1. Without(q, t) = SubSeq(q, 1, k - 1) \o SubSeq(q, k + 1, n)
    <3>1. Without(q, t) = RemoveAt(q, SelectInSeq(q, LAMBDA x : x.task = t))
      BY <1>3 DEF Without, RemoveFirstMatch
    <3>2. SelectInSeq(q, LAMBDA x : x.task = t) = k
      BY <1>3 DEF SelectInSeq
    <3>. QED
      BY <3>1, <3>2 DEF RemoveAt
  <2>2. IsFiniteSet(1..n) /\ I \subseteq 1..n /\ 1..n \subseteq Int
    BY <1>1, Numbers
  <2>3. k \in I
    BY <1>3, <2>2, FS_Subset, MinIsThere
  <2>4. k \in 1..n /\ q[k].task = t
    BY <2>3
  <2>. HIDE DEF k, I
  <2>. DEFINE a == SubSeq(q, 1, k - 1)
              b == SubSeq(q, k + 1, n)
  <2>5. /\ a \in Seq(Tenant) /\ Len(a) = k - 1 /\ \A i \in 1..(k - 1) : a[i] = q[i]
    <3>1. 1 \in Int /\ k - 1 \in Int /\ \A i \in 1..(k - 1) : q[i] \in Tenant
      BY <1>1, <2>4
    <3>2. /\ a \in Seq(Tenant) /\ Len(a) = IF 1 <= k - 1 THEN k - 1 - 1 + 1 ELSE 0
          /\ \A i \in 1..(k - 1 - 1 + 1) : a[i] = q[1 + i - 1]
      BY ONLY <3>1, SubSeqProperties
    <3>. HIDE DEF a
    <3>. QED
      BY <1>1, <2>4, <3>2
  <2>6. /\ b \in Seq(Tenant) /\ Len(b) = n - k /\ \A i \in 1..(n - k) : b[i] = q[k + i]
    <3>1. k + 1 \in Int /\ n \in Int /\ \A i \in (k + 1)..n : q[i] \in Tenant
      BY <1>1, <2>4
    <3>2. /\ b \in Seq(Tenant) /\ Len(b) = IF k + 1 <= n THEN n - (k + 1) + 1 ELSE 0
          /\ \A i \in 1..(n - (k + 1) + 1) : b[i] = q[k + 1 + i - 1]
      BY ONLY <3>1, SubSeqProperties
    <3>. HIDE DEF b
    <3>. QED
      BY <1>1, <2>4, <3>2
  <2>. HIDE DEF a, b
  <2>7. /\ a \o b \in Seq(Tenant) /\ Len(a \o b) = Len(a) + Len(b)
        /\ \A i \in 1..(Len(a) + Len(b)) :
              (a \o b)[i] = IF i <= Len(a) THEN a[i] ELSE b[i - Len(a)]
    BY <2>5, <2>6, ConcatProperties
  <2>8. Len(a \o b) = n - 1
    BY <1>1, <2>4, <2>5, <2>6, <2>7
  <2>9. ASSUME NEW i, i \in 1..(n - 1)
        PROVE  (a \o b)[i] = IF i < k THEN q[i] ELSE q[i + 1]
    <3>1. (a \o b)[i] = IF i <= k - 1 THEN a[i] ELSE b[i - (k - 1)]
      BY <1>1, <2>4, <2>5, <2>6, <2>7, <2>9
    <3>2. CASE i < k
      BY <1>1, <2>4, <2>5, <2>9, <3>1, <3>2
    <3>3. CASE ~(i < k)
      <4>1. i - (k - 1) \in 1..(n - k) /\ k + (i - (k - 1)) = i + 1
        BY <1>1, <2>4, <2>9, <3>3
      <4>2. b[i - (k - 1)] = q[k + (i - (k - 1))]
        BY <2>6, <4>1
      <4>3. (a \o b)[i] = b[i - (k - 1)]
        BY <1>1, <2>4, <2>9, <3>1, <3>3
      <4>4. (a \o b)[i] = q[i + 1]
        BY <4>1, <4>2, <4>3
      <4>. QED
        BY <3>3, <4>4
    <3>. QED
      BY <3>2, <3>3
  <2>. QED
    BY <2>1, <2>4, <2>7, <2>8, <2>9 DEF FirstIsGone, a, b
<1>. QED
  BY <1>2, <1>3

\* The shares that are left fit; and if each tenant was there once the task has gone
\* and the others are there as they were.
LEMMA FirstLeaves ==
    ASSUME NEW q \in Seq(Tenant), NEW t, NEW r, r \in Seq(Tenant), FirstIsGone(q, t, r)
    PROVE  /\ Fitted(q) => Fitted(r)
           /\ Apart(q) => Apart(r) /\ \A u : There(r, u) <=> u # t /\ There(q, u)
<1>1. Len(q) \in Nat /\ \A i \in 1..Len(q) : q[i].share \in Nat
  BY TenantsAre
<1>2. CASE r = q /\ \A i \in 1..Len(q) : q[i].task # t
  BY <1>2 DEF There
<1>3. ASSUME NEW k, k \in 1..Len(q), q[k].task = t, Len(r) = Len(q) - 1,
             \A i \in 1..(Len(q) - 1) : r[i] = IF i < k THEN q[i] ELSE q[i + 1]
      PROVE  /\ Fitted(q) => Fitted(r)
             /\ Apart(q) => Apart(r) /\ \A u : There(r, u) <=> u # t /\ There(q, u)
  <2>. DEFINE n == Len(q)
              was(i) == IF i < k THEN i ELSE i + 1
  <2>1. \A i \in 1..(n - 1) : /\ was(i) \in 1..n /\ was(i) >= i /\ was(i) # k
                              /\ r[i] = q[was(i)]
    BY <1>1, <1>3
  <2>2. \A i, j \in 1..(n - 1) : was(i) = was(j) => i = j
    BY <1>1, <1>3
  <2>3. \A j \in 1..n : j # k => \E i \in 1..(n - 1) : was(i) = j
    <3>1. ASSUME NEW j, j \in 1..n, j # k PROVE \E i \in 1..(n - 1) : was(i) = j
      <4>1. CASE j < k
        <5>1. j \in 1..(n - 1) /\ was(j) = j
          BY <1>1, <1>3, <3>1, <4>1
        <5>. QED
          BY <5>1
      <4>2. CASE j > k
        <5>1. j - 1 \in 1..(n - 1) /\ was(j - 1) = j
          BY <1>1, <1>3, <3>1, <4>2
        <5>. QED
          BY <5>1
      <4>. QED
        BY <1>1, <1>3, <3>1, <4>1, <4>2
    <3>. QED
      BY <3>1
  <2>. HIDE DEF was
  <2>4. Len(r) = n - 1 /\ n \in Nat /\ k \in 1..n /\ q[k].task = t
    BY <1>1, <1>3
  <2>5. Fitted(q) => Fitted(r)
    BY <1>1, <2>1, <2>4 DEF Fitted
  <2>6. ASSUME Apart(q) PROVE Apart(r)
    <3>1. ASSUME NEW i, NEW j, i \in 1..(n - 1), j \in 1..(n - 1), r[i].task = r[j].task
          PROVE  i = j
      <4>1. /\ was(i) \in 1..n /\ was(j) \in 1..n
            /\ q[was(i)].task = q[was(j)].task
        BY <2>1, <3>1
      <4>2. was(i) = was(j)
        BY <2>6, <4>1 DEF Apart
      <4>. QED
        BY <2>2, <3>1, <4>2
    <3>. QED
      BY <2>4, <3>1 DEF Apart
  <2>7. ASSUME Apart(q), NEW u PROVE There(r, u) <=> u # t /\ There(q, u)
    <3>1. ASSUME There(r, u) PROVE u # t /\ There(q, u)
      <4>1. PICK i \in 1..(n - 1) : r[i].task = u
        BY <2>4, <3>1 DEF There
      <4>2. was(i) \in 1..n /\ was(i) # k /\ q[was(i)].task = u
        BY <2>1, <4>1
      <4>. QED
        BY <2>4, <2>7, <4>2 DEF Apart, There
    <3>2. ASSUME u # t, There(q, u) PROVE There(r, u)
      <4>1. PICK j \in 1..n : q[j].task = u
        BY <3>2 DEF There
      <4>2. j # k
        BY <2>4, <3>2, <4>1
      <4>3. PICK i \in 1..(n - 1) : was(i) = j
        BY <2>3, <4>2
      <4>4. r[i].task = u
        BY <2>1, <4>1, <4>3
      <4>. QED
        BY <2>4, <4>3, <4>4 DEF There
    <3>. QED
      BY <3>1, <3>2
  <2>. QED
    BY <2>5, <2>6, <2>7
<1>. QED
  BY <1>2, <1>3 DEF FirstIsGone

\* No device is in use at first.
LEMMA DeviceStarts == DeviceInit => DeviceInv
<1>. SUFFICES ASSUME DeviceInit PROVE DeviceInv
  OBVIOUS
<1>1. /\ whole = {} /\ \A s \in Slots : slices[s] = <<>>
      /\ placements \in [Holders -> SUBSET Slots] /\ \A t \in Holders : placements[t] = {}
  BY DEF DeviceInit
<1>2. <<>> \in Seq(Tenant) /\ Len(<<>>) = 0
  BY EmptySeq
<1>3. slices \in [Slots -> Seq(Tenant)]
  BY <1>2 DEF DeviceInit
<1>4. ASSUME NEW s \in Slots
      PROVE  Fitted(slices[s]) /\ Known(s \in whole, slices[s], HoldersOf(placements, s))
  BY <1>1, <1>2 DEF Fitted, Known, Apart, There, HoldersOf
<1>. QED
  BY <1>1, <1>3, <1>4 DEF DeviceInv

\* What a task takes whole was free and is its own.
LEMMA WholeKeepsDevices ==
    ASSUME DeviceInv, NEW t, t \in Holders, NEW count, PlaceWhole(t, count)
    PROVE  DeviceInv'
<1>1. /\ whole \subseteq Slots /\ slices \in [Slots -> Seq(Tenant)]
      /\ placements \in [Holders -> SUBSET Slots]
      /\ \A s \in whole : slices[s] = <<>>
      /\ \A s \in Slots : Fitted(slices[s])
      /\ \A s \in Slots \ leaked : Known(s \in whole, slices[s], HoldersOf(placements, s))
  BY DEF DeviceInv
<1>2. PICK taken \in SUBSET FreeSlots :
         /\ whole' = whole \union taken
         /\ placements' = [placements EXCEPT ![t] = taken]
  BY DEF PlaceWhole
<1>3. placements[t] = {} /\ slices' = slices /\ leaked' = leaked
  BY DEF PlaceWhole
<1>4. \A s \in taken : s \in Slots /\ s \notin whole /\ slices[s] = <<>>
  BY DEF FreeSlots
<1>5. /\ placements' \in [Holders -> SUBSET Slots] /\ placements'[t] = taken
      /\ \A u \in Holders : u # t => placements'[u] = placements[u]
  BY <1>1, <1>2, <1>4
<1>6. ASSUME NEW s \in Slots \ leaked
      PROVE  Known(s \in whole', slices[s], HoldersOf(placements', s))
  <2>. DEFINE H == HoldersOf(placements, s)
              K == HoldersOf(placements', s)
  <2>1. Known(s \in whole, slices[s], H)
    BY <1>1, <1>6
  <2>2. CASE s \in taken
    <3>1. H = {}
      <4>1. \A u \in Holders : ~There(slices[s], u)
        BY <1>4, <2>2, EmptySeq DEF There
      <4>. QED
        BY <1>4, <2>1, <2>2, <4>1 DEF Known, HoldersOf
    <3>2. K = {t}
      BY <1>5, <2>2, <3>1 DEF HoldersOf
    <3>3. s \in whole' /\ Apart(slices[s])
      BY <1>2, <2>1, <2>2 DEF Known
    <3>. QED
      BY <3>2, <3>3 DEF Known
  <2>3. CASE s \notin taken
    <3>1. K = H
      BY <1>3, <1>5, <2>3 DEF HoldersOf
    <3>2. (s \in whole') = (s \in whole)
      BY <1>2, <2>3
    <3>. QED
      BY <2>1, <3>1, <3>2
  <2>. QED
    BY <2>2, <2>3
<1>7. whole' \subseteq Slots /\ \A s \in whole' : slices[s] = <<>>
  BY <1>1, <1>2, <1>4
<1>. QED
  BY <1>1, <1>3, <1>5, <1>6, <1>7 DEF DeviceInv

\* A tenant comes to a slot with more shares than tenants; what it held is forgotten.
LEMMA SliceKeepsDevices ==
    ASSUME DeviceInv, NEW t, t \in Holders, NEW share, share \in Shares, PlaceSlice(t, share)
    PROVE  DeviceInv'
<1>1. /\ whole \subseteq Slots /\ slices \in [Slots -> Seq(Tenant)]
      /\ placements \in [Holders -> SUBSET Slots]
      /\ \A s \in whole : slices[s] = <<>>
      /\ \A s \in Slots : Fitted(slices[s])
      /\ \A s \in Slots \ leaked : Known(s \in whole, slices[s], HoldersOf(placements, s))
      /\ share \in Nat \ {0}
  BY LendingAssumption DEF DeviceInv, LendingAssumption
<1>. DEFINE partly == {s \in Slots : Len(slices[s]) \in 1..(share - 1)}
            x == [task |-> t, share |-> share]
<1>2. PICK s \in (IF partly # {} THEN partly ELSE FreeSlots) :
         /\ slices' = [slices EXCEPT ![s] = Append(@, x)]
         /\ placements' = [placements EXCEPT ![t] = {s}]
  BY DEF PlaceSlice
<1>3. leaked' = leaked \union placements[t] /\ whole' = whole
  BY DEF PlaceSlice
<1>. DEFINE q == slices[s]
            r == Append(q, x)
<1>4. s \in Slots /\ s \notin whole /\ Len(q) < share
  <2>1. CASE s \in partly
    <3>1. s \in Slots /\ Len(slices[s]) \in 1..(share - 1)
      BY <2>1
    <3>2. slices[s] # <<>>
      BY <3>1, EmptySeq
    <3>. QED
      BY <1>1, <3>1, <3>2
  <2>2. CASE s \in FreeSlots
    BY <1>1, <2>2, EmptySeq DEF FreeSlots
  <2>. QED
    BY <1>2, <2>1, <2>2
<1>5. x \in Tenant /\ x.task = t /\ x.share = share /\ q \in Seq(Tenant)
  BY <1>1, <1>4 DEF Tenant
<1>. HIDE DEF x, partly
<1>6. Len(q) \in Nat
  BY <1>5, TenantsAre
<1>. HIDE DEF q
<1>7. /\ r \in Seq(Tenant) /\ Len(r) = Len(q) + 1
      /\ \A i \in 1..Len(q) : r[i] = q[i]
      /\ r[Len(q) + 1] = x
  BY <1>5, <1>6, AppendProperties
<1>. HIDE DEF r
<1>8. Fitted(r)
  <2>1. Fitted(q)
    BY <1>1, <1>4 DEF q
  <2>2. ASSUME NEW i, i \in 1..Len(r) PROVE r[i].share >= i
    <3>1. CASE i \in 1..Len(q)
      BY <1>7, <2>1, <3>1 DEF Fitted
    <3>2. CASE i = Len(q) + 1
      <4>1. r[i].share = share
        BY <1>5, <1>7, <3>2
      <4>. QED
        BY <1>1, <1>4, <1>6, <3>2, <4>1
    <3>. QED
      BY <1>6, <1>7, <2>2, <3>1, <3>2
  <2>. QED
    BY <2>2 DEF Fitted
<1>9. /\ slices' \in [Slots -> Seq(Tenant)] /\ slices'[s] = r
      /\ \A o \in Slots : o # s => slices'[o] = slices[o]
  <2>1. slices' = [slices EXCEPT ![s] = r]
    BY <1>2 DEF q, r
  <2>. QED
    BY <1>1, <1>4, <1>7, <2>1
<1>10. /\ placements' \in [Holders -> SUBSET Slots] /\ placements'[t] = {s}
       /\ \A u \in Holders : u # t => placements'[u] = placements[u]
  BY <1>1, <1>2, <1>4
<1>11. ASSUME NEW o \in Slots \ leaked'
       PROVE  Known(o \in whole, slices'[o], HoldersOf(placements', o))
  <2>. DEFINE H == HoldersOf(placements, o)
              K == HoldersOf(placements', o)
  <2>1. o \in Slots \ leaked /\ o \notin placements[t]
    BY <1>3, <1>11
  <2>2. Known(o \in whole, slices[o], H) /\ t \notin H
    BY <1>1, <2>1 DEF HoldersOf
  <2>3. CASE o # s
    <3>1. K = H
      BY <1>10, <2>1, <2>3 DEF HoldersOf
    <3>. QED
      BY <1>9, <2>1, <2>2, <2>3, <3>1
  <2>4. CASE o = s
    <3>1. \A u \in Holders : u \in K <=> u \in H \/ u = t
      BY <1>10, <2>4 DEF HoldersOf
    <3>2. /\ \A u \in Holders : u \in H <=> There(q, u)
          /\ Apart(q) /\ ~There(q, t)
      BY <1>4, <2>2, <2>4 DEF Known, q
    <3>3. \A u : There(r, u) <=> There(q, u) \/ u = t
      <4>1. ASSUME NEW u, There(r, u) PROVE There(q, u) \/ u = t
        <5>1. PICK i \in 1..Len(r) : r[i].task = u
          BY <4>1 DEF There
        <5>2. CASE i \in 1..Len(q)
          BY <1>7, <5>1, <5>2 DEF There
        <5>3. CASE i = Len(q) + 1
          BY <1>5, <1>7, <5>1, <5>3
        <5>. QED
          BY <1>6, <1>7, <5>2, <5>3
      <4>2. ASSUME NEW u, There(q, u) PROVE There(r, u)
        <5>1. PICK i \in 1..Len(q) : q[i].task = u
          BY <4>2 DEF There
        <5>2. i \in 1..Len(r) /\ r[i].task = u
          BY <1>6, <1>7, <5>1
        <5>. QED
          BY <5>2 DEF There
      <4>3. There(r, t)
        <5>1. Len(q) + 1 \in 1..Len(r) /\ r[Len(q) + 1].task = t
          BY <1>5, <1>6, <1>7
        <5>. QED
          BY <5>1 DEF There
      <4>. QED
        BY <4>1, <4>2, <4>3
    <3>4. Apart(r)
      <4>1. \A i \in 1..Len(q) : q[i].task # t
        BY <3>2 DEF There
      <4>2. \A i \in 1..Len(r) : i \in 1..Len(q) \/ i = Len(q) + 1
        BY <1>6, <1>7
      <4>. QED
        BY <1>5, <1>7, <3>2, <4>1, <4>2 DEF Apart
    <3>. QED
      BY <1>4, <1>9, <2>4, <3>1, <3>2, <3>3, <3>4 DEF Known
  <2>. QED
    BY <2>3, <2>4
<1>12. \A o \in whole : slices'[o] = <<>>
  BY <1>1, <1>4, <1>9
<1>13. \A o \in Slots : Fitted(slices'[o])
  BY <1>1, <1>8, <1>9
<1>. QED
  BY <1>1, <1>3, <1>9, <1>10, <1>11, <1>12, <1>13 DEF DeviceInv

\* What a task is known to hold is free of it.
LEMMA ReleaseKeepsDevices ==
    ASSUME DeviceInv, NEW t, t \in Holders, ReleaseDevices(t)
    PROVE  DeviceInv'
<1>1. /\ whole \subseteq Slots /\ slices \in [Slots -> Seq(Tenant)]
      /\ placements \in [Holders -> SUBSET Slots]
      /\ \A s \in whole : slices[s] = <<>>
      /\ \A s \in Slots : Fitted(slices[s])
      /\ \A s \in Slots \ leaked : Known(s \in whole, slices[s], HoldersOf(placements, s))
  BY DEF DeviceInv
<1>2. /\ placements' = [placements EXCEPT ![t] = {}]
      /\ whole' = whole \ placements[t] /\ leaked' = leaked
      /\ slices' = [s \in Slots |-> IF s \in placements[t] THEN Without(slices[s], t)
                                    ELSE slices[s]]
  BY DEF ReleaseDevices, Without
<1>3. /\ placements' \in [Holders -> SUBSET Slots] /\ placements'[t] = {}
      /\ \A u \in Holders : u # t => placements'[u] = placements[u]
  BY <1>1, <1>2
<1>4. ASSUME NEW s \in Slots
      PROVE  /\ slices'[s] \in Seq(Tenant) /\ Fitted(slices'[s])
             /\ s \notin placements[t] => slices'[s] = slices[s]
             /\ s \in placements[t] /\ Apart(slices[s])
                   => /\ Apart(slices'[s])
                      /\ \A u : There(slices'[s], u) <=> u # t /\ There(slices[s], u)
  <2>. DEFINE q == slices[s]
              r == Without(q, t)
  <2>1. q \in Seq(Tenant) /\ Fitted(q)
    BY <1>1
  <2>2. slices'[s] = IF s \in placements[t] THEN r ELSE q
    BY <1>2
  <2>. HIDE DEF q
  <2>3. r \in Seq(Tenant) /\ FirstIsGone(q, t, r)
    BY <2>1, FirstRemoved
  <2>. HIDE DEF r
  <2>4. /\ Fitted(q) => Fitted(r)
        /\ Apart(q) => Apart(r) /\ \A u : There(r, u) <=> u # t /\ There(q, u)
    BY <2>1, <2>3, FirstLeaves
  <2>. QED
    BY <2>1, <2>2, <2>3, <2>4 DEF q
<1>5. slices' \in [Slots -> Seq(Tenant)]
  <2>1. slices' = [s \in Slots |-> slices'[s]]
    BY <1>2
  <2>. QED
    BY <1>4, <2>1
<1>6. ASSUME NEW s \in Slots \ leaked
      PROVE  Known(s \in whole', slices'[s], HoldersOf(placements', s))
  <2>. DEFINE H == HoldersOf(placements, s)
              K == HoldersOf(placements', s)
  <2>1. Known(s \in whole, slices[s], H) /\ Apart(slices[s])
    BY <1>1, <1>6 DEF Known
  <2>2. \A u : u \in K <=> u \in H /\ u # t
    BY <1>3 DEF HoldersOf
  <2>3. CASE s \notin placements[t]
    <3>1. t \notin H /\ (s \in whole') = (s \in whole) /\ slices'[s] = slices[s]
      BY <1>2, <1>4, <2>3 DEF HoldersOf
    <3>2. K = H
      BY <2>2, <3>1
    <3>. QED
      BY <2>1, <3>1, <3>2
  <2>4. CASE s \in placements[t] /\ s \in whole
    <3>1. s \notin whole' /\ t \in H
      BY <1>2, <2>4 DEF HoldersOf
    <3>2. K = {}
      BY <2>1, <2>2, <2>4, <3>1 DEF Known
    <3>3. \A u \in Holders : ~There(slices[s], u)
      <4>1. slices[s] = <<>>
        BY <1>1, <2>4
      <4>. QED
        BY <4>1, EmptySeq DEF There
    <3>4. /\ Apart(slices'[s])
          /\ \A u : There(slices'[s], u) <=> u # t /\ There(slices[s], u)
      BY <1>4, <2>1, <2>4
    <3>. QED
      BY <3>1, <3>2, <3>3, <3>4 DEF Known
  <2>5. CASE s \in placements[t] /\ s \notin whole
    <3>1. s \notin whole' /\ \A u \in Holders : u \in H <=> There(slices[s], u)
      BY <1>2, <2>1, <2>5 DEF Known
    <3>2. /\ Apart(slices'[s])
          /\ \A u : There(slices'[s], u) <=> u # t /\ There(slices[s], u)
      BY <1>4, <2>1, <2>5
    <3>. QED
      BY <2>2, <3>1, <3>2 DEF Known
  <2>. QED
    BY <2>3, <2>4, <2>5
<1>7. whole' \subseteq Slots /\ \A s \in whole' : slices'[s] = <<>>
  <2>1. \A s \in whole' : s \in whole /\ s \in Slots /\ s \notin placements[t]
    BY <1>1, <1>2
  <2>. QED
    BY <1>1, <1>4, <2>1
<1>. QED
  BY <1>2, <1>3, <1>4, <1>5, <1>6, <1>7 DEF DeviceInv

\* Every step of the devices keeps this.
LEMMA DeviceKeeps ==
    ASSUME DeviceInv, [DeviceNext]_deviceVars
    PROVE  DeviceInv'
<1>1. CASE DeviceNext
  BY <1>1, WholeKeepsDevices, SliceKeepsDevices, ReleaseKeepsDevices DEF DeviceNext
<1>2. CASE UNCHANGED deviceVars
  BY <1>2 DEF deviceVars, DeviceInv
<1>. QED
  BY <1>1, <1>2

-----------------------------------------------------------------------------
(* What to buy                                                             *)

\* Some element of a set has the least value.
HasLeast(S, f) == \E o \in S : \A p \in S : f[o] <= f[p]

LEMMA LeastOfFew ==
    ASSUME NEW S, IsFiniteSet(S), S # {}, NEW f, \A o \in S : f[o] \in Int
    PROVE  HasLeast(S, f)
<1>. DEFINE V == {f[o] : o \in S}
<1>1. IsFiniteSet(V)
  BY ValuesAreFew
<1>2. V \subseteq Int /\ V # {}
  OBVIOUS
<1>. HIDE DEF V
<1>3. Min(V) \in V /\ \A y \in V : Min(V) <= y
  BY <1>1, <1>2, MinIsThere
<1>. QED
  BY <1>3 DEF HasLeast, V

\* The first by one value, and among equals by another.
HasLeastOfTwo(S, f, g) ==
    \E o \in S : \A p \in S : f[o] < f[p] \/ (f[o] = f[p] /\ g[o] <= g[p])

LEMMA LeastByTwo ==
    ASSUME NEW S, IsFiniteSet(S), S # {}, NEW f, \A o \in S : f[o] \in Int,
           NEW g, \A o \in S : g[o] \in Int
    PROVE  HasLeastOfTwo(S, f, g)
<1>1. HasLeast(S, f)
  BY LeastOfFew
<1>2. PICK a \in S : \A p \in S : f[a] <= f[p]
  BY <1>1 DEF HasLeast
<1>. DEFINE G == {o \in S : f[o] = f[a]}
<1>3. G # {} /\ G \subseteq S /\ IsFiniteSet(G) /\ \A o \in G : g[o] \in Int
  BY FS_Subset
<1>. HIDE DEF G
<1>4. HasLeast(G, g)
  BY <1>3, LeastOfFew
<1>5. PICK b \in G : \A p \in G : g[b] <= g[p]
  BY <1>4 DEF HasLeast
<1>6. b \in S /\ f[b] = f[a]
  BY <1>5 DEF G
<1>7. ASSUME NEW p \in S PROVE f[b] < f[p] \/ (f[b] = f[p] /\ g[b] <= g[p])
  <2>1. CASE p \in G
    BY <1>5, <1>6, <2>1 DEF G
  <2>2. CASE p \notin G
    BY <1>2, <1>6, <2>2 DEF G
  <2>. QED
    BY <2>1, <2>2
<1>. QED
  BY <1>6, <1>7 DEF HasLeastOfTwo

Strategies == {"cheapest", "least-waste", "priority"}

\* Types, with what is promised of what is bought.
ShopInv ==
    /\ shop \in [demand : Nat, offers : SUBSET Offers, bought : SUBSET (Strategies \X Offers)]
    /\ PurchasesAreSound

\* Nothing is bought at first.
LEMMA ShopStarts == ShopInit => ShopInv
BY DEF ShopInit, ShopInv, PurchasesAreSound

\* What is bought fits and no other that fits beats it, but for the list's choice.
LEMMA ShopKeeps ==
    ASSUME ShopInv, [Buy]_shop
    PROVE  ShopInv'
<1>1. CASE UNCHANGED shop
  BY <1>1 DEF ShopInv, PurchasesAreSound, Fitting
<1>2. CASE Buy
  <2>. DEFINE F == Fitting(shop)
              a == Cheapest(shop)
              b == LeastWaste(shop)
              L == ByPriority(shop)
              X == {<<"cheapest", a>>, <<"least-waste", b>>} \union ({"priority"} \X L)
  <2>1. shop' = [shop EXCEPT !.bought = X] /\ F # {}
    BY <1>2 DEF Buy
  <2>2. /\ shop.demand \in Nat /\ shop.offers \subseteq Offers
        /\ F = {o \in shop.offers : o.cpu >= shop.demand}
        /\ \A o \in F : o \in Offers /\ o.cpu \in Nat /\ o.hourly \in Nat
        /\ IsFiniteSet(F)
    <3>1. shop.demand \in Nat /\ shop.offers \subseteq Offers
      BY DEF ShopInv
    <3>2. F = {o \in shop.offers : o.cpu >= shop.demand}
      BY DEF Fitting
    <3>. HIDE DEF F
    <3>3. /\ IsFiniteSet(Offers) /\ \A o \in Offers : o.cpu \in Nat /\ o.hourly \in Nat
          /\ F \subseteq Offers
      BY <3>1, <3>2, ScalingAssumption DEF ScalingAssumption
    <3>. QED
      BY <3>1, <3>2, <3>3, FS_Subset
  <2>. DEFINE hourly == [o \in F |-> o.hourly]
              cpu == [o \in F |-> o.cpu]
  <2>3. \A o \in F : /\ hourly[o] = o.hourly /\ cpu[o] = o.cpu
                     /\ hourly[o] \in Int /\ cpu[o] \in Int
    BY <2>2
  <2>. HIDE DEF hourly, cpu, F
  <2>4. a \in F /\ \A p \in F : a.hourly < p.hourly \/ (a.hourly = p.hourly /\ a.cpu <= p.cpu)
    <3>1. HasLeastOfTwo(F, hourly, cpu)
      BY <2>1, <2>2, <2>3, LeastByTwo
    <3>2. \E o \in F : \A p \in F : \/ o.hourly < p.hourly
                                    \/ (o.hourly = p.hourly /\ o.cpu <= p.cpu)
      BY <2>3, <3>1 DEF HasLeastOfTwo
    <3>. QED
      BY <3>2 DEF Cheapest, F
  <2>5. b \in F /\ \A p \in F : b.cpu < p.cpu \/ (b.cpu = p.cpu /\ b.hourly <= p.hourly)
    <3>1. HasLeastOfTwo(F, cpu, hourly)
      BY <2>1, <2>2, <2>3, LeastByTwo
    <3>2. \E o \in F : \A p \in F : \/ o.cpu < p.cpu
                                    \/ (o.cpu = p.cpu /\ o.hourly <= p.hourly)
      BY <2>3, <3>1 DEF HasLeastOfTwo
    <3>. QED
      BY <3>2 DEF LeastWaste, F
  <2>6. L \subseteq F
    BY DEF ByPriority, F
  <2>. HIDE DEF a, b, L
  <2>7. /\ X \subseteq Strategies \X Offers
        /\ \A x \in X : /\ x[2] \in F
                        /\ x[1] = "priority" \/ x[2] = a \/ x[2] = b
    <3>1. a \in Offers /\ b \in Offers /\ L \subseteq Offers
      BY <2>2, <2>4, <2>5, <2>6
    <3>. QED
      BY <2>4, <2>5, <2>6, <3>1 DEF Strategies
  <2>. HIDE DEF X
  <2>8. /\ shop' \in [demand : Nat, offers : SUBSET Offers, bought : SUBSET (Strategies \X Offers)]
        /\ shop'.demand = shop.demand /\ shop'.offers = shop.offers /\ shop'.bought = X
    BY <2>1, <2>7 DEF ShopInv
  <2>9. ASSUME NEW x \in X
        PROVE  /\ x[2].cpu >= shop.demand
               /\ x[1] # "priority" => \A o \in F :
                     o.hourly <= x[2].hourly /\ o.cpu <= x[2].cpu
                        => o.hourly = x[2].hourly /\ o.cpu = x[2].cpu
    <3>. DEFINE y == x[2]
    <3>1. y \in F /\ (x[1] = "priority" \/ y = a \/ y = b)
      BY <2>7
    <3>. HIDE DEF y
    <3>2. y.cpu >= shop.demand
      BY <2>2, <3>1
    <3>3. ASSUME x[1] # "priority", NEW o \in F, o.hourly <= y.hourly, o.cpu <= y.cpu
          PROVE  o.hourly = y.hourly /\ o.cpu = y.cpu
      <4>1. CASE y = a
        BY <2>2, <2>4, <3>1, <3>3, <4>1
      <4>2. CASE y = b
        BY <2>2, <2>5, <3>1, <3>3, <4>2
      <4>. QED
        BY <3>1, <3>3, <4>1, <4>2
    <3>. QED
      BY <3>2, <3>3 DEF y
  <2>10. Fitting(shop') = F
    BY <2>2, <2>8 DEF Fitting
  <2>11. PurchasesAreSound'
    BY <2>8, <2>9, <2>10 DEF PurchasesAreSound
  <2>. QED
    BY <2>8, <2>11 DEF ShopInv
<1>. QED
  BY <1>1, <1>2

\* Whatever is for sale, if it survives the loss of the largest it survives any.
LEMMA AnyNodeIsSurvived == ShopInv => NPlusOneIsAnyNode
<1>. SUFFICES ASSUME ShopInv, NEW inUse \in 0..6, SurvivesNPlusOne(shop.offers, inUse),
                     NEW n \in shop.offers
              PROVE  CpuOf(shop.offers \ {n}) >= inUse
  BY DEF NPlusOneIsAnyNode
<1>. DEFINE S == shop.offers
            cpu == [o \in S |-> o.cpu]
<1>1. S \subseteq Offers
  BY DEF ShopInv
<1>. HIDE DEF S
<1>2. IsFiniteSet(S) /\ \A o \in S : o.cpu \in Nat /\ cpu[o] = o.cpu
  BY <1>1, ScalingAssumption, FS_Subset DEF ScalingAssumption
<1>. HIDE DEF cpu
<1>3. \A o \in S : cpu[o] \in Nat
  BY <1>2
<1>4. ASSUME NEW o \in S
      PROVE  /\ Total(cpu, S) = o.cpu + CpuOf(S \ {o})
             /\ CpuOf(S \ {o}) \in Nat
  <2>. DEFINE R == S \ {o}
              rest == [m \in R |-> m.cpu]
  <2>1. IsFiniteSet(R) /\ DOMAIN rest = R /\ CpuOf(R) = SumFunction(rest)
    BY <1>2, FS_RemoveElement DEF CpuOf
  <2>2. \A m \in R : rest[m] = cpu[m] /\ cpu[m] \in Nat
    BY <1>2, <1>3
  <2>. HIDE DEF R, rest
  <2>3. SumFunction(rest) = Total(rest, R)
    BY <2>1, SumIsTotal
  <2>4. Total(rest, R) = Total(cpu, R)
    BY <2>1, <2>2, TotalOfSame
  <2>5. Total(cpu, S) = cpu[o] + Total(cpu, R) /\ Total(cpu, R) \in Nat
    BY <1>2, <1>3, <1>4, TotalApart DEF R
  <2>. QED
    BY <1>2, <1>4, <2>1, <2>3, <2>4, <2>5 DEF R
<1>5. PICK largest \in S : /\ \A m \in S : m.cpu <= largest.cpu
                           /\ CpuOf(S \ {largest}) >= inUse
  BY DEF SurvivesNPlusOne, S
<1>6. n \in S
  BY DEF S
<1>7. n.cpu \in Nat /\ largest.cpu \in Nat /\ n.cpu <= largest.cpu
  BY <1>2, <1>5, <1>6
<1>8. /\ Total(cpu, S) = n.cpu + CpuOf(S \ {n}) /\ CpuOf(S \ {n}) \in Nat
      /\ Total(cpu, S) = largest.cpu + CpuOf(S \ {largest}) /\ CpuOf(S \ {largest}) \in Nat
  BY <1>4, <1>5, <1>6
<1>9. CpuOf(S \ {n}) >= inUse
  BY <1>5, <1>7, <1>8
<1>. QED
  BY <1>9 DEF S

-----------------------------------------------------------------------------
(* Capacity ahead of the calendar                                          *)

\* Types, and no burst has had to wait.
PrescaleInv == schedules \in SUBSET Every /\ clock \in Nat /\ BurstsMeetCapacity

\* At first nothing waits.
LEMMA PrescaleStarts == PrescaleInit => PrescaleInv
BY DEF PrescaleInit, PrescaleInv, BurstsMeetCapacity

\* When bursts fire the plan has begun for each of them, and is over for none.
LEMMA PlannedCovers ==
    ASSUME PrescaleInv, clock <= PlanHorizon
    PROVE  /\ CapacityAt(clock) \in Nat
           /\ BatchDemand * Cardinality({e \in schedules : Due(e, clock)}) \in Nat
           /\ BatchDemand * Cardinality({e \in schedules : Due(e, clock)}) <= CapacityAt(clock)
<1>1. /\ IsFiniteSet(Every) /\ Every \subseteq Nat \ {0} /\ BatchDemand \in Nat
      /\ HoldAfter \in Nat \ {0} /\ PlanHorizon \in Nat /\ Warmup \in Nat
      /\ schedules \subseteq Every /\ clock \in Nat
  BY ScalingAssumption DEF ScalingAssumption, PrescaleInv
<1>. DEFINE G == schedules \X (0..PlanHorizon)
            begun == {f \in Firings : Most(0, f[2] - Warmup) <= clock}
            over == {f \in Firings : f[2] + HoldAfter <= clock}
            D == {e \in schedules : Due(e, clock)}
            fires == D \X {clock}
<1>2. Firings \subseteq G /\ \A f \in G : f[1] \in schedules /\ f[2] \in Nat
  BY <1>1 DEF Firings
<1>3. over \subseteq begun /\ fires \subseteq begun /\ over \cap fires = {}
  <2>1. ASSUME NEW f \in over PROVE f \in begun
    <3>1. f \in Firings /\ f[2] + HoldAfter <= clock /\ f[2] \in Nat
      BY <1>2
    <3>2. Most(0, f[2] - Warmup) <= clock
      BY <1>1, <3>1 DEF Most
    <3>. QED
      BY <3>1, <3>2
  <2>2. ASSUME NEW f \in fires PROVE f \in begun /\ f \notin over
    <3>1. f[1] \in schedules /\ Due(f[1], f[2]) /\ f[2] = clock /\ f \in G
      BY <1>1
    <3>2. f \in Firings
      BY <3>1 DEF Firings
    <3>3. Most(0, f[2] - Warmup) <= clock /\ ~(f[2] + HoldAfter <= clock)
      BY <1>1, <3>1 DEF Most
    <3>. QED
      BY <3>2, <3>3
  <2>. QED
    BY <2>1, <2>2
<1>4. IsFiniteSet(begun)
  <2>1. IsFiniteSet(schedules) /\ IsFiniteSet(0..PlanHorizon)
    BY <1>1, FS_Subset, Numbers
  <2>2. IsFiniteSet(G)
    BY <2>1, FS_Product
  <2>3. begun \subseteq G
    BY <1>2
  <2>. HIDE DEF G, begun
  <2>. QED
    BY <2>2, <2>3, FS_Subset
<1>5. IsFiniteSet(D) /\ Cardinality(fires) = Cardinality(D)
  <2>1. IsFiniteSet(D)
    BY <1>1, FS_Subset
  <2>2. IsFiniteSet({clock}) /\ Cardinality({clock}) = 1
    BY FS_Singleton
  <2>. HIDE DEF D
  <2>3. Cardinality(D \X {clock}) = Cardinality(D) * 1
    BY <2>1, <2>2, FS_Product
  <2>4. Cardinality(D) \in Nat
    BY <2>1, FS_CardinalityType
  <2>. QED
    BY <2>1, <2>3, <2>4
<1>6. CapacityAt(clock) = Most(0, BatchDemand * (Cardinality(begun) - Cardinality(over)))
  BY DEF CapacityAt
<1>. HIDE DEF begun, over, fires, D, G
<1>7. /\ IsFiniteSet(over) /\ IsFiniteSet(fires) /\ IsFiniteSet(over \cup fires)
      /\ over \cup fires \subseteq begun
  BY <1>3, <1>4, FS_Subset
<1>8. Cardinality(over \cup fires) = Cardinality(over) + Cardinality(fires)
  BY <1>3, <1>7, SeparateAdd
<1>9. /\ Cardinality(begun) \in Nat /\ Cardinality(over) \in Nat /\ Cardinality(fires) \in Nat
      /\ Cardinality(over \cup fires) <= Cardinality(begun)
  BY <1>4, <1>7, FS_Subset, FS_CardinalityType
<1>. DEFINE d == Cardinality(begun) - Cardinality(over)
            m == Cardinality(D)
<1>10. d \in Int /\ m \in Nat /\ m <= d
  BY <1>5, <1>8, <1>9
<1>. HIDE DEF d, m
<1>11. BatchDemand * m <= BatchDemand * d /\ BatchDemand * 0 <= BatchDemand * m
  <2>1. BatchDemand \in Nat /\ m \in Int /\ 0 \in Int /\ 0 <= m
    BY <1>1, <1>10
  <2>. QED
    BY <1>10, <2>1, ManyTimes
<1>12. BatchDemand * m \in Nat /\ BatchDemand * d \in Int
  <2>1. BatchDemand \in Int /\ m \in Int /\ d \in Int
    BY <1>1, <1>10
  <2>2. BatchDemand * m \in Int /\ BatchDemand * d \in Int /\ BatchDemand * 0 = 0
    BY <2>1
  <2>. QED
    BY <1>11, <2>2
<1>13. CapacityAt(clock) = Most(0, BatchDemand * d)
  BY <1>6 DEF d
<1>14. CapacityAt(clock) \in Nat /\ BatchDemand * m <= CapacityAt(clock)
  BY <1>11, <1>12, <1>13 DEF Most
<1>. QED
  BY <1>12, <1>14 DEF m, D

\* So no burst waits.
LEMMA PrescaleKeeps ==
    ASSUME PrescaleInv, [PrescaleTick]_prescaleVars
    PROVE  PrescaleInv'
<1>1. CASE PrescaleTick
  <2>. DEFINE burst == BatchDemand * Cardinality({e \in schedules : Due(e, clock)})
              dueNow == backlog + burst
  <2>1. /\ clock <= PlanHorizon /\ backlog' = dueNow - Least(dueNow, CapacityAt(clock))
        /\ clock' = clock + 1 /\ schedules' = schedules
    BY <1>1 DEF PrescaleTick
  <2>2. CapacityAt(clock) \in Nat /\ burst \in Nat /\ burst <= CapacityAt(clock)
    BY <2>1, PlannedCovers
  <2>. HIDE DEF burst
  <2>3. backlog = 0 /\ clock \in Nat /\ schedules \in SUBSET Every
    BY DEF PrescaleInv, BurstsMeetCapacity
  <2>4. backlog' = 0
    BY <2>1, <2>2, <2>3 DEF Least
  <2>. QED
    BY <2>1, <2>3, <2>4 DEF PrescaleInv, BurstsMeetCapacity
<1>2. CASE UNCHANGED prescaleVars
  BY <1>2 DEF prescaleVars, PrescaleInv, BurstsMeetCapacity
<1>. QED
  BY <1>1, <1>2

-----------------------------------------------------------------------------
(* Rented nodes                                                            *)

\* The progress of the jobs, and where a job can be.
Progress(jobs) == [j \in SpotJobs |-> jobs[j].progress]
Anywhere == SpotNodes \union StableNodes \union {NoWhere}

\* When the notice of a rented node comes.
NoticeAt(n) == ReclaimAt[n] - NoticeOf

\* Whoever reacts has shut every node that had its notice, and no job is on one.
Heeded(moment) ==
    /\ \A n \in SpotNodes : NoticeAt(n) < moment => n \in shut
    /\ \A j \in SpotJobs : job[j].on \in SpotNodes => moment <= NoticeAt(job[j].on)

\* Types, the sum of what was worked, and where jobs stand; who reacts heeds each notice.
SpotInv ==
    /\ market \in [now : Nat, reacts : BOOLEAN]
    /\ job \in [SpotJobs -> [on : Anywhere, progress : Nat, done : BOOLEAN]]
    /\ worked \in Nat /\ lost \in Nat
    /\ worked = lost + Total(Progress(job), SpotJobs)
    /\ \A j \in SpotJobs : job[j].done => job[j].on = NoWhere
    /\ market.reacts => lost = 0 /\ Heeded(market.now)
    /\ \A j \in SpotJobs : job[j].on # NoWhere => job[j].on \in Stands(market.now - 1)

\* Sums of progress.
LEMMA ProgressOf ==
    ASSUME NEW jobs, \A j \in SpotJobs : jobs[j].progress \in Nat, NEW S, S \subseteq SpotJobs
    PROVE  /\ SumFunction([j \in S |-> jobs[j].progress]) = Total(Progress(jobs), S)
           /\ Total(Progress(jobs), S) \in Nat /\ IsFiniteSet(S)
           /\ \A j \in SpotJobs : /\ Progress(jobs)[j] = jobs[j].progress
                                  /\ Progress(jobs)[j] \in Nat
<1>. DEFINE P == Progress(jobs)
            f == [j \in S |-> jobs[j].progress]
<1>1. IsFiniteSet(S)
  BY ScalingAssumption, FS_Subset DEF ScalingAssumption
<1>2. \A j \in SpotJobs : P[j] = jobs[j].progress /\ P[j] \in Nat
  BY DEF Progress
<1>3. DOMAIN f = S /\ \A j \in S : f[j] = P[j] /\ P[j] \in Nat
  BY <1>2
<1>. HIDE DEF P, f
<1>4. SumFunction(f) = Total(f, S)
  BY <1>3, SumIsTotal
<1>5. Total(f, S) = Total(P, S) /\ Total(P, S) \in Nat
  BY <1>1, <1>3, TotalOfSame, TotalIsNat
<1>. QED
  BY <1>1, <1>2, <1>4, <1>5 DEF P, f

\* The property follows.
LEMMA SpotConserves == SpotInv => WorkIsConserved
<1>. SUFFICES ASSUME SpotInv PROVE WorkIsConserved
  OBVIOUS
<1>1. \A j \in SpotJobs : job[j].progress \in Nat
  BY DEF SpotInv
<1>2. SumFunction([j \in SpotJobs |-> job[j].progress]) = Total(Progress(job), SpotJobs)
  BY <1>1, ProgressOf
<1>. QED
  BY <1>2 DEF SpotInv, WorkIsConserved

\* At first no job is on a node and nothing is worked or lost.
LEMMA SpotStarts == SpotInit => SpotInv
<1>. SUFFICES ASSUME SpotInit PROVE SpotInv
  OBVIOUS
<1>1. /\ market \in [now : Nat, reacts : BOOLEAN] /\ market.now = 0
      /\ job \in [SpotJobs -> [on : Anywhere, progress : Nat, done : BOOLEAN]]
      /\ \A j \in SpotJobs : job[j].on = NoWhere /\ job[j].progress = 0
      /\ worked = 0 /\ lost = 0
  BY DEF SpotInit, Anywhere
<1>2. Total(Progress(job), SpotJobs) = 0
  <2>1. IsFiniteSet(SpotJobs) /\ \A j \in SpotJobs : Progress(job)[j] = 0
    BY <1>1, ScalingAssumption DEF ScalingAssumption, Progress
  <2>. QED
    BY <2>1, TotalOfZeros
<1>3. Heeded(0)
  <2>1. ASSUME NEW n \in SpotNodes PROVE ~(NoticeAt(n) < 0)
    BY ScalingAssumption DEF ScalingAssumption, NoticeAt
  <2>2. NoWhere \notin SpotNodes
    BY ScalingAssumption DEF ScalingAssumption
  <2>. QED
    BY <1>1, <2>1, <2>2 DEF Heeded
<1>. QED
  BY <1>1, <1>2, <1>3 DEF SpotInv

\* What a job did and was not lost, and a tick more if it is placed.
WorkedOn(Q, P, L, placed) ==
    \A j \in SpotJobs : Q[j] = (IF j \in L THEN 0 ELSE P[j]) + (IF j \in placed THEN 1 ELSE 0)

\* So the sum is less by what is lost and more by the number of those placed.
LEMMA ProgressAddsUp ==
    ASSUME NEW P, \A j \in SpotJobs : P[j] \in Nat,
           NEW L, L \subseteq SpotJobs, NEW placed, placed \subseteq SpotJobs,
           NEW Q, WorkedOn(Q, P, L, placed)
    PROVE  /\ Total(Q, SpotJobs) = Total(P, SpotJobs) - Total(P, L) + Cardinality(placed)
           /\ Total(P, L) \in Nat /\ Total(P, SpotJobs) \in Nat /\ Cardinality(placed) \in Nat
<1>. DEFINE B == [j \in SpotJobs |-> IF j \in L THEN 0 ELSE P[j]]
            rest == SpotJobs \ placed
<1>1. /\ IsFiniteSet(SpotJobs) /\ IsFiniteSet(L) /\ IsFiniteSet(placed) /\ IsFiniteSet(rest)
      /\ IsFiniteSet(SpotJobs \ L)
  BY ScalingAssumption, FS_Subset, FS_Difference DEF ScalingAssumption
<1>2. \A j \in SpotJobs : /\ B[j] \in Nat /\ Q[j] \in Nat
                          /\ j \in L => B[j] = 0
                          /\ j \notin L => B[j] = P[j]
                          /\ j \in placed => Q[j] = B[j] + 1
                          /\ j \notin placed => Q[j] = B[j]
  <2>1. ASSUME NEW j, j \in SpotJobs
        PROVE  /\ B[j] \in Nat /\ Q[j] \in Nat
               /\ j \in L => B[j] = 0
               /\ j \notin L => B[j] = P[j]
               /\ j \in placed => Q[j] = B[j] + 1
               /\ j \notin placed => Q[j] = B[j]
    <3>1. B[j] = (IF j \in L THEN 0 ELSE P[j]) /\ P[j] \in Nat
      BY <2>1
    <3>2. Q[j] = B[j] + (IF j \in placed THEN 1 ELSE 0)
      BY <2>1, <3>1 DEF WorkedOn
    <3>. HIDE DEF B
    <3>. QED
      BY <3>1, <3>2
  <2>. HIDE DEF B
  <2>. QED
    BY <2>1
<1>. HIDE DEF B
<1>3. Total(Q, placed) = Total(B, placed) + Cardinality(placed)
  <2>1. \A j \in placed : B[j] \in Nat /\ Q[j] = B[j] + 1
    BY <1>2
  <2>. QED
    BY <1>1, <2>1, TotalOfMore
<1>4. Total(Q, rest) = Total(B, rest)
  <2>1. \A j \in rest : B[j] \in Nat /\ Q[j] = B[j]
    BY <1>2
  <2>. QED
    BY <1>1, <2>1, TotalOfSame
<1>5. /\ Total(Q, SpotJobs) = Total(Q, placed) + Total(Q, rest)
      /\ Total(B, SpotJobs) = Total(B, placed) + Total(B, rest)
      /\ Total(B, placed) \in Nat /\ Total(B, rest) \in Nat
  <2>1. \A j \in SpotJobs : B[j] \in Nat
    BY <1>2
  <2>2. \A j \in SpotJobs : Q[j] \in Nat
    BY <1>2
  <2>. QED
    BY <1>1, <2>1, <2>2, TotalOfPart
<1>6. Total(B, L) = 0
  <2>1. \A j \in L : B[j] = 0
    BY <1>2
  <2>. QED
    BY <1>1, <2>1, TotalOfZeros
<1>7. Total(B, SpotJobs \ L) = Total(P, SpotJobs \ L)
  <2>1. \A j \in SpotJobs \ L : P[j] \in Nat /\ B[j] = P[j]
    BY <1>2
  <2>. QED
    BY <1>1, <2>1, TotalOfSame
<1>8. Total(B, SpotJobs) = Total(B, L) + Total(B, SpotJobs \ L)
  <2>1. \A j \in SpotJobs : B[j] \in Nat
    BY <1>2
  <2>. QED
    BY <1>1, <2>1, TotalOfPart
<1>9. /\ Total(P, SpotJobs) = Total(P, L) + Total(P, SpotJobs \ L)
      /\ Total(P, SpotJobs) \in Nat /\ Total(P, L) \in Nat /\ Total(P, SpotJobs \ L) \in Nat
  BY <1>1, TotalOfPart
<1>10. Cardinality(placed) \in Nat
  BY <1>1, FS_CardinalityType
<1>. QED
  BY <1>3, <1>4, <1>5, <1>6, <1>7, <1>8, <1>9, <1>10

\* A job that advances is worked on by a tick if it is anywhere.
LEMMA JobsAdvance ==
    ASSUME NEW j, NEW on, on \in Anywhere, NEW progress, progress \in Nat
    PROVE  LET a == Advance(j, on, progress)
           IN /\ a \in [on : Anywhere, progress : Nat, done : BOOLEAN]
              /\ a.on = on \/ a.on = NoWhere
              /\ a.done => a.on = NoWhere
              /\ a.progress = progress + (IF on # NoWhere THEN 1 ELSE 0)
BY DEF Advance, Anywhere

\* A tick keeps the sums, and whoever reacts loses nothing.
LEMMA SpotKeeps ==
    ASSUME SpotInv, [SpotNext]_spotVars
    PROVE  SpotInv'
<1>1. CASE UNCHANGED spotVars
  BY <1>1 DEF spotVars, SpotInv, Heeded, Stands
<1>2. CASE SpotTick
  <2>. DEFINE moment == market.now
              stays == {j \in Undone : job[j].on # NoWhere}
                           \ (Evacuated(moment) \union Lost(moment))
              shut1 == Cordoned(moment)
              free == {n \in Stands(moment) \ shut1 : \A j \in stays : job[j].on # n}
              seeks == Undone \ stays
  <2>1. PICK at \in [seeks -> free \union {NoWhere}] :
           LET on == [j \in Undone |-> IF j \in stays THEN job[j].on ELSE at[j]]
           IN /\ job' = [j \in SpotJobs |->
                   IF job[j].done THEN job[j]
                   ELSE Advance(j, on[j], IF j \in Lost(moment) THEN 0 ELSE job[j].progress)]
              /\ worked' = worked + Cardinality({j \in Undone : on[j] # NoWhere})
              /\ lost' = lost + Dropped(moment)
              /\ shut' = shut1
              /\ market' = [market EXCEPT !.now = @ + 1]
    BY <1>2 DEF SpotTick
  <2>. DEFINE on == [j \in Undone |-> IF j \in stays THEN job[j].on ELSE at[j]]
              base(j) == IF j \in Lost(moment) THEN 0 ELSE job[j].progress
              placed == {j \in Undone : on[j] # NoWhere}
  <2>2. /\ job' = [j \in SpotJobs |-> IF job[j].done THEN job[j] ELSE Advance(j, on[j], base(j))]
        /\ worked' = worked + Cardinality(placed) /\ lost' = lost + Dropped(moment)
        /\ shut' = shut1 /\ market' = [market EXCEPT !.now = @ + 1]
    BY <2>1
  <2>3. /\ market \in [now : Nat, reacts : BOOLEAN] /\ moment \in Nat
        /\ job \in [SpotJobs -> [on : Anywhere, progress : Nat, done : BOOLEAN]]
        /\ worked \in Nat /\ lost \in Nat
        /\ worked = lost + Total(Progress(job), SpotJobs)
        /\ \A j \in SpotJobs : job[j].done => job[j].on = NoWhere
        /\ market.reacts => lost = 0 /\ Heeded(moment)
        /\ \A j \in SpotJobs : job[j].on # NoWhere => job[j].on \in Stands(moment - 1)
    BY DEF SpotInv
  <2>4. /\ market' \in [now : Nat, reacts : BOOLEAN]
        /\ market'.now = moment + 1 /\ market'.reacts = market.reacts
    BY <2>2, <2>3
  <2>5. /\ NoticeOf \in Nat \ {0} /\ \A n \in SpotNodes : ReclaimAt[n] \in Nat
        /\ \A n \in SpotNodes : NoticeAt(n) \in Int /\ ReclaimAt[n] = NoticeAt(n) + NoticeOf
        /\ NoWhere \notin SpotNodes /\ NoWhere \notin StableNodes
    BY ScalingAssumption DEF ScalingAssumption, NoticeAt
  <2>6. Lost(moment) \subseteq Undone /\ Undone \subseteq SpotJobs /\ placed \subseteq Undone
    BY DEF Lost, Undone
  <2>7. ASSUME NEW n \in Stands(moment)
        PROVE  n \in SpotNodes \union StableNodes
    BY DEF Stands
  <2>8. ASSUME NEW j \in Undone
        PROVE  /\ on[j] \in Anywhere /\ base(j) \in Nat
               /\ on[j] # NoWhere => on[j] \in Stands(moment)
               /\ market.reacts /\ on[j] \in SpotNodes => moment + 1 <= NoticeAt(on[j])
    <3>1. j \in SpotJobs /\ ~job[j].done
      BY DEF Undone
    <3>2. base(j) \in Nat
      BY <2>3, <3>1
    <3>3. CASE j \in stays
      <4>1. on[j] = job[j].on /\ job[j].on # NoWhere
        BY <3>3
      <4>2. j \notin Evacuated(moment) /\ j \notin Lost(moment)
        BY <3>3
      <4>. DEFINE n == job[j].on
      <4>3. n \in Anywhere /\ n \in Stands(moment - 1)
        BY <2>3, <3>1, <4>1
      <4>4. n \in SpotNodes => ReclaimAt[n] # moment
        BY <4>2 DEF Lost, Reclaimed
      <4>5. n \in Stands(moment)
        BY <2>3, <2>5, <4>3, <4>4 DEF Stands
      <4>6. ASSUME market.reacts, n \in SpotNodes PROVE moment + 1 <= NoticeAt(n)
        <5>1. moment <= NoticeAt(n)
          BY <2>3, <3>1, <4>6 DEF Heeded
        <5>2. n \notin Noticed(moment)
          BY <4>2, <4>6 DEF Evacuated
        <5>3. NoticeAt(n) # moment
          BY <4>6, <5>2 DEF Noticed, NoticeAt
        <5>4. NoticeAt(n) \in Int /\ moment \in Int
          BY <2>3, <2>5, <4>6
        <5>. HIDE DEF n, moment
        <5>. QED
          BY <5>1, <5>3, <5>4
      <4>. QED
        BY <3>2, <4>1, <4>3, <4>5, <4>6
    <3>4. CASE j \notin stays
      <4>. DEFINE n == at[j]
      <4>1. j \in seeks /\ on[j] = n
        BY <3>4
      <4>2. n \in free \union {NoWhere}
        BY <4>1
      <4>3. CASE n = NoWhere
        BY <2>5, <3>2, <4>1, <4>3 DEF Anywhere
      <4>4. CASE n # NoWhere
        <5>1. n \in Stands(moment) /\ n \notin shut1
          BY <4>2, <4>4
        <5>2. n \in Anywhere
          BY <2>7, <5>1 DEF Anywhere
        <5>3. ASSUME market.reacts, n \in SpotNodes PROVE moment + 1 <= NoticeAt(n)
          <6>1. n \notin shut /\ n \notin Noticed(moment)
            BY <5>1, <5>3 DEF Cordoned
          <6>2. ~(NoticeAt(n) < moment)
            BY <2>3, <5>3, <6>1 DEF Heeded
          <6>3. NoticeAt(n) # moment
            BY <5>3, <6>1 DEF Noticed, NoticeAt
          <6>4. NoticeAt(n) \in Int /\ moment \in Int
            BY <2>3, <2>5, <5>3
          <6>. HIDE DEF n, moment
          <6>. QED
            BY <6>2, <6>3, <6>4
        <5>. QED
          BY <3>2, <4>1, <5>1, <5>2, <5>3
      <4>. QED
        BY <4>3, <4>4
    <3>. QED
      BY <3>3, <3>4
  <2>. HIDE DEF stays, seeks, free, shut1, on, base, moment
  <2>9. ASSUME NEW j, j \in SpotJobs
        PROVE  /\ job'[j] \in [on : Anywhere, progress : Nat, done : BOOLEAN]
               /\ job'[j].done => job'[j].on = NoWhere
               /\ job'[j].on # NoWhere => j \in Undone /\ job'[j].on = on[j]
               /\ job'[j].progress = (IF j \in Lost(moment) THEN 0 ELSE job[j].progress)
                                       + (IF j \in placed THEN 1 ELSE 0)
    <3>1. CASE job[j].done
      <4>1. job'[j] = job[j] /\ j \notin Undone
        BY <2>2, <2>9, <3>1 DEF Undone
      <4>2. j \notin Lost(moment) /\ j \notin placed
        BY <2>6, <4>1
      <4>. QED
        BY <2>3, <2>9, <3>1, <4>1, <4>2
    <3>2. CASE ~job[j].done
      <4>1. j \in Undone /\ job'[j] = Advance(j, on[j], base(j))
        BY <2>2, <2>9, <3>2 DEF Undone
      <4>2. on[j] \in Anywhere /\ base(j) \in Nat
        BY <2>8, <4>1
      <4>3. /\ job'[j] \in [on : Anywhere, progress : Nat, done : BOOLEAN]
            /\ job'[j].on = on[j] \/ job'[j].on = NoWhere
            /\ job'[j].done => job'[j].on = NoWhere
            /\ job'[j].progress = base(j) + (IF on[j] # NoWhere THEN 1 ELSE 0)
        BY <4>1, <4>2, JobsAdvance
      <4>4. j \in placed <=> on[j] # NoWhere
        BY <4>1
      <4>. QED
        BY <4>1, <4>3, <4>4 DEF base
    <3>. QED
      BY <3>1, <3>2
  <2>. HIDE DEF placed
  <2>10. job' \in [SpotJobs -> [on : Anywhere, progress : Nat, done : BOOLEAN]]
    <3>1. job' = [j \in SpotJobs |-> job'[j]]
      BY <2>2
    <3>. QED
      BY <2>9, <3>1
  <2>11. /\ Dropped(moment) = Total(Progress(job), Lost(moment))
         /\ \A j \in SpotJobs : /\ Progress(job)[j] = job[j].progress
                                /\ Progress(job)[j] \in Nat
    <3>1. Lost(moment) \subseteq SpotJobs /\ \A j \in SpotJobs : job[j].progress \in Nat
      BY <2>3, <2>6
    <3>. QED
      BY <3>1, ProgressOf DEF Dropped
  <2>12. /\ Total(Progress(job'), SpotJobs) = Total(Progress(job), SpotJobs)
                - Total(Progress(job), Lost(moment)) + Cardinality(placed)
         /\ Total(Progress(job), Lost(moment)) \in Nat /\ Total(Progress(job), SpotJobs) \in Nat
         /\ Cardinality(placed) \in Nat
    <3>. DEFINE P == Progress(job)
                Q == Progress(job')
    <3>1. \A j \in SpotJobs : P[j] \in Nat
      BY <2>11
    <3>2. WorkedOn(Q, P, Lost(moment), placed)
      <4>1. \A j \in SpotJobs : Q[j] = job'[j].progress /\ P[j] = job[j].progress
        BY <2>11 DEF Progress
      <4>. HIDE DEF P, Q
      <4>. QED
        BY <2>9, <4>1 DEF WorkedOn
    <3>3. Lost(moment) \subseteq SpotJobs /\ placed \subseteq SpotJobs
      BY <2>6
    <3>. HIDE DEF P, Q
    <3>4. /\ Total(Q, SpotJobs) = Total(P, SpotJobs) - Total(P, Lost(moment)) + Cardinality(placed)
          /\ Total(P, Lost(moment)) \in Nat /\ Total(P, SpotJobs) \in Nat
          /\ Cardinality(placed) \in Nat
      BY <3>1, <3>2, <3>3, ProgressAddsUp
    <3>. QED
      BY <3>4 DEF P, Q
  <2>13. /\ worked' \in Nat /\ lost' \in Nat
         /\ worked' = lost' + Total(Progress(job'), SpotJobs)
    BY <2>2, <2>3, <2>11, <2>12
  <2>14. ASSUME market.reacts
         PROVE  lost' = 0 /\ Heeded(market.now)'
    <3>1. Lost(moment) = {}
      <4>1. ASSUME NEW j \in Lost(moment) PROVE FALSE
        <5>1. /\ j \in SpotJobs /\ job[j].on \in SpotNodes
              /\ ReclaimAt[job[j].on] = moment
          BY <2>6 DEF Lost, Reclaimed
        <5>2. moment <= NoticeAt(job[j].on)
          BY <2>3, <2>14, <5>1 DEF Heeded
        <5>. QED
          BY <2>3, <2>5, <5>1, <5>2
      <4>. QED
        BY <4>1
    <3>2. Dropped(moment) = 0
      BY <2>11, <3>1, TotalOfNone
    <3>3. \A n \in SpotNodes : NoticeAt(n) < moment + 1 => n \in shut'
      <4>1. shut' = shut \union Noticed(moment)
        BY <2>2, <2>14 DEF shut1, Cordoned, moment
      <4>2. ASSUME NEW n \in SpotNodes, NoticeAt(n) < moment + 1 PROVE n \in shut'
        <5>1. CASE NoticeAt(n) < moment
          BY <2>3, <2>14, <4>1, <4>2, <5>1 DEF Heeded
        <5>2. CASE NoticeAt(n) = moment
          BY <4>1, <4>2, <5>2 DEF Noticed, NoticeAt
        <5>. QED
          BY <2>3, <2>5, <4>2, <5>1, <5>2
      <4>. QED
        BY <4>2
    <3>4. \A j \in SpotJobs : job'[j].on \in SpotNodes => moment + 1 <= NoticeAt(job'[j].on)
      <4>1. ASSUME NEW j, j \in SpotJobs, job'[j].on \in SpotNodes
            PROVE  moment + 1 <= NoticeAt(job'[j].on)
        <5>1. job'[j].on # NoWhere
          BY <2>5, <4>1
        <5>2. j \in Undone /\ job'[j].on = on[j]
          BY <2>9, <4>1, <5>1
        <5>. QED
          BY <2>8, <2>14, <4>1, <5>2
      <4>. QED
        BY <4>1
    <3>5. lost' = 0
      BY <2>2, <2>3, <2>14, <3>2
    <3>. QED
      BY <2>4, <3>3, <3>4, <3>5 DEF Heeded, NoticeAt
  <2>15. \A j \in SpotJobs : job'[j].on # NoWhere => job'[j].on \in Stands(market'.now - 1)
    <3>1. market'.now - 1 = moment
      BY <2>3, <2>4
    <3>2. ASSUME NEW j, j \in SpotJobs, job'[j].on # NoWhere PROVE job'[j].on \in Stands(moment)
      BY <2>8, <2>9, <3>2
    <3>. QED
      BY <3>1, <3>2
  <2>. QED
    BY <2>4, <2>9, <2>10, <2>13, <2>14, <2>15 DEF SpotInv, Stands
<1>. QED
  BY <1>1, <1>2 DEF SpotNext

-----------------------------------------------------------------------------
(* The node dial                                                           *)

\* Types, windows that fill up to the limit, and what is promised of orders.
NodesInv ==
    /\ aware \in BOOLEAN /\ provisioned \in Nat
    /\ DOMAIN coming \subseteq Nat /\ IsFiniteSet(DOMAIN coming)
    /\ DOMAIN auto \subseteq Nat /\ auto \in [DOMAIN auto -> BOOLEAN]
    /\ DOMAIN quietFor = DOMAIN auto
    /\ \A n \in DOMAIN auto : quietFor[n] \in 0..RetireAfter
    /\ OrdersHold

\* No node is there at first, and none is ordered.
LEMMA NodesStart == NodeDialInit => NodesInv
<1>. SUFFICES ASSUME NodeDialInit PROVE NodesInv
  OBVIOUS
<1>1. /\ DOMAIN coming = {} /\ DOMAIN auto = {} /\ DOMAIN quietFor = {}
      /\ auto = [n \in {} |-> 0] /\ provisioned = 0 /\ aware \in BOOLEAN
  BY DEF NodeDialInit, NoMap
<1>2. auto \in [DOMAIN auto -> BOOLEAN]
  BY <1>1
<1>3. IsFiniteSet(DOMAIN coming) /\ Cardinality(DOMAIN coming) = 0
  BY <1>1, FS_EmptySet
<1>. QED
  BY <1>1, <1>2, <1>3 DEF NodesInv, OrdersHold

\* An order takes a name that no node has, and if the scaler looks only when nothing
\* is on its way.
LEMMA OrderedIsNew ==
    ASSUME NodesInv, NEW stuck
    PROVE  LET orders == Ordered(stuck)
               names == DOMAIN orders
           IN /\ names \subseteq Nat /\ IsFiniteSet(names)
              /\ names \cap DOMAIN auto = {}
              /\ \A n \in names \cup DOMAIN auto : n < provisioned + Cardinality(names)
              /\ aware => Cardinality(names) <= 1
<1>. DEFINE C == DOMAIN coming
            A == DOMAIN auto
            name == provisioned + Cardinality(C)
            orders == Ordered(stuck)
            names == DOMAIN orders
<1>1. /\ aware \in BOOLEAN /\ provisioned \in Nat /\ C \subseteq Nat /\ IsFiniteSet(C)
      /\ A \subseteq Nat /\ C \cap A = {} /\ \A n \in C \cup A : n < name
      /\ aware => Cardinality(C) <= 1
  BY DEF NodesInv, OrdersHold
<1>2. Cardinality(C) \in Nat /\ name \in Nat
  <2>1. Cardinality(C) \in Nat
    BY <1>1, FS_CardinalityType
  <2>. QED
    BY <1>1, <2>1
<1>3. \/ names = C
      \/ names = C \cup {name} /\ name \notin C /\ ~(aware /\ coming # NoMap)
  BY DEF Ordered
<1>4. CASE names = C
  BY <1>1, <1>4
<1>5. CASE names = C \cup {name} /\ name \notin C /\ ~(aware /\ coming # NoMap)
  <2>1. IsFiniteSet(C \cup {name}) /\ Cardinality(C \cup {name}) = Cardinality(C) + 1
    BY <1>1, <1>5, FS_AddElement
  <2>2. aware => Cardinality(C) = 0
    <3>1. coming = NoMap => C = {}
      BY DEF NoMap
    <3>. QED
      BY <1>1, <1>5, <3>1, FS_EmptySet
  <2>3. name \notin A
    BY <1>1, <1>2
  <2>4. \A n \in C \cup {name} \cup A : n < provisioned + (Cardinality(C) + 1)
    <3>1. name < provisioned + (Cardinality(C) + 1)
      BY <1>1, <1>2
    <3>2. ASSUME NEW n \in C \cup A PROVE n < provisioned + (Cardinality(C) + 1)
      <4>1. n \in Nat /\ n < name
        BY <1>1
      <4>2. name \in Nat /\ name + 1 = provisioned + (Cardinality(C) + 1)
        BY <1>1, <1>2
      <4>3. n < name + 1
        <5>. HIDE DEF name
        <5>. QED
          BY <4>1, <4>2
      <4>. QED
        BY <4>2, <4>3
    <3>. QED
      BY <3>1, <3>2
  <2>. HIDE DEF name, C, A, names
  <2>5. names \subseteq Nat /\ IsFiniteSet(names) /\ names \cap A = {}
    BY <1>1, <1>2, <1>5, <2>1, <2>3
  <2>6. Cardinality(names) = Cardinality(C) + 1
    BY <1>5, <2>1
  <2>7. \A n \in names \cup A : n < provisioned + Cardinality(names)
    BY <1>5, <2>4, <2>6
  <2>8. aware => Cardinality(names) <= 1
    BY <2>2, <2>6
  <2>. QED
    BY <2>5, <2>7, <2>8 DEF A, names
<1>. QED
  BY <1>3, <1>4, <1>5

\* A tick keeps names apart, and a node that stays empty is not kept past the window.
LEMMA NodesKeep ==
    ASSUME NodesInv, [NodeDialNext]_nodeDialVars
    PROVE  NodesInv'
<1>1. CASE UNCHANGED nodeDialVars
  BY <1>1 DEF nodeDialVars, NodesInv, OrdersHold
<1>2. CASE Demand
  BY <1>2 DEF Demand, NodesInv, OrdersHold
<1>3. ASSUME NEW n \in DOMAIN auto, Finish(n) PROVE NodesInv'
  <2>1. /\ auto' = [auto EXCEPT ![n] = FALSE] /\ aware' = aware /\ coming' = coming
        /\ provisioned' = provisioned /\ quietFor' = quietFor
    BY <1>3 DEF Finish
  <2>2. auto \in [DOMAIN auto -> BOOLEAN] /\ \A m \in DOMAIN auto : quietFor[m] \in 0..RetireAfter
    BY DEF NodesInv
  <2>3. DOMAIN auto' = DOMAIN auto /\ auto' \in [DOMAIN auto -> BOOLEAN]
    BY <2>1, <2>2
  <2>4. \A m \in DOMAIN auto : quietFor[m] <= RetireAfter
    BY <2>2, ScalingAssumption DEF ScalingAssumption
  <2>. QED
    BY <2>1, <2>3, <2>4 DEF NodesInv, OrdersHold
<1>4. CASE NodeDialTick
  <2>1. PICK inUse \in SUBSET {n \in DOMAIN auto : ~auto[n]} :
           LET idle == {n \in DOMAIN auto : ~auto[n]}
               stuck == waiting - Cardinality(inUse)
               orders == Ordered(stuck)
               arrived == {n \in DOMAIN orders : orders[n] <= 0}
               busy == [n \in DOMAIN auto \union arrived |->
                           n \in inUse \/ (n \in DOMAIN auto /\ auto[n])]
               empty == EmptySince(DOMAIN busy, busy)
               retired == {n \in DOMAIN empty : empty[n] >= RetireAfter}
               kept == DOMAIN busy \ retired
           IN /\ coming' = Restrict(orders, DOMAIN orders \ arrived)
              /\ provisioned' = provisioned + Cardinality(arrived)
              /\ auto' = Restrict(busy, kept)
              /\ quietFor' = [n \in kept |->
                    IF busy[n] THEN 0
                    ELSE IF n \in DOMAIN quietFor
                    THEN Least(quietFor[n] + 1, RetireAfter) ELSE 1]
              /\ UNCHANGED <<aware, demanded>>
    BY <1>4 DEF NodeDialTick
  <2>. DEFINE orders == Ordered(waiting - Cardinality(inUse))
              names == DOMAIN orders
              arrived == {n \in names : orders[n] <= 0}
              A == DOMAIN auto
              busy == [n \in A \union arrived |-> n \in inUse \/ (n \in A /\ auto[n])]
              empty == EmptySince(DOMAIN busy, busy)
              retired == {n \in DOMAIN empty : empty[n] >= RetireAfter}
              kept == DOMAIN busy \ retired
  <2>2. /\ coming' = Restrict(orders, names \ arrived)
        /\ provisioned' = provisioned + Cardinality(arrived)
        /\ auto' = Restrict(busy, kept)
        /\ quietFor' = [n \in kept |-> IF busy[n] THEN 0
                                       ELSE IF n \in DOMAIN quietFor
                                       THEN Least(quietFor[n] + 1, RetireAfter) ELSE 1]
        /\ aware' = aware
    BY <2>1
  <2>3. /\ names \subseteq Nat /\ IsFiniteSet(names) /\ names \cap A = {}
        /\ \A n \in names \cup A : n < provisioned + Cardinality(names)
        /\ aware => Cardinality(names) <= 1
    BY OrderedIsNew
  <2>4. /\ aware \in BOOLEAN /\ provisioned \in Nat /\ A \subseteq Nat
        /\ auto \in [A -> BOOLEAN] /\ DOMAIN quietFor = A
        /\ \A n \in A : quietFor[n] \in 0..RetireAfter
        /\ RetireAfter \in Nat \ {0}
    BY ScalingAssumption DEF NodesInv, ScalingAssumption
  <2>5. /\ DOMAIN busy = A \cup arrived /\ kept \subseteq A \cup arrived
        /\ \A n \in kept : busy[n] \in BOOLEAN
    <3>1. \A n \in A \cup arrived : busy[n] = (n \in inUse \/ (n \in A /\ auto[n]))
      OBVIOUS
    <3>2. \A n \in A \cup arrived : busy[n] \in BOOLEAN
      BY <3>1
    <3>3. DOMAIN busy = A \cup arrived
      OBVIOUS
    <3>. HIDE DEF busy
    <3>. QED
      BY <3>2, <3>3
  <2>6. arrived \subseteq names
    OBVIOUS
  <2>. HIDE DEF busy, kept, empty, retired, arrived, names, orders, A
  <2>7. DOMAIN coming' = names \ arrived
    BY <2>2 DEF Restrict
  <2>8. DOMAIN auto' = kept /\ auto' \in [kept -> BOOLEAN]
    <3>1. auto' = [n \in kept |-> busy[n]]
      BY <2>2 DEF Restrict
    <3>. QED
      BY <2>5, <3>1
  <2>9. /\ IsFiniteSet(arrived) /\ IsFiniteSet(names \ arrived)
        /\ Cardinality(arrived) \in Nat /\ Cardinality(names \ arrived) \in Nat
        /\ Cardinality(names) = Cardinality(arrived) + Cardinality(names \ arrived)
    <3>1. IsFiniteSet(arrived) /\ IsFiniteSet(names \ arrived)
      BY <2>3, <2>6, FS_Subset
    <3>2. arrived \cap (names \ arrived) = {} /\ arrived \cup (names \ arrived) = names
      BY <2>6
    <3>3. Cardinality(arrived \cup (names \ arrived))
             = Cardinality(arrived) + Cardinality(names \ arrived)
      BY <3>1, <3>2, SeparateAdd
    <3>. QED
      BY <3>1, <3>2, <3>3, FS_CardinalityType
  <2>10. provisioned' \in Nat /\ provisioned' + Cardinality(names \ arrived)
                                    = provisioned + Cardinality(names)
    BY <2>2, <2>4, <2>9
  <2>11. ASSUME NEW n \in kept PROVE quietFor'[n] \in 0..RetireAfter
    <3>1. quietFor'[n] = IF busy[n] THEN 0
                         ELSE IF n \in A THEN Least(quietFor[n] + 1, RetireAfter) ELSE 1
      BY <2>2, <2>4
    <3>2. CASE busy[n] \/ n \notin A
      BY <2>4, <3>1, <3>2
    <3>3. CASE ~busy[n] /\ n \in A
      BY <2>4, <3>1, <3>3 DEF Least
    <3>. QED
      BY <3>2, <3>3
  <2>12. DOMAIN quietFor' = kept
    BY <2>2
  <2>13. (names \ arrived) \cap kept = {}
    BY <2>3, <2>5
  <2>14. \A n \in (names \ arrived) \cup kept :
            n < provisioned' + Cardinality(names \ arrived)
    <3>1. \A n \in (names \ arrived) \cup kept : n \in names \cup A
      BY <2>5, <2>6
    <3>. QED
      BY <2>3, <2>10, <3>1
  <2>15. aware => Cardinality(names \ arrived) <= 1
    BY <2>3, <2>9
  <2>16. \A n \in kept : quietFor'[n] <= RetireAfter
    BY <2>4, <2>11
  <2>17. kept \subseteq Nat
    BY <2>3, <2>4, <2>5, <2>6
  <2>18. OrdersHold'
    BY <2>2, <2>7, <2>8, <2>13, <2>14, <2>15, <2>16 DEF OrdersHold
  <2>. QED
    BY <2>2, <2>3, <2>4, <2>7, <2>8, <2>9, <2>10, <2>11, <2>12, <2>17, <2>18 DEF NodesInv
<1>. QED
  BY <1>1, <1>2, <1>3, <1>4 DEF NodeDialNext

-----------------------------------------------------------------------------
\* What is known of every component that promises, lends or scales.
CapacityInv ==
    /\ HoldInv /\ BrokerInv /\ LenderInv /\ DeviceInv
    /\ NodesInv /\ PrescaleInv /\ SpotInv /\ ShopInv

\* It is known at first, whatever part runs.
LEMMA CapacityStarts == Init => CapacityInv
<1>. SUFFICES ASSUME Init PROVE CapacityInv
  OBVIOUS
<1>1. /\ BookingInit /\ LenderInit /\ DeviceInit
      /\ NodeDialInit /\ PrescaleInit /\ SpotInit /\ ShopInit
  BY DEF Init, OneOf
<1>2. HoldInv /\ BrokerInv
  BY <1>1, HoldStarts, BrokerStarts
<1>3. LenderInv /\ DeviceInv
  BY <1>1, LenderStarts, DeviceStarts
<1>4. NodesInv /\ PrescaleInv /\ SpotInv /\ ShopInv
  BY <1>1, NodesStart, PrescaleStarts, SpotStarts, ShopStarts
<1>. QED
  BY <1>2, <1>3, <1>4 DEF CapacityInv

\* In a step of the whole a component takes a step of its own or rests.
LEMMA PartsRunAlone ==
    ASSUME [Next]_vars
    PROVE  /\ [HoldNext \/ BrokerNext \/ BookingTick]_bookingVars
           /\ [LenderNext]_lenderVars /\ [DeviceNext]_deviceVars
           /\ [NodeDialNext]_nodeDialVars /\ [PrescaleTick]_prescaleVars
           /\ [SpotNext]_spotVars /\ [Buy]_shop
<1>1. [HoldNext \/ BrokerNext \/ BookingTick]_bookingVars
  BY ZenonT(60) DEF Next, In, Among, Still, PromisedParts, vars
<1>2. [LenderNext]_lenderVars
  BY ZenonT(60) DEF Next, In, Among, Still, PromisedParts, vars
<1>3. [DeviceNext]_deviceVars
  BY ZenonT(60) DEF Next, In, Among, Still, PromisedParts, vars
<1>4. [NodeDialNext]_nodeDialVars
  BY ZenonT(60) DEF Next, In, Among, Still, ScaledParts, vars
<1>5. [PrescaleTick]_prescaleVars
  BY ZenonT(60) DEF Next, In, Among, Still, ScaledParts, vars
<1>6. [SpotNext]_spotVars
  BY ZenonT(60) DEF Next, In, Among, Still, ScaledParts, vars
<1>7. [Buy]_shop
  BY ZenonT(60) DEF Next, In, Among, Still, ScaledParts, vars
<1>. QED
  BY <1>1, <1>2, <1>3, <1>4, <1>5, <1>6, <1>7

\* So every step keeps what is known.
LEMMA CapacityStep ==
    ASSUME CapacityInv, [Next]_vars
    PROVE  CapacityInv'
<1>1. /\ [HoldNext \/ BrokerNext \/ BookingTick]_bookingVars
      /\ [LenderNext]_lenderVars /\ [DeviceNext]_deviceVars
      /\ [NodeDialNext]_nodeDialVars /\ [PrescaleTick]_prescaleVars
      /\ [SpotNext]_spotVars /\ [Buy]_shop
  BY PartsRunAlone
<1>2. /\ HoldInv /\ BrokerInv /\ LenderInv /\ DeviceInv
      /\ NodesInv /\ PrescaleInv /\ SpotInv /\ ShopInv
  BY DEF CapacityInv
<1>3. HoldInv'
  BY <1>1, <1>2, HoldKeeps
<1>4. BrokerInv'
  BY <1>1, <1>2, BrokerKeeps
<1>5. LenderInv'
  BY <1>1, <1>2, LenderKeeps
<1>6. DeviceInv'
  BY <1>1, <1>2, DeviceKeeps
<1>7. NodesInv'
  BY <1>1, <1>2, NodesKeep
<1>8. PrescaleInv'
  BY <1>1, <1>2, PrescaleKeeps
<1>9. SpotInv'
  BY <1>1, <1>2, SpotKeeps
<1>10. ShopInv'
  BY <1>1, <1>2, ShopKeeps
<1>. QED
  BY <1>3, <1>4, <1>5, <1>6, <1>7, <1>8, <1>9, <1>10 DEF CapacityInv

\* Every state is known of: the steps keep it.
LEMMA CapacityKnown == CapacitySpec => []CapacityInv
<1>1. Init => CapacityInv
  BY CapacityStarts
<1>2. CapacityInv /\ [Next]_vars => CapacityInv'
  BY CapacityStep
<1>. QED
  BY <1>1, <1>2, PTL DEF CapacitySpec

\* What is known says that promises fit, and that what is scaled adds up.
LEMMA CapacityHolds == CapacityInv => PromisesFit /\ ScalingHolds
<1>. SUFFICES ASSUME CapacityInv PROVE PromisesFit /\ ScalingHolds
  OBVIOUS
<1>1. /\ HoldInv /\ BrokerInv /\ LenderInv /\ DeviceInv
      /\ NodesInv /\ PrescaleInv /\ SpotInv /\ ShopInv
  BY DEF CapacityInv
<1>2. HoldsFit /\ BatchesFindRoom /\ LentIsCalled
  BY <1>1 DEF HoldInv, BrokerInv, LenderInv
<1>3. SlotsAccounted
  BY <1>1, DevicesAccounted
<1>4. OrdersHold /\ BurstsMeetCapacity /\ PurchasesAreSound
  BY <1>1 DEF NodesInv, PrescaleInv, ShopInv
<1>5. WorkIsConserved /\ NPlusOneIsAnyNode
  BY <1>1, SpotConserves, AnyNodeIsSurvived
<1>. QED
  BY <1>2, <1>3, <1>4, <1>5 DEF PromisesFit, ScalingHolds

\* holds.py, backfill.py, reservations.py, quotaborrow.py, sched/devices.py: in every state
\* no tick is promised above the capacity and a loan is back when its hold begins, what is
\* booked finds room, what is lent beyond the idle guarantees was called back, and nothing
\* is on a device that no task is known to hold.
THEOREM PromisesAlwaysFit == CapacitySpec => []PromisesFit
BY CapacityKnown, CapacityHolds, PTL

\* autoscale.py, prescale.py, spot.py, expander.py, capacityplan.py: in every state orders
\* and nodes are distinct, no burst the plan saw coming waits, what was worked is in the
\* jobs or was lost with a node, what is bought fits and is not beaten, and the loss of
\* the largest node stands for the loss of any.
THEOREM ScalingAlwaysHolds == CapacitySpec => []ScalingHolds
BY CapacityKnown, CapacityHolds, PTL
=============================================================================
