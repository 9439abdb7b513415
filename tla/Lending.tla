------------------------------ MODULE Lending ------------------------------
(***************************************************************************)
(* Capacity that is another's.  Idle guarantees lent to teams over their   *)
(* line and called back with notice (quotaborrow.py), and devices taken    *)
(* whole or by the slice (sched/devices.py, one node of it).               *)
(***************************************************************************)
EXTENDS Integers, Sequences, SequencesExt

CONSTANTS
    Teams,          \* numbered in the order of their names
    Guarantee,
    NoticeWindow,
    MaxAsk,         \* bound: the most a team asks for at a time
    Holders,        \* tasks that ask for devices
    Slots,          \* numbers of the node's devices
    Shares,         \* the shares slices come in
    MaxSlices       \* bound: slices on the node

ASSUME LendingAssumption ==
    /\ IsFiniteSet(Teams) /\ Teams \subseteq Nat /\ Guarantee \in [Teams -> Nat]
    /\ NoticeWindow \in Nat /\ MaxAsk \in Nat
    /\ IsFiniteSet(Holders) /\ IsFiniteSet(Slots) /\ Slots \subseteq Nat
    /\ Shares \subseteq Nat \ {0}

VARIABLES
    used,       \* what a team uses
    borrowed,   \* how much of it is borrowed
    due,        \* ticks until a called team's notice ends, or NotCalled
    barged,     \* whether an owner took its own without calling it back
    whole,      \* the devices in use as a whole
    slices,     \* the tenants of each partitioned device
    placements, \* the devices a task is known to hold
    leaked      \* devices whose holder asked for a slice while it held them

lenderVars == <<used, borrowed, due, barged>>
deviceVars == <<whole, slices, placements, leaked>>

NotCalled == -1

-----------------------------------------------------------------------------
(* The lender *)

LenderInit ==
    /\ used = [t \in Teams |-> 0]
    /\ borrowed = [t \in Teams |-> 0]
    /\ due = [t \in Teams |-> NotCalled]
    /\ barged = FALSE

Positive(n) == IF n > 0 THEN n ELSE 0
IdleOf(usage) == SumFunction([t \in Teams |-> Positive(Guarantee[t] - usage[t])])
Available == IdleOf(used) - SumFunction(borrowed)

\* What is within the guarantee is used even if the rest is refused, and the
\* rest is borrowed from what is idle after that.
Use(t, amount) ==
    LET own == Positive(Guarantee[t] - used[t])
        over == Positive(amount - own)
        after == [used EXCEPT ![t] = @ + amount - over]
        lent == IF over <= IdleOf(after) - SumFunction(borrowed) THEN over ELSE 0
    IN /\ used' = [after EXCEPT ![t] = @ + lent]
       /\ borrowed' = [borrowed EXCEPT ![t] = @ + lent]

Take(t, amount) ==
    /\ Use(t, amount)
    /\ barged' = (barged \/ IdleOf(used') < SumFunction(borrowed'))
    /\ UNCHANGED due

\* Debtors are called in the order of their names until their debts cover
\* what is short; a debtor called before gets a new notice.  Then the owner
\* uses what it asked for.
OwnerReturns(t, amount) ==
    LET debtBefore(d) == SumFunction([e \in {e \in Teams : e < d} |-> borrowed[e]])
        called == {d \in Teams : /\ borrowed[d] > 0
                                 /\ amount - Available > debtBefore(d)}
    IN /\ due' = [d \in Teams |-> IF d \in called THEN NoticeWindow ELSE due[d]]
       /\ Use(t, amount)
       /\ UNCHANGED barged

\* What a called team has borrowed by the end of its notice is evicted, all of it.
Enforce ==
    LET over == {t \in Teams : due[t] = 0}
    IN /\ over # {}
       /\ used' = [t \in Teams |-> used[t] - (IF t \in over THEN borrowed[t] ELSE 0)]
       /\ borrowed' = [t \in Teams |-> IF t \in over THEN 0 ELSE borrowed[t]]
       /\ due' = [t \in Teams |-> IF t \in over THEN NotCalled ELSE due[t]]
       /\ UNCHANGED barged

LenderTick ==
    /\ due' = [t \in Teams |-> IF due[t] > 0 THEN due[t] - 1 ELSE due[t]]
    /\ UNCHANGED <<used, borrowed, barged>>

LenderNext ==
    \/ \E t \in Teams, amount \in 1..MaxAsk : Take(t, amount) \/ OwnerReturns(t, amount)
    \/ Enforce \/ LenderTick

-----------------------------------------------------------------------------
(* The devices of a node *)

DeviceInit ==
    /\ whole = {}
    /\ slices = [s \in Slots |-> <<>>]
    /\ placements = [t \in Holders |-> {}]
    /\ leaked = {}

FreeSlots == {s \in Slots : s \notin whole /\ slices[s] = <<>>}

\* A task takes the lowest free slots, or any linked pair.
PlaceWhole(t, count) ==
    /\ placements[t] = {}
    /\ \E taken \in SUBSET FreeSlots :
          /\ Cardinality(taken) = count
          /\ count # 2 => \A s \in FreeSlots \ taken : \A r \in taken : r < s
          /\ whole' = whole \union taken
          /\ placements' = [placements EXCEPT ![t] = taken]
    /\ UNCHANGED <<slices, leaked>>

\* A partitioned slot with fewer tenants than the share asked for, or else the
\* lowest free slot.  What the task held before is forgotten.
PlaceSlice(t, share) ==
    LET shared == {s \in Slots : Len(slices[s]) \in 1..(share - 1)}
    IN /\ \E s \in (IF shared # {} THEN shared ELSE FreeSlots) :
             /\ shared = {} => \A r \in FreeSlots : s <= r
             /\ slices' = [slices EXCEPT ![s] = Append(@, [task |-> t, share |-> share])]
             /\ placements' = [placements EXCEPT ![t] = {s}]
       /\ leaked' = leaked \union placements[t]
       /\ UNCHANGED whole

\* What it is known to hold is free, but for other entries of the same task.
ReleaseDevices(t) ==
    /\ placements[t] # {}
    /\ placements' = [placements EXCEPT ![t] = {}]
    /\ whole' = whole \ placements[t]
    /\ slices' = [s \in Slots |->
          IF s \in placements[t]
          THEN RemoveFirstMatch(slices[s], LAMBDA x : x.task = t)
          ELSE slices[s]]
    /\ UNCHANGED leaked

DeviceNext ==
    \E t \in Holders :
        \/ \E count \in 1..2 : PlaceWhole(t, count)
        \/ /\ SumFunction([s \in Slots |-> Len(slices[s])]) < MaxSlices
           /\ \E share \in Shares : PlaceSlice(t, share)
        \/ ReleaseDevices(t)

-----------------------------------------------------------------------------
(* Properties *)

\* What is lent beyond the idle guarantees is owed by teams that were called,
\* if owners call before they take; and what a team has over its guarantee is
\* what it borrowed, over calls, refusals half-way and evictions.
LentIsCalled ==
    /\ \A t \in Teams : used[t] > Guarantee[t] \/ borrowed[t] > 0
                           => used[t] = Guarantee[t] + borrowed[t]
    /\ ~barged => SumFunction(borrowed) - IdleOf(used) <=
                     SumFunction([t \in {d \in Teams : due[d] # NotCalled} |-> borrowed[t]])

\* No device is used whole and by slices; whole devices are each held by one
\* task, and nothing is in use that no task is known to hold, but for devices
\* whose holder asked for a slice while it held them.
SlotsAccounted ==
    /\ \A s \in whole : slices[s] = <<>>
    /\ \A s \in Slots \ leaked :
          LET holders == {t \in Holders : s \in placements[t]}
          IN IF s \in whole THEN Cardinality(holders) = 1
             ELSE holders = {x.task : x \in ToSet(slices[s])}
    /\ \A s \in Slots : \A x \in ToSet(slices[s]) :
          (\A y \in ToSet(slices[s]) : y.share = x.share) => Len(slices[s]) <= x.share

\* Slices of one device have one share (sched/devices.py: "shares must match").
SharesMatch == \A s \in Slots : \A x, y \in ToSet(slices[s]) : x.share = y.share
=============================================================================
