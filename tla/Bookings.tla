------------------------------ MODULE Bookings ------------------------------
(***************************************************************************)
(* Capacity that is promised for later.  On one node: the ledger of holds  *)
(* (holds.py) and the backfiller that lends what is held until its window  *)
(* opens (backfill.py).  Over the fleet: the broker of reservations        *)
(* (reservations.py).  Amounts are of one resource.                        *)
(***************************************************************************)
EXTENDS Integers, FiniteSets, Functions

CONSTANTS
    HoldNames, Scavengers, BookingNames,
    Capacity,       \* of the node
    FleetFree,      \* free on ready, schedulable nodes at first
    Horizon         \* bound: the last tick

ASSUME BookingBounds ==
    /\ IsFiniteSet(HoldNames) /\ "none" \notin HoldNames
    /\ IsFiniteSet(Scavengers) /\ IsFiniteSet(BookingNames)
    /\ Capacity \in Nat /\ FleetFree \in Nat /\ Horizon \in Nat \ {0}

VARIABLES
    now,        \* the tick
    holds,      \* the holds on the node
    loans,      \* the loan of a scavenger: of which hold, how much, until when
    slipped,    \* names of holds that were taken off the ledger while lent
    bookings,   \* what the broker has booked
    fleetFree,  \* free capacity of the fleet
    batches     \* bookings whose batch runs, with what it took

bookingVars == <<now, holds, loans, slipped, bookings, fleetFree, batches>>

NoWindow == [cpu |-> 0, starts |-> 0, ends |-> 0]
Windows == {w \in [cpu : 1..Capacity, starts : 0..Horizon, ends : 0..Horizon] :
               w.starts < w.ends}
NoLoan == [hold |-> "none", cpu |-> 0, due |-> 0]

BookingInit ==
    /\ now = 0
    /\ holds = [h \in HoldNames |-> NoWindow]
    /\ loans = [t \in Scavengers |-> NoLoan]
    /\ slipped = {}
    /\ bookings = [b \in BookingNames |-> NoWindow]
    /\ fleetFree = FleetFree
    /\ batches = [b \in BookingNames |-> NoWindow]

brokerVars == <<bookings, fleetFree, batches>>
holdVars == <<holds, loans, slipped>>

\* A batch has ended when its window ends.
BookingTick ==
    /\ now < Horizon
    /\ \A b \in BookingNames : batches[b] # NoWindow => now + 1 < batches[b].ends
    /\ now' = now + 1
    /\ UNCHANGED <<holdVars, brokerVars>>

\* Both ledgers add up every window that meets this one, as if all of them
\* met each other.
Meets(w, v) == w.starts < v.ends /\ v.starts < w.ends
Peak(ledger, w) ==
    SumFunction([n \in DOMAIN ledger |-> IF Meets(ledger[n], w) THEN ledger[n].cpu ELSE 0])
At(ledger, tick) ==
    SumFunction([n \in DOMAIN ledger |->
        IF ledger[n].starts <= tick /\ tick < ledger[n].ends THEN ledger[n].cpu ELSE 0])

-----------------------------------------------------------------------------
(* Holds and loans *)

MayHold(w) == Peak(holds, w) + w.cpu <= Capacity

BookHold(h, w) ==
    /\ holds[h] = NoWindow
    /\ MayHold(w)
    /\ holds' = [holds EXCEPT ![h] = w]
    /\ UNCHANGED <<now, loans, slipped, brokerVars>>

\* The holds in S leave the ledger, which asks nobody who borrowed from them.
TakenOff(S) ==
    /\ holds' = [h \in HoldNames |-> IF h \in S THEN NoWindow ELSE holds[h]]
    /\ slipped' = slipped \union {h \in S : \E t \in Scavengers : loans[t].hold = h}

CancelHold(h) ==
    /\ holds[h] # NoWindow
    /\ TakenOff({h})
    /\ UNCHANGED <<now, loans, brokerVars>>

ExpireHolds ==
    /\ TakenOff({h \in HoldNames : holds[h].ends <= now})
    /\ UNCHANGED <<now, loans, brokerVars>>

Lent(h) == SumFunction([t \in Scavengers |-> IF loans[t].hold = h THEN loans[t].cpu ELSE 0])

\* Room in a hold for a loan that ends when its window opens.
Lends(h, cpu, needs) ==
    /\ holds[h].starts > now
    /\ Lent(h) + cpu <= holds[h].cpu
    /\ now + needs <= holds[h].starts

\* The hold that opens first lends.
Borrow(t, h, cpu, needs) ==
    /\ loans[t] = NoLoan
    /\ Lends(h, cpu, needs)
    /\ \A g \in HoldNames : Lends(g, cpu, needs) => holds[h].starts <= holds[g].starts
    /\ loans' = [loans EXCEPT ![t] = [hold |-> h, cpu |-> cpu, due |-> holds[h].starts]]
    /\ UNCHANGED <<now, holds, slipped, brokerVars>>

FinishLoan(t) ==
    /\ loans[t] # NoLoan
    /\ loans' = [loans EXCEPT ![t] = NoLoan]
    /\ UNCHANGED <<now, holds, slipped, brokerVars>>

SweepLoans ==
    /\ loans' = [t \in Scavengers |-> IF now >= loans[t].due THEN NoLoan ELSE loans[t]]
    /\ UNCHANGED <<now, holds, slipped, brokerVars>>

HoldNext ==
    \/ \E h \in HoldNames : CancelHold(h) \/ \E w \in Windows : w.ends > now /\ BookHold(h, w)
    \/ ExpireHolds \/ SweepLoans
    \/ \E t \in Scavengers :
          \/ FinishLoan(t)
          \/ \E h \in HoldNames, cpu \in 1..Capacity, needs \in 1..2 :
                Borrow(t, h, cpu, needs)

-----------------------------------------------------------------------------
(* The broker.  Others take capacity only after asking it. *)

BookWindow(b, w) ==
    /\ bookings[b] = NoWindow /\ batches[b] = NoWindow
    /\ w.cpu <= fleetFree - Peak(bookings, w)
    /\ bookings' = [bookings EXCEPT ![b] = w]
    /\ UNCHANGED <<now, fleetFree, batches, holdVars>>

Release(b) ==
    /\ bookings[b] # NoWindow
    /\ bookings' = [bookings EXCEPT ![b] = NoWindow]
    /\ UNCHANGED <<now, fleetFree, batches, holdVars>>

\* The batch of a booking comes in its window: it releases and takes.
Claim(b) ==
    /\ bookings[b].starts <= now /\ now < bookings[b].ends
    /\ bookings' = [bookings EXCEPT ![b] = NoWindow]
    /\ batches' = [batches EXCEPT ![b] = bookings[b]]
    /\ fleetFree' = fleetFree - bookings[b].cpu
    /\ UNCHANGED <<now, holdVars>>

\* It ends, by the end of its window.
Yield(b) ==
    /\ batches[b] # NoWindow
    /\ batches' = [batches EXCEPT ![b] = NoWindow]
    /\ fleetFree' = fleetFree + batches[b].cpu
    /\ UNCHANGED <<now, bookings, holdVars>>

\* Wrong: a scale-up looks at what is booked at this tick.
MayScaleNow(cpu) == cpu <= fleetFree - At(bookings, now)

\* A scale-up stays, so it clears every booking from now on.
MayScale(cpu) ==
    cpu <= fleetFree - Peak(bookings, [starts |-> now, ends |-> Horizon + 1])

ScaleUp(cpu) ==
    /\ MayScale(cpu)
    /\ fleetFree' = fleetFree - cpu
    /\ UNCHANGED <<now, bookings, batches, holdVars>>

ScaleDown(cpu) ==
    /\ fleetFree + SumFunction([b \in BookingNames |-> batches[b].cpu]) + cpu
          <= FleetFree
    /\ fleetFree' = fleetFree + cpu
    /\ UNCHANGED <<now, bookings, batches, holdVars>>

BrokerNext ==
    \/ \E b \in BookingNames : \/ Release(b) \/ Claim(b) \/ Yield(b)
                               \/ \E w \in Windows : BookWindow(b, w)
    \/ \E cpu \in 1..Capacity : ScaleUp(cpu) \/ ScaleDown(cpu)

-----------------------------------------------------------------------------
(* Properties *)

\* No tick is oversold by holds that meet at it, whatever is booked, cancelled
\* and booked again; and a loan is inside its hold and ends when that opens,
\* unless the hold was taken off the ledger and its name booked anew.
HoldsFit ==
    /\ \A tick \in 0..Horizon : At(holds, tick) <= Capacity
    /\ \A t \in Scavengers, h \in HoldNames \ slipped :
          loans[t].hold = h => /\ loans[t].due = holds[h].starts
                               /\ Lent(h) <= holds[h].cpu

\* If scale-ups ask the broker, what is booked at any tick to come is free by
\* then, so every batch finds its capacity.
BatchesFindRoom ==
    \A tick \in now..Horizon :
        At(bookings, tick) <= fleetFree
            + SumFunction([b \in BookingNames |->
                              IF batches[b].ends <= tick THEN batches[b].cpu ELSE 0])
=============================================================================
