------------------------------- MODULE MCFleet -------------------------------
(***************************************************************************)
(* TLC instances of Fleet: three or four tasks on two nodes.  The first    *)
(* two tasks are the ordinals of a deployment wherever there is one.       *)
(***************************************************************************)
EXTENDS Fleet

NeedOne == [t \in Tasks |-> 1]
NeedOf == [t \in Tasks |-> IF t < 3 THEN 1 ELSE 2]

CapacityOf == [m \in Nodes |-> 2]
SmallSecond == [m \in Nodes |-> IF m = 2 THEN 1 ELSE 2]

\* The ordinals share a template, so a priority: normal beside batch.
CheapOther == [t \in Tasks |-> IF t < 3 THEN 100 ELSE 10]
\* Two batch tasks that together cost more than a normal one, and a dearer
\* normal task that may displace only the former.
TwoBatch == [t \in Tasks |-> CASE t < 3 -> 90 [] t = 3 -> 120 [] OTHER -> 150]

Everywhere == [t \in Tasks |-> Nodes]
NoRepulsion == {}

OneFloor == {[covered |-> {1, 2}, floor |-> 1]}
\* The third task shares a floor with the second, so the guard is asked about
\* the victims of a preemption too.
TwoFloors == OneFloor \cup {[covered |-> {2, 3}, floor |-> 1]}

NoChildren == <<>>
TwoChildren == <<1, 2>>
=============================================================================
