-------------------------------- MODULE Reigns --------------------------------
(***************************************************************************)
(* What leader election with fencing promises (fleet/leaderelect.py): the  *)
(* writes a store accepts fall into reigns.  Each reign has one owner, and *)
(* once a reign has written, no earlier reign writes again.                *)
(***************************************************************************)
EXTENDS Naturals, Sequences

CONSTANT Candidates

VARIABLES
    owners,   \* the owner of each reign so far
    log       \* the accepted writes, [by, token] with the reign as its token

Init == owners = <<>> /\ log = <<>>

\* A reign may begin and a write be accepted in the same step.
Crowned == owners' = owners \/ \E c \in Candidates : owners' = Append(owners, c)

Latest == IF log = <<>> THEN 1 ELSE log[Len(log)].token

Written ==
    \/ log' = log
    \/ \E r \in Latest..Len(owners') :
          log' = Append(log, [by |-> owners'[r], token |-> r])

Next == Crowned /\ Written

Spec == Init /\ [][Next]_<<owners, log>>
=============================================================================
