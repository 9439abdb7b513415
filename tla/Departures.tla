----------------------------- MODULE Departures -----------------------------
(***************************************************************************)
(* The two ledgers that take tasks out of the store: finalizers, where a   *)
(* deletion waits for every janitor's signature (control/finalizers.py),   *)
(* and owner references, where a deletion cascades or orphans              *)
(* (control/owners.py).  They share the store and nothing else: a cascade  *)
(* asks no janitor, and a name that went behind a ledger's back may be     *)
(* taken again by a new task.                                              *)
(***************************************************************************)
EXTENDS Integers, FiniteSets

CONSTANTS
    Members,    \* names of tasks
    Janitors,   \* holders of finalizers
    Nobody,     \* stands for no owner
    MaxBirths   \* bound: tasks ever added

ASSUME DepartureAssumption ==
    /\ IsFiniteSet(Members)
    /\ Nobody \notin Members

VARIABLES
    present,    \* names of the tasks in the store
    finalizers, \* the signatures still owed, by name
    leaving,    \* names whose deletion was requested and waits
    ownerOf,    \* the owner a name refers to, or Nobody
    births,     \* tasks added so far
    asked,      \* names whose present task somebody asked to delete
    bypassed    \* names that went by the owners' ledger while they were leaving

departureVars ==
    <<present, finalizers, leaving, ownerOf, births, asked, bypassed>>

DepartureInit ==
    /\ present = {}
    /\ finalizers = [t \in Members |-> {}]
    /\ leaving = {}
    /\ ownerOf = [t \in Members |-> Nobody]
    /\ births = 0
    /\ asked = {}
    /\ bypassed = {}

\* A controller adds a task under a free name.
Appear(t) ==
    /\ births < MaxBirths
    /\ t \notin present
    /\ present' = present \union {t}
    /\ births' = births + 1
    /\ UNCHANGED <<finalizers, leaving, ownerOf, asked, bypassed>>

\* The tasks in S go.
Gone(S) ==
    /\ present' = present \ S
    /\ asked' = asked \ S

-----------------------------------------------------------------------------
(* Finalizers *)

\* The ledger does not look whether the task exists.
Protect(t, j) ==
    /\ t \notin leaving
    /\ finalizers' = [finalizers EXCEPT ![t] = @ \union {j}]
    /\ UNCHANGED <<present, leaving, ownerOf, births, asked, bypassed>>

\* Without finalizers the task goes at once, and an entry in leaving stays.
RequestDelete(t) ==
    /\ t \in present
    /\ IF finalizers[t] = {}
       THEN /\ Gone({t})
            /\ UNCHANGED leaving
       ELSE /\ leaving' = leaving \union {t}
            /\ asked' = asked \union {t}
            /\ UNCHANGED present
    /\ UNCHANGED <<finalizers, ownerOf, births, bypassed>>

\* The last signature of a leaving task removes it; the ledger forgets it
\* first, and the store raises if it is not there.
Clear(t, j) ==
    /\ j \in finalizers[t]
    /\ finalizers' = [finalizers EXCEPT ![t] = @ \ {j}]
    /\ IF finalizers[t] = {j} /\ t \in leaving
       THEN /\ leaving' = leaving \ {t}
            /\ bypassed' = bypassed \ {t}
            /\ Gone({t})
       ELSE UNCHANGED <<leaving, bypassed, present, asked>>
    /\ UNCHANGED <<ownerOf, births>>

-----------------------------------------------------------------------------
(* Owners *)

\* The names on the way from t up; a name already seen ends the walk.
Chain(t) ==
    LET up[n \in 0..Cardinality(Members)] ==
          IF n = 0 THEN {t}
          ELSE up[n - 1] \union ({ownerOf[u] : u \in up[n - 1]} \ {Nobody})
    IN up[Cardinality(Members)]

Subtree(t) == {u \in Members : t \in Chain(u)}

\* Wrong: only the owner's own reference is looked at.
MayLinkShallow(child, owner) ==
    /\ child # owner
    /\ ownerOf[owner] # child

\* A link is refused if the walk up from the owner meets the child.
MayLink(child, owner) == child \notin Chain(owner)

\* Neither end need exist, and a second link replaces the first.
Link(child, owner) ==
    /\ MayLink(child, owner)
    /\ ownerOf' = [ownerOf EXCEPT ![child] = owner]
    /\ UNCHANGED <<present, finalizers, leaving, births, asked, bypassed>>

\* The names S leave the store by this ledger.
Bypass(S) ==
    /\ Gone(S)
    /\ bypassed' = bypassed \union (S \intersect present \intersect leaving)

\* Everything below goes, leaves first, with its reference.
DeleteCascading(t) ==
    /\ Bypass(Subtree(t))
    /\ ownerOf' = [u \in Members |->
                      IF u \in Subtree(t) THEN Nobody ELSE ownerOf[u]]
    /\ UNCHANGED <<finalizers, leaving, births>>

\* The children are freed before the store is asked for the owner: if it is
\* not there they are free all the same, and its own reference stays.
DeleteOrphaning(t) ==
    /\ ownerOf' = [u \in Members |->
                      IF ownerOf[u] = t \/ (u = t /\ t \in present)
                      THEN Nobody ELSE ownerOf[u]]
    /\ Bypass({t})
    /\ UNCHANGED <<finalizers, leaving, births>>

DepartureNext ==
    \/ \E t \in Members : \/ Appear(t) \/ RequestDelete(t)
                          \/ DeleteCascading(t) \/ DeleteOrphaning(t)
    \/ \E t \in Members, j \in Janitors : Protect(t, j) \/ Clear(t, j)
    \/ \E t, u \in Members : Link(t, u)

-----------------------------------------------------------------------------
(* Properties *)

\* What is leaving waits for a signature, so it cannot be left waiting for
\* nobody; it exists and its deletion was asked for, unless the owners' ledger
\* took the task away (then a successor of its name goes at the last
\* signature, though nobody asked for that); and references form a forest,
\* over links, links replaced, cascades and orphanings that half fail.
DeparturesConsistent ==
    /\ \A t \in leaving : /\ finalizers[t] # {}
                          /\ t \in asked \/ t \in bypassed
    /\ asked \subseteq present \intersect leaving
    /\ bypassed \subseteq leaving
    /\ \A t \in Members : ownerOf[t] # Nobody => t \notin Chain(ownerOf[t])

\* A task whose deletion was asked for goes, once the janitors do their work.
AskedGo == \A t \in Members : t \in asked ~> t \notin asked
=============================================================================
