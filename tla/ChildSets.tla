------------------------------ MODULE ChildSets ------------------------------
(***************************************************************************)
(* Two keepers of named children.                                          *)
(*                                                                         *)
(* An ordinal set (control/ordinals.py): children "set-0", "set-1", ...,   *)
(* born in order, retired in reverse, replaced one per call from the top.  *)
(* Around it the spec is edited, the engine starts children, children end, *)
(* are displaced, or are removed from the store by somebody else.  Only    *)
(* the set's own tasks are kept; a child is a phase and the revision label *)
(* it was stamped with.                                                    *)
(*                                                                         *)
(* A daemon set (control/daemons.py): one task for each node in the store, *)
(* bound to it without the scheduler.  Nodes join, leave and come back; a  *)
(* daemon may end, and the monitor may unbind it, after which the          *)
(* scheduler is free to place it anywhere.  A daemon is named by the node  *)
(* it was made for.                                                        *)
(***************************************************************************)
EXTENDS Integers, FiniteSets

CONSTANTS
    MaxCount,       \* bound: the largest count a spec asks for (at most 100)
    MaxRevision,    \* bound: the last revision of the template
    MaxHarm         \* bound: children that end, are displaced or removed

ASSUME OrdinalBounds ==
    /\ MaxCount \in 1..100
    /\ MaxRevision \in Nat \ {0}
    /\ MaxHarm \in Nat

VARIABLES
    children,   \* the set's tasks in the store, by ordinal
    wanted,     \* the spec: a count and a revision
    struck      \* ordinals that were struck, with the number of blows so far

ordinalVars == <<children, wanted, struck>>

Ordinals == 0..(MaxCount - 1)
Missing == [phase |-> "none", revision |-> 0]
Child == [phase : {"Pending", "Bound", "Running", "Succeeded", "Failed"},
          revision : 1..MaxRevision]

OrdinalInit ==
    /\ children = [o \in Ordinals |-> Missing]
    /\ wanted \in [count : 1..MaxCount, revision : {1}]
    /\ struck = [who |-> {}, blows |-> 0]

-----------------------------------------------------------------------------
(* The keeper of an ordinal set *)

Held(o) == children[o] # Missing
Ended(o) == children[o].phase \in {"Succeeded", "Failed"}
Fresh == [phase |-> "Pending", revision |-> wanted.revision]
Asked == {o \in Ordinals : o < wanted.count}

\* The first loop stops at the lowest ordinal that is missing or has ended.
Troubled == {o \in Asked : ~Held(o) \/ Ended(o)}
Lowest(S) == CHOOSE o \in S : \A p \in S : o <= p
Highest(S) == CHOOSE o \in S : \A p \in S : o >= p

\* A missing child waits for its elder to run; one that has ended is removed
\* and added again at once.
Bear ==
    /\ Troubled # {}
    /\ LET o == Lowest(Troubled) IN
          /\ ~Held(o) /\ o > 0 => children[o - 1].phase = "Running"
          /\ children' = [children EXCEPT ![o] = Fresh]
    /\ UNCHANGED <<wanted, struck>>

\* The second loop stops at the highest child of another revision, and
\* replaces it if it runs.
Replace ==
    LET outdated == {o \in Asked : children[o].revision # wanted.revision} IN
    /\ Troubled = {}
    /\ outdated # {}
    /\ LET o == Highest(outdated) IN
          /\ children[o].phase = "Running"
          /\ children' = [children EXCEPT ![o] = Fresh]
    /\ UNCHANGED <<wanted, struck>>

\* The order of the names "set-o" and "set-p", which is that of strings.
LaterName(o, p) ==
    \/ (o < 10) = (p < 10) /\ o > p
    \/ o < 10 /\ p >= 10 /\ o > p \div 10
    \/ o >= 10 /\ p < 10 /\ o \div 10 >= p

\* With nothing missing and nothing outdated, the straggler whose name comes
\* last goes.
Retire ==
    LET stragglers == {o \in Ordinals \ Asked : Held(o)} IN
    /\ Troubled = {}
    /\ \A o \in Asked : children[o].revision = wanted.revision
    /\ \E o \in stragglers :
          /\ \A p \in stragglers \ {o} : LaterName(o, p)
          /\ children' = [children EXCEPT ![o] = Missing]
    /\ UNCHANGED <<wanted, struck>>

KeepOrdinals == Bear \/ Replace \/ Retire

-----------------------------------------------------------------------------
(* What goes on around it *)

\* An operator asks for another count or the next revision.
EditSet ==
    /\ \E c \in 1..MaxCount, r \in {wanted.revision, wanted.revision + 1} :
          /\ r <= MaxRevision
          /\ wanted' = [count |-> c, revision |-> r]
    /\ UNCHANGED <<children, struck>>

\* The engine binds a child, and its probe comes up.
Start(o) ==
    /\ children[o].phase \in {"Pending", "Bound"}
    /\ children' = [children EXCEPT ![o].phase =
                       IF @ = "Pending" THEN "Bound" ELSE "Running"]
    /\ UNCHANGED <<wanted, struck>>

\* A child ends, is displaced, or is removed by someone else.
Strike(o) ==
    /\ struck.blows < MaxHarm
    /\ Held(o) /\ ~Ended(o)
    /\ \/ \E how \in {"Succeeded", "Failed", "Pending"} :
             /\ children[o].phase \in {"Bound", "Running"}
             /\ children' = [children EXCEPT ![o].phase = how]
       \/ children' = [children EXCEPT ![o] = Missing]
    /\ struck' = [who |-> struck.who \union {o}, blows |-> struck.blows + 1]
    /\ UNCHANGED wanted

OrdinalNext ==
    \/ KeepOrdinals \/ EditSet
    \/ \E o \in Ordinals : Start(o) \/ Strike(o)

-----------------------------------------------------------------------------
(* What an ordinal set promises *)

\* Birth is ordered and retirement is its reverse: below a child that lives
\* nobody is missing except where a child was struck, over edits of the count
\* and the revision at any moment of a rollout.  (Revisions are in no such
\* order: a straggler keeps its old one and may be asked for again.)
OrdinalsInOrder ==
    /\ children \in [Ordinals -> Child \union {Missing}]
    /\ \A o, p \in Ordinals : o < p /\ Held(p) /\ o \notin struck.who => Held(o)

\* Every child wanted runs at the wanted revision, and there is no other.
OrdinalsSettled ==
    \A o \in Ordinals :
        children[o] = IF o \in Asked
                      THEN [phase |-> "Running", revision |-> wanted.revision]
                      ELSE Missing

-----------------------------------------------------------------------------
(* The keeper of a daemon set *)

CONSTANTS
    Machines,       \* names of nodes
    NoMachine,      \* the home of an unbound daemon
    MaxMoves        \* bound: joins, leaves, ends and displacements

VARIABLES
    machines,   \* the nodes in the store
    daemons,    \* the set's tasks in the store, by the node they are named for
    touched,    \* names of the daemons the monitor unbound since they were made
    moves       \* joins, leaves, ends and displacements so far

daemonVars == <<machines, daemons, touched, moves>>

NoDaemon == [phase |-> "none", home |-> NoMachine]
Daemon == [phase : {"Pending", "Bound", "Running", "Failed"},
           home : Machines \union {NoMachine}]

DaemonInit ==
    /\ machines \in SUBSET Machines
    /\ daemons = [m \in Machines |-> NoDaemon]
    /\ touched = {}
    /\ moves = 0

Made == {m \in Machines : daemons[m] # NoDaemon}

\* Wrong: a stranded daemon is left to its node's successor.
FollowKeeping ==
    /\ Made \intersect machines # machines
    /\ daemons' = [m \in Machines |->
          IF m \in Made \/ m \notin machines THEN daemons[m]
          ELSE [phase |-> "Bound", home |-> m]]
    /\ touched' = touched \intersect Made
    /\ UNCHANGED <<machines, moves>>

\* One call: a daemon for every node that has none by name, bound to it, and
\* every daemon whose node has gone removed.
Follow ==
    /\ Made # machines
    /\ daemons' = [m \in Machines |->
          IF m \notin machines THEN NoDaemon
          ELSE IF m \in Made THEN daemons[m]
          ELSE [phase |-> "Bound", home |-> m]]
    /\ touched' = touched \intersect Made \intersect machines
    /\ UNCHANGED <<machines, moves>>

Join(m) ==
    /\ m \notin machines
    /\ machines' = machines \union {m}
    /\ UNCHANGED <<daemons, touched>>

\* store.remove_node asks nothing of the tasks aboard.
Leave(m) ==
    /\ m \in machines
    /\ machines' = machines \ {m}
    /\ UNCHANGED <<daemons, touched>>

RunDaemon(m) ==
    /\ daemons[m].phase = "Bound"
    /\ daemons' = [daemons EXCEPT ![m].phase = "Running"]
    /\ UNCHANGED <<machines, touched, moves>>

EndDaemon(m) ==
    /\ daemons[m].phase \in {"Bound", "Running"}
    /\ daemons' = [daemons EXCEPT ![m].phase = "Failed"]
    /\ UNCHANGED <<machines, touched>>

\* The monitor unbinds the tasks of a silent node (control/nodes.py).
Displace(m) ==
    /\ daemons[m].phase \in {"Bound", "Running"}
    /\ daemons' = [daemons EXCEPT ![m] = [phase |-> "Pending", home |-> NoMachine]]
    /\ touched' = touched \union {m}
    /\ UNCHANGED machines

\* The scheduler takes any node that is in the store (sched/core.py).
PlaceDaemon(m) ==
    /\ daemons[m].phase = "Pending"
    /\ \E n \in machines :
          daemons' = [daemons EXCEPT ![m] = [phase |-> "Bound", home |-> n]]
    /\ UNCHANGED <<machines, touched, moves>>

DaemonNext ==
    \/ Follow
    \/ \E m \in Machines : RunDaemon(m) \/ PlaceDaemon(m)
    \/ /\ moves < MaxMoves
       /\ moves' = moves + 1
       /\ \E m \in Machines : Join(m) \/ Leave(m) \/ EndDaemon(m) \/ Displace(m)

-----------------------------------------------------------------------------
(* What a daemon set promises *)

\* A daemon tends the node it is named for, however often nodes of that name
\* left and came back, unless the monitor has unbound it: the keeper does not
\* look where a daemon of the right name is.
DaemonsAtHome ==
    /\ daemons \in [Machines -> Daemon \union {NoDaemon}]
    /\ \A m \in Made : daemons[m].home # m => m \in touched

\* The daemons are exactly those of the nodes in the store.
DaemonsCover == Made = machines
=============================================================================
