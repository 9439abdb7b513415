------------------------------ MODULE Renewal ------------------------------
(***************************************************************************)
(* How the iron of a pool is renewed: node by node (poolrefresh.py over    *)
(* runbooks.py), through probation (burnin.py, canaryrefresh.py), by the   *)
(* book with its skew gate (upgradebook.py, skewpolicy.py), and by a robot *)
(* with a budget (remediation.py).  The refreshes share the fleet; the     *)
(* book and the robot have state of their own.                             *)
(***************************************************************************)
EXTENDS Integers, FiniteSets, FiniteSetsExt, Functions

CONSTANTS
    Pool,           \* the incumbents, numbered in the order of their names
    Probation,
    MaxMeddling,    \* bound: what others do to the nodes
    Window,         \* minor versions a node may lag
    MaxMinor,       \* bound: of versions
    Findings, FixBudget, FixWindow

ASSUME RenewalAssumption ==
    /\ Probation \in Nat /\ Window \in Nat
    /\ Pool # {} /\ Pool \subseteq Nat \ {0} /\ IsFiniteSet(Pool)
    /\ Findings \subseteq Nat /\ IsFiniteSet(Findings)
    /\ FixBudget \in Nat \ {0} /\ FixWindow \in Nat \ {0} /\ MaxMinor \in Nat

VARIABLES
    iron,       \* [node -> Missing, Fenced or Open]
    joined,     \* [node -> ticks since it joined], for nodes on probation
    blamed,     \* nodes a canary failed on, by name
    done,       \* RefreshLedger.replaced
    round,      \* the incumbent the cautious refresh is at, 0 at rest
    meddled,    \* acts of others
    control,    \* the version of the control plane
    gate,       \* [node -> version], for the nodes the gate knows
    real,       \* [node -> version] of the nodes that run
    spent,      \* ages of the fixes in the window
    paged,      \* findings that were escalated and not fixed since
    pages       \* [finding -> how often it was escalated since its last fix]

ironVars == <<iron, joined, blamed, done, round, meddled>>
bookVars == <<control, gate, real>>
robotVars == <<spent, paged, pages>>

-----------------------------------------------------------------------------
(* The nodes *)

Missing == "missing"
Fenced == "fenced"
Open == "open"

Fresh(p) == <<p, "replacement">>
Next_(p) == <<p, "next">>
Old(p) == <<p, "old">>
Iron == Pool \X {"old", "replacement", "next"}

RenewalInit ==
    /\ iron = [n \in Iron |-> IF n[2] = "old" THEN Open ELSE Missing]
    /\ joined = [n \in {} |-> 0]
    /\ blamed = {}
    /\ done = {}
    /\ round = 0
    /\ meddled = 0

\* What others do: take a node away, or put one of that name up.
Meddle(n) ==
    /\ meddled < MaxMeddling /\ round = 0
    /\ iron' = [iron EXCEPT ![n] = IF @ = Missing THEN Open ELSE Missing]
    /\ meddled' = meddled + 1
    /\ UNCHANGED <<joined, blamed, done, round>>

-----------------------------------------------------------------------------
(* The pool refresh *)

Remaining == Pool \ done

\* The first name that is left.  It is gone already, or its replacement is
\* provisioned, the node is retired, and a pass of the engine places its tasks.
\* If the pass raises, the ledger does not hear of it.
RefreshStep(raises) ==
    LET p == Min(Remaining)
        gone == iron[Old(p)] = Missing
        swaps == ~gone /\ iron[Fresh(p)] = Missing
    IN /\ Remaining # {} /\ round = 0
       /\ iron' = IF swaps THEN [iron EXCEPT ![Fresh(p)] = Open, ![Old(p)] = Missing]
                  ELSE iron
       /\ done' = IF gone \/ (swaps /\ ~raises) THEN done \union {p} ELSE done
       /\ UNCHANGED <<joined, blamed, round, meddled>>

-----------------------------------------------------------------------------
(* Burn-in *)

Join(n) ==
    /\ iron[n] = Missing
    /\ iron' = [iron EXCEPT ![n] = Fenced]
    /\ joined' = [m \in DOMAIN joined \union {n} |-> IF m = n THEN 0 ELSE joined[m]]

\* Failures are kept by name, and are never forgotten.
Verdict(n, age, blame) ==
    IF n \in blame THEN "rejected" ELSE IF age >= Probation THEN "graduated" ELSE "waits"

\* Graduation wipes all taints of the node; one that is gone is forgotten.
Swept(nodes, ages, blame) ==
    LET is(n, v) == /\ n \in DOMAIN ages /\ nodes[n] # Missing
                    /\ Verdict(n, ages[n], blame) = v
    IN [iron |-> [n \in Iron |-> IF is(n, "rejected") THEN Missing
                                 ELSE IF is(n, "graduated") THEN Open ELSE nodes[n]],
        joined |-> [n \in {m \in DOMAIN ages : is(m, "waits")} |-> ages[n]]]

JoinIron(n) ==
    /\ round = 0 /\ Join(n)
    /\ UNCHANGED <<blamed, done, round, meddled>>

CanaryFails(n) ==
    /\ round = 0 /\ n \in DOMAIN joined
    /\ blamed' = blamed \union {n}
    /\ UNCHANGED <<iron, joined, done, round, meddled>>

SweepBurnIn ==
    LET after == Swept(iron, joined, blamed)
    IN /\ round = 0
       /\ iron' = after.iron /\ joined' = after.joined
       /\ UNCHANGED <<blamed, done, round, meddled>>

BurnInTime ==
    /\ round = 0
    /\ joined' = [n \in DOMAIN joined |->
                     IF joined[n] < Probation THEN joined[n] + 1 ELSE joined[n]]
    /\ UNCHANGED <<iron, blamed, done, round, meddled>>

-----------------------------------------------------------------------------
(* The cautious refresh: one call, a round for each incumbent.  It ends with   *)
(* an exception where an incumbent is gone or a successor's name is taken.     *)

BeginCautious ==
    /\ round = 0
    /\ round' = Min(Pool)
    /\ UNCHANGED <<iron, joined, blamed, done, meddled>>

CautiousRound(bad) ==
    LET p == round
        n == Next_(p)
        ages == [m \in DOMAIN joined \union {n} |-> Probation]
        blame == IF bad THEN blamed \union {n} ELSE blamed
        swept == Swept([iron EXCEPT ![n] = Fenced], ages, blame)
    IN /\ round # 0
       /\ UNCHANGED <<done, meddled>>
       /\ IF iron[Old(p)] = Missing \/ iron[n] # Missing
          THEN round' = 0 /\ UNCHANGED <<iron, joined, blamed>>
          ELSE /\ blamed' = blame
               /\ joined' = swept.joined
               /\ IF n \in blame
                  THEN round' = 0 /\ iron' = swept.iron
                  ELSE /\ round' = IF p + 1 \in Pool THEN p + 1 ELSE 0
                       /\ iron' = [swept.iron EXCEPT ![Old(p)] = Missing]

RenewalNext ==
    \/ SweepBurnIn \/ BurnInTime \/ BeginCautious
    \/ \E b \in BOOLEAN : RefreshStep(b) \/ CautiousRound(b)
    \/ \E p \in Pool : JoinIron(Next_(p)) \/ Meddle(Old(p)) \/ Meddle(Fresh(p))
    \/ \E n \in Iron : CanaryFails(n)

-----------------------------------------------------------------------------
(* The skew gate and the upgrade book.  Versions are minors of one major.   *)

Unknown == -1
Gap(c, v) == c - v
Boards == Pool

BookInit ==
    /\ control = 0
    /\ gate = [p \in Boards |-> Unknown]
    /\ real = [p \in Boards |-> Unknown]

Admits(c, v) == Gap(c, v) \in 0..Window

AdmitNode(p, v) ==
    /\ Admits(control, v)
    /\ gate' = [gate EXCEPT ![p] = v]
    /\ real' = [real EXCEPT ![p] = v]
    /\ UNCHANGED control

Orphans(c) == {p \in Boards : gate[p] # Unknown /\ Gap(c, gate[p]) > Window}

\* A move down is a move like any other.
UpgradeControl(c) ==
    /\ Orphans(c) = {}
    /\ control' = c
    /\ UNCHANGED <<gate, real>>

\* The whole book: the control plane moves, the iron is replaced and comes up at
\* v, the gate forgets what it knew and admits the nodes one by one, until the
\* first that it refuses.
RunBook(c, v, stalls) ==
    /\ Orphans(c) = {}
    /\ control' = c
    /\ IF stalls THEN UNCHANGED <<gate, real>>
       ELSE /\ real' = [p \in Boards |-> v]
            /\ gate' = [p \in Boards |-> IF Admits(c, v) THEN v ELSE Unknown]

BookNext ==
    \E c \in 0..MaxMinor :
       \/ UpgradeControl(c)
       \/ \E p \in Boards : AdmitNode(p, c)
       \/ \E v \in 0..MaxMinor, stalls \in BOOLEAN : RunBook(c, v, stalls)

-----------------------------------------------------------------------------
(* The robot *)

RobotInit ==
    /\ spent = [a \in 0..(FixWindow - 1) |-> 0]
    /\ paged = {}
    /\ pages = [f \in Findings |-> 0]

Left == FixBudget - SumFunction(spent)

\* One sweep over what the detector finds, in order: the first ones are fixed as
\* far as the budget goes, the others escalated unless they were.
RemediatorSweep(found) ==
    LET fixed == {f \in found : Cardinality({g \in found : g < f}) < Left}
        rest == found \ fixed
    IN /\ spent' = [spent EXCEPT ![0] = @ + Cardinality(fixed)]
       /\ paged' = (paged \ fixed) \union rest
       /\ pages' = [f \in Findings |-> IF f \in fixed THEN 0
                                       ELSE IF f \in rest \ paged THEN pages[f] + 1
                                       ELSE pages[f]]

RobotTime ==
    /\ spent' = [a \in DOMAIN spent |-> IF a = 0 THEN 0 ELSE spent[a - 1]]
    /\ UNCHANGED <<paged, pages>>

RobotNext == RobotTime \/ \E found \in SUBSET Findings : RemediatorSweep(found)

-----------------------------------------------------------------------------
(* Properties *)

\* poolrefresh.py: "the fleet never smaller": without the others there are as
\* many open nodes as incumbents, whatever is refused, rejected or resumed.
NeverSmaller ==
    meddled = 0 => Cardinality({n \in Iron : iron[n] = Open}) >= Cardinality(Pool)

\* What the ledger calls replaced was taken out of the fleet by somebody; an
\* incumbent that came back by the same name is taken for replaced.
LedgerIsTrue == meddled = 0 => \A p \in done : iron[Old(p)] = Missing

\* burnin.py: production goes only to what served its window clean: a node on
\* which a canary failed never gets from behind the fence into service.
RejectedStayOut ==
    [][\A n \in DOMAIN joined : iron[n] = Fenced /\ iron'[n] = Open
          => n \notin blamed /\ (round = 0 => joined[n] >= Probation)]_ironVars

\* skewpolicy.py: "a control plane upgrade that would orphan running nodes past
\* the window is itself refused": no node the gate knows lags further.
NobodyOrphaned ==
    \A p \in Boards : gate[p] # Unknown =>
        gate[p] = real[p] /\ Gap(control, gate[p]) <= Window

\* remediation.py: the robot stops at its budget in every window, a person is
\* called once for what it could not fix, and again only after a fix.
RobotStops ==
    /\ SumFunction(spent) <= FixBudget
    /\ \A f \in Findings : pages[f] <= 1 /\ (pages[f] = 1 <=> f \in paged)
=============================================================================
