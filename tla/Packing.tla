------------------------------ MODULE Packing ------------------------------
(***************************************************************************)
(* Who shares a node with whom: gangs that are placed whole                *)
(* (sched/gang.py) and the rebalancer that moves tasks together            *)
(* (sched/defrag.py) over one store, and a node whose tenants may use more *)
(* than they asked for (sched/qos.py), by itself.  Hosts are ready and of  *)
(* one size; theirs is one resource, the node has cpu and memory.          *)
(***************************************************************************)
EXTENDS Integers, FiniteSets, FiniteSetsExt, Functions

CONSTANTS
    Hosts,          \* numbered in the order of their names
    HostSize,
    Gangs,          \* [gang -> [members, each]], gangs numbered from 1
    LoneNeed,       \* what the task outside the gangs needs
    MoveBudget,
    Leash,          \* members of the first gang the guard keeps
    MaxUpsets,      \* bound: tasks that are displaced
    Asks,           \* [tenant -> [request, limit]], tenants numbered by name, each
                    \* an amount [cpu, memory]
    Bursts,         \* bound: the amounts a tenant sets out to use
    NodeSize

FitsIn(amount, room) == amount.cpu <= room.cpu /\ amount.memory <= room.memory

ASSUME AsksAreValid == \A a \in DOMAIN Asks : FitsIn(Asks[a].request, Asks[a].limit)

VARIABLES
    home,       \* the host of each task, or Waiting, or Away
    upset,      \* tasks that were displaced since they came
    upsets,     \* tasks displaced so far
    using,      \* [tenant of the node -> what it uses]
    relief      \* whether pressure was relieved last, and whom that evicted, at what
                \* use, while what was short

packVars == <<home, upset, upsets>>
pressureVars == <<using, relief>>

Away == -1
Waiting == -2

Gang(g) == {<<g, k>> : k \in 0..(Gangs[g].members - 1)}
Lone == <<0, 0>>
Packed == UNION {Gang(g) : g \in DOMAIN Gangs} \union {Lone}
Need(t) == IF t = Lone THEN LoneNeed ELSE Gangs[t[1]].each

Load(h, n) == SumFunction([t \in {u \in Packed : h[u] = n} |-> Need(t)])
Free(h, n) == HostSize - Load(h, n)

PackInit ==
    /\ home = [t \in Packed |-> Away]
    /\ upset = {}
    /\ upsets = 0

-----------------------------------------------------------------------------
(* Gangs *)

\* The members are placed on paper in their order, each on the first host with
\* room left by those before it; a member without one is homeless.
Rehearsed(g) ==
    LET seats == {<<n, Free(home, n) \div Gangs[g].each>> : n \in Hosts}
        upTo(n) == MapThenSumSet(LAMBDA s : s[2], {s \in seats : s[1] <= n})
        filled == {<<n, upTo(n)>> : n \in Hosts}
        last(k) == {f[1] : f \in {f \in filled : f[2] > k}}
    IN [k \in 0..(Gangs[g].members - 1) |->
           IF last(k) = {} THEN Waiting ELSE Min(last(k))]

\* Members are added and bound one by one; at a name that is taken the store
\* raises, and those before it stay.
AdmitGang(g) ==
    \E seat \in {Rehearsed(g)} :
    LET taken == {k \in DOMAIN seat : home[<<g, k>>] # Away}
        come == {k \in DOMAIN seat : \A j \in taken : k < j}
    IN /\ \A k \in DOMAIN seat : seat[k] # Waiting
       /\ home' = [t \in Packed |->
              IF t \in Gang(g) /\ t[2] \in come THEN seat[t[2]] ELSE home[t]]
       /\ upset' = upset \ {<<g, k>> : k \in come}
       /\ UNCHANGED upsets

\* Another caller adds a task, to be placed by the engine.
AddLone ==
    /\ home[Lone] = Away
    /\ home' = [home EXCEPT ![Lone] = Waiting]
    /\ UNCHANGED <<upset, upsets>>

PlaceOne(t) ==
    /\ home[t] = Waiting
    /\ \E n \in Hosts : /\ Need(t) <= Free(home, n)
                        /\ home' = [home EXCEPT ![t] = n]
    /\ UNCHANGED <<upset, upsets>>

\* A drain, or a preemption, unbinds a task.
Upset(t) ==
    /\ upsets < MaxUpsets
    /\ home[t] \in Hosts
    /\ home' = [home EXCEPT ![t] = Waiting]
    /\ upset' = upset \union {t}
    /\ upsets' = upsets + 1

Depart(t) ==
    /\ home[t] # Away
    /\ home' = [home EXCEPT ![t] = Away]
    /\ upset' = upset \ {t}
    /\ UNCHANGED upsets

-----------------------------------------------------------------------------
(* The rebalancer *)

\* Wrong: that the move is uphill is assumed, not required.
UphillAssumed(from, to) == to # from

\* Towards the fuller host, or among equals towards the smaller name.
Uphill(from, to) == to.load > from.load \/ (to.load = from.load /\ to.name < from.name)

\* One move: of a task on the emptiest host that has one to move, the first by
\* name, to the fullest host it can go to.
Moved(h) ==
    LET hosts == {[name |-> n, load |-> Load(h, n)] : n \in Hosts}
        moves == {m \in [task : Packed, from : hosts, to : hosts] :
                     /\ m.from.name = h[m.task] /\ Uphill(m.from, m.to)
                     /\ Need(m.task) <= HostSize - m.to.load}
        emptier(a, b) == a.load < b.load \/ (a.load = b.load /\ a.name < b.name)
        fuller(a, b) == a.load > b.load \/ (a.load = b.load /\ a.name < b.name)
        before(t, u) == t[1] < u[1] \/ (t[1] = u[1] /\ t[2] < u[2])
        best == CHOOSE m \in moves : \A o \in moves \ {m} :
                   \/ emptier(m.from, o.from)
                   \/ m.from = o.from /\ before(m.task, o.task)
                   \/ m.task = o.task /\ fuller(m.to, o.to)
    IN IF moves = {} THEN h ELSE [h EXCEPT ![best.task] = best.to.name]

Rebalance ==
    LET after[n \in 0..MoveBudget] == IF n = 0 THEN home ELSE Moved(after[n - 1])
    IN home' = after[MoveBudget]
    /\ UNCHANGED <<upset, upsets>>

\* The guard covers the first gang: it lets go what leaves Leash of it active.
Covered(h) == {t \in Gang(1) : h[t] \in Hosts}
MayMove(h, t) == t \notin Gang(1) \/ Cardinality(Covered(h)) - 1 >= Leash

\* A move at a time, put back if the guard refuses; the first refusal ends the run.
Blessed(h) ==
    LET moved == Moved(h)
    IN IF \A t \in Packed : moved[t] # h[t] => MayMove(h, t) THEN moved ELSE h

Descheduled(h) ==
    LET after[n \in 0..MoveBudget] == IF n = 0 THEN h ELSE Blessed(after[n - 1])
    IN after[MoveBudget]

Deschedule ==
    /\ home' = Descheduled(home)
    /\ UNCHANGED <<upset, upsets>>

PackNext ==
    \/ Rebalance \/ Deschedule \/ AddLone
    \/ \E g \in DOMAIN Gangs : AdmitGang(g)
    \/ \E t \in Packed : PlaceOne(t) \/ Upset(t) \/ Depart(t)

-----------------------------------------------------------------------------
(* A node under pressure *)

Tenants == DOMAIN using
Calm == [given |-> FALSE, evicted |-> {}]
NoAmount == [cpu |-> 0, memory |-> 0]

\* Resources.plus over all of a function.
Together(amounts) ==
    [cpu |-> SumFunction([a \in DOMAIN amounts |-> amounts[a].cpu]),
     memory |-> SumFunction([a \in DOMAIN amounts |-> amounts[a].memory])]

PressureInit ==
    /\ using = [a \in {} |-> NoAmount]
    /\ relief = Calm

AdmitAsk(a) ==
    /\ a \notin Tenants
    /\ FitsIn(Together([b \in Tenants \union {a} |-> Asks[b].request]), NodeSize)
    /\ using' = [b \in Tenants \union {a} |-> IF b = a THEN Asks[a].request ELSE using[b]]
    /\ relief' = Calm

BurstTo(a, amount) ==
    /\ a \in Tenants
    /\ using' = [using EXCEPT ![a] = [cpu |-> Min({amount.cpu, Asks[a].limit.cpu}),
                                     memory |-> Min({amount.memory, Asks[a].limit.memory})]]
    /\ relief' = Calm

BestEffort(a) == Asks[a].request = NoAmount
Guaranteed(a) == ~BestEffort(a) /\ Asks[a].request = Asks[a].limit

\* Of memory, also where cpu is short.
Over(a) == using[a].memory - Asks[a].request.memory

\* Those without a request go first, then who is furthest over its own.
GoesBefore(a, b) ==
    \/ BestEffort(a) /\ ~BestEffort(b)
    \/ /\ BestEffort(a) <=> BestEffort(b)
       /\ Over(a) > Over(b) \/ (Over(a) = Over(b) /\ a < b)

\* A tenant is evicted if the node does not fit without all who go before it.
Relieve ==
    LET order == {a \in Tenants : ~Guaranteed(a)}
        left(a) == {b \in Tenants : ~(b \in order /\ GoesBefore(b, a))}
        use(a) == Together([b \in left(a) |-> using[b]])
        gone == {a \in order : ~FitsIn(use(a), NodeSize)}
        short(a) == {r \in DOMAIN NodeSize : use(a)[r] > NodeSize[r]}
    IN /\ using' = [a \in Tenants \ gone |-> using[a]]
       /\ relief' = [given |-> TRUE,
                     evicted |-> {[who |-> a, used |-> using[a], short |-> short(a)] : a \in gone}]

PressureNext ==
    \/ Relieve
    \/ \E a \in DOMAIN Asks : AdmitAsk(a) \/ \E amount \in Bursts : BurstTo(a, amount)

-----------------------------------------------------------------------------
(* Properties *)

\* Gangs that meet, lose members, come again and are moved never overfill a
\* host, and a member waits only if it was displaced.
NoHostages ==
    /\ \A n \in Hosts : Load(home, n) <= HostSize
    /\ \A g \in DOMAIN Gangs : {t \in Gang(g) : home[t] = Waiting} \subseteq upset

\* The walk of the rebalancer ends whatever its budget, from every state: each
\* move raises the sum of the squares of the loads; and no move makes the
\* largest hole smaller.
EveryMovePays ==
    LET energy(h) == SumFunction([n \in Hosts |-> Load(h, n) * Load(h, n)])
        hole(h) == Max({Free(h, n) : n \in Hosts})
    IN /\ Moved(home) # home => energy(Moved(home)) > energy(home)
       /\ hole(Moved(home)) >= hole(home)

\* The descheduler is "on a leash made of budgets": while no member of the covered
\* gang may go, its run moves none, and what it does a rebalancer could have done.
OnLeash ==
    LET after == Descheduled(home)
    IN /\ Cardinality(Covered(home)) <= Leash => \A t \in Gang(1) : after[t] = home[t]
       /\ \A n \in Hosts : Load(after, n) <= Max({HostSize, Load(home, n)})
       /\ {t \in Packed : after[t] \in Hosts} = {t \in Packed : home[t] \in Hosts}

\* qos.py:6-8, "bursting burstables next", as far as it is so.  Relief is enough in
\* both resources, since the requests that were admitted fit the node; and while
\* memory is short nobody is evicted that keeps to its request of memory.  With cpu
\* alone short the order still looks at memory, and a tenant that keeps to its whole
\* request may go before the one that bursts.
ContractKept ==
    relief.given =>
        /\ FitsIn(Together(using), NodeSize)
        /\ \A e \in relief.evicted :
              \/ BestEffort(e.who)
              \/ e.used.memory > Asks[e.who].request.memory
              \/ e.short = {"cpu"}
=============================================================================
