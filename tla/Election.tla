------------------------------- MODULE Election -------------------------------
(***************************************************************************)
(* Leader election (fleet/leaderelect.py): the lease, its fencing tokens,  *)
(* the log that refuses stale tokens, and controllers that freeze holding  *)
(* a token and write with it when they wake (trials/fencerace.py).         *)
(*                                                                         *)
(* All callers pass the same clock.  age is now - lease.renewed_at, which  *)
(* no rule tells apart beyond LeaseTicks; without a lease it is LeaseTicks.*)
(***************************************************************************)
EXTENDS Naturals, Sequences

CONSTANTS
    Candidates,
    NoOne,
    LeaseTicks,   \* LEASE_TICKS
    MaxToken,     \* bound: no lease lapses and nobody freezes at this token
    MaxWrites     \* bound: the length of the log

ASSUME ElectionAssumption ==
    /\ NoOne \notin Candidates
    /\ LeaseTicks \in Nat \ {0}
    /\ MaxToken \in Nat
    /\ MaxWrites \in Nat

VARIABLES
    holder,      \* Election.lease.holder
    token,       \* Election.lease.token, 0 without a lease
    age,
    handovers,   \* Election.handovers: who won, in order
    carried,     \* [Candidates -> Controller.token], 0 for None
    up,          \* the controllers whose loop runs
    highest,     \* FencedLog.highest_seen
    log          \* FencedLog.accepted, with the writer and token of each entry

leaseVars == <<holder, token, age, handovers>>
logVars == <<highest, log>>
electionVars == <<leaseVars, carried, up, logVars>>

Entry == [by : Candidates, token : Nat]

ElectionTypeOK ==
    /\ holder \in Candidates \cup {NoOne}
    /\ token \in Nat
    /\ age \in 0..LeaseTicks
    /\ handovers \in Seq(Candidates)
    /\ carried \in [Candidates -> Nat]
    /\ up \in SUBSET Candidates
    /\ highest \in Nat
    /\ log \in Seq(Entry)

ElectionInit ==
    /\ holder = NoOne
    /\ token = 0
    /\ age = LeaseTicks
    /\ handovers = <<>>
    /\ carried = [c \in Candidates |-> 0]
    /\ up = Candidates
    /\ highest = 0
    /\ log = <<>>

-----------------------------------------------------------------------------

Expired == age = LeaseTicks

\* Wrong: the log does not look at the token.
WriteUnfenced(c, k) ==
    /\ Len(log) < MaxWrites
    /\ highest' = k
    /\ log' = Append(log, [by |-> c, token |-> k])

\* FencedLog.write.
Write(c, k) ==
    IF k < highest
    THEN UNCHANGED logVars
    ELSE /\ Len(log) < MaxWrites
         /\ highest' = k
         /\ log' = Append(log, [by |-> c, token |-> k])

\* Wrong: a new reign starts with the token of the last.
WinSameToken(c) ==
    /\ Expired
    /\ token' = IF token = 0 THEN 1 ELSE token
    /\ handovers' = Append(handovers, c)

\* campaign, the vacant or expired lease.
Win(c) ==
    /\ Expired
    /\ token' = token + 1
    /\ handovers' = Append(handovers, c)

\* campaign, the lease of the candidate itself.
Renew(c) ==
    /\ ~Expired
    /\ holder = c
    /\ UNCHANGED <<token, handovers>>

\* Controller.tick that wins or renews, with or without work to write.
Lead(c) ==
    /\ c \in up
    /\ Win(c) \/ Renew(c)
    /\ holder' = c
    /\ age' = 0
    /\ carried' = [carried EXCEPT ![c] = token']
    /\ Write(c, token') \/ UNCHANGED logVars
    /\ UNCHANGED up

\* Controller.tick while another leads.
Standby(c) ==
    /\ c \in up
    /\ ~Expired
    /\ holder # c
    /\ carried' = [carried EXCEPT ![c] = 0]
    /\ UNCHANGED <<leaseVars, up, logVars>>

Tick(c) == Lead(c) \/ Standby(c)

\* Election.resign; the controller keeps its token.
Resign(c) ==
    /\ c \in up
    /\ holder = c
    /\ token < MaxToken
    /\ age' = LeaseTicks
    /\ UNCHANGED <<holder, token, handovers, carried, up, logVars>>

Freeze(c) ==
    /\ c \in up
    /\ token < MaxToken
    /\ up' = up \ {c}
    /\ UNCHANGED <<leaseVars, carried, logVars>>

\* Work held over from before the freeze is written before the next campaign.
Wake(c) ==
    /\ c \notin up
    /\ up' = up \cup {c}
    /\ \/ carried[c] # 0 /\ Write(c, carried[c])
       \/ UNCHANGED logVars
    /\ UNCHANGED <<leaseVars, carried>>

\* Wrong: the lease of a known holder does not run out.
PassTimeIdle ==
    /\ age < LeaseTicks - 1
    /\ age' = age + 1
    /\ UNCHANGED <<holder, token, handovers, carried, up, logVars>>

PassTime ==
    /\ age < LeaseTicks
    /\ age + 1 = LeaseTicks => token < MaxToken
    /\ age' = age + 1
    /\ UNCHANGED <<holder, token, handovers, carried, up, logVars>>

ElectionNext ==
    \/ \E c \in Candidates : Tick(c) \/ Resign(c) \/ Freeze(c) \/ Wake(c)
    \/ PassTime

ElectionSpec == ElectionInit /\ [][ElectionNext]_electionVars

\* The clock runs and the loop of a controller that is not frozen goes round.
FairSpec ==
    ElectionSpec /\ WF_electionVars(PassTime) /\ \A c \in Candidates : WF_electionVars(Tick(c))

-----------------------------------------------------------------------------

\* leaderelect.py:10-11, "every acquisition mints a fencing token one higher":
\* a token is never in two hands, nor in the log under two names, whatever
\* expired, resigned, froze or woke in between.
TokensUnshared ==
    /\ \A c, d \in Candidates : carried[c] = carried[d] /\ carried[c] # 0 => c = d
    /\ \A i \in DOMAIN log : \A c \in Candidates :
          carried[c] = log[i].token => log[i].by = c
    /\ \A i, j \in DOMAIN log : log[i].token = log[j].token => log[i].by = log[j].by

\* leaderelect.py:11-12: once a later token has written, an earlier one never
\* does, so no two reigns interleave in the log.
LogInOrder ==
    \A i, j \in DOMAIN log : i < j => log[i].token <= log[j].token

\* The fence is for stragglers: it never refuses the controller that leads.
LeaderIsWelcome == token >= highest

\* leaderelect.py:10-15, the fence as a whole.
FenceHolds == ElectionTypeOK /\ TokensUnshared /\ LogInOrder /\ LeaderIsWelcome

\* leaderelect.py:13-15: the log is a sequence of reigns with one owner each.
Abstract == INSTANCE Reigns WITH owners <- handovers
ReignsAreKept == Abstract!Spec

\* leaderelect.py:5-6: a leader that never wakes does not keep the seat from a
\* controller whose loop runs.
Succession ==
    \A c, d \in Candidates :
        c # d /\ <>[](c \notin up /\ d \in up) => []<>(holder # c)
=============================================================================
