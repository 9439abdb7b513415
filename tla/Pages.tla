------------------------------- MODULE Pages -------------------------------
(***************************************************************************)
(* What is said of the fleet: the pager and its router (alerts.py,         *)
(* alertroute.py, catalog.py), inhibited alerts (inhibitions.py), the      *)
(* error budget (slo.py), the ledger of toil (tickets.py), golden signals  *)
(* (goldensignals.py), sampled traces (tailsampling.py) and spans          *)
(* (tracing.py).  The parts share no state.                                *)
(***************************************************************************)
EXTENDS Integers, Sequences, FiniteSets, FiniteSetsExt, Functions, SequencesExt

CONSTANTS
    DedupWindow, FlapThreshold, EscalateAfter,
    LadderLength,           \* of the owner; 1 for a deploy nobody registered
    Sources, Consequences,  \* {[kind, name, scope]}, {[kind, within]}
    Inhibits,               \* the rules, {<<kind of the source, kind of the consequence>>}
    MaxOffers,              \* bound
    FastWindow, SlowWindow, SloWindow,
    AlarmTimes,             \* alarm: AlarmTimes budgets are burnt; the budget is a tenth
    Categories, CandidateMinutes, MaxMinutes,   \* MaxMinutes: bound
    SignalValues, SignalSpan,
    KeepOneIn, MaxTraces,   \* MaxTraces: bound
    MaxSpans, LastMoment    \* bounds

ASSUME PagesAssumption ==
    /\ FlapThreshold \in Nat \ {0} /\ LadderLength \in Nat \ {0}
    /\ FastWindow <= SlowWindow /\ SlowWindow <= SloWindow
    /\ KeepOneIn \in Nat \ {0} /\ SignalSpan \in Nat \ {0}

VARIABLES
    trouble,        \* whether what the alert is about is broken
    pager,          \* [state, turns, flapping, firing, resolved]: the last two in ticks
                    \* since such a page, or NotYet
    escalation,     \* [age, rung, acked, climbed]; age NotYet when nothing is paged
    standing, heldBack, heard, offers,  \* sources, [source -> consequences held back], delivered
    requests,       \* <<[age, failed, total]>>
    toil,           \* [category -> [minutes, candidate]]
    signals,        \* the values of the window
    traces,         \* [interesting, boring, exact, sampled]
    spans, stack, moment    \* <<[parent, opened, closed]>>

alertVars == <<trouble, pager, escalation>>
inhibitVars == <<standing, heldBack, heard, offers>>
traceVars == <<spans, stack, moment>>

-----------------------------------------------------------------------------
(* One alert about one deploy                                              *)

NotYet == -1
Older(age, cap) == IF age = NotYet THEN NotYet ELSE Min({age + 1, cap})
Unpaged == [age |-> NotYet, rung |-> 0, acked |-> FALSE, climbed |-> FALSE]

AlertInit ==
    /\ trouble = FALSE
    /\ pager = [state |-> "none", turns |-> 0, flapping |-> FALSE,
                firing |-> NotYet, resolved |-> NotYet]
    /\ escalation = Unpaged

\* Wrong: what was paged once is folded for good, the window does not end.
FoldedForGood(p, state) == p.flapping \/ p[state] # NotYet

Folded(p, state) == p.flapping \/ (p[state] # NotYet /\ p[state] < DedupWindow)

\* What the pager makes of an event, and whether it pages.
TakenBy(p, state) ==
    LET turned == p.state \notin {"none", state}
        turns == IF turned THEN Min({p.turns + 1, FlapThreshold}) ELSE p.turns
        starts == turned /\ turns >= FlapThreshold /\ ~p.flapping
        next == [p EXCEPT !.state = state, !.turns = turns, !.flapping = @ \/ starts]
    IN IF starts THEN [pager |-> next, pages |-> TRUE]
       ELSE IF Folded(p, state) THEN [pager |-> next, pages |-> FALSE]
       ELSE [pager |-> [next EXCEPT ![state] = 0], pages |-> TRUE]

FireAlert ==
    /\ trouble
    /\ pager' = TakenBy(pager, "firing").pager
    /\ escalation' =
          IF TakenBy(pager, "firing").pages /\ (escalation.age = NotYet \/ escalation.acked)
          THEN [Unpaged EXCEPT !.age = 0] ELSE escalation
    /\ UNCHANGED trouble

AckAlert ==
    /\ escalation' = [escalation EXCEPT !.acked = TRUE]
    /\ UNCHANGED <<trouble, pager>>

ResolveAlert ==
    /\ ~trouble
    /\ pager' = TakenBy(pager, "resolved").pager
    /\ escalation' = Unpaged
    /\ UNCHANGED trouble

\* Wrong: the next rung is due from the last firing of the clock.
DueAtOnce(rung) == EscalateAfter

DueAt(rung) == (rung + 1) * EscalateAfter

Climb ==
    /\ escalation.age # NotYet /\ ~escalation.acked
    /\ escalation.age >= DueAt(escalation.rung)
    /\ escalation.rung + 1 < LadderLength
    /\ escalation' = [escalation EXCEPT !.rung = @ + 1, !.climbed = TRUE]
    /\ UNCHANGED <<trouble, pager>>

\* Whoever knows that it settled; the router does not.
SettlePager ==
    /\ pager.flapping
    /\ pager' = [pager EXCEPT !.flapping = FALSE, !.turns = 0]
    /\ UNCHANGED <<trouble, escalation>>

TroubleTurns == trouble' = ~trouble /\ UNCHANGED <<pager, escalation>>

AlertTime ==
    /\ pager' = [pager EXCEPT !.firing = Older(@, DedupWindow),
                              !.resolved = Older(@, DedupWindow)]
    /\ escalation' = [escalation EXCEPT !.age = Older(@, DueAt(LadderLength))]
    /\ UNCHANGED trouble

AlertNext ==
    \/ FireAlert \/ AckAlert \/ ResolveAlert \/ Climb \/ SettlePager \/ TroubleTurns \/ AlertTime

-----------------------------------------------------------------------------
(* Inhibition.  A source may be raised twice; the first that applies is    *)
(* the one that holds.                                                     *)

InhibitInit ==
    /\ standing = <<>> /\ heldBack = [s \in Sources |-> 0] /\ heard = 0
    /\ offers = [offered |-> 0, told |-> 0]

RaiseSource(s) ==
    /\ Len(standing) < 2
    /\ standing' = Append(standing, s)
    /\ UNCHANGED <<heldBack, heard, offers>>

\* Sources of one kind and name, whatever their scope, have one count.
Alike(s, r) == s.kind = r.kind /\ s.name = r.name
CountOf(s) == CHOOSE r \in Sources : Alike(r, s)

ClearSource(s) ==
    /\ standing' = SelectSeq(standing, LAMBDA r : ~Alike(r, s))
    /\ heldBack' = [heldBack EXCEPT ![CountOf(s)] = 0]
    /\ offers' = [offers EXCEPT !.told = @ + heldBack[CountOf(s)]]
    /\ UNCHANGED heard

Applies(s, c) == <<s.kind, c.kind>> \in Inhibits /\ c.within = s.scope

OfferAlert(c) ==
    LET holding == SelectSeq(standing, LAMBDA s : Applies(s, c))
    IN /\ offers.offered < MaxOffers
       /\ offers' = [offers EXCEPT !.offered = @ + 1]
       /\ IF holding = <<>> THEN heard' = heard + 1 /\ UNCHANGED heldBack
          ELSE heldBack' = [heldBack EXCEPT ![CountOf(holding[1])] = @ + 1] /\ UNCHANGED heard
       /\ UNCHANGED standing

InhibitNext ==
    \/ \E s \in Sources : RaiseSource(s) \/ ClearSource(s)
    \/ \E c \in Consequences : OfferAlert(c)

-----------------------------------------------------------------------------
(* The error budget                                                        *)

SloInit == requests = <<>>

\* A tick, with its requests; those that are out of the window are dropped.
ObserveRequests(failed, total) ==
    LET older == [i \in DOMAIN requests |-> [requests[i] EXCEPT !.age = @ + 1]]
    IN requests' = Append(SelectSeq(older, LAMBDA r : r.age < SloWindow),
                          [age |-> 0, failed |-> failed, total |-> total])

\* A tick nobody observes drops nothing.
UnobservedTick ==
    requests' = [i \in DOMAIN requests |-> [requests[i] EXCEPT !.age = Min({@ + 1, SloWindow})]]

SumOver(span, what(_)) ==
    FoldSeq(LAMBDA r, sum : sum + IF r.age < span THEN what(r) ELSE 0, 0, requests)
FailedOver(span) == SumOver(span, LAMBDA r : r.failed)
TotalOver(span) == SumOver(span, LAMBDA r : r.total)

Burns(span) == TotalOver(span) > 0 /\ 10 * FailedOver(span) >= AlarmTimes * TotalOver(span)

Alarming == Burns(FastWindow) /\ Burns(SlowWindow)

\* Over all that was kept, however old it is by now.
Exhausted ==
    TotalOver(SloWindow + 1) > 0 /\ 10 * FailedOver(SloWindow + 1) >= TotalOver(SloWindow + 1)

-----------------------------------------------------------------------------
(* Toil                                                                    *)

ToilInit == toil = [c \in Categories |-> [minutes |-> 0, candidate |-> "none"]]

LogToil(c, minutes) ==
    LET spent == toil[c].minutes + minutes
    IN /\ spent <= MaxMinutes
       /\ toil' = [toil EXCEPT ![c] =
              [minutes |-> spent,
               candidate |-> IF spent >= CandidateMinutes /\ @.candidate = "none" THEN "open"
                             ELSE @.candidate]]

Automate(c) == toil[c].candidate = "open" /\ toil' = [toil EXCEPT ![c].candidate = "closed"]

ToilNext == \E c \in Categories : Automate(c) \/ \E minutes \in {1, 2} : LogToil(c, minutes)

-----------------------------------------------------------------------------
(* Golden signals                                                          *)

SignalInit == signals = <<>>

PushSignal(v) ==
    signals' = IF Len(signals) = SignalSpan THEN Append(Tail(signals), v) ELSE Append(signals, v)

\* The later half against the earlier one: 1.2 times, or its inverse.
Direction(values) ==
    LET half == Len(values) \div 2
        rest == Len(values) - half
        early == FoldSeq(+, 0, SubSeq(values, 1, half))
        late == FoldSeq(+, 0, SubSeq(values, half + 1, Len(values)))
    IN IF Len(values) < 4 THEN "flat"
       ELSE IF early = 0 THEN IF late > 0 THEN "rising" ELSE "flat"
       ELSE IF 5 * late * half >= 6 * early * rest THEN "rising"
       ELSE IF 6 * late * half <= 5 * early * rest THEN "falling"
       ELSE "flat"

-----------------------------------------------------------------------------
(* Sampled traces                                                          *)

TraceInit == traces = [interesting |-> 0, boring |-> 0, exact |-> 0, weight |-> 0]

OfferTrace(interesting) ==
    LET boring == traces.boring + 1
    IN /\ traces.interesting + traces.boring < MaxTraces
       /\ traces' =
             IF interesting
             THEN [traces EXCEPT !.interesting = @ + 1, !.exact = @ + 1, !.weight = @ + 1]
             ELSE IF boring % KeepOneIn = 0
             THEN [traces EXCEPT !.boring = boring, !.weight = @ + KeepOneIn,
                                 !.exact = @ + IF KeepOneIn = 1 THEN 1 ELSE 0]
             ELSE [traces EXCEPT !.boring = boring]

-----------------------------------------------------------------------------
(* Spans.  The first is the root; closed is NotYet until it is closed.      *)

SpanInit == spans = <<>> /\ stack = <<>> /\ moment = 0

OpenSpan ==
    /\ Len(spans) < MaxSpans
    /\ stack # <<>> \/ spans = <<>>
    /\ spans' = Append(spans, [parent |-> IF stack = <<>> THEN 0 ELSE Last(stack),
                               opened |-> moment, closed |-> NotYet])
    /\ stack' = Append(stack, Len(spans) + 1)
    /\ UNCHANGED moment

\* Only the innermost can be closed.
CloseSpan ==
    /\ stack # <<>>
    /\ spans' = [spans EXCEPT ![Last(stack)].closed = moment]
    /\ stack' = Front(stack)
    /\ UNCHANGED moment

Duration(i) == spans[i].closed - spans[i].opened

\* From the root to the closed child that took longest, the later one of two.
CriticalPath ==
    LET closed(i) == {c \in DOMAIN spans : spans[c].parent = i /\ spans[c].closed # NotYet}
        longest(i) == CHOOSE c \in closed(i) : \A d \in closed(i) :
                         Duration(c) > Duration(d) \/ (Duration(c) = Duration(d) /\ c >= d)
        path[i \in DOMAIN spans] == IF closed(i) = {} THEN <<i>> ELSE <<i>> \o path[longest(i)]
    IN path[1]

SpanTime == moment < LastMoment /\ moment' = moment + 1 /\ UNCHANGED <<spans, stack>>

SpanNext == OpenSpan \/ CloseSpan \/ SpanTime

-----------------------------------------------------------------------------
(* Properties *)

\* alertroute.py: "unacked pages climb the ladder on a fixed cadence": no rung is
\* reached before its time, none beyond the ladder, and none without a page.
LadderIsClimbed ==
    /\ escalation.rung < LadderLength
    /\ escalation.rung > 0 => escalation.age >= escalation.rung * EscalateAfter
    /\ escalation.age = NotYet => escalation.rung = 0

\* alertroute.py, "who hears about this": trouble that stays, for the first time or
\* again, also when it returns inside the window in which its last page still folds
\* the new one, comes to be an open page that a person has; and one that nobody
\* takes goes to the last of the ladder.  Flapping, which the router never settles,
\* is excepted.
TroubleIsHeard ==
    /\ <>[](trouble /\ ~pager.flapping) => <>[](escalation.age # NotYet)
    /\ <>[](trouble /\ ~pager.flapping /\ ~escalation.acked)
          => <>[](escalation.rung + 1 = LadderLength)

\* inhibitions.py: "reported on the source page": every alert is delivered, or is
\* counted for a source that stands, or was told as one was cleared.
HeldAreCounted ==
    /\ heard + offers.told + SumFunction(heldBack) = offers.offered
    /\ \A s \in Sources : heldBack[s] > 0 => \E i \in DOMAIN standing : Alike(standing[i], s)

\* slo.py: "pages that are neither late nor jumpy": none without a failure in the
\* fast window, none for one bad tick among as busy ones, and one when all that was
\* asked in the slow window has failed.
AlarmFits ==
    LET recent == {i \in DOMAIN requests : requests[i].age < SlowWindow}
        bad == {i \in recent : requests[i].failed > 0}
    IN /\ FailedOver(FastWindow) = 0 => ~Alarming
       /\ TotalOver(FastWindow) > 0 /\ FailedOver(SlowWindow) = TotalOver(SlowWindow) => Alarming
       /\ /\ Cardinality(recent) * AlarmTimes > 10 /\ Cardinality(bad) = 1
          /\ \A i, j \in recent : requests[i].total = requests[j].total
          => ~Alarming

\* tickets.py: a category that costs as much is a candidate, once.
ToilIsSeen == \A c \in Categories : toil[c].minutes >= CandidateMinutes <=> toil[c].candidate # "none"

\* goldensignals.py: a signal that never fell is not falling, one that never rose not
\* rising; and of halves of one length the way back is the opposite.
DirectionsFit ==
    LET steps == 1..(Len(signals) - 1)
        is == Direction(signals)
    IN /\ (\A i \in steps : signals[i] <= signals[i + 1]) => is # "falling"
       /\ (\A i \in steps : signals[i] >= signals[i + 1]) => is # "rising"
       /\ Len(signals) % 2 = 0 =>
             (is = "rising" <=> Direction(Reverse(signals)) = "falling")

\* tailsampling.py: "the estimator multiplies honestly": it lacks less than the
\* boring ones since the last that was kept, and the interesting are exact.
EstimateIsHonest ==
    LET seenNow == traces.interesting + traces.boring
    IN /\ traces.weight <= seenNow /\ seenNow < traces.weight + KeepOneIn
       /\ KeepOneIn > 1 => traces.exact = traces.interesting

\* tracing.py: a span lies within its parent; and the critical path never lasts
\* longer than what it runs through.
SpansAreNested ==
    /\ \A i \in DOMAIN spans :
          LET parent == spans[i].parent
          IN parent # 0 =>
                /\ spans[parent].opened <= spans[i].opened
                /\ spans[parent].closed # NotYet =>
                      spans[i].closed # NotYet /\ spans[i].closed <= spans[parent].closed
    /\ spans # <<>> /\ stack = <<>> =>
          \A k \in 2..Len(CriticalPath) : Duration(CriticalPath[k]) <= Duration(CriticalPath[k - 1])
=============================================================================
