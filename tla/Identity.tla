------------------------------ MODULE Identity ------------------------------
(***************************************************************************)
(* What names, papers and versions are worth while the truth moves on:     *)
(* rotation of certificates (certrotate.py), documents of a placed task    *)
(* (identity.py), tags, digests and their collector (images.py,            *)
(* registrygc.py, roll/history.py), the background scrub (scrubber.py),    *)
(* objects read and written by clients of two API versions                 *)
(* (apiversions.py) and names made from text (naming.py).  The parts share *)
(* no state.                                                               *)
(***************************************************************************)
EXTENDS Integers, Sequences, FiniteSets, FiniteSetsExt, Functions, SequencesExt

CONSTANTS
    Holder, Lifetime, Overlap,      \* who pins certificates
    MaxSerial,                      \* bound: certificates issued
    Homes, Apps, PaperLife,         \* of a document
    Digests, ServiceReplicas, KeepDigests,        \* KeepDigests: entries of a history
    BlockCount, ScrubRate,
    Editors, VersionOf,             \* [editor -> "v1" or "v2"]
    NameLimit, MaxText              \* MaxText: bound of a text

ASSUME IdentityAssumption ==
    /\ Lifetime \in Nat /\ Overlap \in 1..Lifetime /\ PaperLife \in Nat \ {0}
    /\ ServiceReplicas \in Nat \ {0} /\ KeepDigests \in Nat \ {0}
    /\ BlockCount \in Nat \ {0} /\ ScrubRate \in Nat \ {0}
    /\ VersionOf \in [Editors -> {"v1", "v2"}] /\ NameLimit \in Nat \ {0}

VARIABLES
    certificates, pinned,   \* <<[left, revoked]>> by serial; [holder -> serial], 0 for none
    place, paper, goneFor,  \* the task, a document, whether the task it was minted for still
                            \* has the name, and how long it has not
    tag, stored, history,   \* what the tag names, the digests held, the revisions
    ran, rollout, unrolled, \* [replica -> digest], the rollout, digests collected unused
    cursor, corruptFor,     \* [block -> ticks it has been corrupt], or Sound
    object, copyOf, drops,  \* the fields set in the store; what an editor read; losses told
    text                    \* to make a name from

certVars == <<certificates, pinned>>
paperVars == <<place, paper, goneFor>>
registryVars == <<tag, stored, history, ran, rollout, unrolled>>
scrubVars == <<cursor, corruptFor>>
objectVars == <<object, copyOf, drops>>

-----------------------------------------------------------------------------
(* Certificates.  left is how long until one expires.                      *)

CertInit == certificates = <<>> /\ pinned = [h \in Holder |-> 0]

ValidAt(serial) == certificates[serial].left > 0 /\ ~certificates[serial].revoked

\* The serial that is served, 0 when nothing is valid.
Current == Max({0} \union {s \in DOMAIN certificates : ValidAt(s)})

Shortened(s) == [certificates[s] EXCEPT !.left = Min({@, Overlap})]

Rotate ==
    /\ Len(certificates) < MaxSerial
    /\ certificates' = Append([s \in DOMAIN certificates |->
                                  IF s = Current THEN Shortened(s) ELSE certificates[s]],
                              [left |-> Lifetime, revoked |-> FALSE])
    /\ UNCHANGED pinned

Revoke(s) ==
    /\ certificates' = [certificates EXCEPT ![s].revoked = TRUE]
    /\ UNCHANGED pinned

Pin(h, s) ==
    /\ ValidAt(s)
    /\ pinned' = [pinned EXCEPT ![h] = s]
    /\ UNCHANGED certificates

CertTime ==
    /\ certificates' = [s \in DOMAIN certificates |->
                           [certificates[s] EXCEPT !.left = Max({0, @ - 1})]]
    /\ UNCHANGED pinned

Verifies(h) == pinned[h] # 0 /\ ValidAt(pinned[h])

\* Who holds another certificate than the served one, and how long it lasts.
Laggards ==
    {[who |-> h, remaining |-> IF Verifies(h) THEN certificates[pinned[h]].left ELSE 0] :
        h \in {g \in Holder : Current # 0 /\ pinned[g] \notin {0, Current}}}

CertNext ==
    \/ Rotate \/ CertTime
    \/ \E s \in DOMAIN certificates : Revoke(s) \/ \E h \in Holder : Pin(h, s)

-----------------------------------------------------------------------------
(* Documents.  A name is used again, by another app even.                  *)

Nobody == "nobody"

PaperInit ==
    /\ place = [node |-> Nobody, app |-> Nobody]
    /\ paper = [node |-> Nobody, age |-> PaperLife, stands |-> FALSE]
    /\ goneFor = 0

\* The task of this name is bound, ends or is evicted, or is another one.
PlaceTask(n) ==
    /\ place.app # Nobody
    /\ place' = [place EXCEPT !.node = n]
    /\ UNCHANGED <<paper, goneFor>>

NameTask(a) ==
    /\ place.node = Nobody
    /\ place' = [node |-> Nobody, app |-> a]
    /\ paper' = [paper EXCEPT !.stands = FALSE]
    /\ UNCHANGED goneFor

Mint ==
    /\ place.node # Nobody
    /\ paper' = [node |-> place.node, age |-> 0, stands |-> TRUE]
    /\ goneFor' = 0
    /\ UNCHANGED place

PaperTime ==
    /\ paper.age < PaperLife
    /\ paper' = [paper EXCEPT !.age = @ + 1]
    /\ goneFor' = IF paper.stands THEN 0 ELSE goneFor + 1
    /\ UNCHANGED place

Verified == paper.age < PaperLife /\ place.node # Nobody /\ place.node = paper.node

PaperNext ==
    \/ Mint \/ PaperTime
    \/ \E n \in Homes \union {Nobody} : PlaceTask(n)
    \/ \E a \in Apps : NameTask(a)

-----------------------------------------------------------------------------
(* The registry                                                            *)

RegistryInit ==
    /\ tag = Nobody /\ stored = {} /\ history = <<>>
    /\ ran = [r \in 1..ServiceReplicas |-> Nobody]
    /\ rollout = [image |-> Nobody, byTag |-> FALSE, next |-> ServiceReplicas + 1, moved |-> FALSE]
    /\ unrolled = {}

Push(d) ==
    /\ tag' = d /\ stored' = stored \union {d} /\ unrolled' = unrolled \ {d}
    /\ rollout' = [rollout EXCEPT !.moved = TRUE]
    /\ UNCHANGED <<history, ran>>

Recorded(d) == IF Len(history) = KeepDigests THEN Append(Tail(history), d) ELSE Append(history, d)

Begin(d, byTag) ==
    /\ rollout.next > ServiceReplicas
    /\ rollout' = [image |-> d, byTag |-> byTag, next |-> 1, moved |-> FALSE]
    /\ history' = Recorded(d)
    /\ UNCHANGED <<tag, stored, ran, unrolled>>

\* What the tag names, or what an entry of the history names, under a new entry.
RollOut(byTag) == tag # Nobody /\ Begin(tag, byTag)
RollBackTo(i) == Begin(history[i], FALSE)

\* The next replica, by the tag of the moment or by the digest of the start.
NextReplica ==
    /\ rollout.next <= ServiceReplicas
    /\ ran' = [ran EXCEPT ![rollout.next] = IF rollout.byTag THEN tag ELSE rollout.image]
    /\ rollout' = [rollout EXCEPT !.next = @ + 1]
    /\ UNCHANGED <<tag, stored, history, unrolled>>

RunningReferences == Range(ran) \ {Nobody}

\* Wrong: the eager collector.
NoReferences == {}

HistoryReferences == Range(history)

CollectDigests ==
    LET doomed == stored \ (RunningReferences \union HistoryReferences)
    IN /\ stored' = stored \ doomed
       /\ unrolled' = unrolled \union (doomed \ (Range(ran) \union Range(history)))
       /\ UNCHANGED <<tag, history, ran, rollout>>

RegistryNext ==
    \/ CollectDigests \/ NextReplica
    \/ \E d \in Digests : Push(d)
    \/ \E byTag \in BOOLEAN : RollOut(byTag)
    \/ \E i \in DOMAIN history : RollBackTo(i)

-----------------------------------------------------------------------------
(* The scrub                                                               *)

Blocks == 0..(BlockCount - 1)
Sound == -1

ScrubInit == cursor = 0 /\ corruptFor = [b \in Blocks |-> Sound]

CycleTicks == (BlockCount + ScrubRate - 1) \div ScrubRate

MarkCorrupt(b) ==
    /\ corruptFor' = [corruptFor EXCEPT ![b] = IF @ = Sound THEN 0 ELSE @]
    /\ UNCHANGED cursor

ScrubTick ==
    LET scanned == {(cursor + i) % BlockCount : i \in 0..(ScrubRate - 1)}
    IN /\ cursor' = (cursor + ScrubRate) % BlockCount
       /\ corruptFor' = [b \in Blocks |-> IF b \in scanned \/ corruptFor[b] = Sound THEN Sound
                                          ELSE corruptFor[b] + 1]

ScrubNext == ScrubTick \/ \E b \in Blocks : MarkCorrupt(b)

-----------------------------------------------------------------------------
(* Versions.  A field is set or has its default; those that every version  *)
(* carries are left out, and the selector stands for what a node repels,   *)
(* which no version carries either.                                        *)

Fields == {"namespace", "priority", "tolerates", "selector"}
HubCarries == {"namespace", "priority", "tolerates"}
Carries(v) == IF v = "v2" THEN HubCarries ELSE {}

Unread == [read |-> FALSE, seen |-> {}]

ObjectInit == object = {} /\ copyOf = [e \in Editors |-> Unread] /\ drops = {}

ReadObject(e) ==
    /\ copyOf' = [copyOf EXCEPT ![e] = [read |-> TRUE, seen |-> object]]
    /\ drops' = IF VersionOf[e] = "v1" THEN drops \union (object \intersect HubCarries) ELSE drops
    /\ UNCHANGED object

\* What an editor read, in the words of his version, with an edit of his.
WriteObject(e, edit) ==
    /\ copyOf[e].read
    /\ object' = (copyOf[e].seen \union edit) \intersect Carries(VersionOf[e])
    /\ copyOf' = [copyOf EXCEPT ![e] = Unread]
    /\ UNCHANGED drops

\* Whoever writes the store without the gateway.
SetField(f) == object' = object \union {f} /\ UNCHANGED <<copyOf, drops>>

ObjectNext ==
    \/ \E f \in Fields : SetField(f)
    \/ \E e \in Editors : ReadObject(e) \/ \E edit \in {{}, {"priority"}} : WriteObject(e, edit)

-----------------------------------------------------------------------------
(* Names.  A character is a letter, a digit, or something else, which      *)
(* becomes a hyphen.                                                       *)

Characters == {"letter", "digit", "hyphen", "other"}

TextInit == text = <<>>
TypeText(c) == Len(text) < MaxText /\ text' = Append(text, c)

LegalName(name) ==
    /\ name # <<>> /\ Len(name) <= NameLimit
    /\ name[1] = "letter" /\ Last(name) # "hyphen"
    /\ \A i \in DOMAIN name :
          /\ name[i] # "other"
          /\ i > 1 /\ name[i] = "hyphen" => name[i - 1] # "hyphen"

Trimmed(name) ==
    LET ends == {i \in DOMAIN name : name[i] # "hyphen"}
    IN SubSeq(name, 1, Max({0} \union ends))

\* Runs of other characters become one hyphen, the front is cut to a letter, the
\* rest to the limit, and then the end to its last character.
Sanitised(s) ==
    LET plain == {"letter", "digit"}
        cleaned == FoldLeft(LAMBDA out, c :
                       IF c \in plain THEN Append(out, c)
                       ELSE IF out = <<>> \/ Last(out) = "hyphen" THEN out
                       ELSE Append(out, "hyphen"), <<>>, s)
        letters == {i \in DOMAIN cleaned : cleaned[i] = "letter"}
        body == IF letters = {} THEN <<>>
                ELSE Trimmed(SubSeq(cleaned, Min(letters), Len(cleaned)))
    IN Trimmed(SubSeq(body, 1, Min({NameLimit, Len(body)})))

-----------------------------------------------------------------------------
(* Properties *)

\* certrotate.py: "clients re-pin during the overlap at their own pace": what is
\* served outlasts all else that is valid, whatever was rotated and revoked.
ServedLastsLongest ==
    \A s \in DOMAIN certificates :
        ValidAt(s) => certificates[s].left <= certificates[Current].left

\* certrotate.py: no client breaks but by revocation, or as a laggard told to be
\* out of time, or as the served certificate itself runs out.
ClientsAreWarned ==
    [][\A h \in Holder :
          Verifies(h) /\ ~Verifies(h)' =>
              \/ certificates'[pinned[h]].revoked
              \/ [who |-> h, remaining |-> 1] \in Laggards
              \/ pinned[h] = Current /\ certificates[Current].left = 1]_certVars

\* identity.py: "a stolen document ages out in ticks": when the task it was minted
\* for has been gone so long, no namesake on the same node makes it good.
PaperDies == goneFor >= PaperLife => ~Verified

\* registrygc.py: a running digest and a rollback target are held, except one that
\* was collected after its push and before its rollout.
TargetsAreHeld == RunningReferences \union HistoryReferences \subseteq stored \union unrolled

\* images.py: "a rollout is one build": a finished one that is of two builds went
\* by a tag that moved.
MixedByTagOnly ==
    rollout.next > ServiceReplicas /\ Cardinality(Range(ran)) > 1 => rollout.byTag /\ rollout.moved

\* scrubber.py: "any corruption surfaces within cycle_ticks".
FoundInACycle == \A b \in Blocks : corruptFor[b] < CycleTicks

\* apiversions.py: what a write erases, of the fields the hub carries, was told
\* to be dropped or was set after the writer read.
LossIsTold ==
    [][\A f \in (object \ object') \intersect HubCarries :
          f \in drops \/ \E e \in Editors : copyOf[e].read /\ ~copyOf'[e].read
                                            /\ f \notin copyOf[e].seen]_objectVars

\* naming.py: the sanitised text is a legal name or nothing, legal names stay, and
\* sanitising twice is sanitising once.
NamesAreLegal ==
    LET name == Sanitised(text)
    IN /\ name # <<>> => LegalName(name)
       /\ LegalName(text) => name = text
       /\ Sanitised(name) = name
=============================================================================
