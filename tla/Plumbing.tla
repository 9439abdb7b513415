------------------------------ MODULE Plumbing ------------------------------
(***************************************************************************)
(* What stands between a declaration and what runs: the chain of hooks     *)
(* (control/hooks.py), config and its stamp (control/configs.py), the gate *)
(* over endpoints (control/readygate.py, control/endpoints.py), roles      *)
(* (rbac.py) and flows (netpolicy.py, selector.py).  The parts share no    *)
(* state.                                                                  *)
(***************************************************************************)
EXTENDS Integers, Sequences, FiniteSets, SequencesExt

CONSTANTS
    SpecsAsked,         \* {[team, image, cpu, priority]}, Unset for a missing label
    Unset, MaxHooks,    \* MaxHooks: bound of the mutators
    Pages,              \* the contents of a config, each a sequence of <<key, value>>
    Pods,               \* the tasks of the deployment
    Gated, Needs,       \* the services, [service -> the services it needs]
    Grants,             \* {[verbs, namespace]}, what a role may be defined as
    Spaces, Verbs,      \* namespaces, beside Unset for the whole fleet
    MaxBindings,        \* bound
    Clauses, LabelSets, MaxPolicies     \* MaxPolicies: bound

ASSUME PlumbingAssumption == Needs \in [Gated -> SUBSET Gated]

VARIABLES
    mutators, validators, tagged, letThrough,     \* the last admitted, with its validators
    page, stamp, pods,      \* [pod -> [stamp, read, early]], early: before the stamp
    answers, last, counted, gated,  \* counted: [service -> removals - returns]
    roles, bindings,
    mesh                    \* [open, policies]

hookVars == <<mutators, validators, tagged, letThrough>>
configVars == <<page, stamp, pods>>
gateVars == <<answers, last, counted, gated>>
roleVars == <<roles, bindings>>

-----------------------------------------------------------------------------
(* Hooks.  Those registered are the default labels, the least resources,   *)
(* the pin of the image; the banned and the required label, the ceiling.   *)

NoSpec == [spec |-> Unset, judges |-> {}, shapers |-> <<>>]

HookInit == mutators = <<>> /\ validators = {} /\ tagged = Unset /\ letThrough = NoSpec

Mutate(name, spec) ==
    CASE name = "default-team" -> IF spec.team = Unset THEN [spec EXCEPT !.team = "a"] ELSE spec
      [] name = "default-image" -> IF spec.image = Unset THEN [spec EXCEPT !.image = "latest"]
                                   ELSE spec
      [] name = "minimum" -> [spec EXCEPT !.cpu = IF @ < 1 THEN 1 ELSE @]
      [] name = "pin" -> IF spec.image = "latest" THEN [spec EXCEPT !.image = tagged] ELSE spec

Accepts(name, spec) ==
    CASE name = "ban" -> spec.team # "a"
      [] name = "require" -> spec.image # Unset
      [] name = "ceiling" -> spec.priority <= 100

MutateWith(name) ==
    /\ Len(mutators) < MaxHooks /\ ~Contains(mutators, name)
    /\ mutators' = Append(mutators, name)
    /\ UNCHANGED <<validators, tagged, letThrough>>

ValidateWith(name) ==
    /\ validators' = validators \union {name}
    /\ UNCHANGED <<mutators, tagged, letThrough>>

PushTag(digest) == tagged' = digest /\ UNCHANGED <<mutators, validators, letThrough>>

\* Every mutator in its order, then every validator.
Judged(spec, shaped) == \A name \in validators : Accepts(name, shaped)

\* A tag the registry does not know is not found, and nothing is admitted.
AdmitSpec(spec) ==
    LET shaped == FoldLeft(LAMBDA s, name : Mutate(name, s), spec, mutators)
    IN /\ Contains(mutators, "pin") => tagged # Unset
       /\ Judged(spec, shaped)
       /\ letThrough' = [spec |-> shaped, judges |-> validators, shapers |-> mutators]
       /\ UNCHANGED <<mutators, validators, tagged>>

HookNext ==
    \/ \E name \in {"default-team", "default-image", "minimum", "pin"} : MutateWith(name)
    \/ \E name \in {"ban", "require", "ceiling"} : ValidateWith(name)
    \/ \E digest \in {"sha-1", "sha-2"} : PushTag(digest)
    \/ \E spec \in SpecsAsked : AdmitSpec(spec)

-----------------------------------------------------------------------------
(* Configs.  What is hashed is the text; the hash tells texts apart.       *)

TextOf(data) == FoldSeq(LAMBDA pair, text : pair[1] \o <<"=">> \o pair[2] \o <<";">> \o text,
                        <<>>, data)

ConfigInit ==
    /\ page \in Pages
    /\ stamp = Unset
    /\ pods = [p \in Pods |-> [stamp |-> Unset, read |-> Unset, early |-> FALSE]]

PutConfig(data) == page' = data /\ UNCHANGED <<stamp, pods>>

StampDeploy == stamp' = TextOf(page) /\ UNCHANGED <<page, pods>>

\* A pod starts, for whatever reason, with the label of the template and the data
\* of the moment.
StartPod(p) ==
    /\ pods' = [pods EXCEPT ![p] = [stamp |-> stamp, read |-> page,
                                    early |-> stamp # TextOf(page)]]
    /\ UNCHANGED <<page, stamp>>

\* What the text cannot be mistaken in.
IsPlain(data) ==
    \A i \in DOMAIN data : \A part \in {1, 2} :
        ~Contains(data[i][part], "=") /\ ~Contains(data[i][part], ";")

ConfigNext ==
    \/ StampDeploy
    \/ \E data \in Pages : PutConfig(data)
    \/ \E p \in Pods : StartPod(p)

-----------------------------------------------------------------------------
(* The gate.  Each service has a task; answers says of it whether it runs  *)
(* on a ready node, and whether its probe passes.                          *)

GateInit ==
    /\ answers = [s \in Gated |-> [runs |-> FALSE, passes |-> TRUE]]
    /\ last = [s \in Gated |-> TRUE] /\ counted = [s \in Gated |-> 0]
    /\ gated = {}

EndpointIs(s) == answers[s].runs /\ answers[s].passes

ServiceChanges(s, runs, passes) ==
    /\ answers' = [answers EXCEPT ![s] = [runs |-> runs, passes |-> passes]]
    /\ UNCHANGED <<last, counted, gated>>

\* The probes of those that run, of the services asked about, are counted when
\* they turn.
Remembered(asked) ==
    [s \in Gated |-> IF s \in asked /\ answers[s].runs THEN answers[s].passes ELSE last[s]]

Turned(asked) ==
    [s \in Gated |->
        IF s \in asked /\ answers[s].runs /\ last[s] # answers[s].passes
        THEN counted[s] + IF last[s] THEN 1 ELSE -1 ELSE counted[s]]

\* Needs are looked at in any order, up to the first without an endpoint; then
\* perhaps the service itself is asked for.
GateServices(asks) ==
    LET missing(s) == {d \in Needs[s] : ~EndpointIs(d)}
        shut == {s \in Gated : missing(s) # {}}
    IN /\ gated' = shut
       /\ \E looked \in [Gated -> SUBSET Gated] :
             LET asked == UNION {looked[s] : s \in Gated} \union (asks \ shut)
             IN /\ \A s \in Gated :
                      /\ looked[s] \subseteq Needs[s]
                      /\ IF s \in shut THEN Cardinality(looked[s] \intersect missing(s)) = 1
                         ELSE looked[s] = Needs[s]
                /\ last' = Remembered(asked)
                /\ counted' = Turned(asked)
       /\ UNCHANGED answers

GateNext ==
    \/ \E asks \in {{}} \union {{s} : s \in Gated} : GateServices(asks)
    \/ \E s \in Gated, runs, passes \in BOOLEAN : ServiceChanges(s, runs, passes)

-----------------------------------------------------------------------------
(* Roles, of one person.  A role may be defined again.                     *)

RoleNames == {"reader", "keeper"}

RoleInit == roles \in [RoleNames -> Grants] /\ bindings = <<>>

DefineRole(name, grant) == roles' = [roles EXCEPT ![name] = grant] /\ UNCHANGED bindings

BindRole(name) ==
    /\ Len(bindings) < MaxBindings
    /\ bindings' = Append(bindings, name)
    /\ UNCHANGED roles

Covers(grant, space) == grant.namespace \in {Unset, space}

MayDo(verb, space) ==
    \E i \in DOMAIN bindings :
        LET grant == roles[bindings[i]] IN verb \in grant.verbs /\ Covers(grant, space)

RoleNext == \E name \in RoleNames : BindRole(name) \/ \E grant \in Grants : DefineRole(name, grant)

-----------------------------------------------------------------------------
(* Flows.  A clause is [key, op, value], a policy two lists of them.       *)

MeshInit == mesh \in [open : BOOLEAN, policies : {<<>>}]

ClauseMatches(clause, labels) ==
    CASE clause.op = "present" -> clause.key \in DOMAIN labels
      [] clause.op = "=" -> clause.key \in DOMAIN labels /\ labels[clause.key] = clause.value
      [] clause.op = "!=" -> clause.key \in DOMAIN labels => labels[clause.key] # clause.value

SelectorMatches(clauses, labels) == \A c \in clauses : ClauseMatches(c, labels)

AllowFlow(source, destination) ==
    /\ Len(mesh.policies) < MaxPolicies
    /\ mesh' = [mesh EXCEPT !.policies = Append(@, [from |-> source, to |-> destination])]

MayReach(from, to) ==
    \/ \E i \in DOMAIN mesh.policies :
          SelectorMatches(mesh.policies[i].from, from) /\ SelectorMatches(mesh.policies[i].to, to)
    \/ mesh.open

MeshNext == \E source, destination \in {{c} : c \in Clauses} : AllowFlow(source, destination)

-----------------------------------------------------------------------------
(* Properties *)

\* hooks.py: "mutators shape the object, validators judge the result", in whatever
\* order they were registered: all that judged accept what was admitted, and its
\* image is a digest unless a label was defaulted after the pin.
JudgedAsAdmitted ==
    letThrough # NoSpec =>
        /\ \A name \in letThrough.judges : Accepts(name, letThrough.spec)
        /\ Contains(letThrough.shapers, "pin") /\ letThrough.spec.image = "latest" =>
              \E i, j \in DOMAIN letThrough.shapers :
                 i < j /\ letThrough.shapers[i] = "pin" /\ letThrough.shapers[j] = "default-image"

\* configs.py: "a config edit changes the template": pods of one stamp read one
\* config, unless one started between an edit and its stamp, or a separator of the
\* hashed text is in the config itself.
StampsTell ==
    \A p, q \in Pods :
        /\ pods[p].stamp = pods[q].stamp /\ pods[p].stamp # Unset
        /\ ~pods[p].early /\ ~pods[q].early
        /\ IsPlain(pods[p].read) /\ IsPlain(pods[q].read)
        => pods[p].read = pods[q].read

\* endpoints.py: removals and returns alternate, whoever asks and in whatever order.
ProbesAreCounted == \A s \in Gated : counted[s] = IF last[s] THEN 0 ELSE 1

\* rbac.py: a person whose roles are all of other namespaces may do nothing here, and
\* to be bound once more takes nothing away.
RolesStayInside ==
    \A verb \in Verbs, space \in Spaces :
        (\A i \in DOMAIN bindings : roles[bindings[i]].namespace \in Spaces \ {space})
            => ~MayDo(verb, space)
BindingsOnlyGrant ==
    [][roles' = roles /\ bindings' # bindings => \A verb \in Verbs, space \in Spaces :
          MayDo(verb, space) => MayDo(verb, space)']_roleVars

\* netpolicy.py: "closed-by-default means policies are the permissions": one more
\* never shuts a flow, and where none is written all flows are as the posture says.
PoliciesOnlyOpen ==
    [][mesh' # mesh => \A from, to \in LabelSets : MayReach(from, to) => MayReach(from, to)']_mesh
=============================================================================
