------------------------------ MODULE ModelPolicy ------------------------------
(***************************************************************************)
(* The tenants' model policies: stored with a revision that an update has  *)
(* to name, previewed before, and resolved for every request against the   *)
(* deployment's list (src/service/security/model-policy.ts,                *)
(* src/service/api/routes/model-policy.ts).  PlainStore is their file.     *)
(*                                                                         *)
(* A model is a model value; a list of models is a sequence without        *)
(* repetition, for the first one stands in for a default that is gone.     *)
(***************************************************************************)
EXTENDS PlainStore, Sequences, Sublists
LOCAL INSTANCE SequencesExt

CONSTANTS
  Models, ReasoningModels,
  Deployments,         \* what OPENROUTER_ALLOWED_MODELS and the default may be at a start
  MaxTenantModels,     \* maxTenantAllowedModels
  Proposals,           \* bounds of the model: inputs that are sent as updates,
  MaxModelRestarts     \* restarts

\* A tenant without an entry.
NoPolicy == [revision |-> 0]

ASSUME ModelAssumption ==
  /\ NoEntry = NoPolicy /\ MaxEditions \in Nat
  /\ Proposals \subseteq [allowed : Seq(Models), default : Models]
  /\ ReasoningModels \subseteq Models
  /\ \A d \in Deployments : d.allowed \in Seq(Models) /\ d.default \in Models
  /\ MaxTenantModels \in Nat \ {0} /\ MaxModelRestarts \in Nat

VARIABLES deployment, modelRestarts

modelVars == <<storeVars, deployment, modelRestarts>>

In(list) == {list[i] : i \in 1..Len(list)}
Only(list, S) == Picked(list, {i \in 1..Len(list) : list[i] \in S})

\* getDeploymentDefaultModel
DeploymentDefault ==
  IF deployment.default \in In(deployment.allowed) \/ deployment.allowed = <<>>
    THEN deployment.default ELSE deployment.allowed[1]

Inputs == [allowed : SeqOf(Models, Cardinality(Models)), default : Models]

\* validateTenantModelPolicyInput, on a list without repetition.
AtLeastOne(n) == IF n < 1 THEN 1 ELSE n
MaxAllowed ==
  LET deployed == Len(deployment.allowed)
  IN  AtLeastOne(IF MaxTenantModels < deployed THEN MaxTenantModels ELSE deployed)

ValidInput(input) ==
  /\ Len(input.allowed) \in 1..MaxAllowed
  /\ Cardinality(In(input.allowed)) = Len(input.allowed)
  /\ In(input.allowed) \subseteq In(deployment.allowed)
  /\ input.default \in In(input.allowed)

ActivePolicy(rev, input) == [revision |-> rev, state |-> "active", allowed |-> input.allowed,
                             default |-> input.default]
ResetTo(rev)     == [revision |-> rev, state |-> "reset"]
IsActive(stored) == stored.revision > 0 /\ stored.state = "active"

-----------------------------------------------------------------------------
(* What a stored policy means. *)

FromDeployment ==
  [source |-> "deployment", allowed |-> deployment.allowed, default |-> <<DeploymentDefault>>]

\* Mutant: the stored list counts as it is.
EffectiveAsStored(stored) ==
  IF ~IsActive(stored)
    THEN FromDeployment
    ELSE [source |-> "tenant", allowed |-> stored.allowed, default |-> <<stored.default>>]

\* getEffectiveModelPolicy; a default that is not allowed any more gives way to the
\* first that is, or to none.
Effective(stored) ==
  IF ~IsActive(stored)
    THEN FromDeployment
    ELSE LET allowed == Only(stored.allowed, In(deployment.allowed))
         IN  [source |-> "tenant", allowed |-> allowed,
              default |-> IF stored.default \in In(allowed) THEN <<stored.default>>
                          ELSE SubSeq(allowed, 1, IF allowed = <<>> THEN 0 ELSE 1)]

\* resolveTenantModel: the models a request may get, none when it names none that
\* is allowed.  A file that does not parse fails the request before.
Unnamed == "unnamed"
Resolve(policy, requested) ==
  IF policy.allowed = <<>> \/ policy.default = <<>> THEN {}
  ELSE IF requested = Unnamed THEN In(policy.default)
  ELSE {requested} \cap In(policy.allowed)

\* previewTenantModelPolicyChange.
Reasoning(list) == In(list) \cap ReasoningModels

\* Mutant: a default that stays allowed counts as kept.
DefaultStaysAllowed(policy, input) == In(policy.default) \subseteq In(input.allowed)

KeepsDefault(policy, input) == policy.default = <<input.default>>

Preview(stored, input) ==
  LET current == Effective(stored)
      now     == In(current.allowed)
      then    == In(input.allowed)
      removed == now \ then
      added   == then \ now
      sameDefault == KeepsDefault(current, input)
      lost    == Reasoning(current.allowed) \ Reasoning(input.allowed)
      wouldChange == ~(now = then /\ sameDefault)
      kind ==
        CASE ~wouldChange -> "no_change"
          [] wouldChange /\ current.source = "tenant" /\ then = In(deployment.allowed)
               /\ input.default = DeploymentDefault -> "equivalent_to_reset"
          [] OTHER ->
               IF added = {} /\ removed = {} THEN "rotate_default"
               ELSE IF current.source = "deployment" THEN "create_override"
               ELSE IF removed # {} /\ Cardinality(removed) >= Cardinality(added)
                 THEN "tighten_override" ELSE "widen_override"
      high ==
        \/ removed \cap In(current.default) # {}
        \/ Reasoning(current.allowed) # {} /\ Reasoning(input.allowed) = {}
      medium == (Len(current.allowed) > 1 /\ Len(input.allowed) = 1) \/ ~sameDefault \/ lost # {}
  IN  [wouldChange |-> wouldChange, kind |-> kind,
       risk |-> IF high THEN "high" ELSE IF medium THEN "medium" ELSE "low",
       nextRevision |-> stored.revision + 1]

-----------------------------------------------------------------------------
(* The routes. *)

Change(op, t, rev, input) == [op |-> op, tenant |-> t, expected |-> rev, input |-> input]
NoInput == [allowed |-> <<>>]

\* PUT /v1/model-policy, validated before the file is read.
PutModelPolicy(c, t, rev, input) ==
  /\ ValidInput(input)
  /\ Asks(c, Change("set", t, rev, input))
  /\ UNCHANGED <<deployment, modelRestarts>>

\* DELETE /v1/model-policy.
DeleteModelPolicy(c, t, rev) ==
  /\ Asks(c, Change("reset", t, rev, NoInput))
  /\ UNCHANGED <<deployment, modelRestarts>>

\* GET /v1/model-policy, a preview, and every request that resolves a model.
ReadModelPolicy(c, t) ==
  /\ Asks(c, Change("get", t, 0, NoInput))
  /\ UNCHANGED <<deployment, modelRestarts>>

\* Mutant: the expected revision is not compared.
DecidesBlindly(c) ==
  /\ Reached(c, "decide")
  /\ LET request == updates[c].request
         next    == updates[c].map[request.tenant].revision + 1
     IN  \/ request.op = "get" /\ Refuses(c)
         \/ request.op = "set" /\ Puts(c, ActivePolicy(next, request.input))
         \/ request.op = "reset" /\ Puts(c, ResetTo(next))
  /\ UNCHANGED <<deployment, modelRestarts>>

\* setTenantModelPolicy and resetTenantModelPolicy once the file is read.
Decides(c) ==
  /\ Reached(c, "decide")
  /\ LET request == updates[c].request
         current == updates[c].map[request.tenant]
         next    == current.revision + 1
     IN  \/ (request.op = "get" \/ request.expected # current.revision) /\ Refuses(c)
         \/ /\ request.expected = current.revision /\ request.op = "set"
            /\ Puts(c, ActivePolicy(next, request.input))
         \/ /\ request.expected = current.revision /\ request.op = "reset"
            /\ IF IsActive(current) THEN Puts(c, ResetTo(next)) ELSE Refuses(c)
  /\ UNCHANGED <<deployment, modelRestarts>>

ModelStoreStep ==
  /\ StoreStep
  /\ UNCHANGED <<deployment, modelRestarts>>

\* The process stops and starts with another deployment.
ModelRestart ==
  /\ modelRestarts < MaxModelRestarts
  /\ modelRestarts' = modelRestarts + 1
  /\ deployment' \in Deployments
  /\ UpdatesDie

ModelInit == PlainInit /\ deployment \in Deployments /\ modelRestarts = 0

ModelNext ==
  \/ \E c \in StoreCalls, t \in StoreTenants :
       \/ ReadModelPolicy(c, t)
       \/ \E rev \in {plain.map[t].revision, answered[t].revision} :
            \/ \E input \in Proposals : PutModelPolicy(c, t, rev, input)
            \/ DeleteModelPolicy(c, t, rev)
  \/ \E c \in DOMAIN updates : Decides(c)
  \/ ModelStoreStep
  \/ ModelRestart

ModelSpec == ModelInit /\ [][ModelNext]_modelVars

-----------------------------------------------------------------------------
(* What should hold. *)

\* The shapes of the variables.
Policies ==
  {NoPolicy} \cup [revision : 1..MaxEditions, state : {"active"}, allowed : Seq(Models),
                   default : Models]
    \cup [revision : 1..MaxEditions, state : {"reset"}]
Requests ==
  [op : {"set", "reset", "get"}, tenant : StoreTenants, expected : 0..MaxEditions,
   input : {NoInput} \cup [allowed : Seq(Models), default : Models]]

ModelTypeOK ==
  /\ StoreTypeOK(Policies, Requests)
  /\ deployment \in Deployments /\ modelRestarts \in 0..MaxModelRestarts

\* Whatever is stored and however the deployment has changed since, a request gets
\* a model of the deployment, and one of its tenant's own list if there is one.
ResolvesWithinBoth ==
  plain.form = "whole" => \A t \in StoreTenants, requested \in Models \cup {Unnamed} :
    LET stored == plain.map[t]
        got    == Resolve(Effective(stored), requested)
    IN  /\ got \subseteq In(deployment.allowed)
        /\ IsActive(stored) => got \subseteq In(stored.allowed)

\* A preview says what the update would do: with no change every request gets what
\* it got, an update equivalent to a reset serves what a reset would, and at low
\* risk whoever names no model or one that reasons is served as before.
Serves(stored, requested) == Resolve(Effective(stored), requested)

PreviewForetells ==
  plain.form = "whole" => \A t \in StoreTenants : \A input \in {i \in Inputs : ValidInput(i)} :
    LET stored  == plain.map[t]
        preview == Preview(stored, input)
        new     == ActivePolicy(preview.nextRevision, input)
        Same(old, requests) == \A r \in requests : Serves(new, r) = Serves(old, r)
        all     == Models \cup {Unnamed}
    IN  /\ ~preview.wouldChange => Same(stored, all)
        /\ preview.kind = "equivalent_to_reset" => Same(ResetTo(preview.nextRevision), all)
        /\ preview.risk = "low" =>
             /\ Same(stored, {Unnamed})
             /\ \A m \in ReasoningModels : Serves(stored, m) \subseteq Serves(new, m)

\* An update replaces the revision its author named, when it is answered and not
\* only when the file was read, unless a call wrote over something unread.
Answers(c) == c \in DOMAIN updates \ DOMAIN updates' /\ answered' # answered
ReplacesWhatItSaw(c) ==
  updates[c].request.expected = answered[updates[c].request.tenant].revision

UpdatesNameWhatTheyReplace ==
  [][~stale => \A c \in DOMAIN updates : Answers(c) => ReplacesWhatItSaw(c)]_modelVars

\* decisions.md:30: racing updates never overwrite each other silently.
RacingUpdatesNeverOverwrite ==
  [][\A c \in DOMAIN updates : Answers(c) => ReplacesWhatItSaw(c)]_modelVars
=============================================================================
