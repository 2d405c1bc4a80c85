----------------------------- MODULE TenantPolicies -----------------------------
(***************************************************************************)
(* The three policies a tenant sets without a revision: where its exports  *)
(* may go (src/service/security/export-delivery-policy.ts), what may be    *)
(* fetched for it (src/service/rag/remote-policy.ts) and who acts on its   *)
(* export incidents (src/service/security/export-operator-policy.ts).      *)
(*                                                                         *)
(* Each kind has a file of all tenants' policies, written the same way, so *)
(* a behaviour follows the file of one kind, chosen at its start.  A       *)
(* policy is a mode and one set of entries for every role of its kind.     *)
(* File is what JsonFile says of the file.                                 *)
(***************************************************************************)
EXTENDS Naturals, Sequences, FiniteSets
LOCAL INSTANCE SequencesExt

CONSTANTS
  PolicyTenants,
  Ports, Hosts, Paths,   \* hosts as labels from the top, paths as segments
  Admins,                \* names of principals
  PolicyLimits,          \* entries a role may have, by the process's configuration
  PolicyDefaults,        \* by kind: policies a deployment may have
  PolicyEdits,           \* bounds of the model: by kind, policies that are set,
  PolicySlots,           \* one for every write under way,
  MaxPolicyStarts,       \* restarts,
  NoFile, EmptyFile, TornFile

Kinds == {"delivery", "remote", "operator"}
Modes == [delivery |-> {"inherit_remote_policy", "disabled", "allowlist_only"},
          remote   |-> {"disabled", "preview_only", "allowlist_only", "open"},
          operator |-> {"open_admins", "roster_required"}]
Roles == [delivery |-> {"allowed_targets"},
          remote   |-> {"allowed_hosts"},
          operator |-> {"acknowledge", "clear_request", "clear_approve"}]

HostRule   == [base : Hosts, wild : BOOLEAN]
NoPort     == 0
TargetRule == [host : HostRule, port : Ports \cup {NoPort}, path : Paths]
Entries    == [delivery |-> TargetRule, remote |-> HostRule, operator |-> Admins]

Policy(k) == [mode : Modes[k], lists : [Roles[k] -> SUBSET Entries[k]]]

\* What a file of one kind may hold for the tenants.
Unset == <<>>
StoredMaps(k) == [PolicyTenants -> {Unset} \cup {<<p>> : p \in PolicyEdits[k]}]

ASSUME PolicyAssumption ==
  /\ PolicyLimits \subseteq Nat \ {0} /\ MaxPolicyStarts \in Nat /\ Ports \subseteq Nat \ {NoPort}
  /\ Ports # {} /\ Paths # {} /\ Admins # {} /\ Hosts \cup Paths \subseteq Seq(STRING)
  /\ \A k \in Kinds : \A p \in PolicyDefaults[k] \cup PolicyEdits[k] :
       /\ p.mode \in Modes[k] /\ DOMAIN p.lists = Roles[k]
       /\ \A r \in Roles[k] : p.lists[r] \subseteq Entries[k]
  /\ \A k \in Kinds : {NoFile, EmptyFile, TornFile} \cap StoredMaps(k) = {}

VARIABLES
  policyKind,
  policyDisk, policyWriters,   \* the file
  perRole, fallback,           \* limit and default of this process
  authors,                     \* whose policy a write under way changes
  told,                        \* history: what a tenant was last answered, or nothing
  crossed,                     \* history: two writes were under way at once
  starts

policyFile == <<policyDisk, policyWriters>>
policyHistory == <<authors, told, crossed>>
policyVars == <<policyKind, policyFile, perRole, fallback, policyHistory, starts>>

File == INSTANCE JsonFile WITH
  disk <- policyDisk, writers <- policyWriters, Slots <- PolicySlots,
  None <- NoFile, Empty <- EmptyFile, Torn <- TornFile

NoPolicies == [t \in PolicyTenants |-> Unset]

PolicyInit ==
  /\ policyKind \in Kinds
  /\ File!FileInit
  /\ perRole \in PolicyLimits
  /\ fallback \in PolicyDefaults[policyKind]
  /\ authors = [w \in {} |-> 0]
  /\ told = NoPolicies
  /\ crossed = FALSE
  /\ starts = 0

-----------------------------------------------------------------------------
(* What is stored, and what it means. *)

\* validateTenant...PolicyInput of each kind, on lists without repetition.
WithinLimit(p) == \A r \in DOMAIN p.lists : Cardinality(p.lists[r]) <= perRole
EveryRole(p)   == \A r \in DOMAIN p.lists : p.lists[r] # {}

ValidDelivery(p) == WithinLimit(p) /\ (p.mode = "allowlist_only" => EveryRole(p))
ValidRemote(p)   == WithinLimit(p)
ValidOperator(p) == WithinLimit(p) /\ (p.mode = "roster_required" => EveryRole(p))

ValidPolicy(p) ==
  CASE policyKind = "delivery" -> ValidDelivery(p)
    [] policyKind = "remote"   -> ValidRemote(p)
    [] policyKind = "operator" -> ValidOperator(p)

\* readStore: a file that is not there or does not parse has no policies.
Stored == IF File!Legible(policyDisk.file) THEN policyDisk.file ELSE NoPolicies

\* getEffective...: a stored policy that is not valid any more counts as none.
EffectivePolicy(stored) ==
  IF stored = Unset \/ ~ValidPolicy(stored[1]) THEN fallback ELSE stored[1]

\* matchAllowedHostRule: a wildcard stands for one label or more.  An address is
\* a host of one label, which no wildcard matches.
HostMatches(host, rule) ==
  IF rule.wild THEN IsStrictPrefix(rule.base, host) ELSE host = rule.base

PathMatches(path, prefix) == IsPrefix(prefix, path)

\* Mutant: a rule without a port is for one port only.
TargetMatchesAtOnePort(target, rule) ==
  /\ target.port = IF rule.port = NoPort THEN CHOOSE p \in Ports : TRUE ELSE rule.port
  /\ HostMatches(target.host, rule.host)
  /\ PathMatches(target.path, rule.path)

TargetMatches(target, rule) ==
  /\ rule.port \in {NoPort, target.port}
  /\ HostMatches(target.host, rule.host)
  /\ PathMatches(target.path, rule.path)

Targets == [host : Hosts, port : Ports, path : Paths]

\* evaluateSecurityExportDeliveryTargetPolicy: who inherits the remote policy takes
\* its hosts, whatever the remote policy's mode.
DeliveryAllowed(policy, remoteHosts, target) ==
  \/ /\ policy.mode = "inherit_remote_policy"
     /\ \E rule \in remoteHosts : HostMatches(target.host, rule)
  \/ /\ policy.mode = "allowlist_only"
     /\ \E rule \in policy.lists["allowed_targets"] : TargetMatches(target, rule)

\* evaluateTenantRemoteUrlPolicy
PreviewAllowed(policy) == policy.mode # "disabled"
IngestAllowed(policy, host) ==
  \/ policy.mode = "open"
  \/ /\ policy.mode = "allowlist_only"
     /\ \E rule \in policy.lists["allowed_hosts"] : HostMatches(host, rule)

\* evaluateSecurityExportOperatorAuthorization, of a caller with a name.
Authorized(policy, action, principal) ==
  policy.mode = "open_admins" \/ principal \in policy.lists[action]

-----------------------------------------------------------------------------
(* The routes: PUT and DELETE of each policy. *)

\* Mutant: the file is replaced by one of this tenant alone.
StoresAlone(t, policy) ==
  /\ File!WriteJson([NoPolicies EXCEPT ![t] = policy])
  /\ authors' = [w \in DOMAIN policyWriters' |-> IF w \in DOMAIN authors THEN authors[w] ELSE t]
  /\ crossed' = (crossed \/ policyWriters # [w \in {} |-> 0])
  /\ UNCHANGED <<policyKind, perRole, fallback, told, starts>>

Stores(t, policy) ==
  /\ File!WriteJson([Stored EXCEPT ![t] = policy])
  /\ authors' = [w \in DOMAIN policyWriters' |-> IF w \in DOMAIN authors THEN authors[w] ELSE t]
  /\ crossed' = (crossed \/ policyWriters # [w \in {} |-> 0])
  /\ UNCHANGED <<policyKind, perRole, fallback, told, starts>>

PutDeliveryPolicy(t, policy) ==
  /\ policyKind = "delivery" /\ ValidDelivery(policy)
  /\ Stores(t, <<policy>>)

PutRemotePolicy(t, policy) ==
  /\ policyKind = "remote" /\ ValidRemote(policy)
  /\ Stores(t, <<policy>>)

PutOperatorPolicy(t, policy) ==
  /\ policyKind = "operator" /\ ValidOperator(policy)
  /\ Stores(t, <<policy>>)

\* A policy that is not there is not removed, and nothing is written.
Removes(t) ==
  /\ Stored[t] # Unset
  /\ Stores(t, Unset)

DeleteDeliveryPolicy(t) == policyKind = "delivery" /\ Removes(t)
DeleteRemotePolicy(t)   == policyKind = "remote" /\ Removes(t)
DeleteOperatorPolicy(t) == policyKind = "operator" /\ Removes(t)

\* The call of writeJsonFileAtomic goes on, and is answered after its rename; one
\* whose rename fails is answered with an error.
PolicyWriterStep(w) ==
  /\ File!OpensTmp(w) \/ File!Writes(w)
  /\ UNCHANGED <<policyKind, perRole, fallback, policyHistory, starts>>

PolicyRenamed(w) ==
  /\ File!Renames(w)
  /\ told' = IF policyDisk.tmp = NoFile THEN told
             ELSE [told EXCEPT ![authors[w]] = policyWriters[w].content[authors[w]]]
  /\ authors' = [v \in DOMAIN policyWriters' |-> authors[v]]
  /\ UNCHANGED <<policyKind, perRole, fallback, crossed, starts>>

\* The process stops, and another starts with other limits and defaults.
PolicyRestart ==
  /\ starts < MaxPolicyStarts
  /\ starts' = starts + 1
  /\ File!WritersDie
  /\ authors' = [w \in {} |-> 0]
  /\ perRole' \in PolicyLimits
  /\ fallback' \in PolicyDefaults[policyKind]
  /\ UNCHANGED <<policyKind, told, crossed>>

PolicyNext ==
  \/ \E t \in PolicyTenants :
       \/ \E policy \in PolicyEdits[policyKind] :
            \/ PutDeliveryPolicy(t, policy)
            \/ PutRemotePolicy(t, policy)
            \/ PutOperatorPolicy(t, policy)
       \/ DeleteDeliveryPolicy(t) \/ DeleteRemotePolicy(t) \/ DeleteOperatorPolicy(t)
  \/ \E w \in DOMAIN policyWriters : PolicyWriterStep(w) \/ PolicyRenamed(w)
  \/ PolicyRestart

PolicySpec == PolicyInit /\ [][PolicyNext]_policyVars

-----------------------------------------------------------------------------
(* What should hold. *)

\* The shapes of the variables.
PolicyTypeOK ==
  LET Known(map) == \A t \in PolicyTenants :
        map[t] = Unset \/ map[t][1] \in PolicyEdits[policyKind]
  IN  /\ policyKind \in Kinds
      /\ \A c \in File!Contents : Known(c)
      /\ DOMAIN policyWriters \subseteq PolicySlots
      /\ authors \in [DOMAIN policyWriters -> PolicyTenants]
      /\ perRole \in PolicyLimits /\ fallback \in PolicyDefaults[policyKind]
      /\ Known(told)
      /\ crossed \in BOOLEAN /\ starts \in 0..MaxPolicyStarts

\* Until two writes overlap, a tenant is governed by the policy it was last told it
\* has: through other tenants' updates, crashes anywhere in a write and restarts.
\* Only a limit that was lowered puts the deployment's default in its place.
ToldPolicyGoverns ==
  ~crossed => \A t \in PolicyTenants :
    LET policy == EffectivePolicy(Stored[t])
    IN  IF told[t] = Unset THEN policy = fallback
        ELSE policy = told[t][1] \/ (~ValidPolicy(told[t][1]) /\ policy = fallback)

\* Of the policies in force, a rule made narrower (a longer path, one port, hosts
\* below) reaches no more than before; listing the hosts of a remote policy as
\* targets reaches exactly what inheriting that policy does, whatever its mode, and
\* every host that may be ingested from is among them unless the policy is open;
\* a tenant's own policy leaves no action without a principal who may take it, so
\* no tenant locks itself out of its incidents.
Listing(rules) == [mode |-> "allowlist_only", lists |-> [r \in {"allowed_targets"} |-> rules]]
Inheriting == [mode |-> "inherit_remote_policy", lists |-> [r \in {"allowed_targets"} |-> {}]]
Reach(policy, remoteHosts) == {target \in Targets : DeliveryAllowed(policy, remoteHosts, target)}

NarrowerHost(h, g) ==
  IF ~g.wild THEN h = g
  ELSE IF h.wild THEN IsPrefix(g.base, h.base) ELSE IsStrictPrefix(g.base, h.base)

Narrower(r, s) ==
  /\ r.port = s.port \/ s.port = NoPort
  /\ IsPrefix(s.path, r.path)
  /\ NarrowerHost(r.host, s.host)

RulesNest ==
  \A t \in PolicyTenants :
    LET policy == EffectivePolicy(Stored[t])
    IN  /\ policyKind = "delivery" /\ policy.mode = "allowlist_only" =>
             \A s \in policy.lists["allowed_targets"] :
               \A r \in {r \in TargetRule : Narrower(r, s)} :
                 LET narrowed == Listing((policy.lists["allowed_targets"] \ {s}) \cup {r})
                 IN  Reach(narrowed, {}) \subseteq Reach(policy, {})
        /\ policyKind = "remote" =>
             LET hosts == policy.lists["allowed_hosts"]
                 AsTarget(h) == [host |-> h, port |-> NoPort, path |-> <<>>]
                 reached == Reach(Inheriting, hosts)
             IN  /\ reached = Reach(Listing({AsTarget(h) : h \in hosts}), {})
                 /\ \A h \in Hosts : IngestAllowed(policy, h) =>
                      /\ PreviewAllowed(policy)
                      /\ policy.mode = "open" \/ h \in {target.host : target \in reached}
        /\ policyKind = "operator" /\ policy # fallback =>
             \A action \in Roles["operator"] : \E p \in Admins : Authorized(policy, action, p)
=============================================================================
