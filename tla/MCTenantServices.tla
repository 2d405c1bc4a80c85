--------------------------- MODULE MCTenantServices ---------------------------
(***************************************************************************)
(* The components that keep state for tenants and share none with each     *)
(* other, checked by one run of TLC: subject, chosen at the start, is the  *)
(* one component that moves, so the states are those of the components     *)
(* added up, never multiplied.  Every behaviour is one of a component's    *)
(* own specification, and every behaviour of each component is one of      *)
(* these.  Tenants and slots are shared between the components, so the     *)
(* symmetries permute them in all components together.                     *)
(***************************************************************************)
EXTENDS UiSessions, RequestLimits, AuditLog, MCModelPolicy, KeyStore,
        TenantPolicies, Memory, Knowledge, TLC

VARIABLE subject

Subjects == {"sessions", "limits", "audit", "model", "keys", "policies",
             "memory", "knowledge"}

-----------------------------------------------------------------------------
(* Values of the constants. *)

\* Tenants are only compared with each other, and so are slots; in the cfg each of
\* the two sets is that of all components.
Symmetry == Permutations(StoreTenants) \cup Permutations(StoreCalls)

MCHosts == {<<"com", "a">>, <<"com", "a", "b">>, <<"org", "a">>}
MCPaths == {<<>>, <<"x">>}

HostRules == {[base |-> <<"com", "a">>, wild |-> w] : w \in BOOLEAN}
TargetsAt(rules, path) == {[host |-> h, port |-> NoPort, path |-> path] : h \in rules}
Same(kind, mode, entries) == [mode |-> mode, lists |-> [r \in Roles[kind] |-> entries]]

MCPolicyEdits ==
  [delivery |-> {Same("delivery", "disabled", TargetsAt(HostRules, <<>>)),
                 Same("delivery", "allowlist_only", TargetsAt({h \in HostRules : h.wild}, <<"x">>))},
   remote   |-> {Same("remote", "allowlist_only", HostRules)},
   operator |-> {Same("operator", "roster_required", Admins)}]

MCPolicyDefaults ==
  [delivery |-> {Same("delivery", "inherit_remote_policy", {})},
   remote   |-> {Same("remote", "preview_only", {})},
   operator |-> {Same("operator", mode, {}) : mode \in {"open_admins", "roster_required"}}]

Memo(id, fact) == [id |-> id, fact |-> fact]
Named == CHOOSE id \in ClientIds : TRUE
MCBatches ==
  {<<Memo(NoId, "f"), Memo(Named, "g")>>, <<Memo(Named, "f")>>,
   <<Memo(NoId, "g"), Memo(NoId, "g")>>}

Sent(id, n) == [id |-> id, chunks |-> n]
Called == CHOOSE id \in DocumentIds : TRUE
MCRagBatches ==
  {<<Sent(Called, 2)>>, <<Sent(Called, 0)>>, <<Sent(NoDocumentId, 1), Sent(Called, 1)>>}

-----------------------------------------------------------------------------
(* One component moves. *)

\* What a component's Init leaves open is fixed while another is the subject.
Start(s, v, S) == subject # s => v = CHOOSE x \in S : TRUE

ServicesInit ==
  /\ subject \in Subjects
  /\ SessionInit /\ LimitInit /\ AuditInit /\ ModelInit /\ KeyInit /\ PolicyInit
  /\ MemInit /\ RagInit
  /\ Start("audit", limit, AuditLimits)
  /\ Start("model", deployment, Deployments)
  /\ Start("policies", policyKind, Kinds)
  /\ Start("policies", perRole, PolicyLimits)
  /\ Start("policies", fallback, PolicyDefaults[policyKind])

ServicesNext ==
  /\ UNCHANGED subject
  /\ IF subject = "sessions"   THEN SessionNext ELSE UNCHANGED sessionVars
  /\ IF subject = "limits"     THEN LimitNext   ELSE UNCHANGED limitVars
  /\ IF subject = "audit"      THEN AuditNext   ELSE UNCHANGED auditVars
  /\ IF subject = "model"      THEN ModelNext   ELSE UNCHANGED modelVars
  /\ IF subject = "keys"       THEN KeyNext     ELSE UNCHANGED keyVars
  /\ IF subject = "policies"   THEN PolicyNext  ELSE UNCHANGED policyVars
  /\ IF subject = "memory"     THEN MemNext     ELSE UNCHANGED memVars
  /\ IF subject = "knowledge"  THEN RagNext     ELSE UNCHANGED ragVars

ServicesSpec ==
  ServicesInit /\ [][ServicesNext]_<<subject, sessionVars, limitVars, auditVars, modelVars,
                                     keyVars, policyVars, memVars, ragVars>>

-----------------------------------------------------------------------------
(* The components' properties.  One that is expensive to evaluate is evaluated     *)
(* where its component moves: the others' states say nothing new of it.            *)

\* Every component's variables have their shapes.
ServiceTypesOK ==
  CASE subject = "sessions" -> SessionTypeOK
    [] subject = "limits"   -> LimitTypeOK
    [] subject = "audit"    -> AuditTypeOK
    [] subject = "model"    -> ModelTypeOK
    [] subject = "keys"     -> KeyTypeOK
    [] subject = "policies" -> PolicyTypeOK
    [] subject = "memory"   -> MemTypeOK
    [] subject = "knowledge" -> RagTypeOK

\* What a tenant was told is stored is what is stored for it, in the model policy's
\* file, the key's and those of the three policies, unless writes met.
AnswersAreKept ==
  CASE subject = "model"    -> AnsweredIsStored
    [] subject = "keys"     -> KeysAreAsAnswered
    [] subject = "policies" -> ToldPolicyGoverns
    [] OTHER -> TRUE

\* ResolvesWithinBoth: a request gets a model that both lists allow.
ModelsResolveWithinBoth == subject = "model" => ResolvesWithinBoth

\* PreviewForetells: a preview of a model policy says what the update would do.
ModelPreviewForetells == subject = "model" => PreviewForetells

\* RulesNest: a narrower rule reaches no more.
PolicyRulesNest == subject = "policies" => RulesNest
=============================================================================
