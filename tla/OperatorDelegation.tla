-------------------------- MODULE OperatorDelegation --------------------------
(***************************************************************************)
(* Delegation of one tenant's incident actions to principals outside the   *)
(* roster (src/service/security/export-operator-delegation.ts) and the     *)
(* routes that use the grants (src/service/api/routes/security-events.ts). *)
(*                                                                         *)
(* Grants live in a file only: an operation reads it, changes what it read *)
(* and starts a write, all in one step of the event loop; writes overlap   *)
(* (module JsonFile).  The route of a delegated action looks its grant up, *)
(* carries the action out and consumes the grant when the action is over.  *)
(* The incident is the part of module ExportDelivery's that grants depend  *)
(* on: its revision, and what the three actions ask of it.                 *)
(***************************************************************************)
EXTENDS JsonFile, Naturals, FiniteSets

CONSTANTS
  Principals,
  Approvers,     \* the roster for clear_approve, who also manage delegations
  Operators,     \* the roster for acknowledge and clear_request
  MaxActive,     \* exportOperatorDelegationMaxActivePerTenant
  MaxPending,    \* exportOperatorDelegationMaxPendingPerTenant
  ApprovalTtl,   \* exportOperatorDelegationApprovalTtlMinutes
  GrantTtl,      \* requested_ttl_minutes
  \* Bounds of the model.
  Delegates, Askable,   \* the principals and actions grants are asked for
  MaxGrants, MaxHandlers, MaxRevision, MaxTime, MaxCrashes

ASSUME DelegationAssumption ==
  /\ {MaxActive, MaxPending, ApprovalTtl, GrantTtl} \subseteq Nat \ {0}
  /\ {MaxGrants, MaxHandlers, MaxRevision, MaxTime, MaxCrashes} \subseteq Nat
  /\ Approvers \cup Operators \subseteq Principals
  /\ None \notin Principals
  /\ Delegates \subseteq Principals
  /\ Askable \subseteq {"acknowledge", "clear_request", "clear_approve"}

Actions == {"acknowledge", "clear_request", "clear_approve"}

LiveStatus    == {"pending_approval", "active"}
SettledStatus == {"consumed", "revoked", "expired", "approval_expired"}

\* due is approval_expires_at while the grant is pending, expires_at once active.
Grant ==
  [rev: Nat, action: Actions, delegate: Principals, by: Principals,
   status: LiveStatus \cup SettledStatus, approver: Principals \cup {None}, due: Nat]

Incident ==
  [rev: Nat, status: {"active", "resolved"}, ackBy: Principals \cup {None},
   request: Principals \cup {None}]

VARIABLES
  incident,   \* the incident grants are asked for
  handlers,   \* actions between their checks and their end
  now,
  issued,     \* grant ids handed out
  crashes     \* so far

vars == <<disk, writers, incident, handlers, now, issued, crashes>>

NoGrants == [g \in {} |-> None]

\* The incident is followed from any point on its way to a clear.
Init ==
  /\ FileInit
  /\ incident \in [rev : {1}, status : {"active"}, ackBy : Operators \cup {None},
                   request : Operators \cup {None}]
  /\ incident.request # None => incident.ackBy # None
  /\ handlers = [h \in {} |-> None]
  /\ now \in 1 .. MaxTime
  /\ issued = 0
  /\ crashes \in 0 .. MaxCrashes

-----------------------------------------------------------------------------
(* The store. *)

\* materializeGrantStatus.
Materialized(grant) ==
  IF grant.due > now THEN grant
  ELSE IF grant.status = "pending_approval" THEN [grant EXCEPT !.status = "approval_expired"]
  ELSE IF grant.status = "active" THEN [grant EXCEPT !.status = "expired"]
  ELSE grant

\* readStore and withMaterializedTenantGrants; a file that cannot be read is no grant.
Store ==
  LET file == IF Legible(disk.file) THEN disk.file ELSE NoGrants
  IN  [g \in DOMAIN file |-> Materialized(file[g])]

WithStatus(store, status) == {g \in DOMAIN store : store[g].status = status}

Active(store)  == WithStatus(store, "active")
Pending(store) == WithStatus(store, "pending_approval")

\* Grants for the same thing; the incident is the same for all.
SameScope(a, b) == a.rev = b.rev /\ a.action = b.action /\ a.delegate = b.delegate

-----------------------------------------------------------------------------
(* POST operator-delegations, .../approve and .../revoke. *)

\* Mutant: a request without a deadline.
NewGrantUndated(p, d, a) ==
  [rev |-> incident.rev, action |-> a, delegate |-> d, by |-> p,
   status |-> "pending_approval", approver |-> None, due |-> None]

NewGrant(p, d, a) ==
  [rev |-> incident.rev, action |-> a, delegate |-> d, by |-> p,
   status |-> "pending_approval", approver |-> None, due |-> now + ApprovalTtl]

\* Mutant: the limit on pending grants is one higher.
RoomOffByOne(store) ==
  Cardinality(Active(store)) < MaxActive /\ Cardinality(Pending(store)) <= MaxPending

Room(store) ==
  Cardinality(Active(store)) < MaxActive /\ Cardinality(Pending(store)) < MaxPending

\* Mutant: only a pending grant is a duplicate.
DuplicatePending(store, grant) ==
  \E g \in Pending(store) : SameScope(store[g], grant)

Duplicate(store, grant) ==
  \E g \in Active(store) \cup Pending(store) : SameScope(store[g], grant)

CreateGrant(p, d, a) ==
  LET store == Store
      grant == NewGrant(p, d, a)
  IN  /\ p # d
      /\ Room(store)
      /\ ~Duplicate(store, grant)
      /\ WriteJson([g \in DOMAIN store \cup {issued + 1} |->
                      IF g \in DOMAIN store THEN store[g] ELSE grant])

\* Who may clear incidents manages the delegations.
MayDelegate(p) == p \in Approvers

RequestGrant(p, d, a) ==
  /\ issued < MaxGrants
  /\ incident.status = "active"
  /\ MayDelegate(p)
  /\ CreateGrant(p, d, a)
  /\ issued' = issued + 1
  /\ UNCHANGED <<incident, handlers, now, crashes>>

\* getSecurityExportOperatorDelegationScope: current.
InScope(grant) == incident.status = "active" /\ incident.rev = grant.rev

\* Mutants: the requester may approve, or a request that is no longer pending is
\* approved.
ApprovableByAll(store, g, p) ==
  /\ store[g].status = "pending_approval"
  /\ InScope(store[g])
  /\ store[g].delegate # p
  /\ \A o \in Active(store) \ {g} : ~SameScope(store[o], store[g])

ApprovableAnytime(store, g, p) ==
  /\ InScope(store[g])
  /\ store[g].by # p
  /\ store[g].delegate # p
  /\ \A o \in Active(store) \ {g} : ~SameScope(store[o], store[g])

Approvable(store, g, p) ==
  /\ store[g].status = "pending_approval"
  /\ InScope(store[g])
  /\ store[g].by # p
  /\ store[g].delegate # p
  /\ \A o \in Active(store) \ {g} : ~SameScope(store[o], store[g])

ApproveGrant(p, g) ==
  LET store == Store
  IN  /\ g \in DOMAIN store
      /\ Approvable(store, g, p)
      /\ WriteJson([store EXCEPT ![g].status = "active",
                                 ![g].approver = p,
                                 ![g].due = now + GrantTtl])

Approve(p, g) ==
  /\ MayDelegate(p)
  /\ ApproveGrant(p, g)
  /\ UNCHANGED <<incident, handlers, now, issued, crashes>>

RevokeGrant(g) ==
  LET store == Store
  IN  /\ g \in Active(store) \cup Pending(store)
      /\ WriteJson([store EXCEPT ![g].status = "revoked"])

Revoke(p, g) ==
  /\ MayDelegate(p)
  /\ RevokeGrant(g)
  /\ UNCHANGED <<incident, handlers, now, issued, crashes>>

-----------------------------------------------------------------------------
(* POST delivery-incidents/:id/acknowledge, clear-request and clear. *)

Roster(a) == IF a = "clear_approve" THEN Approvers ELSE Operators

\* findActiveSecurityExportOperatorDelegation returns the grant asked for last.
Matching(store, p, a) ==
  {g \in Active(store) : store[g].action = a /\ store[g].delegate = p}

Newest(grants) == {g \in grants : \A o \in grants : o <= g}

\* The grants an action of p may rest on: none is needed on the roster; the one
\* found must be for the incident as it is.
Authority(p, a) ==
  IF p \in Roster(a) THEN {None}
  ELSE {g \in Newest(Matching(Store, p, a)) : InScope(Store[g])}

Ready(p, a) ==
  /\ incident.status = "active"
  /\ a = "acknowledge" => incident.ackBy = None
  /\ a = "clear_request" => incident.ackBy # None /\ incident.request = None
  /\ a = "clear_approve" => incident.ackBy # None /\ incident.request \notin {None, p}

\* The checks, up to the first await.  An acknowledgement is in memory by then;
\* a clear request and a clear have only read the incident.
Begin(p, a, g) ==
  /\ incident.rev < MaxRevision
  /\ g \in Authority(p, a)
  /\ Ready(p, a)
  /\ \E new \in (1 .. MaxHandlers) \ DOMAIN handlers :
       handlers' = [h \in DOMAIN handlers \cup {new} |->
                      IF h = new THEN [action |-> a, by |-> p, grant |-> g, copy |-> incident]
                      ELSE handlers[h]]
  /\ incident' = IF a = "acknowledge"
                 THEN [incident EXCEPT !.ackBy = p, !.rev = @ + 1] ELSE incident
  /\ UNCHANGED <<disk, writers, now, issued, crashes>>

Acknowledge(p, g)  == Begin(p, "acknowledge", g)
RequestClear(p, g) == Begin(p, "clear_request", g)
ApproveClear(p, g) == Begin(p, "clear_approve", g)

WithoutHandler(h) == [o \in DOMAIN handlers \ {h} |-> handlers[o]]

\* saveIncident writes the copy the handler has carried since its checks.
Saved(q) ==
  CASE q.action = "acknowledge"   -> incident
    [] q.action = "clear_request" -> [q.copy EXCEPT !.request = q.by, !.rev = @ + 1]
    [] q.action = "clear_approve" -> [q.copy EXCEPT !.status = "resolved", !.rev = @ + 1]

\* A grant that is no longer active is answered 409, after the action.
Consume(g) ==
  LET store == Store
  IN  IF g \in Active(store)
      THEN WriteJson([store EXCEPT ![g].status = "consumed"])
      ELSE UNCHANGED <<disk, writers>>

ConsumeIfNeeded(q) ==
  IF q.grant = None THEN UNCHANGED <<disk, writers>> ELSE Consume(q.grant)

Finish(h) ==
  LET q == handlers[h]
  IN  /\ h \in DOMAIN handlers
      /\ incident' = Saved(q)
      /\ handlers' = WithoutHandler(h)
      /\ ConsumeIfNeeded(q)
      /\ UNCHANGED <<now, issued, crashes>>

\* The canary is refused, the clear's preview does not allow the target, or the
\* store cannot be written: the handler throws and the grant stays as it is.
Fail(h) ==
  /\ h \in DOMAIN handlers
  /\ handlers' = WithoutHandler(h)
  /\ UNCHANGED <<disk, writers, incident, now, issued, crashes>>

-----------------------------------------------------------------------------
(* The surroundings. *)

\* Another receipt of the destination: syncIncidentState moves the revision,
\* drops the clear request and may take the acknowledgement back.
ReceiptArrives ==
  /\ incident.rev < MaxRevision
  /\ incident.status = "active"
  /\ \E ackBy \in {None, incident.ackBy} :
       incident' = [incident EXCEPT !.rev = @ + 1, !.ackBy = ackBy, !.request = None]
  /\ UNCHANGED <<disk, writers, handlers, now, issued, crashes>>

FileStep ==
  /\ WriterStep
  /\ UNCHANGED <<incident, handlers, now, issued, crashes>>

Crash ==
  /\ crashes < MaxCrashes
  /\ crashes' = crashes + 1
  /\ WritersDie
  /\ handlers' = [h \in {} |-> None]
  /\ UNCHANGED <<incident, now, issued>>

Tick ==
  /\ now < MaxTime
  /\ now' = now + 1
  /\ UNCHANGED <<disk, writers, incident, handlers, issued, crashes>>

Next ==
  \/ \E p \in Principals, d \in Delegates, a \in Askable : RequestGrant(p, d, a)
  \/ \E p \in Principals, g \in 1 .. MaxGrants : Approve(p, g) \/ Revoke(p, g)
  \/ \E p \in Principals, g \in {None} \cup 1 .. MaxGrants :
       Acknowledge(p, g) \/ RequestClear(p, g) \/ ApproveClear(p, g)
  \/ \E h \in DOMAIN handlers : Finish(h) \/ Fail(h)
  \/ FileStep
  \/ ReceiptArrives
  \/ Crash
  \/ Tick

Spec == Init /\ [][Next]_vars

-----------------------------------------------------------------------------
(* Correctness. *)

Handler == [action: Actions, by: Principals, grant: Nat \cup {None}, copy: Incident]

\* Grants as one write puts them into the file.
IsStore(c) == DOMAIN c \subseteq 1 .. issued /\ c \in [DOMAIN c -> Grant]

\* Every variable holds what the code's types say.
TypeOK ==
  /\ DOMAIN disk = {"file", "tmp"}
  /\ \A c \in Contents : IsStore(c)
  /\ DOMAIN writers \subseteq Slots
  /\ \A w \in DOMAIN writers :
       /\ writers[w] = [step |-> writers[w].step, fd |-> writers[w].fd,
                        content |-> writers[w].content]
       /\ writers[w].step \in {"open", "write", "rename"}
       /\ writers[w].fd \in Places
       /\ IsStore(writers[w].content)
  /\ incident \in Incident
  /\ DOMAIN handlers \subseteq Nat /\ handlers \in [DOMAIN handlers -> Handler]
  /\ now \in Nat
  /\ issued \in Nat
  /\ crashes \in Nat

\* However reads and writes overlap, a grant that may be used, or was, has the
\* word of two approvers, neither of them the one it is for.
TwoPersonRule(grant) ==
  /\ grant.by \in Approvers
  /\ grant.by # grant.delegate
  /\ grant.status \in {"active", "consumed", "expired"} =>
       /\ grant.approver \in Approvers
       /\ grant.approver \notin {grant.by, grant.delegate}

SeparationOfDuties == \A c \in Contents : \A g \in DOMAIN c : TwoPersonRule(c[g])

\* No two live grants for the same thing: a second one would outlive the
\* consumption or the revocation of the first.
NoTwinGrants ==
  \A c \in Contents : \A g, o \in DOMAIN c :
    /\ g # o
    /\ c[g].status \in LiveStatus /\ c[o].status \in LiveStatus
    => ~SameScope(c[g], c[o])

\* Approval does not look at the limit on active grants, so what both limits
\* bound is the sum: all pending grants may become active on top of the last
\* place but one.
LiveGrantsBounded ==
  \A c \in Contents :
    /\ Cardinality(Pending(c)) <= MaxPending
    /\ Cardinality(Active(c) \cup Pending(c)) <= MaxActive + MaxPending - 1

\* A grant that is settled in the file and in everything under way to it stays
\* settled or is forgotten: consumed, revoked and expired grants come back only
\* through a write that was started before.
SettledEverywhere(g) == \A c \in Contents : g \in DOMAIN c => c[g].status \in SettledStatus

SettledIsFinal ==
  [][\A g \in 1 .. MaxGrants :
       g <= issued /\ SettledEverywhere(g) => SettledEverywhere(g)']_vars

\* A grant is good for one action: consuming it after a successful action closes
\* the window for a replay (decisions.md:125).
ConsumedGrantIsSpent ==
  [][\A h \in DOMAIN handlers \ DOMAIN handlers' :
       /\ handlers[h].grant # None
       /\ incident' # incident /\ incident' = Saved(handlers[h])
       => handlers[h].grant \notin WithStatus(Store, "consumed")]_vars
=============================================================================
