------------------------- MODULE ExportDeliveryProofs -------------------------
(***************************************************************************)
(* Proofs about ExportDelivery for any destinations, operators, limits and *)
(* bounds: the types, and that a destination is reopened by two operators  *)
(* after the cooldown of the incident they saw.                            *)
(*                                                                         *)
(* The second is not inductive as it stands.  A clear carries a copy of    *)
(* the incident over a DNS lookup and saves that copy, whatever became of  *)
(* the incident meanwhile; so the invariant says of every copy in flight   *)
(* what the checks established when it was made (CopyEarned), and that     *)
(* time has only passed since.                                             *)
(*                                                                         *)
(* Before them stand the lemmas about the operators of DeliveryStore: what *)
(* a list contains after Unshift, when clear_after is defined, what a look *)
(* at the incidents may change.                                            *)
(***************************************************************************)
EXTENDS ExportDelivery, FiniteSetTheorems, WellFoundedInduction, TLAPS

IsList(list, Entry) == list \in [DOMAIN list -> Entry] /\ DOMAIN list \subseteq Nat

DatedBy(list, t) == \A i \in DOMAIN list : list[i].at <= t

\* Two incidents that differ at most in their place.
SameIncident(a, b) ==
  /\ a.status = b.status /\ a.ackBy = b.ackBy /\ a.request = b.request
  /\ a.clearedBy = b.clearedBy /\ a.clearAfter = b.clearAfter

-----------------------------------------------------------------------------
(* Extrema of sets of natural numbers. *)

\* A nonempty set of natural numbers has a least element.
LEMMA MinExists ==
  ASSUME NEW S \in SUBSET Nat, S # {}
  PROVE  \E m \in S : \A n \in S : m <= n
<1> DEFINE R == OpToRel(<, Nat)
<1>1. IsWellFoundedOn(R, Nat)
  BY NatLessThanWellFounded
<1>2. \A x, y \in Nat : x < y => <<x, y>> \in R
  BY DEF OpToRel
<1>3. PICK m \in S : \A n \in S : ~(<<n, m>> \in R)
  <2> HIDE DEF R
  <2> QED
    BY <1>1, WFMin
<1>4. ASSUME NEW n \in S
      PROVE  m <= n
  <2> HIDE DEF R
  <2>1. m \in Nat /\ n \in Nat /\ ~(n < m)
    BY <1>2, <1>3
  <2> QED
    BY <2>1
<1> QED
  BY <1>4

\* A nonempty bounded set of natural numbers has a greatest element.
LEMMA MaxExists ==
  ASSUME NEW S \in SUBSET Nat, NEW b \in Nat, \A n \in S : n <= b, S # {}
  PROVE  \E m \in S : \A n \in S : n <= m
<1> DEFINE T == {k \in Nat : b - k \in S}
<1>1. T \subseteq Nat /\ T # {}
  <2>1. PICK n \in S : TRUE
    OBVIOUS
  <2>2. b - n \in Nat /\ b - (b - n) = n
    BY <2>1
  <2> QED
    BY <2>1, <2>2
<1>2. PICK k \in T : \A j \in T : k <= j
  <2> HIDE DEF T
  <2> QED
    BY <1>1, MinExists
<1>3. ASSUME NEW n \in S
      PROVE  n <= b - k
  <2>1. b - n \in Nat /\ b - (b - n) = n /\ n \in Nat /\ k \in Nat
    BY <1>3
  <2>2. k <= b - n
    BY <1>2, <2>1
  <2> QED
    BY <2>1, <2>2
<1> QED
  BY <1>3

-----------------------------------------------------------------------------
(* Lists. *)

\* Unshift adds one entry and moves the others.
LEMMA UnshiftEntries ==
  ASSUME NEW list, NEW r
  PROVE  /\ Unshift(list, r) = [i \in DOMAIN Unshift(list, r) |-> Unshift(list, r)[i]]
         /\ \A i \in DOMAIN Unshift(list, r) :
              \/ i = r.id /\ Unshift(list, r)[i] = [r EXCEPT !.pos = 1]
              \/ /\ i \in DOMAIN list
                 /\ \/ Unshift(list, r)[i] = list[i]
                    \/ Unshift(list, r)[i] = [list[i] EXCEPT !.pos = @ + 1]
  BY DEF Unshift, Pushed, Restrict

\* A receipt stays one wherever it stands in the list.
LEMMA MovedReceipt ==
  ASSUME NEW r \in DeliveryRecord, NEW p \in Nat
  PROVE  /\ [r EXCEPT !.pos = p] \in DeliveryRecord
         /\ [r EXCEPT !.pos = p].at = r.at
  BY DEF DeliveryRecord

\* An incident stays the same one wherever it stands in the list.
LEMMA MovedIncident ==
  ASSUME NEW inc \in Incident, NEW p \in Nat
  PROVE  /\ [inc EXCEPT !.pos = p] \in Incident
         /\ SameIncident([inc EXCEPT !.pos = p], inc)
  BY DEF Incident, SameIncident

\* The deliveries after upsert.
LEMMA UnshiftReceipt ==
  ASSUME NEW list, IsList(list, DeliveryRecord), NEW r \in DeliveryRecord,
         NEW t \in Nat, DatedBy(list, t), r.at <= t
  PROVE  IsList(Unshift(list, r), DeliveryRecord) /\ DatedBy(Unshift(list, r), t)
<1> DEFINE U == Unshift(list, r)
<1>1. r.id \in Nat
  BY DEF DeliveryRecord
<1>2. ASSUME NEW i \in DOMAIN U
      PROVE  U[i] \in DeliveryRecord /\ U[i].at <= t /\ i \in Nat
  <2>1. CASE i = r.id /\ U[i] = [r EXCEPT !.pos = 1]
    BY <1>1, <2>1, MovedReceipt
  <2>2. CASE i \in DOMAIN list /\ U[i] = list[i]
    BY <2>2 DEF IsList, DatedBy
  <2>3. CASE i \in DOMAIN list /\ U[i] = [list[i] EXCEPT !.pos = @ + 1]
    <3>1. list[i] \in DeliveryRecord /\ list[i].pos + 1 \in Nat /\ list[i].at <= t /\ i \in Nat
      BY <2>3 DEF IsList, DatedBy, DeliveryRecord
    <3>2. U[i] = [list[i] EXCEPT !.pos = list[i].pos + 1]
      BY <2>3, <3>1 DEF DeliveryRecord
    <3> HIDE DEF U
    <3> QED
      BY <3>1, <3>2, MovedReceipt
  <2> QED
    BY <2>1, <2>2, <2>3, UnshiftEntries
<1>3. U = [i \in DOMAIN U |-> U[i]]
  BY UnshiftEntries
<1> QED
  <2> HIDE DEF U
  <2>1. IsList(U, DeliveryRecord) /\ DatedBy(U, t)
    BY <1>2, <1>3 DEF IsList, DatedBy
  <2> QED
    BY <2>1 DEF U

\* The incidents after one was saved: those resolved are the saved one or were
\* resolved before.
LEMMA UnshiftIncident ==
  ASSUME NEW list, IsList(list, Incident), NEW inc \in Incident
  PROVE  /\ IsList(Unshift(list, inc), Incident)
         /\ \A i \in DOMAIN Unshift(list, inc) :
              \/ SameIncident(Unshift(list, inc)[i], inc)
              \/ i \in DOMAIN list /\ SameIncident(Unshift(list, inc)[i], list[i])
<1> DEFINE U == Unshift(list, inc)
<1>1. inc.id \in Nat
  BY DEF Incident
<1>2. ASSUME NEW i \in DOMAIN U
      PROVE  /\ U[i] \in Incident /\ i \in Nat
             /\ \/ SameIncident(U[i], inc)
                \/ i \in DOMAIN list /\ SameIncident(U[i], list[i])
  <2>1. CASE i = inc.id /\ U[i] = [inc EXCEPT !.pos = 1]
    BY <1>1, <2>1, MovedIncident
  <2>2. CASE i \in DOMAIN list /\ U[i] = list[i]
    BY <2>2 DEF IsList, SameIncident
  <2>3. CASE i \in DOMAIN list /\ U[i] = [list[i] EXCEPT !.pos = @ + 1]
    <3>1. list[i] \in Incident /\ list[i].pos + 1 \in Nat /\ i \in Nat
      BY <2>3 DEF IsList, Incident
    <3>2. U[i] = [list[i] EXCEPT !.pos = list[i].pos + 1]
      BY <2>3, <3>1 DEF Incident
    <3> HIDE DEF U
    <3> QED
      BY <2>3, <3>1, <3>2, MovedIncident
  <2> QED
    BY <2>1, <2>2, <2>3, UnshiftEntries
<1>3. U = [i \in DOMAIN U |-> U[i]]
  BY UnshiftEntries
<1> QED
  <2> HIDE DEF U
  <2>1. IsList(U, Incident)
    BY <1>2, <1>3 DEF IsList
  <2> QED
    BY <1>2, <2>1 DEF U

-----------------------------------------------------------------------------
(* Incidents. *)

\* A threshold is reached only by failures, so the last of them has a date.
LEMMA ClearAfterDefined ==
  ASSUME NEW list, IsList(list, DeliveryRecord), NEW t \in Nat, DatedBy(list, t),
         NEW d, Breached(list, d, t)
  PROVE  ClearAfter(list, d, t) \in Nat
<1> DEFINE F == Failures(list, d, t)
           S == {list[i].at : i \in F}
<1>1. F # {}
  <2>1. F = {} => DeadLetters(list, d, t) = {}
    BY DEF Failures, DeadLetters, FailedStatus
  <2>2. ~(0 >= DeadLimit) /\ ~(0 >= FailureLimit)
    BY StoreAssumption
  <2> HIDE DEF F
  <2> QED
    BY <2>1, <2>2, FS_EmptySet DEF Breached, F
<1>2. S \in SUBSET Nat /\ S # {} /\ \A n \in S : n <= t
  BY <1>1 DEF Failures, InWindow, IsList, DatedBy, DeliveryRecord
<1>3. \E m \in S : \A n \in S : n <= m
  <2> HIDE DEF S
  <2> QED
    BY <1>2, MaxExists
<1>4. LastFailureAt(list, d, t) \in Nat
  <2>1. \E m \in S : \A i \in F : list[i].at <= m
    BY <1>3
  <2>2. LastFailureAt(list, d, t) \in S
    BY <2>1 DEF LastFailureAt
  <2> QED
    BY <1>2, <2>2
<1> QED
  BY <1>4, StoreAssumption DEF ClearAfter

\* The active incident that find returns exists.
LEMMA ActiveIncidentExists ==
  ASSUME NEW incs, IsList(incs, Incident), NEW d, ActiveIncidents(incs, d) # {}
  PROVE  ActiveIncident(incs, d) \in ActiveIncidents(incs, d)
<1> DEFINE A == ActiveIncidents(incs, d)
           S == {incs[i].pos : i \in A}
<1>1. S \in SUBSET Nat /\ S # {}
  BY DEF ActiveIncidents, IsList, Incident
<1>2. \E m \in S : \A n \in S : m <= n
  <2> HIDE DEF S
  <2> QED
    BY <1>1, MinExists
<1>3. \E i \in A : \A j \in A : incs[i].pos <= incs[j].pos
  BY <1>2
<1> QED
  BY <1>3 DEF ActiveIncident

\* A refreshed incident is one, and neither opens nor resolves by that.
LEMMA RefreshedFacts ==
  ASSUME NEW list, IsList(list, DeliveryRecord), NEW t \in Nat, DatedBy(list, t),
         NEW d, NEW inc \in Incident
  PROVE  /\ Refreshed(inc, list, d, t) \in Incident
         /\ Refreshed(inc, list, d, t).status = inc.status
<1> DEFINE moved == Breached(list, d, t) /\ ClearAfter(list, d, t) # inc.clearAfter
           after == IF moved THEN ClearAfter(list, d, t) ELSE inc.clearAfter
           by    == IF moved THEN None ELSE inc.ackBy
<1>1. after \in Nat
  BY ClearAfterDefined DEF Incident
<1>2. by \in Operators \cup {None}
  BY DEF Incident
<1>3. Refreshed(inc, list, d, t) =
        [inc EXCEPT !.rev = @ + 1, !.request = None, !.clearAfter = after, !.ackBy = by]
  BY DEF Refreshed, Incident
<1> HIDE DEF moved, after, by
<1>4. Refreshed(inc, list, d, t) =
        [id |-> inc.id, pos |-> inc.pos, status |-> inc.status, dest |-> inc.dest,
         clearAfter |-> after, ackBy |-> by, rev |-> inc.rev + 1, request |-> None,
         clearedBy |-> inc.clearedBy]
  BY <1>3 DEF Incident
<1>5. inc.rev + 1 \in Nat /\ None \in ClearRequest \cup {None}
  BY DEF Incident
<1> QED
  BY <1>1, <1>2, <1>4, <1>5 DEF Incident

\* syncIncidentState resolves nothing: what is resolved after it was so before.
LEMMA SyncedFacts ==
  ASSUME NEW list, IsList(list, DeliveryRecord), NEW t \in Nat, DatedBy(list, t),
         NEW incs, IsList(incs, Incident), NEW d \in Dests, NEW n \in Nat
  PROVE  /\ IsList(SyncedIncidents(list, incs, d, t, n), Incident)
         /\ \A i \in DOMAIN SyncedIncidents(list, incs, d, t, n) :
              SyncedIncidents(list, incs, d, t, n)[i].status = "resolved" =>
                i \in DOMAIN incs /\ SameIncident(SyncedIncidents(list, incs, d, t, n)[i], incs[i])
<1> DEFINE Earlier(list2) ==
             /\ IsList(list2, Incident)
             /\ \A i \in DOMAIN list2 :
                  list2[i].status = "resolved" => i \in DOMAIN incs /\ SameIncident(list2[i], incs[i])
<1>1. ASSUME NEW inc \in Incident, inc.status = "active"
      PROVE  Earlier(Unshift(incs, inc))
  BY <1>1, UnshiftIncident DEF SameIncident
<1>2. CASE ActiveIncidents(incs, d) # {}
  <2> DEFINE inc == incs[ActiveIncident(incs, d)]
  <2>1. inc \in Incident /\ inc.status = "active"
    BY <1>2, ActiveIncidentExists DEF ActiveIncidents, IsList
  <2>2. Refreshed(inc, list, d, t) \in Incident /\ Refreshed(inc, list, d, t).status = "active"
    BY <2>1, RefreshedFacts
  <2>3. SyncedIncidents(list, incs, d, t, n) = Unshift(incs, Refreshed(inc, list, d, t))
    BY <1>2 DEF SyncedIncidents
  <2> HIDE DEF inc
  <2> QED
    BY <1>1, <2>2, <2>3
<1>3. CASE ActiveIncidents(incs, d) = {} /\ Breached(list, d, t)
  <2> DEFINE inc == NewIncident(n, d, ClearAfter(list, d, t))
  <2>1. inc \in Incident /\ inc.status = "active"
    <3>1. ClearAfter(list, d, t) \in Nat
      BY <1>3, ClearAfterDefined
    <3> QED
      BY <3>1 DEF NewIncident, Incident
  <2>2. SyncedIncidents(list, incs, d, t, n) = Unshift(incs, inc)
    BY <1>3 DEF SyncedIncidents
  <2> HIDE DEF inc
  <2> QED
    BY <1>1, <2>1, <2>2
<1>4. CASE ActiveIncidents(incs, d) = {} /\ ~Breached(list, d, t)
  BY <1>4 DEF SyncedIncidents, SameIncident
<1> QED
  BY <1>2, <1>3, <1>4

-----------------------------------------------------------------------------
(* The invariant. *)

\* What holds of a resolved incident at time t.
Earned(inc, t) ==
  inc.status = "resolved" =>
    /\ inc.ackBy # None /\ inc.request # None /\ inc.clearedBy # None
    /\ inc.clearedBy # inc.request.by
    /\ inc.clearAfter <= t

\* What holds of a handler that carries a copy of an incident.
CopyEarned(q, t) ==
  /\ q.step \in {"canary", "clear"} => q.incident.status = "active"
  /\ q.step = "clear" =>
       /\ q.incident.ackBy # None /\ q.incident.request # None
       /\ q.by # q.incident.request.by
       /\ q.incident.clearAfter <= t

StoreInv ==
  /\ IsList(deliveries, DeliveryRecord) /\ DatedBy(deliveries, now)
  /\ materials \in [DOMAIN materials -> RetryMaterial] /\ DOMAIN materials \subseteq Nat
  /\ idempotency \in [DOMAIN idempotency -> IdempotencyEntry]
  /\ DOMAIN idempotency \subseteq Keys
  /\ IsList(incidents, Incident)
  /\ \A n \in DOMAIN incidents : Earned(incidents[n], now)
  /\ now \in Nat /\ opened \in Nat

HandlerInv == issued \in Nat /\ \A q \in requests : q \in Request /\ CopyEarned(q, now)

WorkerInv ==
  /\ worker \in [pc: {"idle", "next", "send", "settle", "fails"}, due: SUBSET DeliveryRecord,
                 job: DeliveryRecord \cup {None}, rule: Rules \cup {None}, caught: BOOLEAN]
  /\ worker.pc \in {"send", "settle", "fails"} => worker.job \in DeliveryRecord

EnvInv ==
  /\ targets \subseteq Dests
  /\ policy \in [Dests -> Rules \cup {None}]
  /\ drain \in BOOLEAN /\ timer \in BOOLEAN
  /\ spent \in [edits: Nat, crashes: Nat, faults: Nat]

IInv == StoreInv /\ HandlerInv /\ WorkerInv /\ EnvInv

\* The inductive invariant contains the types.
LEMMA InvImpliesTypes == IInv => TypeOK
  BY DEF IInv, StoreInv, HandlerInv, WorkerInv, EnvInv, IsList, TypeOK

\* The inductive invariant contains ResolutionIsEarned.
LEMMA InvImpliesEarned == IInv => ResolutionIsEarned
  BY DEF IInv, StoreInv, Earned, ResolutionIsEarned

-----------------------------------------------------------------------------
(* What a handler carries. *)

\* What a suspended handler carries, by the step it is at.
LEMMA RequestFields ==
  ASSUME NEW q \in Request
  PROVE  /\ q.step = "material" =>
              q.id \in Nat /\ q.key \in Keys \cup {None} /\ q.since \in Nat /\ q.material \in RetryMaterial
         /\ q.step = "remember" => q.id \in Nat /\ q.key \in Keys /\ q.since \in Nat
         /\ q.step = "schedule" => q.id \in Nat
         /\ q.step = "redrive" => q.id \in Nat /\ q.receipt \in DeliveryRecord
         /\ q.step = "sync" => q.id \in Nat /\ q.dest \in Dests /\ q.rule \in Rules
         /\ q.step = "canary" => q.incident \in Incident /\ q.by \in Operators /\ q.rule \in Rules
         /\ q.step = "clear" => q.incident \in Incident /\ q.by \in Operators
  BY DEF Request

\* A handler of the queue carries no incident, so nothing is claimed of its copy.
LEMMA RequestOfStep ==
  ASSUME NEW q,
         \/ q \in [step: {"material"}, id: Nat, key: Keys \cup {None}, since: Nat, material: RetryMaterial]
         \/ q \in [step: {"remember"}, id: Nat, key: Keys, since: Nat]
         \/ q \in [step: {"schedule"}, id: Nat]
         \/ q \in [step: {"redrive"}, id: Nat, receipt: DeliveryRecord]
         \/ q \in [step: {"sync"}, id: Nat, dest: Dests, rule: Rules]
  PROVE  q \in Request /\ \A t : CopyEarned(q, t)
  BY DEF Request, CopyEarned

\* Time only strengthens what is known of a copy.
LEMMA CopyLater ==
  ASSUME NEW q \in Request, NEW t \in Nat, NEW u \in Nat, t <= u, CopyEarned(q, t)
  PROVE  CopyEarned(q, u)
<1>1. q.step = "clear" => q.incident.clearAfter \in Nat
  BY RequestFields DEF Incident
<1> QED
  BY <1>1 DEF CopyEarned

\* Time only strengthens what is known of a resolved incident.
LEMMA EarnedLater ==
  ASSUME NEW inc \in Incident, NEW t \in Nat, NEW u \in Nat, t <= u, Earned(inc, t)
  PROVE  Earned(inc, u)
<1>1. inc.clearAfter \in Nat
  BY DEF Incident
<1> QED
  BY <1>1 DEF Earned

\* The handlers after some of them ended.
LEMMA HandlersEnd ==
  ASSUME IInv, now' \in Nat, now <= now', issued' \in Nat, requests' \subseteq requests
  PROVE  HandlerInv'
<1> SUFFICES ASSUME NEW q \in requests'
             PROVE  q \in Request /\ CopyEarned(q, now')
  BY DEF HandlerInv
<1>1. q \in Request /\ CopyEarned(q, now) /\ now \in Nat
  BY DEF IInv, HandlerInv, StoreInv
<1> QED
  BY <1>1, CopyLater

\* The handlers after one of them came to the await next.
LEMMA HandlersAfter ==
  ASSUME IInv, now' \in Nat, now <= now', issued' \in Nat,
         NEW next \in Request, CopyEarned(next, now'),
         requests' \subseteq requests \cup {next}
  PROVE  HandlerInv'
<1> SUFFICES ASSUME NEW q \in requests'
             PROVE  q \in Request /\ CopyEarned(q, now')
  BY DEF HandlerInv
<1>1. CASE q = next
  BY <1>1
<1>2. CASE q \in requests
  <2>1. q \in Request /\ CopyEarned(q, now) /\ now \in Nat
    BY <1>2 DEF IInv, HandlerInv, StoreInv
  <2> QED
    BY <2>1, CopyLater
<1> QED
  BY <1>1, <1>2

\* The store when only its payloads, keys or the clock changed.
LEMMA StoreAfter ==
  ASSUME IInv, UNCHANGED <<deliveries, incidents, opened>>, now' \in Nat, now <= now',
         materials' \in [DOMAIN materials' -> RetryMaterial], DOMAIN materials' \subseteq Nat,
         idempotency' \in [DOMAIN idempotency' -> IdempotencyEntry],
         DOMAIN idempotency' \subseteq Keys
  PROVE  StoreInv'
<1>1. DatedBy(deliveries', now')
  BY DEF IInv, StoreInv, DatedBy, IsList, DeliveryRecord
<1>2. \A n \in DOMAIN incidents' : Earned(incidents'[n], now')
  BY EarnedLater DEF IInv, StoreInv, IsList
<1> QED
  BY <1>1, <1>2 DEF IInv, StoreInv, IsList

\* After an upsert.
LEMMA UpsertStore ==
  ASSUME IInv, NEW r \in DeliveryRecord, NEW idem, idem \in [DOMAIN idem -> IdempotencyEntry],
         DOMAIN idem \subseteq Keys, Upsert(r, idem)
  PROVE  StoreInv' /\ now' \in Nat /\ now <= now'
<1> DEFINE all == Unshift(deliveries, r)
<1>1. r.at \in Nat /\ r.dest \in Dests /\ now \in Nat /\ opened \in Nat
  BY DEF DeliveryRecord, IInv, StoreInv
<1>2. now' \in Nat /\ now <= now' /\ r.at <= now'
  BY <1>1 DEF Upsert, Clock
<1>3. DatedBy(deliveries, now')
  BY <1>1, <1>2 DEF IInv, StoreInv, DatedBy, IsList, DeliveryRecord
<1>4. IsList(all, DeliveryRecord) /\ DatedBy(all, now')
  BY <1>2, <1>3, UnshiftReceipt DEF IInv, StoreInv
<1>5. /\ deliveries' = all
      /\ incidents' = SyncedIncidents(all, incidents, r.dest, now', opened + 1)
  BY DEF Upsert
<1>6. /\ IsList(incidents', Incident)
      /\ \A i \in DOMAIN incidents' : incidents'[i].status = "resolved" =>
           i \in DOMAIN incidents /\ SameIncident(incidents'[i], incidents[i])
  <2>1. opened + 1 \in Nat /\ IsList(incidents, Incident)
    BY <1>1 DEF IInv, StoreInv
  <2> HIDE DEF all
  <2> QED
    BY <1>1, <1>2, <1>4, <1>5, <2>1, SyncedFacts
<1>7. ASSUME NEW n \in DOMAIN incidents'
      PROVE  Earned(incidents'[n], now')
  <2>1. CASE incidents'[n].status = "resolved"
    <3>1. n \in DOMAIN incidents /\ SameIncident(incidents'[n], incidents[n])
      BY <1>6, <2>1
    <3>2. Earned(incidents[n], now')
      BY <1>1, <1>2, <3>1, EarnedLater DEF IInv, StoreInv, IsList
    <3> QED
      BY <3>1, <3>2 DEF SameIncident, Earned
  <2> QED
    BY <2>1 DEF Earned
<1>8. /\ materials' \in [DOMAIN materials' -> RetryMaterial] /\ DOMAIN materials' \subseteq Nat
      /\ idempotency' \in [DOMAIN idempotency' -> IdempotencyEntry]
      /\ DOMAIN idempotency' \subseteq Keys
  BY DEF Upsert, Without, Restrict, IInv, StoreInv
<1>9. opened' \in Nat
  BY <1>1 DEF Upsert
<1> QED
  BY <1>2, <1>4, <1>5, <1>6, <1>7, <1>8, <1>9 DEF StoreInv

\* After an incident was saved.
LEMMA SaveStore ==
  ASSUME IInv, NEW inc \in Incident, Earned(inc, now), SaveIncident(inc),
         UNCHANGED <<deliveries, materials, idempotency, now, opened>>
  PROVE  StoreInv'
<1>1. /\ IsList(incidents', Incident)
      /\ \A i \in DOMAIN incidents' :
           \/ SameIncident(incidents'[i], inc)
           \/ i \in DOMAIN incidents /\ SameIncident(incidents'[i], incidents[i])
  BY UnshiftIncident DEF SaveIncident, IInv, StoreInv
<1>2. \A n \in DOMAIN incidents' : Earned(incidents'[n], now)
  BY <1>1 DEF SameIncident, Earned, IInv, StoreInv
<1> QED
  BY <1>1, <1>2 DEF IInv, StoreInv

-----------------------------------------------------------------------------
(* Receipts as they are built. *)

\* buildQueuedRecord builds a receipt.
LEMMA ReceiptType ==
  ASSUME now \in Nat, NEW i \in Nat, NEW s \in ActiveStatus \cup SettledStatus, NEW d \in Dests,
         NEW rule \in Rules \cup {None}
  PROVE  Receipt(i, s, d, rule) \in DeliveryRecord
  BY DEF Receipt, DeliveryRecord

\* A receipt keeps its type when its timestamps are set.
LEMMA StampedType ==
  ASSUME now \in Nat, NEW r \in DeliveryRecord
  PROVE  Stamped(r) \in DeliveryRecord
<1>1. now + 1 \in Nat
  OBVIOUS
<1> QED
  BY <1>1 DEF Stamped, DeliveryRecord

\* ... and when its status, attempts or redrives change.
LEMMA CountedType ==
  ASSUME NEW r \in DeliveryRecord
  PROVE  /\ Attempted(r) \in DeliveryRecord
         /\ [r EXCEPT !.attempts = 1] \in DeliveryRecord
         /\ \A s \in ActiveStatus \cup SettledStatus : [r EXCEPT !.status = s] \in DeliveryRecord
         /\ \A n, i \in Nat : [r EXCEPT !.redrives = n, !.src = i] \in DeliveryRecord
<1>1. r.attempts + 1 \in Nat /\ 1 \in Nat
  BY DEF DeliveryRecord
<1>2. Attempted(r) \in DeliveryRecord /\ [r EXCEPT !.attempts = 1] \in DeliveryRecord
  BY <1>1 DEF Attempted, DeliveryRecord
<1>3. \A s \in ActiveStatus \cup SettledStatus : [r EXCEPT !.status = s] \in DeliveryRecord
  BY DEF DeliveryRecord
<1>4. \A n, i \in Nat : [r EXCEPT !.redrives = n, !.src = i] \in DeliveryRecord
  BY DEF DeliveryRecord
<1> QED
  BY <1>2, <1>3, <1>4

\* An open destination matches a rule.
LEMMA OpenHasRule ==
  ASSUME IInv, NEW d \in Dests, ~Refused(d)
  PROVE  policy[d] \in Rules
  BY DEF Refused, IInv, EnvInv

-----------------------------------------------------------------------------
(* The handlers that create deliveries. *)

\* enqueue: turned away, refused or accepted.
LEMMA EnqueueInv ==
  ASSUME IInv, NEW d \in Dests, NEW k \in Keys \cup {None}, Enqueue(d, k)
  PROVE  IInv'
<1> DEFINE idem == IF k = None THEN idempotency ELSE PrunedIdempotency(idempotency, deliveries, now)
<1>1. /\ idem \in [DOMAIN idem -> IdempotencyEntry] /\ DOMAIN idem \subseteq Keys
  BY DEF PrunedIdempotency, Restrict, IInv, StoreInv
<1>2. issued \in Nat /\ issued + 1 \in Nat /\ now \in Nat
  BY DEF IInv, HandlerInv, StoreInv
<1>3. EnvInv' /\ WorkerInv'
  BY DEF Enqueue, queue, env, IInv, EnvInv, WorkerInv
<1>4. CASE EnqueueTurnedAway(idem)
  <2>1. StoreInv'
    BY <1>1, <1>2, <1>4, StoreAfter DEF EnqueueTurnedAway, IInv, StoreInv
  <2>2. now' = now /\ issued' = issued /\ requests' \subseteq requests
    BY <1>4 DEF EnqueueTurnedAway
  <2>3. HandlerInv'
    BY <1>2, <2>2, HandlersEnd
  <2> QED
    BY <1>3, <2>1, <2>3 DEF IInv
<1>5. CASE EnqueueRefused(issued + 1, d, idem) /\ issued' = issued + 1
  <2>1. Receipt(issued + 1, "blocked", d, None) \in DeliveryRecord
    BY <1>2, ReceiptType DEF SettledStatus
  <2>2. StoreInv' /\ now' \in Nat /\ now <= now'
    BY <1>1, <1>5, <2>1, UpsertStore DEF EnqueueRefused
  <2>3. HandlerInv'
    BY <1>2, <1>5, <2>2, HandlersEnd DEF EnqueueRefused
  <2> QED
    BY <1>3, <2>2, <2>3 DEF IInv
<1>6. CASE EnqueueAccepted(issued + 1, d, k, idem) /\ issued' = issued + 1
  <2> DEFINE q == [step |-> "material", id |-> issued + 1, key |-> k, since |-> now,
                   material |-> [rule |-> policy[d], redrives |-> 0]]
  <2>1. policy[d] \in Rules
    BY <1>6, OpenHasRule DEF EnqueueAccepted
  <2>2. Receipt(issued + 1, "queued", d, policy[d]) \in DeliveryRecord
    BY <1>2, <2>1, ReceiptType DEF ActiveStatus
  <2>3. StoreInv' /\ now' \in Nat /\ now <= now'
    BY <1>1, <1>6, <2>2, UpsertStore DEF EnqueueAccepted
  <2>4. q \in Request /\ CopyEarned(q, now')
    <3>1. q \in [step: {"material"}, id: Nat, key: Keys \cup {None}, since: Nat, material: RetryMaterial]
      BY <1>2, <2>1 DEF RetryMaterial
    <3> HIDE DEF q
    <3> QED
      BY <3>1, RequestOfStep
  <2>5. requests' = requests \cup {q}
    BY <1>6 DEF EnqueueAccepted, Suspend
  <2>6. HandlerInv'
    <3> HIDE DEF q
    <3> QED
      BY <1>2, <1>6, <2>3, <2>4, <2>5, HandlersAfter
  <2> QED
    BY <1>3, <2>3, <2>6 DEF IInv
<1> QED
  BY <1>4, <1>5, <1>6 DEF Enqueue

\* setRetryMaterial, rememberIdempotency and the scheduling that ends a handler.
LEMMA StoreMaterialInv ==
  ASSUME IInv, NEW q \in requests, StoreMaterial(q)
  PROVE  IInv'
<1> DEFINE next == IF q.key = None THEN [step |-> "schedule", id |-> q.id]
                   ELSE [step |-> "remember", id |-> q.id, key |-> q.key, since |-> q.since]
<1>1. q \in Request /\ q.step = "material" /\ now \in Nat /\ issued \in Nat
  BY DEF StoreMaterial, IInv, HandlerInv, StoreInv
<1>2. q.id \in Nat /\ q.key \in Keys \cup {None} /\ q.since \in Nat /\ q.material \in RetryMaterial
  BY <1>1, RequestFields
<1>3. StoreInv'
  <2>1. materials' \in [DOMAIN materials' -> RetryMaterial] /\ DOMAIN materials' \subseteq Nat
    BY <1>2 DEF StoreMaterial, SetMaterial, IInv, StoreInv
  <2> QED
    BY <1>1, <2>1, StoreAfter DEF StoreMaterial, IInv, StoreInv
<1>4. next \in Request /\ CopyEarned(next, now')
  <2>1. CASE q.key = None
    <3>1. next \in [step: {"schedule"}, id: Nat]
      BY <1>2, <2>1
    <3> HIDE DEF next
    <3> QED
      BY <3>1, RequestOfStep
  <2>2. CASE q.key # None
    <3>1. next \in [step: {"remember"}, id: Nat, key: Keys, since: Nat]
      BY <1>2, <2>2
    <3> HIDE DEF next
    <3> QED
      BY <3>1, RequestOfStep
  <2> QED
    BY <2>1, <2>2
<1>5. requests' \subseteq requests \cup {next}
  BY DEF StoreMaterial, Resume
<1>6. now' = now /\ issued' = issued /\ now <= now
  BY <1>1 DEF StoreMaterial
<1>7. HandlerInv'
  <2> HIDE DEF next
  <2> QED
    BY <1>1, <1>4, <1>5, <1>6, HandlersAfter
<1> QED
  BY <1>3, <1>7 DEF StoreMaterial, queue, env, IInv, EnvInv, WorkerInv

\* rememberIdempotency.
LEMMA StoreIdempotencyInv ==
  ASSUME IInv, NEW q \in requests, StoreIdempotency(q)
  PROVE  IInv'
<1> DEFINE next == [step |-> "schedule", id |-> q.id]
<1>1. q \in Request /\ q.step = "remember" /\ now \in Nat /\ issued \in Nat
  BY DEF StoreIdempotency, IInv, HandlerInv, StoreInv
<1>2. q.id \in Nat /\ q.key \in Keys /\ q.since \in Nat
  BY <1>1, RequestFields
<1>3. StoreInv'
  <2>1. /\ idempotency' \in [DOMAIN idempotency' -> IdempotencyEntry]
        /\ DOMAIN idempotency' \subseteq Keys
    BY <1>2 DEF StoreIdempotency, IdempotencyEntry, IInv, StoreInv
  <2> QED
    BY <1>1, <2>1, StoreAfter DEF StoreIdempotency, IInv, StoreInv
<1>4. next \in Request /\ CopyEarned(next, now')
  <2>1. next \in [step: {"schedule"}, id: Nat]
    BY <1>2
  <2> HIDE DEF next
  <2> QED
    BY <2>1, RequestOfStep
<1>5. requests' \subseteq requests \cup {next}
  BY DEF StoreIdempotency, Resume
<1>6. now' = now /\ issued' = issued /\ now <= now
  BY <1>1 DEF StoreIdempotency
<1>7. HandlerInv'
  <2> HIDE DEF next
  <2> QED
    BY <1>1, <1>4, <1>5, <1>6, HandlersAfter
<1> QED
  BY <1>3, <1>7 DEF StoreIdempotency, queue, env, IInv, EnvInv, WorkerInv

\* A handler that ends without touching the incidents.
LEMMA HandlerEnds ==
  ASSUME IInv, UNCHANGED <<store, now, issued, opened>>, requests' \subseteq requests
  PROVE  StoreInv' /\ HandlerInv'
<1>1. now \in Nat /\ issued \in Nat
  BY DEF IInv, HandlerInv, StoreInv
<1>2. StoreInv'
  BY <1>1, StoreAfter DEF store, IInv, StoreInv
<1>3. HandlerInv'
  BY <1>1, HandlersEnd
<1> QED
  BY <1>2, <1>3

\* The end of a handler: the timer and a drain.
LEMMA StartProcessingInv ==
  ASSUME IInv, NEW q \in requests, StartProcessing(q)
  PROVE  IInv'
<1>1. StoreInv' /\ HandlerInv'
  BY HandlerEnds DEF StartProcessing, Resume
<1> QED
  BY <1>1 DEF StartProcessing, ScheduleRetryProcessing, store, env, IInv, EnvInv, WorkerInv

-----------------------------------------------------------------------------
(* Redrive and synchronous delivery. *)

\* redrive up to the write of the counted material.
LEMMA RedriveInv ==
  ASSUME IInv, NEW i \in DOMAIN deliveries, Redrive(i)
  PROVE  IInv'
<1> DEFINE count == materials[i].redrives + 1
           first == Receipt(issued + 1, "queued", deliveries[i].dest, deliveries[i].rule)
           child == [first EXCEPT !.redrives = count, !.src = i]
           q     == [step |-> "redrive", id |-> child.id, receipt |-> child]
<1>1. /\ issued \in Nat /\ issued + 1 \in Nat /\ now \in Nat
      /\ i \in Nat /\ deliveries[i] \in DeliveryRecord
      /\ i \in DOMAIN materials /\ materials[i] \in RetryMaterial
  BY DEF Redrive, Redrivable, IInv, HandlerInv, StoreInv, IsList
<1>2. count \in Nat /\ [materials[i] EXCEPT !.redrives = count] \in RetryMaterial
  BY <1>1 DEF RetryMaterial
<1>3. first \in DeliveryRecord
  BY <1>1, ReceiptType DEF DeliveryRecord, ActiveStatus
<1>4. child \in DeliveryRecord
  <2> HIDE DEF first, count
  <2> QED
    BY <1>1, <1>2, <1>3, CountedType
<1>5. q \in Request /\ CopyEarned(q, now')
  <2>1. q \in [step: {"redrive"}, id: Nat, receipt: DeliveryRecord]
    <3> HIDE DEF child
    <3>1. child.id \in Nat
      BY <1>4 DEF DeliveryRecord
    <3> QED
      BY <1>4, <3>1
  <2> HIDE DEF q
  <2> QED
    BY <2>1, RequestOfStep
<1>6. /\ materials' = [j \in DOMAIN materials \cup {i} |->
                         IF j = i THEN [materials[i] EXCEPT !.redrives = count] ELSE materials[j]]
      /\ requests' = requests \cup {q}
      /\ issued' = issued + 1
      /\ UNCHANGED <<deliveries, idempotency, incidents, targets, queue, env, now, opened>>
  BY DEF Redrive, SetMaterial, Suspend
<1>7. now' = now /\ now <= now'
  BY <1>1, <1>6
<1>8. StoreInv'
  <2>1. materials' \in [DOMAIN materials' -> RetryMaterial] /\ DOMAIN materials' \subseteq Nat
    <3> HIDE DEF count
    <3> QED
      BY <1>1, <1>2, <1>6 DEF IInv, StoreInv
  <2> QED
    BY <1>1, <1>6, <2>1, StoreAfter DEF IInv, StoreInv
<1>9. HandlerInv'
  <2> HIDE DEF q
  <2> QED
    BY <1>1, <1>5, <1>6, <1>7, HandlersAfter
<1> QED
  BY <1>6, <1>8, <1>9 DEF queue, env, IInv, EnvInv, WorkerInv

\* redrive after that write.
LEMMA RedriveQueuesInv ==
  ASSUME IInv, NEW q \in requests, RedriveQueues(q)
  PROVE  IInv'
<1> DEFINE next == [step |-> "material", id |-> q.id, key |-> None, since |-> q.receipt.at,
                    material |-> [rule |-> q.receipt.rule, redrives |-> q.receipt.redrives]]
<1>1. q \in Request /\ q.step = "redrive" /\ issued \in Nat
  BY DEF RedriveQueues, IInv, HandlerInv
<1>2. q.id \in Nat /\ q.receipt \in DeliveryRecord
  BY <1>1, RequestFields
<1>3. StoreInv' /\ now' \in Nat /\ now <= now'
  BY <1>2, UpsertStore DEF RedriveQueues, IInv, StoreInv
<1>4. next \in Request /\ CopyEarned(next, now')
  <2>1. next \in [step: {"material"}, id: Nat, key: Keys \cup {None}, since: Nat, material: RetryMaterial]
    BY <1>2 DEF DeliveryRecord, RetryMaterial
  <2> HIDE DEF next
  <2> QED
    BY <2>1, RequestOfStep
<1>5. requests' = (requests \ {q}) \cup {next} /\ issued' = issued
  BY DEF RedriveQueues, Resume
<1>6. HandlerInv'
  <2> HIDE DEF next
  <2> QED
    BY <1>1, <1>3, <1>4, <1>5, HandlersAfter
<1> QED
  BY <1>3, <1>6 DEF RedriveQueues, queue, env, IInv, EnvInv, WorkerInv

\* The synchronous handler up to its DNS lookup.
LEMMA DeliverInv ==
  ASSUME IInv, NEW d \in Dests, Deliver(d)
  PROVE  IInv'
<1>1. issued \in Nat /\ issued + 1 \in Nat /\ now \in Nat /\ issued' = issued + 1
  BY DEF Deliver, IInv, HandlerInv, StoreInv
<1>2. CASE Upsert([Receipt(issued + 1, "blocked", d, None) EXCEPT !.attempts = 1], idempotency)
           /\ UNCHANGED <<targets, requests>>
  <2>1. [Receipt(issued + 1, "blocked", d, None) EXCEPT !.attempts = 1] \in DeliveryRecord
    <3>1. Receipt(issued + 1, "blocked", d, None) \in DeliveryRecord
      BY <1>1, ReceiptType DEF SettledStatus
    <3> QED
      BY <3>1, CountedType
  <2>2. StoreInv' /\ now' \in Nat /\ now <= now'
    BY <1>2, <2>1, UpsertStore DEF IInv, StoreInv
  <2>3. HandlerInv'
    BY <1>1, <1>2, <2>2, HandlersEnd
  <2> QED
    BY <1>2, <2>2, <2>3 DEF Deliver, queue, env, IInv, EnvInv, WorkerInv
<1>3. CASE /\ ~Refused(d) /\ targets' = targets \cup {d}
           /\ Suspend([step |-> "sync", id |-> issued + 1, dest |-> d, rule |-> policy[d]])
           /\ UNCHANGED <<deliveries, materials, idempotency, incidents, opened, now>>
  <2> DEFINE q == [step |-> "sync", id |-> issued + 1, dest |-> d, rule |-> policy[d]]
  <2>1. policy[d] \in Rules
    BY <1>3, OpenHasRule
  <2>2. q \in Request /\ CopyEarned(q, now')
    <3>1. q \in [step: {"sync"}, id: Nat, dest: Dests, rule: Rules]
      BY <1>1, <2>1
    <3> HIDE DEF q
    <3> QED
      BY <3>1, RequestOfStep
  <2>3. requests' = requests \cup {q}
    BY <1>3 DEF Suspend
  <2>4. now' = now /\ now <= now'
    BY <1>1, <1>3
  <2>5. HandlerInv'
    <3> HIDE DEF q
    <3> QED
      BY <1>1, <1>3, <2>2, <2>3, <2>4, HandlersAfter
  <2>6. StoreInv'
    BY <1>1, <1>3, StoreAfter DEF IInv, StoreInv
  <2> QED
    BY <1>3, <2>5, <2>6 DEF Deliver, queue, env, IInv, EnvInv, WorkerInv
<1> QED
  BY <1>2, <1>3 DEF Deliver

\* The synchronous handler after the exchange.
LEMMA DeliverAnsweredInv ==
  ASSUME IInv, NEW q \in requests, NEW status \in SettledStatus, NEW reached \in BOOLEAN,
         DeliverAnswered(q, status, reached)
  PROVE  IInv'
<1> DEFINE rule == IF reached THEN q.rule ELSE None
           r == Stamped([Receipt(q.id, status, q.dest, rule) EXCEPT !.attempts = 1])
<1>1. q \in Request /\ q.step = "sync" /\ issued \in Nat /\ now \in Nat
  BY DEF DeliverAnswered, IInv, HandlerInv, StoreInv
<1>2. q.id \in Nat /\ q.dest \in Dests /\ rule \in Rules \cup {None}
  BY <1>1, RequestFields
<1>3. r \in DeliveryRecord
  <2> HIDE DEF rule
  <2>1. Receipt(q.id, status, q.dest, rule) \in DeliveryRecord
    BY <1>1, <1>2, ReceiptType
  <2> QED
    BY <1>1, <2>1, CountedType, StampedType
<1>4. Upsert(r, idempotency) /\ requests' = requests \ {q} /\ issued' = issued
  BY DEF DeliverAnswered, Resume
<1>5. StoreInv' /\ now' \in Nat /\ now <= now'
  <2> HIDE DEF r
  <2> QED
    BY <1>3, <1>4, UpsertStore DEF IInv, StoreInv
<1>6. HandlerInv'
  BY <1>1, <1>4, <1>5, HandlersEnd
<1> QED
  BY <1>5, <1>6 DEF DeliverAnswered, queue, env, IInv, EnvInv, WorkerInv

-----------------------------------------------------------------------------
(* The retry worker. *)

\* The drain takes a snapshot of the receipts that are due.
LEMMA DrainStartsInv ==
  ASSUME IInv, DrainStarts
  PROVE  IInv'
<1>1. StoreInv' /\ HandlerInv'
  BY HandlerEnds DEF DrainStarts
<1>2. {Detached(deliveries[i]) : i \in DueRetryables(deliveries, materials)} \subseteq DeliveryRecord
  <2> SUFFICES ASSUME NEW i \in DueRetryables(deliveries, materials)
               PROVE  Detached(deliveries[i]) \in DeliveryRecord
    OBVIOUS
  <2>1. deliveries[i] \in DeliveryRecord /\ 0 \in Nat
    BY DEF DueRetryables, Retryable, ActiveIn, IInv, StoreInv, IsList
  <2> QED
    BY <2>1, MovedReceipt DEF Detached
<1>3. WorkerInv'
  BY <1>2 DEF DrainStarts, Idle, WorkerInv
<1> QED
  BY <1>1, <1>3 DEF DrainStarts, store, env, IInv, EnvInv

\* The drain ends and arms the timer.
LEMMA DrainEndsInv ==
  ASSUME IInv, DrainEnds
  PROVE  IInv'
<1>1. StoreInv' /\ HandlerInv'
  BY HandlerEnds DEF DrainEnds
<1> QED
  BY <1>1 DEF DrainEnds, ScheduleRetryProcessing, Idle, store, env, IInv, EnvInv, WorkerInv

\* What a step of the worker has to keep, besides the targets.
WorkInv ==
  /\ StoreInv /\ HandlerInv /\ WorkerInv
  /\ timer \in BOOLEAN
  /\ spent \in [edits: Nat, crashes: Nat, faults: Nat]

\* The rest of the environment stays, so the invariant holds.
LEMMA WorkKeeps ==
  ASSUME IInv, WorkInv', targets' \subseteq Dests, UNCHANGED <<drain, policy>>
  PROVE  IInv'
  BY DEF WorkInv, IInv, EnvInv

\* A write begins, and fails or not.
LEMMA WorkerWritesInv ==
  ASSUME IInv, NEW r, NEW final \in DeliveryRecord, NEW caught \in BOOLEAN,
         NEW then \in {"next", "settle"}, WorkerWrites(r, final, caught, then)
  PROVE  WorkerInv' /\ spent' \in [edits: Nat, crashes: Nat, faults: Nat]
<1>1. worker.due \ {r} \subseteq DeliveryRecord
  BY DEF IInv, WorkerInv
<1>2. spent \in [edits: Nat, crashes: Nat, faults: Nat] /\ spent.faults + 1 \in Nat
  BY DEF IInv, EnvInv
<1>3. WorkerInv'
  <2> DEFINE inTry == then = "settle" /\ caught
             kept == IF then = "settle" THEN final ELSE None
  <2>1. inTry \in BOOLEAN /\ kept \in DeliveryRecord \cup {None}
    OBVIOUS
  <2>2. then = "settle" => kept \in DeliveryRecord
    OBVIOUS
  <2>3. \/ worker' = [pc |-> then, due |-> worker.due \ {r}, job |-> kept, rule |-> None,
                     caught |-> inTry]
        \/ worker' = [pc |-> "fails", due |-> worker.due \ {r}, job |-> final, rule |-> None,
                     caught |-> caught]
    BY DEF WorkerWrites
  <2> HIDE DEF inTry, kept
  <2> QED
    BY <1>1, <2>1, <2>2, <2>3 DEF WorkerInv
<1> QED
  BY <1>2, <1>3 DEF WorkerWrites

\* Upserting the outcome of a receipt the worker holds.
LEMMA WorkerUpsertInv ==
  ASSUME IInv, NEW r \in DeliveryRecord, Upsert(r, idempotency), UNCHANGED <<requests, issued>>
  PROVE  StoreInv' /\ HandlerInv'
<1>1. StoreInv' /\ now' \in Nat /\ now <= now'
  BY UpsertStore DEF IInv, StoreInv
<1>2. HandlerInv'
  BY <1>1, HandlersEnd DEF IInv, HandlerInv
<1> QED
  BY <1>1, <1>2

\* ... and writing it.
LEMMA ReportsInv ==
  ASSUME IInv, NEW r, NEW final \in DeliveryRecord, NEW caught \in BOOLEAN,
         Reports(r, final, caught), UNCHANGED <<requests, issued>>, timer' \in BOOLEAN
  PROVE  WorkInv'
<1>1. StoreInv' /\ HandlerInv'
  BY WorkerUpsertInv DEF Reports
<1>2. WorkerInv' /\ spent' \in [edits: Nat, crashes: Nat, faults: Nat]
  BY WorkerWritesInv DEF Reports
<1> QED
  BY <1>1, <1>2 DEF WorkInv

\* Deleting the material before the final receipt is written.
LEMMA DeletesInv ==
  ASSUME IInv, NEW r, NEW final \in DeliveryRecord, NEW caught \in BOOLEAN,
         Deletes(r, final, caught), UNCHANGED <<requests, issued>>, timer' \in BOOLEAN
  PROVE  WorkInv'
<1>1. now \in Nat /\ issued \in Nat
  BY DEF IInv, StoreInv, HandlerInv
<1>2. now' \in Nat /\ now <= now'
  <2>1. final.at \in Nat /\ now' = Clock(final)
    BY DEF DeliveryRecord, Deletes
  <2> QED
    BY <1>1, <2>1 DEF Clock
<1>3. materials' \in [DOMAIN materials' -> RetryMaterial] /\ DOMAIN materials' \subseteq Nat
  BY DEF Deletes, DeleteMaterial, Without, Restrict, IInv, StoreInv
<1>4. StoreInv'
  BY <1>2, <1>3, StoreAfter DEF Deletes, IInv, StoreInv
<1>5. HandlerInv'
  BY <1>1, <1>2, HandlersEnd
<1>6. WorkerInv' /\ spent' \in [edits: Nat, crashes: Nat, faults: Nat]
  BY WorkerWritesInv DEF Deletes
<1> QED
  BY <1>4, <1>5, <1>6 DEF WorkInv

\* A receipt settles, with or without a material to delete.
LEMMA SettleLaterInv ==
  ASSUME IInv, NEW r, NEW final \in DeliveryRecord, NEW caught \in BOOLEAN,
         SettleLater(r, final, caught), UNCHANGED <<requests, issued>>
  PROVE  WorkInv'
<1>1. timer' \in BOOLEAN
  BY DEF SettleLater, IInv, EnvInv
<1> QED
  BY <1>1, DeletesInv, ReportsInv DEF SettleLater

\* The receipt an attempt leads to.
LEMMA OutcomeType ==
  ASSUME IInv, NEW r \in DeliveryRecord, NEW status \in ActiveStatus \cup SettledStatus
  PROVE  Outcome(r, status) \in DeliveryRecord
<1> DEFINE wait == status = "retrying"
           s == [r EXCEPT !.status = status, !.waiting = wait]
<1>1. wait \in BOOLEAN /\ now \in Nat
  BY DEF IInv, StoreInv
<1>2. s \in DeliveryRecord
  <2> HIDE DEF wait
  <2> QED
    BY <1>1 DEF DeliveryRecord
<1>3. Outcome(r, status) = Stamped(s)
  BY DEF Outcome
<1> HIDE DEF s
<1> QED
  BY <1>1, <1>2, <1>3, StampedType

\* Every outcome of a failed attempt.
LEMMA FailsInv ==
  ASSUME IInv, NEW r \in DeliveryRecord, NEW thrown \in BOOLEAN, Fails(r, thrown),
         UNCHANGED <<requests, issued>>
  PROVE  WorkInv'
<1> DEFINE inTry == ~thrown
<1>1. \A status \in {"failed", "blocked", "dead_letter", "retrying"} :
        Outcome(r, status) \in DeliveryRecord
  BY OutcomeType DEF ActiveStatus, SettledStatus
<1>2. inTry \in BOOLEAN
  OBVIOUS
<1> HIDE DEF inTry
<1>3. CASE SettleLater(r, Outcome(r, "failed"), inTry)
  BY <1>1, <1>2, <1>3, SettleLaterInv
<1>4. CASE SettleLater(r, Outcome(r, "blocked"), FALSE)
  BY <1>1, <1>4, SettleLaterInv
<1>5. CASE Retries(r, inTry)
  <2>1. timer' \in BOOLEAN
    BY <1>5 DEF Retries, ScheduleRetryProcessing, IInv, EnvInv
  <2> QED
    BY <1>1, <1>2, <1>5, <2>1, ReportsInv DEF Retries
<1>6. CASE Exhausts(r, inTry)
  <2>1. timer' \in BOOLEAN
    BY <1>6 DEF Exhausts, IInv, EnvInv
  <2> QED
    BY <1>1, <1>2, <1>6, <2>1, ReportsInv DEF Exhausts
<1> QED
  BY <1>3, <1>4, <1>5, <1>6 DEF Fails, inTry

\* processSingleRetryRecord up to its first await.
LEMMA TakeInv ==
  ASSUME IInv, Take
  PROVE  IInv'
<1>1. PICK r \in worker.due :
        TakeMissing(r) \/ TakeUnusable(r) \/ TakeRefused(r) \/ TakeResolved(r)
  BY DEF Take
<1>2. r \in DeliveryRecord /\ UNCHANGED <<drain, policy, requests, issued>>
  BY DEF Take, IInv, WorkerInv
<1>3. /\ Attempted(r) \in DeliveryRecord
      /\ Outcome(r, "dead_letter") \in DeliveryRecord
  BY <1>2, CountedType, OutcomeType DEF SettledStatus
<1>4. CASE TakeMissing(r)
  <2>1. timer' \in BOOLEAN /\ targets' \subseteq Dests
    BY <1>4 DEF TakeMissing, IInv, EnvInv
  <2>2. WorkInv'
    BY <1>2, <1>3, <1>4, <2>1, ReportsInv DEF TakeMissing
  <2> QED
    BY <1>2, <2>1, <2>2, WorkKeeps
<1>5. CASE TakeUnusable(r)
  <2>1. WorkInv' /\ targets' \subseteq Dests
    BY <1>2, <1>3, <1>5, SettleLaterInv DEF TakeUnusable, IInv, EnvInv
  <2> QED
    BY <1>2, <2>1, WorkKeeps
<1>6. CASE TakeRefused(r)
  <2>1. Outcome(Attempted(r), "blocked") \in DeliveryRecord
    BY <1>3, OutcomeType DEF SettledStatus
  <2>2. WorkInv' /\ targets' \subseteq Dests
    BY <1>2, <1>6, <2>1, SettleLaterInv DEF TakeRefused, IInv, EnvInv
  <2> QED
    BY <1>2, <2>2, WorkKeeps
<1>7. CASE TakeResolved(r)
  <2>1. StoreInv' /\ HandlerInv'
    <3>1. /\ UNCHANGED <<deliveries, materials, idempotency, incidents, opened, now, issued>>
          /\ requests' \subseteq requests /\ now \in Nat /\ issued \in Nat /\ now <= now
      BY <1>2, <1>7 DEF TakeResolved, IInv, StoreInv, HandlerInv
    <3>2. StoreInv'
      BY <3>1, StoreAfter DEF IInv, StoreInv
    <3>3. HandlerInv'
      BY <3>1, HandlersEnd
    <3> QED
      BY <3>2, <3>3
  <2>2. r.dest \in Dests
    BY <1>2 DEF DeliveryRecord
  <2>3. WorkerInv'
    <3>1. policy[r.dest] \in Rules \cup {None}
      BY <2>2 DEF IInv, EnvInv
    <3> QED
      BY <1>3, <1>7, <3>1 DEF TakeResolved, IInv, WorkerInv
  <2>4. targets' \subseteq Dests
    BY <1>7, <2>2 DEF TakeResolved, IInv, EnvInv
  <2>5. WorkInv'
    BY <1>7, <2>1, <2>3 DEF TakeResolved, WorkInv, IInv, EnvInv
  <2> QED
    BY <1>2, <2>4, <2>5, WorkKeeps
<1> QED
  BY <1>1, <1>4, <1>5, <1>6, <1>7

\* The destination answered the worker, or the attempt failed.
LEMMA SendAnsweredInv ==
  ASSUME IInv, SendAnswered
  PROVE  IInv'
<1>1. /\ worker.pc = "send" /\ targets' \subseteq Dests
      /\ UNCHANGED <<drain, policy, requests, issued>>
  BY DEF SendAnswered, IInv, EnvInv
<1>2. worker.job \in DeliveryRecord /\ worker.rule \in Rules \cup {None}
  BY <1>1 DEF IInv, WorkerInv
<1>3. Prepared \in DeliveryRecord
  BY <1>2 DEF Prepared, DeliveryRecord
<1>4. CASE SettleLater(Prepared, Outcome(Prepared, "succeeded"), TRUE)
  <2>1. Outcome(Prepared, "succeeded") \in DeliveryRecord
    BY <1>3, OutcomeType DEF SettledStatus
  <2>2. WorkInv'
    BY <1>1, <1>4, <2>1, SettleLaterInv
  <2> QED
    BY <1>1, <2>2, WorkKeeps
<1>5. CASE \E thrown \in BOOLEAN : Fails(Prepared, thrown)
  <2>1. WorkInv'
    BY <1>1, <1>3, <1>5, FailsInv
  <2> QED
    BY <1>1, <2>1, WorkKeeps
<1>6. CASE Fails(worker.job, TRUE)
  <2>1. WorkInv'
    BY <1>1, <1>2, <1>6, FailsInv
  <2> QED
    BY <1>1, <2>1, WorkKeeps
<1> QED
  BY <1>4, <1>5, <1>6 DEF SendAnswered

\* The final receipt is written.
LEMMA SettleInv ==
  ASSUME IInv, Settle
  PROVE  IInv'
<1>1. worker.job \in DeliveryRecord /\ worker.caught \in BOOLEAN
  BY DEF Settle, IInv, WorkerInv
<1>2. StoreInv' /\ HandlerInv'
  BY <1>1, WorkerUpsertInv DEF Settle
<1>3. WorkerInv' /\ spent' \in [edits: Nat, crashes: Nat, faults: Nat]
  BY <1>1, WorkerWritesInv DEF Settle
<1>4. WorkInv' /\ targets' \subseteq Dests
  BY <1>2, <1>3 DEF Settle, WorkInv, IInv, EnvInv
<1> QED
  BY <1>4, WorkKeeps DEF Settle

\* A write of the worker fails, inside the try block or elsewhere.
LEMMA WorkerWriteFailsInv ==
  ASSUME IInv, WorkerWriteFails
  PROVE  IInv'
<1>1. /\ worker.pc = "fails" /\ targets' \subseteq Dests
      /\ UNCHANGED <<drain, policy, requests, issued>>
  BY DEF WorkerWriteFails, IInv, EnvInv
<1>2. CASE worker.caught /\ Fails(worker.job, TRUE)
  <2>1. worker.job \in DeliveryRecord
    BY <1>1 DEF IInv, WorkerInv
  <2>2. WorkInv'
    BY <1>1, <1>2, <2>1, FailsInv
  <2> QED
    BY <1>1, <2>2, WorkKeeps
<1>3. CASE /\ worker' = Idle
           /\ UNCHANGED <<deliveries, materials, idempotency, incidents, timer, spent, now, opened>>
  <2>1. now \in Nat /\ issued \in Nat /\ now <= now' /\ requests' \subseteq requests
    BY <1>1, <1>3 DEF IInv, StoreInv, HandlerInv
  <2>2. StoreInv'
    BY <1>3, <2>1, StoreAfter DEF IInv, StoreInv
  <2>3. HandlerInv'
    BY <1>1, <1>3, <2>1, HandlersEnd
  <2>4. WorkInv'
    BY <1>3, <2>2, <2>3 DEF Idle, WorkInv, WorkerInv, IInv, EnvInv
  <2> QED
    BY <1>1, <2>4, WorkKeeps
<1> QED
  BY <1>2, <1>3 DEF WorkerWriteFails

\* The retry timer fires.
LEMMA TimerFiresInv ==
  ASSUME IInv, TimerFires
  PROVE  IInv'
<1>1. StoreInv' /\ HandlerInv'
  BY HandlerEnds DEF TimerFires
<1> QED
  BY <1>1 DEF TimerFires, store, env, IInv, EnvInv, WorkerInv

\* A retry becomes due.
LEMMA BackoffEndsInv ==
  ASSUME IInv, NEW i \in DOMAIN deliveries, BackoffEnds(i)
  PROVE  IInv'
<1>1. IsList(deliveries', DeliveryRecord) /\ DatedBy(deliveries', now)
  BY DEF BackoffEnds, IInv, StoreInv, IsList, DatedBy, DeliveryRecord
<1>2. StoreInv'
  BY <1>1 DEF BackoffEnds, IInv, StoreInv, DatedBy
<1> QED
  BY <1>2 DEF BackoffEnds, queue, env, IInv, EnvInv, WorkerInv, HandlerInv, CopyEarned

-----------------------------------------------------------------------------
(* Operators. *)

\* An operator acknowledges an incident.
LEMMA AcknowledgeInv ==
  ASSUME IInv, NEW n \in DOMAIN incidents, NEW op \in Operators, Acknowledge(n, op)
  PROVE  IInv'
<1> DEFINE inc == [incidents[n] EXCEPT !.ackBy = op, !.rev = @ + 1]
<1>1. incidents[n] \in Incident /\ incidents[n].status = "active"
  BY DEF Acknowledge, Active, IInv, StoreInv, IsList
<1>2. inc \in Incident /\ inc.status = "active"
  <2>1. incidents[n].rev + 1 \in Nat
    BY <1>1 DEF Incident
  <2> QED
    BY <1>1, <2>1 DEF Incident
<1>3. StoreInv'
  <2> HIDE DEF inc
  <2>1. SaveIncident(inc)
    BY DEF Acknowledge, inc
  <2> QED
    BY <1>2, <2>1, SaveStore DEF Acknowledge, Earned
<1> QED
  BY <1>3 DEF Acknowledge, queue, env, IInv, EnvInv, WorkerInv, HandlerInv, CopyEarned

\* The checks of a clear request.
LEMMA RequestClearInv ==
  ASSUME IInv, NEW n \in DOMAIN incidents, NEW op \in Operators, RequestClear(n, op)
  PROVE  IInv'
<1> DEFINE inc == Detached(incidents[n])
           q   == [step |-> "canary", incident |-> inc, by |-> op, rule |-> policy[incidents[n].dest]]
<1>1. /\ incidents[n] \in Incident /\ incidents[n].status = "active"
      /\ now \in Nat /\ issued \in Nat /\ now <= now
  BY DEF RequestClear, Active, IInv, StoreInv, HandlerInv, IsList
<1>2. inc \in Incident /\ inc.status = "active"
  BY <1>1 DEF Detached, Incident
<1>3. q \in Request /\ CopyEarned(q, now)
  <2>1. incidents[n].dest \in Dests /\ policy[incidents[n].dest] # None
    BY <1>1 DEF RequestClear, Incident
  <2>2. policy[incidents[n].dest] \in Rules
    BY <2>1 DEF IInv, EnvInv
  <2> HIDE DEF inc
  <2> QED
    BY <1>2, <2>2 DEF Request, CopyEarned
<1>4. requests' = requests \cup {q} /\ UNCHANGED <<store, queue, env, now, issued, opened>>
  BY DEF RequestClear, Suspend
<1>5. HandlerInv'
  <2> HIDE DEF q
  <2> QED
    BY <1>1, <1>3, <1>4, HandlersAfter
<1>6. StoreInv'
  BY <1>1, <1>4, StoreAfter DEF store, IInv, StoreInv
<1> QED
  BY <1>4, <1>5, <1>6 DEF store, queue, env, IInv, EnvInv, WorkerInv

\* The canary was accepted.
LEMMA CanaryPassesInv ==
  ASSUME IInv, NEW q \in requests, CanaryPasses(q)
  PROVE  IInv'
<1> DEFINE req == [by |-> q.by, expires |-> now + RequestTtl, rule |-> q.rule]
           inc == [q.incident EXCEPT !.request = req, !.rev = @ + 1]
<1>1. /\ q \in Request /\ CopyEarned(q, now) /\ q.step = "canary"
      /\ now \in Nat /\ issued \in Nat /\ now <= now
  BY DEF CanaryPasses, IInv, HandlerInv, StoreInv
<1>2. q.incident \in Incident /\ q.by \in Operators /\ q.rule \in Rules /\ q.incident.status = "active"
  BY <1>1, RequestFields DEF CopyEarned
<1>3. req \in ClearRequest
  BY <1>1, <1>2, DeliveryAssumption DEF ClearRequest
<1>4. inc \in Incident /\ inc.status = "active"
  <2> HIDE DEF req
  <2>1. q.incident.rev + 1 \in Nat
    BY <1>2 DEF Incident
  <2> QED
    BY <1>2, <1>3, <2>1 DEF Incident
<1>5. /\ SaveIncident(inc) /\ requests' \subseteq requests
      /\ UNCHANGED <<deliveries, materials, idempotency, targets, queue, env, now, issued, opened>>
  BY DEF CanaryPasses, Resume
<1>6. StoreInv'
  <2> HIDE DEF inc
  <2> QED
    BY <1>4, <1>5, SaveStore DEF Earned
<1>7. HandlerInv'
  BY <1>1, <1>5, HandlersEnd
<1> QED
  BY <1>5, <1>6, <1>7 DEF queue, env, IInv, EnvInv, WorkerInv

\* The checks of a clear: everything a resolution has to show is there.
LEMMA ClearInv ==
  ASSUME IInv, NEW n \in DOMAIN incidents, NEW op \in Operators, Clear(n, op)
  PROVE  IInv'
<1> DEFINE inc == Detached(incidents[n])
           q   == [step |-> "clear", incident |-> inc, by |-> op]
<1>1. /\ incidents[n] \in Incident /\ incidents[n].status = "active"
      /\ now \in Nat /\ issued \in Nat /\ now <= now
  BY DEF Clear, Active, IInv, StoreInv, HandlerInv, IsList
<1>2. /\ inc \in Incident /\ inc.status = "active"
      /\ inc.ackBy # None /\ inc.request # None /\ op # inc.request.by /\ inc.clearAfter <= now
  BY <1>1 DEF Clear, Pending, Detached, Incident
<1>3. q \in Request /\ CopyEarned(q, now)
  <2> HIDE DEF inc
  <2> QED
    BY <1>2 DEF Request, CopyEarned
<1>4. requests' = requests \cup {q} /\ UNCHANGED <<store, queue, env, now, issued, opened>>
  BY DEF Clear, Suspend
<1>5. HandlerInv'
  <2> HIDE DEF q
  <2> QED
    BY <1>1, <1>3, <1>4, HandlersAfter
<1>6. StoreInv'
  BY <1>1, <1>4, StoreAfter DEF store, IInv, StoreInv
<1> QED
  BY <1>4, <1>5, <1>6 DEF store, queue, env, IInv, EnvInv, WorkerInv

\* The clear saves the copy its checks looked at.
LEMMA ClearSavesInv ==
  ASSUME IInv, NEW q \in requests, ClearSaves(q)
  PROVE  IInv'
<1> DEFINE inc == [q.incident EXCEPT !.status = "resolved", !.clearedBy = q.by, !.rev = @ + 1]
<1>1. /\ q \in Request /\ CopyEarned(q, now) /\ q.step = "clear"
      /\ now \in Nat /\ issued \in Nat /\ now <= now
  BY DEF ClearSaves, IInv, HandlerInv, StoreInv
<1>2. q.incident \in Incident /\ q.by \in Operators /\ q.by # None
  BY <1>1, RequestFields, StoreAssumption
<1>3. inc \in Incident
  <2>1. q.incident.rev + 1 \in Nat
    BY <1>2 DEF Incident
  <2> QED
    BY <1>2, <2>1 DEF Incident
<1>4. Earned(inc, now)
  BY <1>1, <1>2 DEF Earned, CopyEarned, Incident
<1>5. /\ SaveIncident(inc) /\ requests' \subseteq requests
      /\ UNCHANGED <<deliveries, materials, idempotency, targets, queue, env, now, issued, opened>>
  BY DEF ClearSaves, Resume
<1>6. StoreInv'
  <2> HIDE DEF inc
  <2> QED
    BY <1>3, <1>4, <1>5, SaveStore
<1>7. HandlerInv'
  BY <1>1, <1>5, HandlersEnd
<1> QED
  BY <1>5, <1>6, <1>7 DEF queue, env, IInv, EnvInv, WorkerInv

-----------------------------------------------------------------------------
(* The surroundings. *)

\* An operator's call fails, a policy is edited, a write fails: a handler may end,
\* and the store stays.
LEMMA SurroundingsInv ==
  ASSUME IInv,
         \/ \E q \in requests : OperatorActionFails(q)
         \/ \E d \in Dests, rule \in Rules \cup {None} : EditPolicy(d, rule)
         \/ \E q \in requests : WriteFails(q)
  PROVE  IInv'
<1>1. UNCHANGED <<store, queue, now, issued, opened>> /\ requests' \subseteq requests
  BY DEF OperatorActionFails, EditPolicy, WriteFails, Resume
<1>2. StoreInv' /\ HandlerInv'
  BY <1>1, HandlerEnds
<1>3. /\ policy' \in [Dests -> Rules \cup {None}]
      /\ spent' \in [edits: Nat, crashes: Nat, faults: Nat]
  BY DEF OperatorActionFails, EditPolicy, WriteFails, env, IInv, EnvInv
<1> QED
  BY <1>1, <1>2, <1>3 DEF store, queue, IInv, EnvInv, WorkerInv

\* A crash and a restart.
LEMMA RestartInv ==
  ASSUME IInv, Restart
  PROVE  IInv'
<1>1. now \in Nat /\ issued \in Nat /\ now <= now
  BY DEF IInv, StoreInv, HandlerInv
<1>2. /\ materials' \in [DOMAIN materials' -> RetryMaterial] /\ DOMAIN materials' \subseteq Nat
      /\ idempotency' \in [DOMAIN idempotency' -> IdempotencyEntry]
      /\ DOMAIN idempotency' \subseteq Keys
  BY DEF Restart, Restrict, IInv, StoreInv
<1>3. StoreInv'
  BY <1>1, <1>2, StoreAfter DEF Restart
<1>4. HandlerInv'
  BY <1>1 DEF Restart, HandlerInv
<1>5. spent' \in [edits: Nat, crashes: Nat, faults: Nat]
  BY DEF Restart, IInv, EnvInv
<1> QED
  BY <1>3, <1>4, <1>5 DEF Restart, Idle, IInv, EnvInv, WorkerInv

\* Time passes.
LEMMA TickInv ==
  ASSUME IInv, Tick
  PROVE  IInv'
<1>1. now \in Nat /\ issued \in Nat /\ now' \in Nat /\ now <= now'
  BY DEF Tick, IInv, StoreInv, HandlerInv
<1>2. StoreInv'
  BY <1>1, StoreAfter DEF Tick, store, IInv, StoreInv
<1>3. HandlerInv'
  BY <1>1, HandlersEnd DEF Tick
<1> QED
  BY <1>2, <1>3 DEF Tick, store, queue, env, IInv, EnvInv, WorkerInv

-----------------------------------------------------------------------------
(* The invariant and what follows from it. *)

\* It holds at the start.
LEMMA InitInv == Init => IInv
<1> SUFFICES ASSUME Init PROVE IInv
  OBVIOUS
<1>1. StoreInv
  BY DEF Init, Nothing, StoreInv, IsList, DatedBy
<1>2. HandlerInv /\ WorkerInv /\ EnvInv
  BY DEF Init, Idle, HandlerInv, WorkerInv, EnvInv
<1> QED
  BY <1>1, <1>2 DEF IInv

\* Every step keeps it.
LEMMA StepInv == IInv /\ [Next]_vars => IInv'
<1> SUFFICES ASSUME IInv, [Next]_vars PROVE IInv'
  OBVIOUS
<1>1. CASE UNCHANGED vars
  <2>1. now <= now /\ now \in Nat
    BY DEF IInv, StoreInv
  <2>2. StoreInv' /\ HandlerInv'
    BY <1>1, HandlerEnds DEF vars
  <2> QED
    BY <1>1, <2>2 DEF vars, store, queue, env, IInv, EnvInv, WorkerInv
<1>2. CASE Call
  BY <1>2, DeliverInv, EnqueueInv, RedriveInv, AcknowledgeInv, RequestClearInv, ClearInv DEF Call
<1>3. ASSUME NEW q \in requests, Continue(q)
      PROVE  IInv'
  <2>1. CASE \E status \in {"succeeded", "failed", "blocked"}, reached \in BOOLEAN :
               DeliverAnswered(q, status, reached)
    BY <2>1, DeliverAnsweredInv DEF SettledStatus
  <2>2. CASE OperatorActionFails(q)
    BY <2>2, SurroundingsInv
  <2> QED
    BY <1>3, <2>1, <2>2, StoreMaterialInv, StoreIdempotencyInv, StartProcessingInv,
       RedriveQueuesInv, CanaryPassesInv, ClearSavesInv DEF Continue
<1>4. CASE Work
  BY <1>4, DrainStartsInv, TakeInv, SendAnsweredInv, SettleInv, WorkerWriteFailsInv, DrainEndsInv DEF Work
<1>5. CASE TimerFires
  BY <1>5, TimerFiresInv
<1>6. CASE \E i \in DOMAIN deliveries : BackoffEnds(i)
  BY <1>6, BackoffEndsInv
<1>7. CASE Surroundings
  BY <1>7, SurroundingsInv, RestartInv, TickInv DEF Surroundings
<1> QED
  BY <1>1, <1>2, <1>3, <1>4, <1>5, <1>6, <1>7 DEF Next

\* The inductive invariant holds of every behaviour of the service.
THEOREM Invariance == Spec => []IInv
  BY InitInv, StepInv, PTL DEF Spec

\* No interleaving of handlers, worker, crashes and restarts leaves a variable
\* with a value the code's types do not allow.
THEOREM DeliveryTypeCorrect == Spec => []TypeOK
  BY Invariance, InvImpliesTypes, PTL

\* A resolved incident was acknowledged, its clearing asked for by one operator
\* and done by another one, and its cooldown was over: whatever the handlers of
\* requestClear and clear save after their awaits.
THEOREM ResolutionsAreEarned == Spec => []ResolutionIsEarned
  BY Invariance, InvImpliesEarned, PTL

=============================================================================
