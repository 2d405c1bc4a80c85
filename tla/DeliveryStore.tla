---------------------------- MODULE DeliveryStore ----------------------------
(***************************************************************************)
(* The data of one tenant in SecurityExportDeliveryStore and the pure      *)
(* functions its methods compute (src/service/security/export-delivery.ts).*)
(*                                                                         *)
(* The code keeps deliveries and incidents in arrays, newest first, cut at *)
(* maxRecordsPerTenant.  Here a list is a function from identifiers to     *)
(* entries and the place of an entry in the array is its field pos: 1 is   *)
(* the newest.  Destinations, delivery-policy rules, idempotency keys,     *)
(* payloads and operators are model values; a destination stands for the   *)
(* pair (origin, path hash) of destinationAnalyticsKey.                    *)
(***************************************************************************)
EXTENDS Naturals, FiniteSets, Functions

CONSTANTS
  Dests,         \* destinations
  Rules,         \* host rules of the delivery policy
  Keys,          \* Idempotency-Key values
  Operators,     \* principals allowed to act on incidents
  None,          \* the null of the code: no rule, no key, no operator, no request
  MaxRecords,    \* exportDeliveryMaxRecordsPerTenant
  FailureLimit,  \* exportDeliveryQuarantineFailureThreshold
  DeadLimit,     \* exportDeliveryQuarantineDeadLetterThreshold
  Window,        \* exportDeliveryIncidentWindowHours
  Cooldown,      \* exportDeliveryQuarantineDurationMinutes
  IdemTtl        \* exportDeliveryIdempotencyTtlSeconds

\* config.ts and the Math.max(1, ...) around every use make each limit positive.
ASSUME StoreAssumption ==
  /\ {MaxRecords, FailureLimit, DeadLimit, Window, Cooldown} \subseteq Nat \ {0}
  /\ IdemTtl \in Nat
  /\ None \notin Dests \cup Rules \cup Keys \cup Operators

ActiveStatus  == {"queued", "retrying"}
FailedStatus  == {"failed", "dead_letter"}
SettledStatus == {"succeeded", "failed", "blocked", "dead_letter"}

\* at is recordTimelineTimestamp; waiting says that next_attempt_at lies ahead.
DeliveryRecord ==
  [id: Nat, pos: Nat, status: ActiveStatus \cup SettledStatus, dest: Dests,
   rule: Rules \cup {None}, attempts: Nat, redrives: Nat, src: Nat,
   at: Nat, waiting: BOOLEAN]

RetryMaterial == [rule: Rules \cup {None}, redrives: Nat]

IdempotencyEntry == [id: Nat, since: Nat]

ClearRequest == [by: Operators, expires: Nat, rule: Rules]

Incident ==
  [id: Nat, pos: Nat, status: {"active", "resolved"}, dest: Dests,
   clearAfter: Nat, ackBy: Operators \cup {None}, rev: Nat,
   request: ClearRequest \cup {None}, clearedBy: Operators \cup {None}]

-----------------------------------------------------------------------------
(* Lists, newest first. *)

\* A copy handed out by a getter has no place in the list.
Detached(r) == [r EXCEPT !.pos = 0]

\* Drop the entry with the same id, put r in front.
Pushed(list, r) ==
  [i \in DOMAIN list \cup {r.id} |->
     IF i = r.id THEN [r EXCEPT !.pos = 1]
     ELSE IF r.id \in DOMAIN list /\ list[r.id].pos < list[i].pos THEN list[i]
     ELSE [list[i] EXCEPT !.pos = @ + 1]]

\* ... and cut the list at maxRecordsPerTenant.
Unshift(list, r) ==
  LET longer == Pushed(list, r)
  IN  Restrict(longer, {i \in DOMAIN longer : longer[i].pos <= MaxRecords})

Overflow(list, r) == (DOMAIN list \cup {r.id}) \ DOMAIN Unshift(list, r)

\* new Map().
Nothing == [i \in {} |-> None]

Without(f, S) == Restrict(f, DOMAIN f \ S)

ActiveIn(list) == {i \in DOMAIN list : list[i].status \in ActiveStatus}

\* Mutant: retrying deliveries do not count.
CountQueued(list) == Cardinality({i \in DOMAIN list : list[i].status = "queued"})

CountActive(list) == Cardinality(ActiveIn(list))

\* What listDueRetryables and findNextRetryTimestamp consider: active records
\* that still have their payload.
Retryable(list, mats) == ActiveIn(list) \cap DOMAIN mats

\* Mutants: the retry worker takes receipts whatever their status, or new ones only.
DueOfAnyStatus(list, mats) == {i \in DOMAIN list \cap DOMAIN mats : ~list[i].waiting}
DueQueued(list, mats) == {i \in Retryable(list, mats) : list[i].status = "queued"}

DueRetryables(list, mats) == {i \in Retryable(list, mats) : ~list[i].waiting}

-----------------------------------------------------------------------------
(* Idempotency index. *)

\* pruneIdempotency: an entry goes when its record is gone, or when the record
\* is settled and the entry is older than the TTL.
PrunedIdempotency(idem, list, t) ==
  LET live(k) == /\ idem[k].id \in DOMAIN list
                 /\ \/ list[idem[k].id].status \in ActiveStatus
                    \/ t - idem[k].since <= IdemTtl
  IN  Restrict(idem, {k \in DOMAIN idem : live(k)})

-----------------------------------------------------------------------------
(* Incidents: what a destination's recent history says of it. *)

InWindow(list, d, t) == {i \in DOMAIN list : list[i].dest = d /\ list[i].at + Window >= t}

Failures(list, d, t) == {i \in InWindow(list, d, t) : list[i].status \in FailedStatus}

DeadLetters(list, d, t) == {i \in InWindow(list, d, t) : list[i].status = "dead_letter"}

Breached(list, d, t) ==
  \/ Cardinality(DeadLetters(list, d, t)) >= DeadLimit
  \/ Cardinality(Failures(list, d, t)) >= FailureLimit

\* lastIncidentAtMs; only read of a destination that has failures.
LastFailureAt(list, d, t) ==
  CHOOSE m \in {list[i].at : i \in Failures(list, d, t)} :
    \A i \in Failures(list, d, t) : list[i].at <= m

ClearAfter(list, d, t) == LastFailureAt(list, d, t) + Cooldown

ActiveIncidents(incs, d) == {i \in DOMAIN incs : incs[i].status = "active" /\ incs[i].dest = d}

\* Array.find: the one nearest the front.
ActiveIncident(incs, d) ==
  CHOOSE i \in ActiveIncidents(incs, d) :
    \A j \in ActiveIncidents(incs, d) : incs[i].pos <= incs[j].pos

\* Mutant: only the incident closes a destination.
ClosedByIncident(list, incs, d, t) == ActiveIncidents(incs, d) # {}

\* The verdict of buildDestinationHealth that closes a destination.
Quarantined(list, incs, d, t) ==
  \/ ActiveIncidents(incs, d) # {}
  \/ Breached(list, d, t) /\ ClearAfter(list, d, t) > t

\* Mutant: clear_after starts as null.
OpenEndedIncident(n, d, clearAfter) ==
  [id |-> n, pos |-> 0, status |-> "active", dest |-> d, clearAfter |-> None,
   ackBy |-> None, rev |-> 1, request |-> None, clearedBy |-> None]

NewIncident(n, d, clearAfter) ==
  [id |-> n, pos |-> 0, status |-> "active", dest |-> d, clearAfter |-> clearAfter,
   ackBy |-> None, rev |-> 1, request |-> None, clearedBy |-> None]

\* The active incident after one more receipt: latest_delivery_* always changes,
\* so the revision grows and an unconsumed clear request is dropped; a later
\* failure moves clear_after and takes the acknowledgement back.
Refreshed(inc, list, d, t) ==
  LET moved == Breached(list, d, t) /\ ClearAfter(list, d, t) # inc.clearAfter
  IN  [inc EXCEPT !.rev = @ + 1,
                  !.request = None,
                  !.clearAfter = IF moved THEN ClearAfter(list, d, t) ELSE @,
                  !.ackBy = IF moved THEN None ELSE @]

Opens(list, incs, d, t) == ActiveIncidents(incs, d) = {} /\ Breached(list, d, t)

\* syncIncidentState after the list of deliveries became list; n is a fresh id.
SyncedIncidents(list, incs, d, t, n) ==
  IF ActiveIncidents(incs, d) # {}
  THEN Unshift(incs, Refreshed(incs[ActiveIncident(incs, d)], list, d, t))
  ELSE IF Breached(list, d, t)
       THEN Unshift(incs, NewIncident(n, d, ClearAfter(list, d, t)))
       ELSE incs
=============================================================================
