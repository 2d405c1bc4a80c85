---------------------------- MODULE ExportDelivery ----------------------------
(***************************************************************************)
(* Delivery of signed audit exports for one tenant: the request handlers   *)
(* that enqueue, send and redrive, the retry worker, the destination       *)
(* incidents and the operators who acknowledge and clear them              *)
(* (src/service/security/export-delivery.ts).                              *)
(*                                                                         *)
(* Node runs one handler at a time, so a step is the code between two      *)
(* awaits that leave the process (a store write, a DNS lookup, an HTTPS    *)
(* exchange).  What a handler carries over an await is a member of         *)
(* requests; the retry worker is a handler of its own, serialised by       *)
(* retryChain.  The store is in memory and written out by every mutation;  *)
(* a crash loses requests, worker and timers and keeps the store.          *)
(***************************************************************************)
EXTENDS DeliveryStore

CONSTANTS
  MaxActive,      \* exportDeliveryMaxActivePerTenant
  MaxAttempts,    \* exportDeliveryMaxAttempts
  MaxRedrives,    \* exportDeliveryMaxManualRedrives
  RequestTtl,     \* exportDeliveryClearRequestTtlMinutes
  Corruptible,    \* can a stored payload fail to decrypt (another key after a restart)?
  \* Bounds of the model.
  MaxDeliveries,  \* receipts ever created
  MaxRequests,    \* handlers suspended at an await at once
  MaxTime,        \* ticks of the clock that no failure accounts for
  MaxPolicyEdits, MaxCrashes, MaxFaults

ASSUME DeliveryAssumption ==
  /\ {MaxActive, MaxAttempts, MaxRedrives, RequestTtl} \subseteq Nat \ {0}
  /\ {MaxDeliveries, MaxRequests, MaxTime, MaxPolicyEdits, MaxCrashes, MaxFaults} \subseteq Nat
  /\ Corruptible \in BOOLEAN

VARIABLES
  deliveries,   \* receipts, by delivery_id
  materials,    \* encrypted retry material, by delivery_id
  idempotency,  \* Idempotency-Key -> the delivery it created
  incidents,    \* by incident_id
  targets,      \* destinations whose URL rememberDestinationTarget keeps
  policy,       \* the rule the delivery policy matches for a destination, or None
  requests,     \* handlers suspended at an await
  worker,       \* the retry worker
  drain,        \* a drainRetryQueue waits for its turn on retryChain
  timer,        \* retryTimer is armed
  now,
  issued,       \* delivery ids handed out
  opened,       \* incident ids handed out
  spent         \* policy edits, crashes and failed writes so far

store == <<deliveries, materials, idempotency, incidents, targets>>
queue == <<worker, drain, timer>>
env   == <<policy, spent>>
vars  == <<store, queue, env, requests, now, issued, opened>>

\* job: the receipt under way; caught: its write is inside the attempt's try block.
Idle == [pc |-> "idle", due |-> {}, job |-> None, rule |-> None, caught |-> FALSE]

Init ==
  /\ deliveries = Nothing
  /\ materials = Nothing
  /\ idempotency = Nothing
  /\ incidents = Nothing
  /\ targets = {}
  /\ policy \in [Dests -> Rules]
  /\ requests = {}
  /\ worker = Idle
  /\ drain = FALSE
  /\ timer = FALSE
  /\ now = 1
  /\ issued = 0
  /\ opened = 0
  /\ spent = [edits |-> 0, crashes |-> 0, faults |-> 0]

-----------------------------------------------------------------------------
(* Store methods used by the handlers. *)

\* buildQueuedRecord; buildSuccessRecord and buildErrorRecord start from it too.
Receipt(i, status, d, rule) ==
  [id |-> i, pos |-> 0, status |-> status, dest |-> d, rule |-> rule,
   attempts |-> 0, redrives |-> 0, src |-> 0, at |-> now, waiting |-> FALSE]

\* The timestamps of a receipt as it is built.  No two failures share one.
Stamped(r) == [r EXCEPT !.at = IF r.status \in FailedStatus THEN now + 1 ELSE now]

Clock(r) == IF r.at > now THEN r.at ELSE now

\* upsert: put the receipt in front, forget what falls off the end, look at the
\* destination's history again.
Upsert(r, idem) ==
  LET cut == Overflow(deliveries, r)
      all == Unshift(deliveries, r)
      t   == Clock(r)
  IN  /\ now' = t
      /\ deliveries' = all
      /\ materials' = Without(materials, cut)
      /\ idempotency' = Restrict(idem, {k \in DOMAIN idem : idem[k].id \notin cut})
      /\ incidents' = SyncedIncidents(all, incidents, r.dest, t, opened + 1)
      /\ opened' = IF Opens(all, incidents, r.dest, t) THEN opened + 1 ELSE opened

SetMaterial(i, m) ==
  materials' = [j \in DOMAIN materials \cup {i} |-> IF j = i THEN m ELSE materials[j]]

DeleteMaterial(i) == materials' = Without(materials, {i})

\* resolveDeliveryTarget throws: no rule matches, or the destination is closed.
Refused(d) == policy[d] = None \/ Quarantined(deliveries, incidents, d, now)

\* scheduleRetryProcessing arms the timer when something is left to retry.
ScheduleRetryProcessing == timer' = (Retryable(deliveries', materials') # {})

Suspend(q) == requests' = requests \cup {q}
Resume(q, next) == requests' = (requests \ {q}) \cup next

CanStart == Cardinality(requests) < MaxRequests
CanIssue == issued < MaxDeliveries

-----------------------------------------------------------------------------
(* POST /v1/security/export/deliveries, mode async. *)

EnqueueRefused(i, d, idem) ==
  /\ Refused(d)
  /\ Upsert(Receipt(i, "blocked", d, None), idem)
  /\ UNCHANGED requests

EnqueueAccepted(i, d, k, idem) ==
  /\ ~Refused(d)
  /\ Upsert(Receipt(i, "queued", d, policy[d]), idem)
  /\ Suspend([step |-> "material", id |-> i, key |-> k, since |-> now,
              material |-> [rule |-> policy[d], redrives |-> 0]])

\* The key is known (same payload: its receipt is returned; another payload: 409)
\* or the tenant has too many active deliveries (429).
EnqueueTurnedAway(idem) ==
  /\ idempotency' = idem
  /\ UNCHANGED <<deliveries, materials, incidents, opened, now, issued, requests>>

Enqueue(d, k) ==
  LET idem  == IF k = None THEN idempotency
               ELSE PrunedIdempotency(idempotency, deliveries, now)
      known == k # None /\ k \in DOMAIN idem
      full  == CountActive(deliveries) >= MaxActive
  IN  /\ CanStart /\ CanIssue
      /\ \/ /\ known \/ full
            /\ EnqueueTurnedAway(idem)
         \/ /\ ~known /\ ~full
            /\ issued' = issued + 1
            /\ \/ EnqueueRefused(issued + 1, d, idem)
               \/ EnqueueAccepted(issued + 1, d, k, idem)
      /\ UNCHANGED <<targets, queue, env>>

\* setRetryMaterial, after the receipt was written.
StoreMaterial(q) ==
  /\ q.step = "material"
  /\ SetMaterial(q.id, q.material)
  /\ Resume(q, {IF q.key = None THEN [step |-> "schedule", id |-> q.id]
                ELSE [step |-> "remember", id |-> q.id, key |-> q.key, since |-> q.since]})
  /\ UNCHANGED <<deliveries, idempotency, incidents, targets, queue, env, now, issued, opened>>

\* rememberIdempotency, after the material was written.
StoreIdempotency(q) ==
  /\ q.step = "remember"
  /\ idempotency' =
       [k \in DOMAIN idempotency \cup {q.key} |->
          IF k = q.key THEN [id |-> q.id, since |-> q.since]
          ELSE idempotency[k]]
  /\ Resume(q, {[step |-> "schedule", id |-> q.id]})
  /\ UNCHANGED <<deliveries, materials, incidents, targets, queue, env, now, issued, opened>>

\* scheduleRetryProcessing and queueRetryProcessingSoon.
StartProcessing(q) ==
  /\ q.step = "schedule"
  /\ Resume(q, {})
  /\ UNCHANGED <<store, worker, env, now, issued, opened>>
  /\ ScheduleRetryProcessing
  /\ drain' = TRUE

-----------------------------------------------------------------------------
(* POST /v1/security/export/deliveries/:deliveryId/redrive. *)

\* Mutant: the limit is read from the receipt, which redrives never change.
RedrivableByReceipt(i) ==
  /\ i \in DOMAIN deliveries /\ deliveries[i].status = "dead_letter"
  /\ i \in DOMAIN materials
  /\ materials[i].rule = deliveries[i].rule
  /\ deliveries[i].redrives < MaxRedrives
  /\ CountActive(deliveries) < MaxActive
  /\ ~Refused(deliveries[i].dest)

Redrivable(i) ==
  /\ i \in DOMAIN deliveries /\ deliveries[i].status = "dead_letter"
  /\ i \in DOMAIN materials
  /\ materials[i].rule = deliveries[i].rule
  /\ materials[i].redrives < MaxRedrives
  /\ CountActive(deliveries) < MaxActive
  /\ ~Refused(deliveries[i].dest)

\* The checks, then the redrive is counted on the source's material.
Redrive(i) ==
  /\ CanStart /\ CanIssue
  /\ Redrivable(i)
  /\ LET count == materials[i].redrives + 1
         child == [Receipt(issued + 1, "queued", deliveries[i].dest, deliveries[i].rule)
                     EXCEPT !.redrives = count, !.src = i]
     IN  /\ SetMaterial(i, [materials[i] EXCEPT !.redrives = count])
         /\ Suspend([step |-> "redrive", id |-> child.id, receipt |-> child])
  /\ issued' = issued + 1
  /\ UNCHANGED <<deliveries, idempotency, incidents, targets, queue, env, now, opened>>

\* Mutant: the redriven delivery gets no material of its own.
RedriveQueuesBare(q) ==
  /\ q.step = "redrive"
  /\ Upsert(q.receipt, idempotency)
  /\ Resume(q, {[step |-> "schedule", id |-> q.id]})
  /\ UNCHANGED <<targets, queue, env, issued>>

\* The new receipt; its material follows as for an enqueue.
RedriveQueues(q) ==
  /\ q.step = "redrive"
  /\ Upsert(q.receipt, idempotency)
  /\ Resume(q, {[step |-> "material", id |-> q.id, key |-> None, since |-> q.receipt.at,
                 material |-> [rule |-> q.receipt.rule, redrives |-> q.receipt.redrives]]})
  /\ UNCHANGED <<targets, queue, env, issued>>

-----------------------------------------------------------------------------
(* POST /v1/security/export/deliveries, mode sync. *)

Deliver(d) ==
  /\ CanStart /\ CanIssue
  /\ issued' = issued + 1
  /\ \/ /\ Refused(d)
        /\ Upsert([Receipt(issued + 1, "blocked", d, None) EXCEPT !.attempts = 1], idempotency)
        /\ UNCHANGED <<targets, requests>>
     \/ /\ ~Refused(d)
        /\ targets' = targets \cup {d}
        /\ Suspend([step |-> "sync", id |-> issued + 1, dest |-> d, rule |-> policy[d]])
        /\ UNCHANGED <<deliveries, materials, idempotency, incidents, opened, now>>
  /\ UNCHANGED <<queue, env>>

\* The destination answered, or DNS or the transport failed before it did
\* (then the receipt carries the fallback destination, which has no rule).
DeliverAnswered(q, status, reached) ==
  /\ q.step = "sync"
  /\ status = "succeeded" => reached
  /\ Upsert(Stamped([Receipt(q.id, status, q.dest, IF reached THEN q.rule ELSE None)
                       EXCEPT !.attempts = 1]), idempotency)
  /\ Resume(q, {})
  /\ UNCHANGED <<targets, queue, env, issued>>

-----------------------------------------------------------------------------
(* The retry worker: processDueRetryQueue over a snapshot of the due receipts, *)
(* processSingleRetryRecord for each.                                          *)

\* Waiting drains collapse into one: a second one finds no more than the timer
\* that ends the first.
DrainStarts ==
  /\ drain /\ worker.pc = "idle"
  /\ drain' = FALSE
  /\ worker' = [Idle EXCEPT !.pc = "next",
                  !.due = {Detached(deliveries[i]) : i \in DueRetryables(deliveries, materials)}]
  /\ UNCHANGED <<store, timer, env, requests, now, issued, opened>>

DrainEnds ==
  /\ worker.pc = "next" /\ worker.due = {}
  /\ worker' = Idle
  /\ UNCHANGED <<store, drain, env, requests, now, issued, opened>>
  /\ ScheduleRetryProcessing

\* The receipt an attempt, or what comes instead of one, leads to.
Outcome(r, status) == Stamped([r EXCEPT !.status = status, !.waiting = (status = "retrying")])

\* The worker awaits a write of the receipt final, which may fail; then is where it
\* goes on if it does not.
WorkerWrites(r, final, caught, then) ==
  \/ /\ worker' = [pc |-> then, due |-> worker.due \ {r},
                    job |-> IF then = "settle" THEN final ELSE None,
                    rule |-> None, caught |-> then = "settle" /\ caught]
     /\ UNCHANGED spent
  \/ /\ spent.faults < MaxFaults
     /\ worker' = [pc |-> "fails", due |-> worker.due \ {r}, job |-> final,
                   rule |-> None, caught |-> caught]
     /\ spent' = [spent EXCEPT !.faults = @ + 1]

\* The receipt is upserted.
Reports(r, final, caught) ==
  /\ Upsert(final, idempotency)
  /\ WorkerWrites(r, final, caught, "next")

\* The material is deleted.
Deletes(r, final, caught) ==
  /\ DeleteMaterial(r.id)
  /\ now' = Clock(final)
  /\ UNCHANGED <<deliveries, idempotency, incidents, opened>>
  /\ WorkerWrites(r, final, caught, "settle")

\* Mutant: the material is not deleted.
SettleKeepingPayload(r, final, caught) ==
  /\ Reports(r, final, caught)
  /\ UNCHANGED timer

\* A settled receipt is upserted after the write without its material, or at once
\* when there is none.
SettleLater(r, final, caught) ==
  /\ \/ r.id \in DOMAIN materials /\ Deletes(r, final, caught)
     \/ r.id \notin DOMAIN materials /\ Reports(r, final, caught)
  /\ UNCHANGED timer

\* A receipt of the snapshot lost its material meanwhile.
TakeMissing(r) ==
  /\ r.id \notin DOMAIN materials
  /\ Reports(r, Outcome(r, "dead_letter"), FALSE)
  /\ UNCHANGED <<targets, timer>>

\* The fingerprint differs, or the payload does not decrypt.
TakeUnusable(r) ==
  /\ r.id \in DOMAIN materials
  /\ materials[r.id].rule # r.rule \/ Corruptible
  /\ SettleLater(r, Outcome(r, "dead_letter"), FALSE)
  /\ UNCHANGED targets

Usable(r) == r.id \in DOMAIN materials /\ materials[r.id].rule = r.rule

Attempted(r) == [r EXCEPT !.attempts = @ + 1]

\* resolveDeliveryTarget throws inside the try block: the receipt ends as blocked.
TakeRefused(r) ==
  /\ Usable(r) /\ Refused(r.dest)
  /\ SettleLater(r, Outcome(Attempted(r), "blocked"), FALSE)
  /\ UNCHANGED targets

\* rememberDestinationTarget, then DNS and the HTTPS exchange.
TakeResolved(r) ==
  /\ Usable(r) /\ ~Refused(r.dest)
  /\ targets' = targets \cup {r.dest}
  /\ worker' = [pc |-> "send", due |-> worker.due \ {r}, job |-> Attempted(r),
                rule |-> policy[r.dest], caught |-> FALSE]
  /\ UNCHANGED <<deliveries, materials, idempotency, incidents, timer, spent, now, opened>>

Take ==
  /\ worker.pc = "next"
  /\ \E r \in worker.due :
       TakeMissing(r) \/ TakeUnusable(r) \/ TakeRefused(r) \/ TakeResolved(r)
  /\ UNCHANGED <<drain, policy, requests, issued>>

\* A retryable failure with attempts left sets the timer.  The code arms it after
\* the write of the receipt; the drain arms it again at its end.
Retries(r, caught) ==
  /\ r.attempts < MaxAttempts
  /\ Reports(r, Outcome(r, "retrying"), caught)
  /\ IF worker'.pc = "fails" THEN UNCHANGED timer ELSE ScheduleRetryProcessing

\* A retryable failure of the last attempt: the material stays for a redrive.
Exhausts(r, caught) ==
  /\ r.attempts >= MaxAttempts
  /\ Reports(r, Outcome(r, "dead_letter"), caught)
  /\ UNCHANGED timer

\* A failed attempt: for good, as a block if the code takes its message for one, or
\* retryable.  An HTTP status is looked at in the try block, what is thrown in the
\* catch block.
Fails(r, thrown) ==
  \/ SettleLater(r, Outcome(r, "failed"), ~thrown)
  \/ thrown /\ SettleLater(r, Outcome(r, "blocked"), FALSE)
  \/ Retries(r, ~thrown)
  \/ Exhausts(r, ~thrown)

\* The job once its attempt was prepared: it carries the rule that matched now.
Prepared == [worker.job EXCEPT !.rule = worker.rule]

\* The destination answered, the transport failed, or the attempt failed before it
\* was prepared: remembering the target or DNS.
SendAnswered ==
  /\ worker.pc = "send"
  /\ \/ SettleLater(Prepared, Outcome(Prepared, "succeeded"), TRUE)
     \/ \E thrown \in BOOLEAN : Fails(Prepared, thrown)
     \/ Fails(worker.job, TRUE)
  /\ UNCHANGED <<targets, drain, policy, requests, issued>>

Settle ==
  /\ worker.pc = "settle"
  /\ Upsert(worker.job, idempotency)
  /\ WorkerWrites(worker.job, worker.job, worker.caught, "next")
  /\ UNCHANGED <<targets, drain, timer, policy, requests, issued>>

\* The write the worker waits for fails, and memory keeps what was not written.
\* Inside the try block the attempt counts as failed whatever its outcome was;
\* elsewhere the drain breaks off and schedules nothing.
WorkerWriteFails ==
  /\ worker.pc = "fails"
  /\ \/ worker.caught /\ Fails(worker.job, TRUE)
     \/ /\ ~worker.caught
        /\ worker' = Idle
        /\ UNCHANGED <<deliveries, materials, idempotency, incidents, timer, spent, now, opened>>
  /\ UNCHANGED <<targets, drain, policy, requests, issued>>

\* The timer's deadline; a retry's next_attempt_at passes.
TimerFires ==
  /\ timer
  /\ timer' = FALSE
  /\ drain' = TRUE
  /\ UNCHANGED <<store, worker, env, requests, now, issued, opened>>

BackoffEnds(i) ==
  /\ i \in DOMAIN deliveries /\ deliveries[i].waiting
  /\ deliveries' = [deliveries EXCEPT ![i].waiting = FALSE]
  /\ UNCHANGED <<materials, idempotency, incidents, targets, queue, env, requests,
                 now, issued, opened>>

-----------------------------------------------------------------------------
(* Operators on incidents.  The optimistic revision is compared with the       *)
(* incident read at the start of the handler; a caller that passes another one *)
(* is answered 409 and changes nothing, so only matching calls appear here.    *)

Active(n) == n \in DOMAIN incidents /\ incidents[n].status = "active"

\* saveIncident.
SaveIncident(inc) == incidents' = Unshift(incidents, inc)

Acknowledge(n, op) ==
  /\ Active(n) /\ incidents[n].ackBy = None
  /\ SaveIncident([incidents[n] EXCEPT !.ackBy = op, !.rev = @ + 1])
  /\ UNCHANGED <<deliveries, materials, idempotency, targets, queue, env, requests,
                 now, issued, opened>>

\* A clear request that still awaits its second operator.
Pending(request) == request # None /\ request.expires > now

\* The checks of clear-request, up to the live canary.
RequestClear(n, op) ==
  /\ CanStart
  /\ Active(n)
  /\ LET inc == incidents[n]
     IN  /\ inc.ackBy # None
         /\ inc.clearAfter <= now
         /\ ~Pending(inc.request)
         /\ inc.dest \in targets
         /\ policy[inc.dest] # None
         /\ Suspend([step |-> "canary", incident |-> Detached(inc), by |-> op,
                     rule |-> policy[inc.dest]])
  /\ UNCHANGED <<store, queue, env, now, issued, opened>>

\* The canary was accepted: what is saved is the incident as it was before it.
CanaryPasses(q) ==
  /\ q.step = "canary"
  /\ SaveIncident([q.incident EXCEPT
       !.request = [by |-> q.by, expires |-> now + RequestTtl, rule |-> q.rule],
       !.rev = @ + 1])
  /\ Resume(q, {})
  /\ UNCHANGED <<deliveries, materials, idempotency, targets, queue, env, now, issued, opened>>

\* Mutant: the operator who asked may clear.
ClearAlone(n, op) ==
  /\ CanStart
  /\ Active(n)
  /\ LET inc == incidents[n]
     IN  /\ inc.ackBy # None
         /\ inc.clearAfter <= now
         /\ Pending(inc.request)
         /\ inc.dest \in targets
         /\ policy[inc.dest] = inc.request.rule
         /\ Suspend([step |-> "clear", incident |-> Detached(inc), by |-> op])
  /\ UNCHANGED <<store, queue, env, now, issued, opened>>

\* The checks of clear, up to the DNS lookup of the preview.
Clear(n, op) ==
  /\ CanStart
  /\ Active(n)
  /\ LET inc == incidents[n]
     IN  /\ inc.ackBy # None
         /\ inc.clearAfter <= now
         /\ Pending(inc.request)
         /\ inc.request.by # op
         /\ inc.dest \in targets
         /\ policy[inc.dest] = inc.request.rule
         /\ Suspend([step |-> "clear", incident |-> Detached(inc), by |-> op])
  /\ UNCHANGED <<store, queue, env, now, issued, opened>>

ClearSaves(q) ==
  /\ q.step = "clear"
  /\ SaveIncident([q.incident EXCEPT !.status = "resolved", !.clearedBy = q.by, !.rev = @ + 1])
  /\ Resume(q, {})
  /\ UNCHANGED <<deliveries, materials, idempotency, targets, queue, env, now, issued, opened>>

\* The canary was refused, or a DNS lookup failed: the handler throws.
OperatorActionFails(q) ==
  /\ q.step \in {"canary", "clear"}
  /\ Resume(q, {})
  /\ UNCHANGED <<store, queue, env, now, issued, opened>>

-----------------------------------------------------------------------------
(* The surroundings. *)

\* A new delivery policy: a destination matches another rule, or none.
EditPolicy(d, rule) ==
  /\ spent.edits < MaxPolicyEdits
  /\ policy[d] # rule
  /\ policy' = [policy EXCEPT ![d] = rule]
  /\ spent' = [spent EXCEPT !.edits = @ + 1]
  /\ UNCHANGED <<store, queue, requests, now, issued, opened>>

\* The write a request handler waits for fails: the handler throws, memory stays.
WriteFails(q) ==
  /\ spent.faults < MaxFaults
  /\ q.step \in {"material", "remember", "schedule", "redrive"}
  /\ Resume(q, {})
  /\ spent' = [spent EXCEPT !.faults = @ + 1]
  /\ UNCHANGED <<store, queue, policy, now, issued, opened>>

\* The process dies and starts again: hydrate reads the store back and drops
\* material and idempotency entries without a receipt.  Nothing is scheduled.
Restart ==
  /\ spent.crashes < MaxCrashes
  /\ spent' = [spent EXCEPT !.crashes = @ + 1]
  /\ requests' = {}
  /\ worker' = Idle
  /\ drain' = FALSE
  /\ timer' = FALSE
  /\ materials' = Restrict(materials, DOMAIN materials \cap DOMAIN deliveries)
  /\ idempotency' = Restrict(idempotency,
                      {k \in DOMAIN idempotency : idempotency[k].id \in DOMAIN deliveries})
  /\ UNCHANGED <<deliveries, incidents, targets, policy, now, issued, opened>>

Tick ==
  /\ now < MaxTime
  /\ now' = now + 1
  /\ UNCHANGED <<store, queue, env, requests, issued, opened>>

-----------------------------------------------------------------------------

Call ==
  \/ \E d \in Dests : Deliver(d)
  \/ \E d \in Dests, k \in Keys \cup {None} : Enqueue(d, k)
  \/ \E i \in DOMAIN deliveries : Redrive(i)
  \/ \E n \in DOMAIN incidents, op \in Operators :
       Acknowledge(n, op) \/ RequestClear(n, op) \/ Clear(n, op)

Continue(q) ==
  \/ StoreMaterial(q)
  \/ StoreIdempotency(q)
  \/ StartProcessing(q)
  \/ RedriveQueues(q)
  \/ \E status \in {"succeeded", "failed", "blocked"}, reached \in BOOLEAN :
       DeliverAnswered(q, status, reached)
  \/ CanaryPasses(q)
  \/ ClearSaves(q)
  \/ OperatorActionFails(q)

Work == DrainStarts \/ Take \/ SendAnswered \/ Settle \/ WorkerWriteFails \/ DrainEnds

Surroundings ==
  \/ \E d \in Dests, rule \in Rules \cup {None} : EditPolicy(d, rule)
  \/ \E q \in requests : WriteFails(q)
  \/ Restart
  \/ Tick

Next ==
  \/ Call
  \/ \E q \in requests : Continue(q)
  \/ Work
  \/ TimerFires
  \/ \E i \in DOMAIN deliveries : BackoffEnds(i)
  \/ Surroundings

Spec == Init /\ [][Next]_vars

\* Node resumes every handler whose await is over, the HTTPS exchange has a
\* timeout, and timers fire; nothing obliges callers, operators or faults.
DeliverySteps == {"material", "remember", "schedule", "redrive", "sync"}

Fairness ==
  /\ \A i \in 1 .. MaxDeliveries :
       /\ WF_vars(\E q \in requests : q.step \in DeliverySteps /\ q.id = i /\ Continue(q))
       /\ WF_vars(BackoffEnds(i))
  /\ WF_vars(Work)
  /\ WF_vars(TimerFires)

FairSpec == Spec /\ Fairness

-----------------------------------------------------------------------------
(* Correctness. *)

Request ==
  [step: {"material"}, id: Nat, key: Keys \cup {None}, since: Nat, material: RetryMaterial]
    \cup [step: {"remember"}, id: Nat, key: Keys, since: Nat]
    \cup [step: {"schedule"}, id: Nat]
    \cup [step: {"redrive"}, id: Nat, receipt: DeliveryRecord]
    \cup [step: {"sync"}, id: Nat, dest: Dests, rule: Rules]
    \cup [step: {"canary"}, incident: Incident, by: Operators, rule: Rules]
    \cup [step: {"clear"}, incident: Incident, by: Operators]

\* Every variable holds what the code's types say.
TypeOK ==
  /\ deliveries \in [DOMAIN deliveries -> DeliveryRecord] /\ DOMAIN deliveries \subseteq Nat
  /\ materials \in [DOMAIN materials -> RetryMaterial] /\ DOMAIN materials \subseteq Nat
  /\ idempotency \in [DOMAIN idempotency -> IdempotencyEntry]
  /\ DOMAIN idempotency \subseteq Keys
  /\ incidents \in [DOMAIN incidents -> Incident] /\ DOMAIN incidents \subseteq Nat
  /\ targets \subseteq Dests
  /\ policy \in [Dests -> Rules \cup {None}]
  /\ requests \subseteq Request
  /\ worker \in [pc: {"idle", "next", "send", "settle", "fails"}, due: SUBSET DeliveryRecord,
                 job: DeliveryRecord \cup {None}, rule: Rules \cup {None}, caught: BOOLEAN]
  /\ drain \in BOOLEAN /\ timer \in BOOLEAN
  /\ {now, issued, opened} \subseteq Nat
  /\ spent \in [edits: Nat, crashes: Nat, faults: Nat]

\* An active delivery can still make progress: its payload is stored, or its
\* handler is about to store it, or the worker is about to settle it.  While
\* receipts fit the list and the process neither dies nor fails a write, no
\* interleaving of enqueue, redrive and worker leaves one that holds a place
\* under the active limit for ever.
NoOrphanActive ==
  \A i \in ActiveIn(deliveries) :
    \/ i \in DOMAIN materials
    \/ \E q \in requests : q.step = "material" /\ q.id = i
    \/ worker.pc = "settle" /\ worker.job.id = i

\* The encrypted payload of an export is kept only while it may be sent again:
\* a delivery that succeeded, failed for good or was blocked has none left, on
\* disk or in a handler that would still write it.
SettledHoldsNoPayload ==
  \A i \in DOMAIN deliveries :
    deliveries[i].status \in {"succeeded", "failed", "blocked"} =>
      /\ i \notin DOMAIN materials
      /\ \A q \in requests : q.step = "material" => q.id # i

\* Deliveries a caller enqueued never exceed the tenant's active limit; only a
\* redrive that overtakes an enqueue can push the total beyond it.
EnqueueCap ==
  Cardinality({i \in ActiveIn(deliveries) : deliveries[i].src = 0}) <= MaxActive

\* A settled receipt is evidence: as long as it is listed nothing rewrites it,
\* neither a redrive nor the worker's snapshot of an earlier moment.  Only when a
\* write failed may the attempt that settled it have it say something else.
SameAttempt(i) ==
  /\ spent'.faults > 0
  /\ worker.pc \in {"settle", "fails"} /\ worker.job.id = i
  /\ deliveries'[i].attempts = deliveries[i].attempts

ReceiptsAreFinal ==
  [][\A i \in DOMAIN deliveries \cap DOMAIN deliveries' :
       deliveries[i].status \in SettledStatus =>
         Detached(deliveries'[i]) = Detached(deliveries[i]) \/ SameAttempt(i)]_vars

\* The queue keeps the contract of DeliveryContract: every send is counted once on
\* the receipt it was made for, attempts and redrives stay within their limits
\* (decisions.md:414), and no snapshot of the worker brings a receipt back.
Ids == 1 .. MaxDeliveries

Seen(i, whenListed, otherwise) == IF i \in DOMAIN deliveries THEN whenListed ELSE otherwise

Contract == INSTANCE DeliveryContract WITH
  phase    <- [i \in Ids |-> Seen(i, IF i \in ActiveIn(deliveries) THEN "pending"
                                     ELSE deliveries[i].status, "none")],
  attempts <- [i \in Ids |-> Seen(i, deliveries[i].attempts, 0)],
  source   <- [i \in Ids |-> Seen(i, deliveries[i].src, 0)]

ImplementsContract == Contract!Spec

\* Every accepted delivery settles (or falls off the list): retries end.
EveryDeliverySettles ==
  \A i \in 1 .. MaxDeliveries : (i \in ActiveIn(deliveries)) ~> (i \notin ActiveIn(deliveries))

\* A retryable failure is retried with backoff until the attempts are used up
\* (README.md:340), so a delivery that still has its payload comes to an end even
\* when the process restarts in between.
RestartResumesRetries ==
  \A i \in Ids : (i \in Retryable(deliveries, materials)) ~> (i \notin ActiveIn(deliveries))

\* A repeated Idempotency-Key does not create a second delivery while the
\* first is under way (delivery.md:348).
KeyNamesOneDelivery ==
  [][\A k \in DOMAIN idempotency \cap DOMAIN idempotency' :
       idempotency'[k].id # idempotency[k].id =>
         idempotency[k].id \notin ActiveIn(deliveries)]_vars

\* A destination is reopened only by two operators: one acknowledged and asked,
\* another one cleared, and the cooldown of the incident they saw was over.
ResolutionIsEarned ==
  \A n \in DOMAIN incidents :
    incidents[n].status = "resolved" =>
      /\ incidents[n].ackBy # None
      /\ incidents[n].request # None
      /\ incidents[n].clearedBy # None
      /\ incidents[n].clearedBy # incidents[n].request.by
      /\ incidents[n].clearAfter <= now

\* Whatever becomes of the incident, a destination stays closed for the cooldown
\* after the last failure of a burst: no export leaves for it, synchronous or by
\* the worker, not even when an operator cleared the incident from a stale copy.
Recovering(d) == Breached(deliveries, d, now) /\ ClearAfter(deliveries, d, now) > now

CooldownOutlivesClear ==
  [][\A d \in Dests : Recovering(d) =>
       /\ \A q \in requests' \ requests : q.step = "sync" => q.dest # d
       /\ worker'.pc = "send" /\ worker.pc # "send" => worker'.job.dest # d]_vars

\* What an operator clears is the incident on file: a failure that arrived in
\* between takes the acknowledgement back (decisions.md:231).
ClearSeesFreshFailures ==
  [][\A n \in DOMAIN incidents \cap DOMAIN incidents' :
       incidents[n].status = "active" /\ incidents'[n].status = "resolved" =>
         /\ incidents[n].ackBy # None
         /\ incidents[n].clearAfter = incidents'[n].clearAfter]_vars

=============================================================================
