--------------------------- MODULE ExportQueueProofs ---------------------------
(***************************************************************************)
(* Proofs about the queue of ExportDelivery: payloads go when a delivery   *)
(* settles, settled receipts are not rewritten, no export leaves during a  *)
(* cooldown, the limits hold, and the queue implements DeliveryContract.   *)
(*                                                                         *)
(* Three actors write a receipt or its payload over an await: the handler  *)
(* that created it, the handler of its redrive and the retry worker.       *)
(* QueueInv says whose a delivery is: each handler's id is its own, has    *)
(* no payload yet and is not held by the worker (OwnersInv); what the      *)
(* worker's snapshot says of a listed receipt is what the receipt says     *)
(* (DueInv); what it is about to write replaces an active receipt, or one  *)
(* that a failed write of the same attempt left settled (JobInv).  It      *)
(* holds whatever falls off the list, crashes or fails to be written.      *)
(*                                                                         *)
(* FitInv adds what is lost when a receipt falls off the list or a write   *)
(* fails: the places are 1 .. length, so that nothing is cut; the receipt  *)
(* under way is listed with its attempt still to count; each redrive was   *)
(* counted on the payload of a dead letter before its receipt appears.     *)
(***************************************************************************)
EXTENDS ExportDeliveryProofs

\* The handlers that will still write the receipt or the payload of their delivery.
Owners == {q \in requests : q.step \in {"material", "redrive", "sync"}}

\* The deliveries the worker holds: its snapshot and the one under way.
Held(i) ==
  \/ \E r \in worker.due : r.id = i
  \/ worker.pc \in {"send", "settle", "fails"} /\ worker.job.id = i

\* A listed receipt: its id is its key, it waits only for a retry, and its payload
\* is gone when it settled for good.
ReceiptOK(i) ==
  /\ i \in 1 .. issued /\ deliveries[i].id = i
  /\ deliveries[i].waiting => deliveries[i].status = "retrying"
  /\ deliveries[i].status \in {"succeeded", "failed", "blocked"} => i \notin DOMAIN materials

ReceiptsInv ==
  /\ \A i \in DOMAIN deliveries : ReceiptOK(i)
  /\ DOMAIN materials \subseteq 1 .. issued
  /\ issued <= MaxDeliveries

\* A handler's delivery is new: not held by the worker, without a payload, and
\* not listed unless only the payload is still to come.
OwnerOK(q) ==
  /\ q.id \in 1 .. issued /\ q.id \notin DOMAIN materials /\ ~Held(q.id)
  /\ q.id \in DOMAIN deliveries => q.step = "material" /\ deliveries[q.id].status = "queued"
  /\ q.step = "redrive" =>
       q.receipt.id = q.id /\ q.receipt.status = "queued" /\ ~q.receipt.waiting

OwnersInv ==
  /\ \A q \in Owners : OwnerOK(q)
  /\ \A q, s \in Owners : q.id = s.id => q = s

\* A receipt of the snapshot: active and due, and the listed one says the same.
DueOK(r) ==
  /\ r.id \in 1 .. issued /\ r.status \in ActiveStatus /\ ~r.waiting
  /\ r.id \in DOMAIN deliveries => Detached(deliveries[r.id]) = Detached(r)

DueInv ==
  /\ \A r \in worker.due : DueOK(r)
  /\ \A r, s \in worker.due : r.id = s.id => r = s

\* What the worker is about to write replaces an active receipt, or one that a
\* failed write left settled by the same attempt.
Replaces(r) ==
  r.id \in DOMAIN deliveries =>
    \/ deliveries[r.id].status \in ActiveStatus
    \/ /\ worker.pc \in {"settle", "fails"} /\ worker.job.id = r.id
       /\ spent.faults > 0
       /\ deliveries[r.id].attempts = r.attempts

\* The receipt under way is held once, and is about to be settled without payload.
JobInv ==
  /\ worker.pc \in {"send", "settle", "fails"} =>
       /\ worker.job.id \in 1 .. issued
       /\ \A r \in worker.due : r.id # worker.job.id
       /\ Replaces(worker.job)
  /\ worker.pc = "settle" =>
       /\ worker.job.id \notin DOMAIN materials
       /\ worker.job.status \in SettledStatus /\ ~worker.job.waiting

QueueInv == ReceiptsInv /\ OwnersInv /\ DueInv /\ JobInv

\* No receipt falls off the list.
Fits == MaxDeliveries <= MaxRecords

\* The places of a list are 1 .. its length, each taken once.
Ranked(list) ==
  /\ \A i \in DOMAIN list : list[i].pos \in 1 .. Cardinality(DOMAIN list)
  /\ \A i, j \in DOMAIN list : list[i].pos = list[j].pos => i = j

\* j is the receipt under way, its attempt counted.
Counted(j) ==
  /\ j.id \in ActiveIn(deliveries) /\ j.src = deliveries[j.id].src
  /\ j.attempts = deliveries[j.id].attempts + 1

\* What the worker writes over an active receipt: a retry, or an end that counts
\* the attempt, if there was one.
Advances(final) ==
  /\ final.id \in ActiveIn(deliveries) /\ final.src = deliveries[final.id].src
  /\ \/ /\ final.status = "retrying" /\ final.attempts < MaxAttempts
        /\ final.attempts = deliveries[final.id].attempts + 1
     \/ /\ final.status \in SettledStatus
        /\ \/ final.attempts = deliveries[final.id].attempts + 1
           \/ final.attempts = deliveries[final.id].attempts /\ final.status = "dead_letter"

\* Nothing a handler or the worker is at was lost.
KeptInv ==
  /\ worker.pc # "fails"
  /\ \A q \in Owners : q.step = "material" => q.id \in DOMAIN deliveries
  /\ \A r \in worker.due : r.id \in DOMAIN deliveries
  /\ worker.pc = "send" => Counted(worker.job) /\ worker.job.id \in DOMAIN materials
  /\ worker.pc = "settle" => Advances(worker.job)

\* The redrives of i: those listed and those a handler is about to write.
Children(i) ==
  {j \in DOMAIN deliveries : deliveries[j].src = i}
    \cup {q.id : q \in {s \in Owners : s.step = "redrive" /\ s.receipt.src = i}}

DeadLetter(i) == i \in DOMAIN deliveries /\ deliveries[i].status = "dead_letter"

\* Only dead letters are redriven, and each redrive was counted on its material.
LineageInv ==
  /\ \A i \in DOMAIN deliveries : deliveries[i].src # 0 => DeadLetter(deliveries[i].src)
  /\ \A i \in DOMAIN materials :
       Cardinality(Children(i)) <= materials[i].redrives /\ materials[i].redrives <= MaxRedrives
  /\ \A q \in Owners :
       /\ q.step = "material" => q.material.redrives <= MaxRedrives
       /\ q.step = "redrive" =>
            /\ DeadLetter(q.receipt.src) /\ q.receipt.src \in DOMAIN materials
            /\ q.receipt.redrives <= MaxRedrives /\ q.receipt.attempts = 0

\* What may be sent again has an attempt left.
AttemptsInv == \A i \in ActiveIn(deliveries) : deliveries[i].attempts < MaxAttempts

\* The ways an active delivery can still come to an end.
Covered(i) ==
  \/ i \in DOMAIN materials
  \/ \E q \in Owners : q.step = "material" /\ q.id = i
  \/ worker.pc = "settle" /\ worker.job.id = i

\* What a failed write, an eviction or, for its last part, a crash would break.
UnfailedInv ==
  /\ KeptInv /\ LineageInv /\ AttemptsInv /\ EnqueueCap
  /\ spent.crashes = 0 => \A i \in ActiveIn(deliveries) : Covered(i)

\* What holds while receipts fit the list and no write has failed.
Unfailed == Fits /\ Ranked(deliveries) /\ spent.faults = 0 /\ UnfailedInv

\* The invariant behind the limits and the contract.
FitInv ==
  /\ Fits => Ranked(deliveries)
  /\ Fits /\ spent.faults = 0 => UnfailedInv

-----------------------------------------------------------------------------
(* Receipts and lists, whatever the places of their entries. *)

\* Receipts that differ at most in their place agree on all else.
LEMMA DetachedSame ==
  ASSUME NEW a \in DeliveryRecord, NEW b \in DeliveryRecord, Detached(a) = Detached(b)
  PROVE  /\ a.id = b.id /\ a.status = b.status /\ a.dest = b.dest /\ a.rule = b.rule
         /\ a.attempts = b.attempts /\ a.redrives = b.redrives /\ a.src = b.src
         /\ a.at = b.at /\ a.waiting = b.waiting
  BY DEF Detached, DeliveryRecord

\* Moving a receipt does not change what it says.
LEMMA MovedDetached ==
  ASSUME NEW r \in DeliveryRecord, NEW p \in Nat
  PROVE  Detached([r EXCEPT !.pos = p]) = Detached(r)
  BY DEF Detached, DeliveryRecord

\* The list after a receipt was put in front: that receipt and the others, which
\* say what they said.
LEMMA UnshiftShape ==
  ASSUME NEW list, IsList(list, DeliveryRecord), NEW r \in DeliveryRecord
  PROVE  /\ DOMAIN Unshift(list, r) \subseteq DOMAIN list \cup {r.id}
         /\ r.id \in DOMAIN Unshift(list, r) => Detached(Unshift(list, r)[r.id]) = Detached(r)
         /\ \A i \in DOMAIN Unshift(list, r) : i # r.id =>
              i \in DOMAIN list /\ Detached(Unshift(list, r)[i]) = Detached(list[i])
<1> DEFINE U == Unshift(list, r)
           P == Pushed(list, r)
<1>1. DOMAIN U \subseteq DOMAIN P /\ \A i \in DOMAIN U : U[i] = P[i]
  BY DEF Unshift, Restrict
<1>2. DOMAIN P = DOMAIN list \cup {r.id} /\ P[r.id] = [r EXCEPT !.pos = 1]
  BY DEF Pushed
<1>3. ASSUME NEW i \in DOMAIN list, i # r.id
      PROVE  P[i] = list[i] \/ P[i] = [list[i] EXCEPT !.pos = list[i].pos + 1]
  <2>1. list[i] \in DeliveryRecord
    BY DEF IsList
  <2> QED
    BY <1>3, <2>1 DEF Pushed, DeliveryRecord
<1>4. ASSUME NEW i \in DOMAIN list, i # r.id
      PROVE  Detached(P[i]) = Detached(list[i])
  <2>1. list[i] \in DeliveryRecord /\ list[i].pos + 1 \in Nat
    BY DEF IsList, DeliveryRecord
  <2> HIDE DEF P
  <2> QED
    BY <1>3, <1>4, <2>1, MovedDetached
<1>5. Detached(P[r.id]) = Detached(r)
  BY <1>2, MovedDetached
<1> QED
  <2> HIDE DEF U, P
  <2>1. /\ DOMAIN U \subseteq DOMAIN list \cup {r.id}
        /\ r.id \in DOMAIN U => Detached(U[r.id]) = Detached(r)
        /\ \A i \in DOMAIN U : i # r.id => i \in DOMAIN list /\ Detached(U[i]) = Detached(list[i])
    BY <1>1, <1>2, <1>4, <1>5
  <2> QED
    BY <2>1 DEF U

\* What an upsert does to receipts and payloads.
LEMMA UpsertShape ==
  ASSUME IInv, NEW r \in DeliveryRecord, NEW idem, idem \in [DOMAIN idem -> IdempotencyEntry],
         DOMAIN idem \subseteq Keys, Upsert(r, idem)
  PROVE  /\ DOMAIN deliveries' \subseteq DOMAIN deliveries \cup {r.id}
         /\ \A i \in DOMAIN deliveries' : deliveries'[i] \in DeliveryRecord
         /\ r.id \in DOMAIN deliveries' => Detached(deliveries'[r.id]) = Detached(r)
         /\ \A i \in DOMAIN deliveries' : i # r.id =>
              i \in DOMAIN deliveries /\ Detached(deliveries'[i]) = Detached(deliveries[i])
         /\ DOMAIN materials' \subseteq DOMAIN materials
<1>1. deliveries' = Unshift(deliveries, r)
  BY DEF Upsert
<1>2. IsList(deliveries, DeliveryRecord)
  BY DEF IInv, StoreInv
<1>3. \A i \in DOMAIN deliveries' : deliveries'[i] \in DeliveryRecord
  BY UpsertStore DEF StoreInv, IsList
<1>4. DOMAIN materials' \subseteq DOMAIN materials
  BY DEF Upsert, Without, Restrict
<1> QED
  BY <1>1, <1>2, <1>3, <1>4, UnshiftShape

\* What the receipts say after an upsert.
LEMMA UpsertFields ==
  ASSUME IInv, NEW r \in DeliveryRecord, NEW idem, idem \in [DOMAIN idem -> IdempotencyEntry],
         DOMAIN idem \subseteq Keys, Upsert(r, idem), NEW i \in DOMAIN deliveries'
  PROVE  /\ i = r.id =>
              /\ deliveries'[i].id = r.id /\ deliveries'[i].status = r.status
              /\ deliveries'[i].attempts = r.attempts /\ deliveries'[i].src = r.src
              /\ deliveries'[i].waiting = r.waiting
         /\ i # r.id =>
              /\ i \in DOMAIN deliveries
              /\ deliveries'[i].id = deliveries[i].id /\ deliveries'[i].status = deliveries[i].status
              /\ deliveries'[i].attempts = deliveries[i].attempts
              /\ deliveries'[i].src = deliveries[i].src
              /\ deliveries'[i].waiting = deliveries[i].waiting
<1>1. deliveries'[i] \in DeliveryRecord /\ \A j \in DOMAIN deliveries : deliveries[j] \in DeliveryRecord
  BY UpsertShape DEF IInv, StoreInv, IsList
<1>2. i = r.id => Detached(deliveries'[i]) = Detached(r)
  BY UpsertShape
<1>3. i # r.id => i \in DOMAIN deliveries /\ Detached(deliveries'[i]) = Detached(deliveries[i])
  BY UpsertShape
<1> QED
  BY <1>1, <1>2, <1>3, DetachedSame

-----------------------------------------------------------------------------
(* Frames: what a step leaves alone. *)

\* A handler's step does not disturb the worker, unless it touches what it holds.
LEMMA WorkerFrame ==
  ASSUME IInv, QueueInv, UNCHANGED worker, issued' \in Nat, issued <= issued',
         spent'.faults \in Nat, spent.faults <= spent'.faults,
         \A i \in DOMAIN deliveries' : Held(i) =>
           /\ i \in DOMAIN deliveries /\ deliveries'[i] \in DeliveryRecord
           /\ Detached(deliveries'[i]) = Detached(deliveries[i]),
         \A i \in DOMAIN materials' : Held(i) => i \in DOMAIN materials
  PROVE  DueInv' /\ JobInv' /\ \A i : Held(i)' <=> Held(i)
<1>1. \A i : Held(i)' <=> Held(i)
  BY DEF Held
<1>2. issued \in Nat /\ spent.faults \in Nat
  BY DEF IInv, HandlerInv, EnvInv
<1>3. ASSUME NEW i \in DOMAIN deliveries', Held(i)
      PROVE  /\ i \in DOMAIN deliveries /\ deliveries'[i].status = deliveries[i].status
             /\ deliveries'[i].attempts = deliveries[i].attempts
  <2>1. deliveries[i] \in DeliveryRecord /\ deliveries'[i] \in DeliveryRecord
    BY <1>3 DEF IInv, StoreInv, IsList
  <2> QED
    BY <1>3, <2>1, DetachedSame
<1>4. DueInv'
  <2>1. ASSUME NEW r \in worker.due
        PROVE  DueOK(r)'
    <3>1. DueOK(r) /\ Held(r.id)
      BY DEF QueueInv, DueInv, Held
    <3>2. r.id \in 1 .. issued'
      BY <1>2, <3>1 DEF DueOK
    <3> QED
      BY <3>1, <3>2 DEF DueOK
  <2> QED
    BY <2>1 DEF QueueInv, DueInv
<1>5. JobInv'
  <2>1. CASE worker.pc \in {"send", "settle", "fails"}
    <3>1. Held(worker.job.id) /\ worker.job.id \in 1 .. issued'
      BY <1>2, <2>1 DEF QueueInv, JobInv, Held
    <3>2. Replaces(worker.job)'
      BY <1>2, <1>3, <2>1, <3>1 DEF QueueInv, JobInv, Replaces
    <3> QED
      BY <2>1, <3>1, <3>2 DEF QueueInv, JobInv
  <2> QED
    BY <2>1 DEF JobInv
<1> QED
  BY <1>1, <1>4, <1>5

\* Handlers that end, and one that comes to its next await.
LEMMA OwnersAfter ==
  ASSUME QueueInv, NEW N, Owners' \subseteq Owners \cup N, \A a, b \in N : a = b,
         \A next \in N : OwnerOK(next)' /\ \A q \in Owners' \cap Owners : q.id # next.id,
         issued \in Nat, issued' \in Nat, issued <= issued',
         \A q \in Owners' \cap Owners :
           /\ q.id \notin DOMAIN materials' /\ ~Held(q.id)'
           /\ q.id \in DOMAIN deliveries' =>
                q.id \in DOMAIN deliveries /\ deliveries'[q.id].status = deliveries[q.id].status
  PROVE  OwnersInv'
<1>1. ASSUME NEW q \in Owners', q \in Owners
      PROVE  OwnerOK(q)'
  <2>1. OwnerOK(q) /\ q.id \in 1 .. issued'
    BY <1>1 DEF QueueInv, OwnersInv, OwnerOK
  <2> QED
    BY <1>1, <2>1 DEF OwnerOK
<1>2. \A q, s \in Owners' : q.id = s.id => q = s
  BY DEF QueueInv, OwnersInv
<1> QED
  BY <1>1, <1>2 DEF OwnersInv

-----------------------------------------------------------------------------
(* A list that receipts do not outnumber keeps them all. *)

\* Putting a receipt in front keeps the places 1 .. length.
LEMMA PushedRanked ==
  ASSUME NEW list, IsList(list, DeliveryRecord), IsFiniteSet(DOMAIN list), Ranked(list),
         NEW r \in DeliveryRecord
  PROVE  Ranked(Pushed(list, r)) /\ DOMAIN Pushed(list, r) = DOMAIN list \cup {r.id}
<1> DEFINE P == Pushed(list, r)
           n == Cardinality(DOMAIN list)
           m == Cardinality(DOMAIN list \cup {r.id})
<1>1. DOMAIN P = DOMAIN list \cup {r.id} /\ P[r.id].pos = 1
  BY DEF Pushed, DeliveryRecord
<1>2. /\ n \in Nat /\ m \in Nat
      /\ r.id \in DOMAIN list => m = n
      /\ r.id \notin DOMAIN list => m = n + 1
  BY FS_CardinalityType, FS_AddElement
<1>3. \A i \in DOMAIN list : list[i] \in DeliveryRecord /\ list[i].pos \in 1 .. n
  BY DEF IsList, Ranked
<1>4. ASSUME NEW i \in DOMAIN list, i # r.id
      PROVE  P[i].pos = IF r.id \in DOMAIN list /\ list[r.id].pos < list[i].pos
                        THEN list[i].pos ELSE list[i].pos + 1
  BY <1>3, <1>4 DEF Pushed, DeliveryRecord
<1>5. m >= 1
  BY <1>2, <1>3
<1> HIDE DEF P, n, m
<1>6. ASSUME NEW i \in DOMAIN list, i # r.id
      PROVE  P[i].pos \in 2 .. m
  <2>1. CASE r.id \in DOMAIN list
    <3>1. list[i].pos # list[r.id].pos
      BY <1>6, <2>1 DEF Ranked
    <3> QED
      BY <1>2, <1>3, <1>4, <1>6, <2>1, <3>1
  <2>2. CASE r.id \notin DOMAIN list
    BY <1>2, <1>3, <1>4, <1>6, <2>2
  <2> QED
    BY <2>1, <2>2
<1>7. \A i \in DOMAIN P : P[i].pos \in 1 .. m
  BY <1>1, <1>2, <1>5, <1>6
<1>8. ASSUME NEW i \in DOMAIN P, NEW j \in DOMAIN P, P[i].pos = P[j].pos
      PROVE  i = j
  <2>1. CASE i = r.id \/ j = r.id
    <3>1. ASSUME NEW k \in DOMAIN list, k # r.id
          PROVE  P[k].pos # 1
      BY <1>2, <1>6, <3>1
    <3> QED
      BY <1>1, <1>8, <2>1, <3>1
  <2>2. CASE i # r.id /\ j # r.id
    <3>1. i \in DOMAIN list /\ j \in DOMAIN list
      BY <1>1, <2>2
    <3>2. list[i].pos = list[j].pos
      <4>1. CASE r.id \in DOMAIN list
        <5>1. list[i].pos # list[r.id].pos /\ list[j].pos # list[r.id].pos
          BY <2>2, <3>1, <4>1 DEF Ranked
        <5> QED
          BY <1>2, <1>3, <1>4, <1>8, <2>2, <3>1, <4>1, <5>1
      <4>2. CASE r.id \notin DOMAIN list
        BY <1>2, <1>3, <1>4, <1>8, <2>2, <3>1, <4>2
      <4> QED
        BY <4>1, <4>2
    <3> QED
      BY <3>1, <3>2 DEF Ranked
  <2> QED
    BY <2>1, <2>2
<1>9. Cardinality(DOMAIN P) = m
  BY <1>1 DEF m
<1>10. Ranked(P)
  BY <1>7, <1>8, <1>9 DEF Ranked
<1> QED
  BY <1>1, <1>10 DEF P

\* A ranked list no longer than the limit is not cut.
LEMMA NothingCut ==
  ASSUME NEW list, NEW r, Ranked(Pushed(list, r)),
         Cardinality(DOMAIN Pushed(list, r)) \in Nat,
         Cardinality(DOMAIN Pushed(list, r)) <= MaxRecords
  PROVE  Unshift(list, r) = Pushed(list, r) /\ Overflow(list, r) = {}
<1> DEFINE P == Pushed(list, r)
<1>1. P = [i \in DOMAIN P |-> P[i]] /\ DOMAIN P = DOMAIN list \cup {r.id}
  BY DEF Pushed
<1>2. Unshift(list, r) = [i \in {k \in DOMAIN P : P[k].pos <= MaxRecords} |-> P[i]]
  BY DEF Unshift, Restrict
<1>3. {k \in DOMAIN P : P[k].pos <= MaxRecords} = DOMAIN P
  <2> SUFFICES ASSUME NEW k \in DOMAIN P PROVE P[k].pos <= MaxRecords
    OBVIOUS
  <2>1. MaxRecords \in Nat
    BY StoreAssumption
  <2> HIDE DEF P
  <2>2. /\ P[k].pos \in 1 .. Cardinality(DOMAIN P)
        /\ Cardinality(DOMAIN P) \in Nat /\ Cardinality(DOMAIN P) <= MaxRecords
    BY DEF P, Ranked
  <2> QED
    BY <2>1, <2>2
<1>4. Unshift(list, r) = P
  <2> HIDE DEF P
  <2> QED
    BY <1>1, <1>2, <1>3
<1> QED
  BY <1>1, <1>4 DEF Overflow

\* The receipts are finitely many, and no more than were issued.
LEMMA ListedAreFew ==
  ASSUME IInv, QueueInv
  PROVE  /\ IsFiniteSet(DOMAIN deliveries) /\ DOMAIN deliveries \subseteq 1 .. issued
         /\ issued \in Nat
<1>1. issued \in Nat /\ DOMAIN deliveries \subseteq 1 .. issued
  BY DEF IInv, HandlerInv, QueueInv, ReceiptsInv, ReceiptOK
<1>2. IsFiniteSet(1 .. issued)
  BY <1>1, FS_Interval
<1> QED
  BY <1>1, <1>2, FS_Subset

\* What an upsert does when receipts fit the list: nothing is forgotten.
LEMMA UpsertFits ==
  ASSUME IInv, QueueInv, Fits, Ranked(deliveries), NEW r \in DeliveryRecord,
         NEW idem, idem \in [DOMAIN idem -> IdempotencyEntry], DOMAIN idem \subseteq Keys,
         Upsert(r, idem), issued' \in Nat, issued <= issued', issued' <= MaxDeliveries,
         r.id \in 1 .. issued'
  PROVE  /\ Ranked(deliveries') /\ DOMAIN deliveries' = DOMAIN deliveries \cup {r.id}
         /\ materials' = materials
         /\ IsFiniteSet(DOMAIN deliveries')
<1> DEFINE P == Pushed(deliveries, r)
<1>1. IsFiniteSet(DOMAIN deliveries) /\ DOMAIN deliveries \subseteq 1 .. issued /\ issued \in Nat
  BY ListedAreFew
<1>2. Ranked(P) /\ DOMAIN P = DOMAIN deliveries \cup {r.id}
  BY <1>1, PushedRanked DEF IInv, StoreInv
<1>3. /\ Cardinality(DOMAIN P) \in Nat /\ Cardinality(DOMAIN P) <= issued'
      /\ IsFiniteSet(DOMAIN P)
  <2>1. DOMAIN P \subseteq 1 .. issued'
    BY <1>1, <1>2
  <2>2. IsFiniteSet(1 .. issued') /\ Cardinality(1 .. issued') = issued'
    <3>1. PICK n \in Nat : n = issued'
      OBVIOUS
    <3>2. \A a, b \in Int : a <= b + 1 => IsFiniteSet(a .. b) /\ Cardinality(a .. b) = b - a + 1
      BY FS_Interval
    <3>3. 1 \in Int /\ n \in Int /\ 1 <= n + 1 /\ n - 1 + 1 = n
      OBVIOUS
    <3> QED
      BY <3>1, <3>2, <3>3
  <2> HIDE DEF P
  <2> QED
    BY <2>1, <2>2, FS_Subset, FS_CardinalityType
<1>4. Cardinality(DOMAIN P) <= MaxRecords
  BY <1>3, StoreAssumption, DeliveryAssumption DEF Fits
<1>5. Unshift(deliveries, r) = P /\ Overflow(deliveries, r) = {}
  BY <1>2, <1>3, <1>4, NothingCut
<1>6. deliveries' = P
  BY <1>5 DEF Upsert
<1>7. materials' = materials
  BY <1>5 DEF Upsert, Without, Restrict, IInv, StoreInv
<1> QED
  BY <1>2, <1>3, <1>6, <1>7

-----------------------------------------------------------------------------
(* What each step does to the queue. *)

\* A settled receipt that is still listed says what it said, or the attempt that
\* settled it says something else.
FinalStep ==
  \A i \in DOMAIN deliveries \cap DOMAIN deliveries' :
    deliveries[i].status \in SettledStatus =>
      Detached(deliveries'[i]) = Detached(deliveries[i]) \/ SameAttempt(i)

\* The places of a list that no receipt falls off stay 1 .. its length.
PlaceStep == Fits /\ Ranked(deliveries) => Ranked(deliveries')

\* A step that leaves receipts, payloads and worker alone and starts no delivery.
Quiet ==
  /\ UNCHANGED <<deliveries, materials, worker, issued>>
  /\ Owners' \subseteq Owners /\ (Owners' = Owners \/ spent'.faults > 0)
  /\ spent'.faults \in Nat /\ spent.faults <= spent'.faults /\ spent'.crashes = spent.crashes

\* Such a step keeps the queue.
LEMMA QuietQueue ==
  ASSUME IInv, QueueInv, Quiet
  PROVE  QueueInv' /\ FinalStep /\ PlaceStep
<1>1. issued \in Nat
  BY DEF IInv, HandlerInv
<1>2. ReceiptsInv'
  BY DEF QueueInv, ReceiptsInv, ReceiptOK, Quiet
<1>3. DueInv' /\ JobInv' /\ \A i : Held(i)' <=> Held(i)
  <2>1. \A i \in DOMAIN deliveries' : deliveries'[i] \in DeliveryRecord
    BY DEF IInv, StoreInv, IsList, Quiet
  <2> QED
    BY <1>1, <2>1, WorkerFrame DEF Quiet
<1>4. OwnersInv'
  <2>1. \A q \in Owners' : OwnerOK(q)'
    BY <1>3 DEF QueueInv, OwnersInv, OwnerOK, Quiet
  <2> QED
    BY <2>1 DEF QueueInv, OwnersInv, Quiet
<1> QED
  BY <1>2, <1>3, <1>4 DEF QueueInv, FinalStep, PlaceStep, Quiet

\* A handler that does not hold r puts it in front.
LEMMA UpsertQueue ==
  ASSUME IInv, QueueInv, NEW r \in DeliveryRecord,
         NEW idem, idem \in [DOMAIN idem -> IdempotencyEntry], DOMAIN idem \subseteq Keys,
         Upsert(r, idem), UNCHANGED <<worker, spent>>,
         issued' \in Nat, issued <= issued', issued' <= MaxDeliveries,
         r.id \in 1 .. issued', r.id \notin DOMAIN deliveries, r.id \notin DOMAIN materials,
         ~Held(r.id), ~r.waiting,
         NEW N, Owners' \subseteq Owners \cup N, \A a, b \in N : a = b,
         \A q \in Owners' \cap Owners : q.id # r.id,
         \A next \in N : next.id = r.id /\ next.step = "material" /\ r.status = "queued"
  PROVE  QueueInv' /\ FinalStep /\ PlaceStep
<1>1. issued \in Nat /\ spent.faults \in Nat
  BY DEF IInv, HandlerInv, EnvInv
<1>2. /\ DOMAIN deliveries' \subseteq DOMAIN deliveries \cup {r.id}
      /\ \A i \in DOMAIN deliveries' : deliveries'[i] \in DeliveryRecord
      /\ \A i \in DOMAIN deliveries' : i # r.id =>
           i \in DOMAIN deliveries /\ Detached(deliveries'[i]) = Detached(deliveries[i])
      /\ DOMAIN materials' \subseteq DOMAIN materials
  BY UpsertShape
<1>3. ReceiptsInv'
  <2>1. ASSUME NEW i \in DOMAIN deliveries'
        PROVE  ReceiptOK(i)'
    <3>1. CASE i = r.id
      BY <1>2, <3>1, UpsertFields DEF ReceiptOK
    <3>2. CASE i # r.id
      <4>1. ReceiptOK(i) /\ i \in 1 .. issued'
        BY <1>1, <1>2, <3>2 DEF QueueInv, ReceiptsInv, ReceiptOK
      <4> QED
        BY <1>2, <3>2, <4>1, UpsertFields DEF ReceiptOK
    <3> QED
      BY <3>1, <3>2
  <2>2. DOMAIN materials' \subseteq 1 .. issued'
    BY <1>1, <1>2 DEF QueueInv, ReceiptsInv
  <2> QED
    BY <2>1, <2>2 DEF ReceiptsInv
<1>4. DueInv' /\ JobInv' /\ \A i : Held(i)' <=> Held(i)
  BY <1>1, <1>2, WorkerFrame
<1>5. OwnersInv'
  <2>1. \A next \in N : OwnerOK(next)'
    BY <1>2, <1>4, UpsertFields DEF OwnerOK
  <2>2. ASSUME NEW q \in Owners' \cap Owners
        PROVE  /\ q.id \notin DOMAIN materials' /\ ~Held(q.id)'
               /\ q.id \in DOMAIN deliveries' =>
                    q.id \in DOMAIN deliveries /\ deliveries'[q.id].status = deliveries[q.id].status
    BY <1>2, <1>4, UpsertFields DEF QueueInv, OwnersInv, OwnerOK
  <2> QED
    BY <1>1, <2>1, <2>2, OwnersAfter
<1>6. FinalStep
  BY <1>2 DEF FinalStep
<1>7. PlaceStep
  BY UpsertFits DEF PlaceStep
<1> QED
  BY <1>3, <1>4, <1>5, <1>6, <1>7 DEF QueueInv

\* The next delivery id is nobody's.
LEMMA FreshId ==
  ASSUME IInv, QueueInv, CanIssue
  PROVE  /\ issued \in Nat /\ issued + 1 \in Nat /\ issued + 1 \in 1 .. issued + 1
         /\ issued <= issued + 1 /\ issued + 1 <= MaxDeliveries
         /\ issued + 1 \notin DOMAIN deliveries /\ issued + 1 \notin DOMAIN materials
         /\ ~Held(issued + 1) /\ \A q \in Owners : q.id # issued + 1
<1>1. issued \in Nat /\ MaxDeliveries \in Nat /\ issued < MaxDeliveries
  BY DeliveryAssumption DEF IInv, HandlerInv, CanIssue
<1>2. issued + 1 \notin 1 .. issued
  BY <1>1
<1>3. issued + 1 \notin DOMAIN deliveries /\ issued + 1 \notin DOMAIN materials
  BY <1>2 DEF QueueInv, ReceiptsInv, ReceiptOK
<1>4. \A q \in Owners : q.id # issued + 1
  BY <1>2 DEF QueueInv, OwnersInv, OwnerOK
<1>5. ~Held(issued + 1)
  BY <1>2 DEF QueueInv, DueInv, DueOK, JobInv, Held
<1> QED
  BY <1>1, <1>3, <1>4, <1>5

\* enqueue: a receipt with a fresh id, queued or blocked.
LEMMA EnqueueQueue ==
  ASSUME IInv, QueueInv, NEW d \in Dests, NEW k \in Keys \cup {None}, Enqueue(d, k)
  PROVE  QueueInv' /\ FinalStep /\ PlaceStep
<1> DEFINE idem == IF k = None THEN idempotency ELSE PrunedIdempotency(idempotency, deliveries, now)
<1>1. /\ idem \in [DOMAIN idem -> IdempotencyEntry] /\ DOMAIN idem \subseteq Keys
  BY DEF PrunedIdempotency, Restrict, IInv, StoreInv
<1>2. /\ issued \in Nat /\ issued + 1 \in Nat /\ issued + 1 \in 1 .. issued + 1
      /\ issued <= issued + 1 /\ issued + 1 <= MaxDeliveries
      /\ issued + 1 \notin DOMAIN deliveries /\ issued + 1 \notin DOMAIN materials
      /\ ~Held(issued + 1) /\ \A q \in Owners : q.id # issued + 1
  BY FreshId DEF Enqueue
<1>3. UNCHANGED <<worker, spent>> /\ now \in Nat /\ spent.faults \in Nat
  BY DEF Enqueue, queue, env, IInv, StoreInv, EnvInv
<1>4. CASE EnqueueTurnedAway(idem)
  <2>1. Quiet
    BY <1>3, <1>4 DEF EnqueueTurnedAway, Quiet, Owners
  <2> QED
    BY <2>1, QuietQueue
<1>5. CASE EnqueueRefused(issued + 1, d, idem) /\ issued' = issued + 1
  <2>1. PICK r : r = Receipt(issued + 1, "blocked", d, None)
    OBVIOUS
  <2>2. r \in DeliveryRecord
    BY <1>2, <1>3, <2>1, ReceiptType DEF SettledStatus
  <2>3. r.id = issued + 1 /\ ~r.waiting
    BY <2>1 DEF Receipt
  <2>4. Upsert(r, idem) /\ Owners' = Owners
    BY <1>5, <2>1 DEF EnqueueRefused, Owners
  <2>5. PICK N : N = {}
    OBVIOUS
  <2>6. /\ Owners' \subseteq Owners \cup N /\ \A a, b \in N : a = b
        /\ \A next \in N : next.id = r.id /\ next.step = "material" /\ r.status = "queued"
    BY <2>4, <2>5
  <2> HIDE DEF idem
  <2> QED
    BY <1>1, <1>2, <1>3, <1>5, <2>2, <2>3, <2>4, <2>6, UpsertQueue
<1>6. CASE EnqueueAccepted(issued + 1, d, k, idem) /\ issued' = issued + 1
  <2>1. PICK r : r = Receipt(issued + 1, "queued", d, policy[d])
    OBVIOUS
  <2>2. PICK q : q = [step |-> "material", id |-> issued + 1, key |-> k, since |-> now,
                      material |-> [rule |-> policy[d], redrives |-> 0]]
    OBVIOUS
  <2>3. policy[d] \in Rules
    BY <1>6, OpenHasRule DEF EnqueueAccepted
  <2>4. r \in DeliveryRecord
    BY <1>2, <1>3, <2>1, <2>3, ReceiptType DEF ActiveStatus
  <2>5. r.id = issued + 1 /\ ~r.waiting /\ r.status = "queued"
    BY <2>1 DEF Receipt
  <2>6. Upsert(r, idem) /\ requests' = requests \cup {q}
    BY <1>6, <2>1, <2>2 DEF EnqueueAccepted, Suspend
  <2>7. Owners' \subseteq Owners \cup {q}
    BY <2>6 DEF Owners
  <2>8. q.id = r.id /\ q.step = "material"
    BY <2>2, <2>5
  <2> HIDE DEF idem
  <2> QED
    BY <1>1, <1>2, <1>3, <1>6, <2>4, <2>5, <2>6, <2>7, <2>8, UpsertQueue
<1> QED
  BY <1>4, <1>5, <1>6 DEF Enqueue

\* The synchronous handler: a blocked receipt, or a handler that will write one.
LEMMA DeliverQueue ==
  ASSUME IInv, QueueInv, NEW d \in Dests, Deliver(d)
  PROVE  QueueInv' /\ FinalStep /\ PlaceStep
<1>1. /\ issued \in Nat /\ issued + 1 \in Nat /\ issued + 1 \in 1 .. issued + 1
      /\ issued <= issued + 1 /\ issued + 1 <= MaxDeliveries
      /\ issued + 1 \notin DOMAIN deliveries /\ issued + 1 \notin DOMAIN materials
      /\ ~Held(issued + 1) /\ \A q \in Owners : q.id # issued + 1
  BY FreshId DEF Deliver
<1>2. /\ UNCHANGED <<worker, spent>> /\ issued' = issued + 1 /\ now \in Nat
      /\ spent.faults \in Nat
      /\ idempotency \in [DOMAIN idempotency -> IdempotencyEntry] /\ DOMAIN idempotency \subseteq Keys
  BY DEF Deliver, queue, env, IInv, StoreInv, EnvInv
<1>3. CASE Upsert([Receipt(issued + 1, "blocked", d, None) EXCEPT !.attempts = 1], idempotency)
           /\ UNCHANGED <<targets, requests>>
  <2>1. PICK r : r = [Receipt(issued + 1, "blocked", d, None) EXCEPT !.attempts = 1]
    OBVIOUS
  <2>2. r \in DeliveryRecord
    <3>1. Receipt(issued + 1, "blocked", d, None) \in DeliveryRecord
      BY <1>1, <1>2, ReceiptType DEF SettledStatus
    <3> QED
      BY <2>1, <3>1, CountedType
  <2>3. r.id = issued + 1 /\ ~r.waiting
    BY <2>1 DEF Receipt
  <2>4. Upsert(r, idempotency) /\ Owners' = Owners
    BY <1>3, <2>1 DEF Owners
  <2>5. PICK N : N = {}
    OBVIOUS
  <2>6. /\ Owners' \subseteq Owners \cup N /\ \A a, b \in N : a = b
        /\ \A next \in N : next.id = r.id /\ next.step = "material" /\ r.status = "queued"
    BY <2>4, <2>5
  <2> QED
    BY <1>1, <1>2, <2>2, <2>3, <2>4, <2>6, UpsertQueue
<1>4. CASE /\ Suspend([step |-> "sync", id |-> issued + 1, dest |-> d, rule |-> policy[d]])
           /\ UNCHANGED <<deliveries, materials>>
  <2>1. PICK q : q = [step |-> "sync", id |-> issued + 1, dest |-> d, rule |-> policy[d]]
    OBVIOUS
  <2>2. Owners' \subseteq Owners \cup {q}
    BY <1>4, <2>1 DEF Suspend, Owners
  <2>3. DueInv' /\ JobInv' /\ \A i : Held(i)' <=> Held(i)
    <3>1. \A i \in DOMAIN deliveries' : deliveries'[i] \in DeliveryRecord
      BY <1>4 DEF IInv, StoreInv, IsList
    <3> QED
      BY <1>1, <1>2, <1>4, <3>1, WorkerFrame
  <2>4. ReceiptsInv'
    <3>1. ASSUME NEW i \in 1 .. issued PROVE i \in 1 .. issued'
      BY <1>1, <1>2
    <3> QED
      BY <1>1, <1>2, <1>4, <3>1 DEF QueueInv, ReceiptsInv, ReceiptOK
  <2>5. OwnersInv'
    <3>1. OwnerOK(q)' /\ q.id = issued + 1
      BY <1>1, <1>2, <1>4, <2>1, <2>3 DEF OwnerOK
    <3>2. \A s \in Owners' \cap Owners : s.id \notin DOMAIN materials' /\ ~Held(s.id)'
      BY <1>4, <2>3 DEF QueueInv, OwnersInv, OwnerOK
    <3> QED
      BY <1>1, <1>2, <1>4, <2>2, <3>1, <3>2, OwnersAfter
  <2> QED
    BY <1>4, <2>3, <2>4, <2>5 DEF QueueInv, FinalStep, PlaceStep
<1> QED
  BY <1>3, <1>4 DEF Deliver

\* redrive counts on the source's material; the new receipt is still to come.
LEMMA RedriveQueue ==
  ASSUME IInv, QueueInv, NEW i \in DOMAIN deliveries, Redrive(i)
  PROVE  QueueInv' /\ FinalStep /\ PlaceStep
<1>1. /\ issued \in Nat /\ issued + 1 \in Nat /\ issued + 1 \in 1 .. issued + 1
      /\ issued <= issued + 1 /\ issued + 1 <= MaxDeliveries
      /\ issued + 1 \notin DOMAIN deliveries /\ issued + 1 \notin DOMAIN materials
      /\ ~Held(issued + 1) /\ \A q \in Owners : q.id # issued + 1
  BY FreshId DEF Redrive
<1>2. /\ UNCHANGED <<deliveries, worker, spent>> /\ issued' = issued + 1
      /\ spent.faults \in Nat /\ i \in DOMAIN materials
  BY DEF Redrive, Redrivable, queue, env, IInv, EnvInv
<1>3. PICK r : r = [Receipt(issued + 1, "queued", deliveries[i].dest, deliveries[i].rule)
                      EXCEPT !.redrives = materials[i].redrives + 1, !.src = i]
  OBVIOUS
<1>4. PICK q : q = [step |-> "redrive", id |-> r.id, receipt |-> r]
  OBVIOUS
<1>5. r.id = issued + 1 /\ r.status = "queued" /\ ~r.waiting
  BY <1>3 DEF Receipt
<1>6. Owners' \subseteq Owners \cup {q}
  BY <1>3, <1>4 DEF Redrive, Suspend, Owners
<1>7. DOMAIN materials' = DOMAIN materials
  BY <1>2 DEF Redrive, SetMaterial
<1>8. DueInv' /\ JobInv' /\ \A j : Held(j)' <=> Held(j)
  <2>1. \A j \in DOMAIN deliveries' : deliveries'[j] \in DeliveryRecord
    BY <1>2 DEF IInv, StoreInv, IsList
  <2> QED
    BY <1>1, <1>2, <1>7, <2>1, WorkerFrame
<1>9. ReceiptsInv'
  <2>1. ASSUME NEW j \in 1 .. issued PROVE j \in 1 .. issued'
    BY <1>1, <1>2
  <2> QED
    BY <1>1, <1>2, <1>7, <2>1 DEF QueueInv, ReceiptsInv, ReceiptOK
<1>10. OwnersInv'
  <2>1. OwnerOK(q)' /\ q.id = issued + 1
    BY <1>1, <1>2, <1>4, <1>5, <1>7, <1>8 DEF OwnerOK
  <2>2. \A s \in Owners' \cap Owners : s.id \notin DOMAIN materials' /\ ~Held(s.id)'
    BY <1>7, <1>8 DEF QueueInv, OwnersInv, OwnerOK
  <2> QED
    BY <1>1, <1>2, <1>6, <2>1, <2>2, OwnersAfter
<1> QED
  BY <1>2, <1>8, <1>9, <1>10 DEF QueueInv, FinalStep, PlaceStep

\* setRetryMaterial: the payload of a delivery that is queued, or fell off the list.
LEMMA StoreMaterialQueue ==
  ASSUME IInv, QueueInv, NEW q \in requests, StoreMaterial(q)
  PROVE  QueueInv' /\ FinalStep /\ PlaceStep
<1>1. /\ q \in Owners /\ OwnerOK(q) /\ issued \in Nat /\ spent.faults \in Nat
      /\ UNCHANGED <<deliveries, worker, issued, spent>>
      /\ DOMAIN materials' = DOMAIN materials \cup {q.id}
  BY DEF StoreMaterial, SetMaterial, Owners, QueueInv, OwnersInv, queue, env, IInv, HandlerInv, EnvInv
<1>2. Owners' = Owners \ {q}
  BY DEF StoreMaterial, Resume, Owners
<1>3. ReceiptsInv'
  <2>1. ASSUME NEW i \in DOMAIN deliveries
        PROVE  ReceiptOK(i)'
    <3>1. ReceiptOK(i)
      BY DEF QueueInv, ReceiptsInv
    <3>2. i = q.id => deliveries[i].status = "queued"
      BY <1>1 DEF OwnerOK
    <3> QED
      BY <1>1, <3>1, <3>2 DEF ReceiptOK
  <2> QED
    BY <1>1, <2>1 DEF QueueInv, ReceiptsInv, OwnerOK
<1>4. DueInv' /\ JobInv' /\ \A i : Held(i)' <=> Held(i)
  <2>1. \A i \in DOMAIN deliveries' : deliveries'[i] \in DeliveryRecord
    BY <1>1 DEF IInv, StoreInv, IsList
  <2>2. \A i \in DOMAIN materials' : Held(i) => i \in DOMAIN materials
    BY <1>1 DEF OwnerOK
  <2> QED
    BY <1>1, <2>1, <2>2, WorkerFrame
<1>5. OwnersInv'
  <2>1. \A s \in Owners' : s \in Owners /\ s.id # q.id
    BY <1>1, <1>2 DEF QueueInv, OwnersInv
  <2>2. \A s \in Owners' : OwnerOK(s)'
    BY <1>1, <1>4, <2>1 DEF QueueInv, OwnersInv, OwnerOK
  <2> QED
    BY <2>1, <2>2 DEF QueueInv, OwnersInv
<1> QED
  BY <1>1, <1>3, <1>4, <1>5 DEF QueueInv, FinalStep, PlaceStep

\* The redriven receipt; its material follows.
LEMMA RedriveQueuesQueue ==
  ASSUME IInv, QueueInv, NEW q \in requests, RedriveQueues(q)
  PROVE  QueueInv' /\ FinalStep /\ PlaceStep
<1>1. /\ q \in Owners /\ OwnerOK(q) /\ q.step = "redrive"
      /\ issued \in Nat /\ spent.faults \in Nat /\ UNCHANGED <<worker, issued, spent>>
      /\ idempotency \in [DOMAIN idempotency -> IdempotencyEntry] /\ DOMAIN idempotency \subseteq Keys
  BY DEF RedriveQueues, Owners, QueueInv, OwnersInv, queue, env, IInv, HandlerInv, EnvInv, StoreInv
<1>2. PICK r : r = q.receipt
  OBVIOUS
<1>3. r \in DeliveryRecord /\ Upsert(r, idempotency)
  BY <1>1, <1>2, RequestFields DEF RedriveQueues, IInv, HandlerInv
<1>4. /\ r.id = q.id /\ r.status = "queued" /\ ~r.waiting
      /\ r.id \in 1 .. issued /\ r.id \notin DOMAIN deliveries /\ r.id \notin DOMAIN materials
      /\ ~Held(r.id)
  BY <1>1, <1>2 DEF OwnerOK
<1>5. PICK N : N = {[step |-> "material", id |-> q.id, key |-> None, since |-> q.receipt.at,
                     material |-> [rule |-> q.receipt.rule, redrives |-> q.receipt.redrives]]}
  OBVIOUS
<1>6. Owners' \subseteq (Owners \ {q}) \cup N
  BY <1>5 DEF RedriveQueues, Resume, Owners
<1>7. /\ \A a, b \in N : a = b
      /\ \A next \in N : next.id = r.id /\ next.step = "material" /\ r.status = "queued"
  BY <1>4, <1>5
<1>8. q \notin N
  BY <1>1, <1>5
<1>9. \A s \in Owners' \cap Owners : s.id # r.id
  BY <1>1, <1>4, <1>6, <1>8 DEF QueueInv, OwnersInv
<1>10. issued <= issued' /\ issued' <= MaxDeliveries /\ Owners' \subseteq Owners \cup N
  BY <1>1, <1>6 DEF QueueInv, ReceiptsInv
<1> QED
  BY <1>1, <1>3, <1>4, <1>7, <1>9, <1>10, UpsertQueue

\* The receipt of a synchronous delivery.
LEMMA DeliverAnsweredQueue ==
  ASSUME IInv, QueueInv, NEW q \in requests, NEW status \in {"succeeded", "failed", "blocked"},
         NEW reached \in BOOLEAN, DeliverAnswered(q, status, reached)
  PROVE  QueueInv' /\ FinalStep /\ PlaceStep
<1>1. /\ q \in Owners /\ OwnerOK(q) /\ q.step = "sync"
      /\ issued \in Nat /\ now \in Nat /\ spent.faults \in Nat /\ UNCHANGED <<worker, issued, spent>>
      /\ idempotency \in [DOMAIN idempotency -> IdempotencyEntry] /\ DOMAIN idempotency \subseteq Keys
  BY DEF DeliverAnswered, Owners, QueueInv, OwnersInv, queue, env, IInv, HandlerInv, EnvInv, StoreInv
<1>2. PICK rule : rule = IF reached THEN q.rule ELSE None
  OBVIOUS
<1>3. PICK r : r = Stamped([Receipt(q.id, status, q.dest, rule) EXCEPT !.attempts = 1])
  OBVIOUS
<1>4. r \in DeliveryRecord
  <2>1. q.id \in Nat /\ q.dest \in Dests /\ rule \in Rules \cup {None}
    BY <1>1, <1>2, RequestFields DEF IInv, HandlerInv, Owners
  <2>2. Receipt(q.id, status, q.dest, rule) \in DeliveryRecord
    BY <1>1, <2>1, ReceiptType DEF SettledStatus
  <2> QED
    BY <1>1, <1>3, <2>2, CountedType, StampedType
<1>5. Upsert(r, idempotency) /\ requests' = requests \ {q}
  BY <1>2, <1>3 DEF DeliverAnswered, Resume
<1>6. r.id = q.id /\ ~r.waiting
  BY <1>3 DEF Receipt, Stamped
<1>7. /\ r.id \in 1 .. issued /\ r.id \notin DOMAIN deliveries /\ r.id \notin DOMAIN materials
      /\ ~Held(r.id)
  BY <1>1, <1>6 DEF OwnerOK
<1>8. PICK N : N = {}
  OBVIOUS
<1>9. /\ Owners' \subseteq Owners \cup N /\ \A a, b \in N : a = b
      /\ \A next \in N : next.id = r.id /\ next.step = "material" /\ r.status = "queued"
  BY <1>5, <1>8 DEF Owners
<1>10. \A s \in Owners' \cap Owners : s.id # r.id
  BY <1>1, <1>5, <1>6 DEF QueueInv, OwnersInv, Owners
<1>11. issued <= issued' /\ issued' <= MaxDeliveries
  BY <1>1 DEF QueueInv, ReceiptsInv
<1> QED
  BY <1>1, <1>4, <1>5, <1>6, <1>7, <1>9, <1>10, <1>11, UpsertQueue

\* A retry's backoff ends.
LEMMA BackoffEndsQueue ==
  ASSUME IInv, QueueInv, NEW i \in DOMAIN deliveries, BackoffEnds(i)
  PROVE  QueueInv' /\ FinalStep /\ PlaceStep
<1>1. /\ UNCHANGED <<materials, requests, worker, issued, spent>> /\ deliveries[i].waiting
      /\ deliveries' = [deliveries EXCEPT ![i].waiting = FALSE]
      /\ issued \in Nat /\ spent.faults \in Nat
  BY DEF BackoffEnds, queue, env, IInv, HandlerInv, EnvInv
<1>2. DOMAIN deliveries' = DOMAIN deliveries /\ \A j \in DOMAIN deliveries : deliveries[j] \in DeliveryRecord
  BY <1>1 DEF IInv, StoreInv, IsList
<1>3. /\ \A j \in DOMAIN deliveries : j # i => deliveries'[j] = deliveries[j]
      /\ deliveries'[i] = [deliveries[i] EXCEPT !.waiting = FALSE]
  BY <1>1, <1>2
<1>4. /\ deliveries'[i].id = deliveries[i].id /\ deliveries'[i].status = deliveries[i].status
      /\ ~deliveries'[i].waiting /\ deliveries'[i].attempts = deliveries[i].attempts
  BY <1>2, <1>3 DEF DeliveryRecord
<1>5. ReceiptsInv'
  BY <1>1, <1>2, <1>3, <1>4 DEF QueueInv, ReceiptsInv, ReceiptOK
<1>6. OwnersInv'
  BY <1>1, <1>2, <1>3, <1>4 DEF QueueInv, OwnersInv, OwnerOK, Owners, Held
<1>7. DueInv'
  <2>1. ASSUME NEW r \in worker.due
        PROVE  DueOK(r)'
    <3>1. DueOK(r) /\ r \in DeliveryRecord
      BY DEF QueueInv, DueInv, IInv, WorkerInv
    <3>2. r.id # i
      <4>1. SUFFICES ASSUME r.id = i PROVE FALSE
        OBVIOUS
      <4>2. deliveries[i].waiting = r.waiting
        BY <1>2, <3>1, <4>1, DetachedSame DEF DueOK
      <4> QED
        BY <1>1, <3>1, <4>2 DEF DueOK
    <3> QED
      BY <1>1, <1>2, <1>3, <3>1, <3>2 DEF DueOK
  <2> QED
    BY <1>1, <2>1 DEF QueueInv, DueInv
<1>8. JobInv'
  BY <1>1, <1>2, <1>3, <1>4 DEF QueueInv, JobInv, Replaces
<1>9. FinalStep
  <2>1. deliveries[i].status = "retrying"
    BY <1>1 DEF QueueInv, ReceiptsInv, ReceiptOK
  <2> QED
    BY <1>2, <1>3, <2>1 DEF FinalStep, SettledStatus
<1>10. PlaceStep
  <2>1. \A j \in DOMAIN deliveries : deliveries'[j].pos = deliveries[j].pos
    BY <1>2, <1>3 DEF DeliveryRecord
  <2> QED
    BY <1>2, <2>1 DEF PlaceStep, Ranked
<1> QED
  BY <1>5, <1>6, <1>7, <1>8, <1>9, <1>10 DEF QueueInv

\* The worker lets go of what it held: a drain ends or breaks off.
LEMMA IdleQueue ==
  ASSUME IInv, QueueInv, worker' = Idle, UNCHANGED <<deliveries, materials, requests, issued>>
  PROVE  QueueInv' /\ FinalStep /\ PlaceStep
<1>1. \A i : ~Held(i)'
  BY DEF Held, Idle
<1>2. DueInv' /\ JobInv'
  BY DEF DueInv, JobInv, Idle
<1> QED
  BY <1>1, <1>2 DEF QueueInv, ReceiptsInv, ReceiptOK, OwnersInv, OwnerOK, Owners, FinalStep, PlaceStep

\* A restart ends every handler and the drain.
LEMMA RestartQueue ==
  ASSUME IInv, QueueInv, Restart
  PROVE  QueueInv' /\ FinalStep /\ PlaceStep
<1>1. Owners' = {} /\ DOMAIN materials' \subseteq DOMAIN materials /\ UNCHANGED <<deliveries, issued>>
  BY DEF Restart, Owners, Restrict
<1>2. OwnersInv' /\ DueInv' /\ JobInv'
  BY <1>1 DEF Restart, OwnersInv, DueInv, JobInv, Idle
<1> QED
  BY <1>1, <1>2 DEF QueueInv, ReceiptsInv, ReceiptOK, FinalStep, PlaceStep

-----------------------------------------------------------------------------
(* The retry worker. *)

\* The snapshot of a drain: active receipts with a payload, so no handler's.
LEMMA DrainStartsQueue ==
  ASSUME IInv, QueueInv, DrainStarts
  PROVE  QueueInv' /\ FinalStep /\ PlaceStep
<1>1. /\ UNCHANGED <<deliveries, materials, requests, issued, spent>>
      /\ worker'.pc = "next"
      /\ worker'.due = {Detached(deliveries[i]) : i \in DueRetryables(deliveries, materials)}
  BY DEF DrainStarts, store, env, Idle
<1>2. ASSUME NEW r \in worker'.due
      PROVE  \E i \in DOMAIN deliveries \cap DOMAIN materials :
               /\ r = Detached(deliveries[i]) /\ r.id = i
               /\ r.status \in ActiveStatus /\ ~r.waiting
  <2>1. PICK i \in DueRetryables(deliveries, materials) : r = Detached(deliveries[i])
    BY <1>1
  <2>2. /\ i \in DOMAIN deliveries /\ i \in DOMAIN materials
        /\ deliveries[i].status \in ActiveStatus /\ ~deliveries[i].waiting
    BY DEF DueRetryables, Retryable, ActiveIn
  <2>3. deliveries[i].id = i /\ deliveries[i] \in DeliveryRecord
    BY <2>2 DEF QueueInv, ReceiptsInv, ReceiptOK, IInv, StoreInv, IsList
  <2>4. r.id = i /\ r.status = deliveries[i].status /\ r.waiting = deliveries[i].waiting
    BY <2>1, <2>3 DEF Detached, DeliveryRecord
  <2> QED
    BY <2>1, <2>2, <2>4
<1>3. ASSUME NEW i, Held(i)'
      PROVE  i \in DOMAIN materials
  BY <1>1, <1>2, <1>3 DEF Held
<1>4. DueInv'
  <2>1. ASSUME NEW r \in worker'.due
        PROVE  DueOK(r)'
    <3>1. PICK i \in DOMAIN deliveries \cap DOMAIN materials :
             /\ r = Detached(deliveries[i]) /\ r.id = i
             /\ r.status \in ActiveStatus /\ ~r.waiting
      BY <1>2
    <3>2. i \in 1 .. issued /\ deliveries[i] \in DeliveryRecord
      BY DEF QueueInv, ReceiptsInv, ReceiptOK, IInv, StoreInv, IsList
    <3>3. Detached(r) = r
      BY <3>1, <3>2 DEF Detached, DeliveryRecord
    <3> QED
      BY <1>1, <3>1, <3>2, <3>3 DEF DueOK
  <2>2. \A r, s \in worker'.due : r.id = s.id => r = s
    BY <1>2
  <2> QED
    BY <2>1, <2>2 DEF DueInv
<1>5. JobInv'
  BY <1>1 DEF JobInv
<1>6. OwnersInv'
  BY <1>1, <1>3 DEF QueueInv, OwnersInv, OwnerOK, Owners
<1> QED
  BY <1>1, <1>4, <1>5, <1>6 DEF QueueInv, ReceiptsInv, ReceiptOK, FinalStep, PlaceStep

\* r is what the worker is at: held by nobody else, and no second time by the worker.
UnderWay(r) ==
  /\ r.id \in 1 .. issued /\ Held(r.id)
  /\ \A s \in worker.due \ {r} : s.id # r.id

\* What the worker holds after it began a write, when what it wrote is no news to
\* the rest of the queue.
LEMMA WorkerWritesQueue ==
  ASSUME IInv, QueueInv, NEW r, NEW final, NEW caught, NEW then \in {"next", "settle"},
         UnderWay(r), final.id = r.id, WorkerWrites(r, final, caught, then),
         UNCHANGED <<requests, issued>>,
         DOMAIN materials' \subseteq DOMAIN materials,
         \A i \in DOMAIN deliveries' : i # r.id =>
           /\ i \in DOMAIN deliveries /\ deliveries'[i] \in DeliveryRecord
           /\ Detached(deliveries'[i]) = Detached(deliveries[i])
  PROVE  /\ OwnersInv' /\ DueInv'
         /\ spent'.faults \in Nat /\ spent.faults <= spent'.faults
         /\ \/ worker'.pc = "next" /\ then = "next"
            \/ worker'.pc = "settle" /\ then = "settle" /\ worker'.job = final
            \/ worker'.pc = "fails" /\ worker'.job = final /\ spent'.faults > 0
         /\ worker'.due = worker.due \ {r}
<1>1. /\ \/ worker'.pc = "next" /\ then = "next" /\ spent'.faults = spent.faults
         \/ worker'.pc = "settle" /\ then = "settle" /\ worker'.job = final /\ spent'.faults = spent.faults
         \/ worker'.pc = "fails" /\ worker'.job = final /\ spent'.faults = spent.faults + 1
      /\ worker'.due = worker.due \ {r}
  BY DEF WorkerWrites, IInv, EnvInv
<1>2. spent.faults \in Nat
  BY DEF IInv, EnvInv
<1>3. /\ spent'.faults \in Nat /\ spent.faults <= spent'.faults
      /\ \/ worker'.pc = "next" /\ then = "next"
         \/ worker'.pc = "settle" /\ then = "settle" /\ worker'.job = final
         \/ worker'.pc = "fails" /\ worker'.job = final /\ spent'.faults > 0
  BY <1>1, <1>2
<1>4. \A i : Held(i)' => Held(i)
  BY <1>1 DEF Held, UnderWay
<1>5. OwnersInv'
  <2>1. ASSUME NEW q \in Owners
        PROVE  OwnerOK(q)'
    <3>1. OwnerOK(q) /\ q.id # r.id
      BY DEF QueueInv, OwnersInv, OwnerOK, UnderWay
    <3>2. q.id \in DOMAIN deliveries' =>
            q.id \in DOMAIN deliveries /\ deliveries'[q.id].status = deliveries[q.id].status
      BY <3>1, DetachedSame DEF IInv, StoreInv, IsList
    <3> QED
      BY <1>4, <3>1, <3>2 DEF OwnerOK
  <2> QED
    BY <2>1 DEF QueueInv, OwnersInv, Owners
<1>6. DueInv'
  <2>1. ASSUME NEW s \in worker'.due
        PROVE  DueOK(s)'
    <3>1. DueOK(s) /\ s.id # r.id
      BY <1>1 DEF QueueInv, DueInv, UnderWay
    <3> QED
      BY <3>1 DEF DueOK
  <2> QED
    BY <1>1, <2>1 DEF QueueInv, DueInv
<1> QED
  BY <1>1, <1>3, <1>5, <1>6

\* The worker reports what became of r.
LEMMA ReportsQueue ==
  ASSUME IInv, QueueInv, NEW r, NEW final \in DeliveryRecord, NEW caught,
         UnderWay(r), final.id = r.id, Replaces(final),
         final.waiting => final.status = "retrying",
         final.status \in {"succeeded", "failed", "blocked"} => r.id \notin DOMAIN materials,
         Reports(r, final, caught), UNCHANGED <<requests, issued>>
  PROVE  QueueInv' /\ FinalStep /\ PlaceStep
<1>1. /\ Upsert(final, idempotency) /\ WorkerWrites(r, final, caught, "next")
      /\ idempotency \in [DOMAIN idempotency -> IdempotencyEntry] /\ DOMAIN idempotency \subseteq Keys
  BY DEF Reports, IInv, StoreInv
<1>2. /\ DOMAIN deliveries' \subseteq DOMAIN deliveries \cup {r.id}
      /\ \A i \in DOMAIN deliveries' : deliveries'[i] \in DeliveryRecord
      /\ r.id \in DOMAIN deliveries' => Detached(deliveries'[r.id]) = Detached(final)
      /\ \A i \in DOMAIN deliveries' : i # r.id =>
           i \in DOMAIN deliveries /\ Detached(deliveries'[i]) = Detached(deliveries[i])
      /\ DOMAIN materials' \subseteq DOMAIN materials
  BY <1>1, UpsertShape
<1>3. /\ OwnersInv' /\ DueInv' /\ spent'.faults \in Nat /\ spent.faults <= spent'.faults
      /\ \/ worker'.pc = "next"
         \/ worker'.pc = "fails" /\ worker'.job = final /\ spent'.faults > 0
      /\ worker'.due = worker.due \ {r}
  BY <1>1, <1>2, WorkerWritesQueue
<1>4. ReceiptsInv'
  <2>1. ASSUME NEW i \in DOMAIN deliveries'
        PROVE  ReceiptOK(i)'
    <3>1. CASE i = r.id
      <4>1. /\ deliveries'[i].id = i /\ deliveries'[i].status = final.status
            /\ deliveries'[i].waiting = final.waiting /\ i \in 1 .. issued'
        BY <1>1, <3>1, UpsertFields DEF UnderWay
      <4> QED
        BY <1>2, <3>1, <4>1 DEF ReceiptOK
    <3>2. CASE i # r.id
      <4>1. ReceiptOK(i) /\ i \in 1 .. issued'
        BY <1>2, <3>2 DEF QueueInv, ReceiptsInv, ReceiptOK
      <4> QED
        BY <1>1, <1>2, <3>2, <4>1, UpsertFields DEF ReceiptOK
    <3> QED
      BY <3>1, <3>2
  <2> QED
    BY <1>2, <2>1 DEF QueueInv, ReceiptsInv
<1>5. JobInv'
  <2>1. CASE worker'.pc = "next"
    BY <2>1 DEF JobInv
  <2>2. CASE worker'.pc = "fails" /\ worker'.job = final /\ spent'.faults > 0
    <3>1. worker'.job.id \in 1 .. issued' /\ \A s \in worker'.due : s.id # worker'.job.id
      BY <1>3, <2>2 DEF UnderWay
    <3>2. worker'.job.id \in DOMAIN deliveries' =>
            deliveries'[worker'.job.id].attempts = worker'.job.attempts
      BY <1>1, <2>2, UpsertFields
    <3> QED
      BY <2>2, <3>1, <3>2 DEF JobInv, Replaces
  <2> QED
    BY <1>3, <2>1, <2>2
<1>6. FinalStep
  <2>1. ASSUME NEW i \in DOMAIN deliveries \cap DOMAIN deliveries', i = r.id,
               deliveries[i].status \in SettledStatus
        PROVE  SameAttempt(i)
    <3>1. deliveries'[i].attempts = final.attempts
      BY <1>1, <2>1, UpsertFields
    <3>2. deliveries[i].status \notin ActiveStatus
      BY <2>1 DEF ActiveStatus, SettledStatus
    <3>3. /\ worker.pc \in {"settle", "fails"} /\ worker.job.id = i /\ spent.faults > 0
          /\ deliveries[i].attempts = final.attempts
      BY <2>1, <3>2 DEF Replaces
    <3>4. spent.faults \in Nat /\ spent'.faults > 0
      BY <1>3, <3>3 DEF IInv, EnvInv
    <3> QED
      BY <3>1, <3>3, <3>4 DEF SameAttempt
  <2> QED
    BY <1>2, <2>1 DEF FinalStep
<1>7. PlaceStep
  <2>1. /\ issued' \in Nat /\ issued <= issued' /\ issued' <= MaxDeliveries
        /\ final.id \in 1 .. issued'
    BY DEF IInv, HandlerInv, QueueInv, ReceiptsInv, UnderWay
  <2> QED
    BY <1>1, <2>1, UpsertFits DEF PlaceStep
<1> QED
  BY <1>3, <1>4, <1>5, <1>6, <1>7 DEF QueueInv

\* The worker deletes the payload of r; the receipt follows.
LEMMA DeletesQueue ==
  ASSUME IInv, QueueInv, NEW r, NEW final \in DeliveryRecord, NEW caught,
         UnderWay(r), final.id = r.id, Replaces(final),
         ~final.waiting, final.status \in SettledStatus,
         Deletes(r, final, caught), UNCHANGED <<requests, issued>>
  PROVE  QueueInv' /\ FinalStep /\ PlaceStep
<1>1. /\ UNCHANGED deliveries /\ DOMAIN materials' = DOMAIN materials \ {r.id}
      /\ WorkerWrites(r, final, caught, "settle")
  BY DEF Deletes, DeleteMaterial, Without, Restrict
<1>2. \A i \in DOMAIN deliveries' : deliveries'[i] \in DeliveryRecord
  BY <1>1 DEF IInv, StoreInv, IsList
<1>3. /\ OwnersInv' /\ DueInv' /\ spent'.faults \in Nat /\ spent.faults <= spent'.faults
      /\ worker'.pc \in {"settle", "fails"} /\ worker'.job = final
      /\ worker'.due = worker.due \ {r}
  BY <1>1, <1>2, WorkerWritesQueue
<1>4. ReceiptsInv'
  BY <1>1 DEF QueueInv, ReceiptsInv, ReceiptOK
<1>5. JobInv'
  <2>1. worker'.job.id \in 1 .. issued' /\ \A s \in worker'.due : s.id # worker'.job.id
    BY <1>3 DEF UnderWay
  <2>2. spent.faults > 0 => spent'.faults > 0
    BY <1>3 DEF IInv, EnvInv
  <2>3. Replaces(worker.job)'
    BY <1>1, <1>3, <2>2 DEF Replaces
  <2> QED
    BY <1>1, <1>3, <2>1, <2>3 DEF JobInv
<1> QED
  BY <1>1, <1>3, <1>4, <1>5 DEF QueueInv, FinalStep, PlaceStep

\* The worker settles r, with or without a payload to delete first.
LEMMA SettleLaterQueue ==
  ASSUME IInv, QueueInv, NEW r, NEW final \in DeliveryRecord, NEW caught,
         UnderWay(r), final.id = r.id, Replaces(final),
         ~final.waiting, final.status \in SettledStatus,
         SettleLater(r, final, caught), UNCHANGED <<requests, issued>>
  PROVE  QueueInv' /\ FinalStep /\ PlaceStep
  BY DeletesQueue, ReportsQueue DEF SettleLater

\* What an outcome keeps of the receipt.
LEMMA OutcomeFields ==
  ASSUME IInv, NEW r \in DeliveryRecord, NEW status \in ActiveStatus \cup SettledStatus
  PROVE  /\ Outcome(r, status) \in DeliveryRecord
         /\ Outcome(r, status).id = r.id /\ Outcome(r, status).status = status
         /\ Outcome(r, status).waiting = (status = "retrying")
         /\ Outcome(r, status).attempts = r.attempts /\ Outcome(r, status).src = r.src
  BY OutcomeType DEF Outcome, Stamped, DeliveryRecord

\* A failed attempt settles r or keeps it for a retry.
LEMMA FailsQueue ==
  ASSUME IInv, QueueInv, NEW r \in DeliveryRecord, NEW thrown \in BOOLEAN,
         UnderWay(r), Replaces(r), Fails(r, thrown), UNCHANGED <<requests, issued>>
  PROVE  QueueInv' /\ FinalStep /\ PlaceStep
<1>1. ASSUME NEW status \in {"failed", "blocked", "dead_letter", "retrying"},
             NEW final, final = Outcome(r, status)
      PROVE  /\ final \in DeliveryRecord /\ final.id = r.id /\ Replaces(final)
             /\ final.status = status /\ final.waiting = (status = "retrying")
  <2>1. status \in ActiveStatus \cup SettledStatus
    BY DEF ActiveStatus, SettledStatus
  <2>2. /\ final \in DeliveryRecord /\ final.id = r.id /\ final.attempts = r.attempts
        /\ final.status = status /\ final.waiting = (status = "retrying")
    BY <1>1, <2>1, OutcomeFields
  <2> QED
    BY <2>2 DEF Replaces
<1>2. CASE SettleLater(r, Outcome(r, "failed"), ~thrown)
  <2>1. PICK final : final = Outcome(r, "failed")
    OBVIOUS
  <2> QED
    BY <1>1, <1>2, <2>1, SettleLaterQueue DEF SettledStatus
<1>3. CASE SettleLater(r, Outcome(r, "blocked"), FALSE)
  <2>1. PICK final : final = Outcome(r, "blocked")
    OBVIOUS
  <2> QED
    BY <1>1, <1>3, <2>1, SettleLaterQueue DEF SettledStatus
<1>4. CASE Retries(r, ~thrown)
  <2>1. PICK final : final = Outcome(r, "retrying")
    OBVIOUS
  <2>2. Reports(r, final, ~thrown)
    BY <1>4, <2>1 DEF Retries
  <2> QED
    BY <1>1, <2>1, <2>2, ReportsQueue
<1>5. CASE Exhausts(r, ~thrown)
  <2>1. PICK final : final = Outcome(r, "dead_letter")
    OBVIOUS
  <2>2. Reports(r, final, ~thrown)
    BY <1>5, <2>1 DEF Exhausts
  <2> QED
    BY <1>1, <2>1, <2>2, ReportsQueue
<1> QED
  BY <1>2, <1>3, <1>4, <1>5 DEF Fails

\* processSingleRetryRecord up to its first await.
LEMMA TakeQueue ==
  ASSUME IInv, QueueInv, Take
  PROVE  QueueInv' /\ FinalStep /\ PlaceStep
<1>1. PICK r \in worker.due :
        TakeMissing(r) \/ TakeUnusable(r) \/ TakeRefused(r) \/ TakeResolved(r)
  BY DEF Take
<1>2. /\ r \in DeliveryRecord /\ UNCHANGED <<requests, issued>> /\ worker.pc = "next"
      /\ DueOK(r)
  BY DEF Take, IInv, WorkerInv, QueueInv, DueInv
<1>3. UnderWay(r)
  BY <1>2 DEF UnderWay, Held, DueOK, QueueInv, DueInv
<1>4. r.id \in DOMAIN deliveries => deliveries[r.id].status \in ActiveStatus
  BY <1>2, DetachedSame DEF DueOK, IInv, StoreInv, IsList
<1>5. CASE TakeMissing(r)
  <2>1. PICK final : final = Outcome(r, "dead_letter")
    OBVIOUS
  <2>2. /\ final \in DeliveryRecord /\ final.id = r.id /\ Replaces(final)
        /\ final.status = "dead_letter" /\ ~final.waiting
    <3>1. "dead_letter" \in ActiveStatus \cup SettledStatus
      BY DEF SettledStatus
    <3>2. /\ final \in DeliveryRecord /\ final.id = r.id
          /\ final.status = "dead_letter" /\ ~final.waiting
      BY <1>2, <2>1, <3>1, OutcomeFields
    <3> QED
      BY <1>4, <3>2 DEF Replaces
  <2>3. Reports(r, final, FALSE)
    BY <1>5, <2>1 DEF TakeMissing
  <2> QED
    BY <1>2, <1>3, <2>2, <2>3, ReportsQueue
<1>6. CASE TakeUnusable(r)
  <2>1. PICK final : final = Outcome(r, "dead_letter")
    OBVIOUS
  <2>2. /\ final \in DeliveryRecord /\ final.id = r.id /\ Replaces(final)
        /\ final.status \in SettledStatus /\ ~final.waiting
    <3>1. "dead_letter" \in SettledStatus
      BY DEF SettledStatus
    <3>2. /\ final \in DeliveryRecord /\ final.id = r.id
          /\ final.status = "dead_letter" /\ ~final.waiting
      BY <1>2, <2>1, <3>1, OutcomeFields
    <3> QED
      BY <1>4, <3>1, <3>2 DEF Replaces
  <2>3. SettleLater(r, final, FALSE)
    BY <1>6, <2>1 DEF TakeUnusable
  <2> QED
    BY <1>2, <1>3, <2>2, <2>3, SettleLaterQueue
<1>7. CASE TakeRefused(r)
  <2>1. PICK a : a = Attempted(r)
    OBVIOUS
  <2>2. a \in DeliveryRecord /\ a.id = r.id
    BY <1>2, <2>1, CountedType DEF Attempted, DeliveryRecord
  <2>3. PICK final : final = Outcome(a, "blocked")
    OBVIOUS
  <2>4. /\ final \in DeliveryRecord /\ final.id = r.id /\ Replaces(final)
        /\ final.status \in SettledStatus /\ ~final.waiting
    BY <1>4, <2>2, <2>3, OutcomeFields DEF SettledStatus, Replaces
  <2>5. SettleLater(r, final, FALSE)
    BY <1>7, <2>1, <2>3 DEF TakeRefused
  <2> QED
    BY <1>2, <1>3, <2>4, <2>5, SettleLaterQueue
<1>8. CASE TakeResolved(r)
  <2>1. /\ UNCHANGED <<deliveries, materials, spent>>
        /\ worker'.pc = "send" /\ worker'.due = worker.due \ {r}
        /\ worker'.job = Attempted(r) /\ worker'.job.id = r.id
    BY <1>2, <1>8 DEF TakeResolved, Attempted, DeliveryRecord
  <2>2. \A i : Held(i)' => Held(i)
    BY <1>3, <2>1 DEF Held, UnderWay
  <2>3. OwnersInv'
    BY <1>2, <2>1, <2>2 DEF QueueInv, OwnersInv, OwnerOK, Owners
  <2>4. DueInv'
    BY <1>2, <2>1 DEF QueueInv, DueInv, DueOK
  <2>5. JobInv'
    <3>1. worker'.job.id \in 1 .. issued' /\ \A s \in worker'.due : s.id # worker'.job.id
      BY <1>2, <1>3, <2>1 DEF UnderWay
    <3>2. Replaces(worker.job)'
      BY <1>4, <2>1 DEF Replaces
    <3> QED
      BY <2>1, <3>1, <3>2 DEF JobInv
  <2> QED
    BY <1>2, <2>1, <2>3, <2>4, <2>5 DEF QueueInv, ReceiptsInv, ReceiptOK, FinalStep, PlaceStep
<1> QED
  BY <1>1, <1>5, <1>6, <1>7, <1>8

\* The receipt under way is the worker's alone.
LEMMA JobUnderWay ==
  ASSUME IInv, QueueInv, worker.pc \in {"send", "settle", "fails"}, NEW j, j.id = worker.job.id
  PROVE  UnderWay(j)
  BY DEF QueueInv, JobInv, UnderWay, Held

\* The destination answered the worker, or the attempt failed.
LEMMA SendAnsweredQueue ==
  ASSUME IInv, QueueInv, SendAnswered
  PROVE  QueueInv' /\ FinalStep /\ PlaceStep
<1>1. /\ worker.pc = "send" /\ UNCHANGED <<requests, issued>>
      /\ worker.job \in DeliveryRecord /\ worker.rule \in Rules \cup {None}
      /\ Replaces(worker.job)
  BY DEF SendAnswered, IInv, WorkerInv, QueueInv, JobInv
<1>2. PICK j : j = worker.job
  OBVIOUS
<1>3. PICK p : p = Prepared
  OBVIOUS
<1>4. j \in DeliveryRecord /\ UnderWay(j) /\ Replaces(j)
  BY <1>1, <1>2, JobUnderWay
<1>5. p \in DeliveryRecord /\ p.id = j.id
  BY <1>1, <1>2, <1>3 DEF Prepared, DeliveryRecord
<1>6. UnderWay(p) /\ Replaces(p)
  <2>1. UnderWay(p)
    BY <1>1, <1>2, <1>5, JobUnderWay
  <2>2. Replaces(p)
    BY <1>1, <1>4, <1>5 DEF Replaces
  <2> QED
    BY <2>1, <2>2
<1>7. CASE SettleLater(p, Outcome(p, "succeeded"), TRUE)
  <2>1. PICK final : final = Outcome(p, "succeeded")
    OBVIOUS
  <2>2. /\ final \in DeliveryRecord /\ final.id = p.id /\ final.attempts = p.attempts
        /\ final.status \in SettledStatus /\ ~final.waiting
    BY <1>5, <2>1, OutcomeFields DEF SettledStatus
  <2>3. Replaces(final)
    BY <1>6, <2>2 DEF Replaces
  <2> QED
    BY <1>1, <1>6, <1>7, <2>1, <2>2, <2>3, SettleLaterQueue
<1>8. CASE \E thrown \in BOOLEAN : Fails(p, thrown)
  BY <1>1, <1>5, <1>6, <1>8, FailsQueue
<1>9. CASE Fails(j, TRUE)
  BY <1>1, <1>4, <1>9, FailsQueue
<1> QED
  BY <1>2, <1>3, <1>7, <1>8, <1>9 DEF SendAnswered

\* The final receipt is written.
LEMMA SettleQueue ==
  ASSUME IInv, QueueInv, Settle
  PROVE  QueueInv' /\ FinalStep /\ PlaceStep
<1>1. /\ worker.pc = "settle" /\ UNCHANGED <<requests, issued>> /\ worker.job \in DeliveryRecord
      /\ Replaces(worker.job) /\ worker.job.id \notin DOMAIN materials /\ ~worker.job.waiting
  BY DEF Settle, IInv, WorkerInv, QueueInv, JobInv
<1>2. PICK j : j = worker.job
  OBVIOUS
<1>3. UnderWay(j) /\ Reports(j, j, worker.caught)
  BY <1>1, <1>2, JobUnderWay DEF Settle, Reports
<1> QED
  BY <1>1, <1>2, <1>3, ReportsQueue

\* A write of the worker fails.
LEMMA WorkerWriteFailsQueue ==
  ASSUME IInv, QueueInv, WorkerWriteFails
  PROVE  QueueInv' /\ FinalStep /\ PlaceStep
<1>1. worker.pc = "fails" /\ UNCHANGED <<requests, issued>>
  BY DEF WorkerWriteFails
<1>2. CASE worker.caught /\ Fails(worker.job, TRUE)
  <2>1. PICK j : j = worker.job
    OBVIOUS
  <2>2. j \in DeliveryRecord /\ UnderWay(j) /\ Replaces(j)
    BY <1>1, <2>1, JobUnderWay DEF IInv, WorkerInv, QueueInv, JobInv
  <2> QED
    BY <1>1, <1>2, <2>1, <2>2, FailsQueue
<1>3. CASE worker' = Idle /\ UNCHANGED <<deliveries, materials>>
  BY <1>1, <1>3, IdleQueue
<1> QED
  BY <1>2, <1>3 DEF WorkerWriteFails

-----------------------------------------------------------------------------
(* The rest leaves the queue alone. *)

\* The handlers and operators that neither add a delivery nor settle one.
LEMMA QuietSteps ==
  ASSUME IInv, QueueInv,
         \/ \E q \in requests : \/ StoreIdempotency(q) \/ StartProcessing(q) \/ CanaryPasses(q)
                                \/ ClearSaves(q) \/ OperatorActionFails(q) \/ WriteFails(q)
         \/ \E n \in DOMAIN incidents, op \in Operators :
              Acknowledge(n, op) \/ RequestClear(n, op) \/ Clear(n, op)
         \/ \E d \in Dests, rule \in Rules \cup {None} : EditPolicy(d, rule)
         \/ TimerFires \/ Tick \/ UNCHANGED vars
  PROVE  Quiet
<1>1. spent.faults \in Nat /\ spent \in [edits: Nat, crashes: Nat, faults: Nat]
  BY DEF IInv, EnvInv
<1>2. ASSUME NEW q \in requests, StoreIdempotency(q)
      PROVE  Quiet
  BY <1>1, <1>2 DEF StoreIdempotency, Resume, Quiet, Owners, queue, env
<1>3. ASSUME NEW q \in requests, StartProcessing(q)
      PROVE  Quiet
  BY <1>1, <1>3 DEF StartProcessing, Resume, Quiet, Owners, store, env
<1>4. ASSUME NEW q \in requests, CanaryPasses(q)
      PROVE  Quiet
  <2>1. /\ q.step = "canary" /\ requests' = requests \ {q}
        /\ UNCHANGED <<deliveries, materials, queue, env, issued>>
    BY <1>4 DEF CanaryPasses, Resume
  <2> QED
    BY <1>1, <2>1 DEF Quiet, Owners, queue, env
<1>5. ASSUME NEW q \in requests, ClearSaves(q)
      PROVE  Quiet
  <2>1. /\ q.step = "clear" /\ requests' = requests \ {q}
        /\ UNCHANGED <<deliveries, materials, queue, env, issued>>
    BY <1>5 DEF ClearSaves, Resume
  <2> QED
    BY <1>1, <2>1 DEF Quiet, Owners, queue, env
<1>6. ASSUME NEW q \in requests, OperatorActionFails(q)
      PROVE  Quiet
  BY <1>1, <1>6 DEF OperatorActionFails, Resume, Quiet, Owners, store, queue, env
<1>7. ASSUME NEW q \in requests, WriteFails(q)
      PROVE  Quiet
  <2>1. spent'.faults = spent.faults + 1
    BY <1>1, <1>7 DEF WriteFails
  <2> QED
    BY <1>1, <1>7, <2>1 DEF WriteFails, Resume, Quiet, Owners, store, queue
<1>8. ASSUME NEW n \in DOMAIN incidents, NEW op \in Operators,
             Acknowledge(n, op) \/ RequestClear(n, op) \/ Clear(n, op)
      PROVE  Quiet
  <2>1. CASE Acknowledge(n, op)
    <3>1. UNCHANGED <<deliveries, materials, queue, env, requests, issued>>
      BY <2>1 DEF Acknowledge
    <3> QED
      BY <1>1, <3>1 DEF Quiet, Owners, queue, env
  <2>2. CASE RequestClear(n, op)
    BY <1>1, <2>2 DEF RequestClear, Suspend, Quiet, Owners, store, queue, env
  <2>3. CASE Clear(n, op)
    BY <1>1, <2>3 DEF Clear, Suspend, Quiet, Owners, store, queue, env
  <2> QED
    BY <1>8, <2>1, <2>2, <2>3
<1>9. ASSUME NEW d \in Dests, NEW rule \in Rules \cup {None}, EditPolicy(d, rule)
      PROVE  Quiet
  <2>1. spent'.faults = spent.faults
    BY <1>1, <1>9 DEF EditPolicy
  <2> QED
    BY <1>1, <1>9, <2>1 DEF EditPolicy, Quiet, Owners, store, queue
<1>10. CASE TimerFires
  BY <1>1, <1>10 DEF TimerFires, Quiet, Owners, store, env
<1>11. CASE Tick
  BY <1>1, <1>11 DEF Tick, Quiet, Owners, store, queue, env
<1>12. CASE UNCHANGED vars
  BY <1>1, <1>12 DEF vars, Quiet, Owners, store, queue, env
<1> QED
  BY <1>2, <1>3, <1>4, <1>5, <1>6, <1>7, <1>8, <1>9, <1>10, <1>11, <1>12

-----------------------------------------------------------------------------
(* The invariant of the queue and what follows from it. *)

\* It holds at the start.
LEMMA InitQueue == Init => QueueInv
<1> SUFFICES ASSUME Init PROVE QueueInv
  OBVIOUS
<1>1. ReceiptsInv
  BY DeliveryAssumption DEF Init, Nothing, ReceiptsInv
<1> QED
  BY <1>1 DEF Init, Idle, QueueInv, OwnersInv, Owners, DueInv, JobInv

\* Every step keeps it and changes no settled receipt.
LEMMA StepQueue == IInv /\ QueueInv /\ [Next]_vars => QueueInv' /\ FinalStep /\ PlaceStep
<1> SUFFICES ASSUME IInv, QueueInv, [Next]_vars PROVE QueueInv' /\ FinalStep /\ PlaceStep
  OBVIOUS
<1>1. CASE UNCHANGED vars
  BY <1>1, QuietSteps, QuietQueue
<1>2. CASE Call
  <2>1. CASE \E n \in DOMAIN incidents, op \in Operators :
               Acknowledge(n, op) \/ RequestClear(n, op) \/ Clear(n, op)
    BY <2>1, QuietSteps, QuietQueue
  <2> QED
    BY <1>2, <2>1, DeliverQueue, EnqueueQueue, RedriveQueue DEF Call
<1>3. ASSUME NEW q \in requests, Continue(q)
      PROVE  QueueInv' /\ FinalStep /\ PlaceStep
  <2>1. CASE \/ StoreIdempotency(q) \/ StartProcessing(q) \/ CanaryPasses(q)
             \/ ClearSaves(q) \/ OperatorActionFails(q)
    BY <2>1, QuietSteps, QuietQueue
  <2>2. CASE \E status \in {"succeeded", "failed", "blocked"}, reached \in BOOLEAN :
               DeliverAnswered(q, status, reached)
    BY <2>2, DeliverAnsweredQueue
  <2> QED
    BY <1>3, <2>1, <2>2, StoreMaterialQueue, RedriveQueuesQueue DEF Continue
<1>4. CASE Work
  <2>1. CASE DrainEnds
    BY <2>1, IdleQueue DEF DrainEnds, store
  <2> QED
    BY <1>4, <2>1, DrainStartsQueue, TakeQueue, SendAnsweredQueue, SettleQueue,
       WorkerWriteFailsQueue DEF Work
<1>5. CASE TimerFires
  BY <1>5, QuietSteps, QuietQueue
<1>6. CASE \E i \in DOMAIN deliveries : BackoffEnds(i)
  BY <1>6, BackoffEndsQueue
<1>7. CASE Surroundings
  <2>1. CASE \/ \E d \in Dests, rule \in Rules \cup {None} : EditPolicy(d, rule)
             \/ \E q \in requests : WriteFails(q)
             \/ Tick
    BY <2>1, QuietSteps, QuietQueue
  <2> QED
    BY <1>7, <2>1, RestartQueue DEF Surroundings
<1> QED
  BY <1>1, <1>2, <1>3, <1>4, <1>5, <1>6, <1>7 DEF Next

\* The invariant of the queue holds of every behaviour of the service.
THEOREM QueueInvariance == Spec => []QueueInv
<1>1. Spec => []IInv
  BY Invariance
<1> QED
  BY <1>1, InitQueue, StepQueue, PTL DEF Spec

\* A settled delivery has no payload left, on disk or in a handler.
LEMMA QueueImpliesNoPayload == QueueInv => SettledHoldsNoPayload
<1> SUFFICES ASSUME QueueInv, NEW i \in DOMAIN deliveries,
                    deliveries[i].status \in {"succeeded", "failed", "blocked"}
             PROVE  /\ i \notin DOMAIN materials
                    /\ \A q \in requests : q.step = "material" => q.id # i
  BY DEF SettledHoldsNoPayload
<1>1. i \notin DOMAIN materials
  BY DEF QueueInv, ReceiptsInv, ReceiptOK
<1>2. ASSUME NEW q \in requests, q.step = "material"
      PROVE  q.id # i
  <2>1. OwnerOK(q)
    BY <1>2 DEF QueueInv, OwnersInv, Owners
  <2> QED
    BY <2>1 DEF OwnerOK
<1> QED
  BY <1>1, <1>2

\* No interleaving, eviction, crash or failed write leaves the encrypted payload of
\* a delivery that succeeded, failed for good or was blocked.
THEOREM PayloadsGoWhenSettled == Spec => []SettledHoldsNoPayload
  BY QueueInvariance, QueueImpliesNoPayload, PTL

\* A settled receipt is never rewritten, whatever snapshot the worker holds, unless
\* a write of the attempt that settled it failed.
THEOREM SettledReceiptsAreFinal == Spec => ReceiptsAreFinal
<1>1. IInv /\ QueueInv /\ [Next]_vars =>
        [\A i \in DOMAIN deliveries \cap DOMAIN deliveries' :
           deliveries[i].status \in SettledStatus =>
             Detached(deliveries'[i]) = Detached(deliveries[i]) \/ SameAttempt(i)]_vars
  BY StepQueue DEF FinalStep
<1> QED
  BY <1>1, Invariance, QueueInvariance, PTL DEF Spec, ReceiptsAreFinal

-----------------------------------------------------------------------------
(* Exports leave only for destinations that are open. *)

\* A synchronous handler begins its exchange, or the worker its attempt, only for
\* a destination the policy and its history allow.
GateStep ==
  /\ \A q \in requests' \ requests : q.step = "sync" => ~Refused(q.dest)
  /\ worker'.pc = "send" /\ worker.pc # "send" => ~Refused(worker'.job.dest)

\* A write of the worker never begins an attempt.
LEMMA WritesSendNothing ==
  ASSUME NEW r, NEW final, NEW caught, NEW then \in {"next", "settle"},
         WorkerWrites(r, final, caught, then)
  PROVE  worker'.pc # "send"
  BY DEF WorkerWrites

\* The ways an attempt fails begin none.
LEMMA FailsSendNothing ==
  ASSUME NEW r, NEW thrown, Fails(r, thrown)
  PROVE  worker'.pc # "send"
<1>1. ASSUME NEW final, NEW caught, SettleLater(r, final, caught)
      PROVE  worker'.pc # "send"
  BY <1>1, WritesSendNothing DEF SettleLater, Deletes, Reports
<1>2. ASSUME NEW final, NEW caught, Reports(r, final, caught)
      PROVE  worker'.pc # "send"
  BY <1>2, WritesSendNothing DEF Reports
<1> QED
  BY <1>1, <1>2 DEF Fails, Retries, Exhausts

\* Every step passes the gate.
LEMMA StepGate == IInv /\ [Next]_vars => GateStep
<1> SUFFICES ASSUME IInv, [Next]_vars PROVE GateStep
  OBVIOUS
<1>1. CASE UNCHANGED vars
  BY <1>1 DEF vars, queue, GateStep
<1>2. ASSUME NEW d \in Dests, Deliver(d)
      PROVE  GateStep
  BY <1>2 DEF Deliver, Suspend, queue, GateStep
<1>3. ASSUME NEW d \in Dests, NEW k \in Keys \cup {None}, Enqueue(d, k)
      PROVE  GateStep
  BY <1>3 DEF Enqueue, EnqueueTurnedAway, EnqueueRefused, EnqueueAccepted, Suspend, queue, GateStep
<1>4. ASSUME NEW i \in DOMAIN deliveries, Redrive(i)
      PROVE  GateStep
  BY <1>4 DEF Redrive, Suspend, queue, GateStep
<1>5. ASSUME NEW n \in DOMAIN incidents, NEW op \in Operators,
             Acknowledge(n, op) \/ RequestClear(n, op) \/ Clear(n, op)
      PROVE  GateStep
  <2>1. CASE Acknowledge(n, op)
    <3>1. UNCHANGED <<requests, queue>>
      BY <2>1 DEF Acknowledge
    <3> QED
      BY <3>1 DEF queue, GateStep
  <2>2. CASE RequestClear(n, op) \/ Clear(n, op)
    BY <2>2 DEF RequestClear, Clear, Suspend, queue, GateStep
  <2> QED
    BY <1>5, <2>1, <2>2
<1>6. ASSUME NEW q \in requests, Continue(q)
      PROVE  GateStep
  <2>1. CASE CanaryPasses(q) \/ ClearSaves(q)
    <3>1. requests' \subseteq requests /\ UNCHANGED queue
      BY <2>1 DEF CanaryPasses, ClearSaves, Resume
    <3> QED
      BY <3>1 DEF queue, GateStep
  <2>2. CASE OperatorActionFails(q)
    BY <2>2 DEF OperatorActionFails, Resume, queue, GateStep
  <2>3. CASE \E status \in {"succeeded", "failed", "blocked"}, reached \in BOOLEAN :
               DeliverAnswered(q, status, reached)
    <3>1. requests' \subseteq requests /\ UNCHANGED queue
      BY <2>3 DEF DeliverAnswered, Resume
    <3> QED
      BY <3>1 DEF queue, GateStep
  <2>4. CASE StoreMaterial(q)
    BY <2>4 DEF StoreMaterial, Resume, queue, GateStep
  <2>5. CASE StoreIdempotency(q)
    BY <2>5 DEF StoreIdempotency, Resume, queue, GateStep
  <2>6. CASE StartProcessing(q)
    BY <2>6 DEF StartProcessing, Resume, queue, GateStep
  <2>7. CASE RedriveQueues(q)
    BY <2>7 DEF RedriveQueues, Resume, queue, GateStep
  <2> QED
    BY <1>6, <2>1, <2>2, <2>3, <2>4, <2>5, <2>6, <2>7 DEF Continue
<1>7. CASE Take
  <2>1. PICK r \in worker.due :
          TakeMissing(r) \/ TakeUnusable(r) \/ TakeRefused(r) \/ TakeResolved(r)
    BY <1>7 DEF Take
  <2>2. UNCHANGED requests
    BY <1>7 DEF Take
  <2>3. CASE TakeMissing(r) \/ TakeUnusable(r) \/ TakeRefused(r)
    <3>1. ASSUME NEW final, NEW caught, SettleLater(r, final, caught) \/ Reports(r, final, caught)
          PROVE  worker'.pc # "send"
      BY <3>1, WritesSendNothing DEF SettleLater, Deletes, Reports
    <3>2. worker'.pc # "send"
      BY <2>3, <3>1 DEF TakeMissing, TakeUnusable, TakeRefused
    <3> QED
      BY <2>2, <3>2 DEF GateStep
  <2>4. CASE TakeResolved(r)
    <3>1. worker'.job.dest = r.dest
      <4>1. r \in DeliveryRecord
        BY DEF IInv, WorkerInv
      <4> QED
        BY <2>4, <4>1 DEF TakeResolved, Attempted, DeliveryRecord
    <3> QED
      BY <2>2, <2>4, <3>1 DEF TakeResolved, GateStep
  <2> QED
    BY <2>1, <2>3, <2>4
<1>8. CASE SendAnswered
  BY <1>8 DEF SendAnswered, GateStep
<1>9. CASE Settle
  BY <1>9, WritesSendNothing DEF Settle, GateStep
<1>10. CASE WorkerWriteFails
  <2>1. worker' = Idle => worker'.pc # "send"
    BY DEF Idle
  <2>2. UNCHANGED requests /\ (worker' = Idle \/ Fails(worker.job, TRUE))
    BY <1>10 DEF WorkerWriteFails
  <2> QED
    BY <2>1, <2>2, FailsSendNothing DEF GateStep
<1>11. CASE DrainStarts \/ DrainEnds
  <2>1. UNCHANGED requests /\ (worker' = Idle \/ worker'.pc = "next")
    BY <1>11 DEF DrainStarts, DrainEnds, Idle
  <2>2. worker' = Idle => worker'.pc # "send"
    BY DEF Idle
  <2> QED
    BY <2>1, <2>2 DEF GateStep
<1>12. CASE TimerFires
  BY <1>12 DEF TimerFires, GateStep
<1>13. CASE \E i \in DOMAIN deliveries : BackoffEnds(i)
  BY <1>13 DEF BackoffEnds, queue, GateStep
<1>14. CASE Surroundings
  BY <1>14 DEF Surroundings, EditPolicy, WriteFails, Resume, Restart, Idle, Tick, queue, GateStep
<1> QED
  BY <1>1, <1>2, <1>3, <1>4, <1>5, <1>6, <1>7, <1>8, <1>9, <1>10, <1>11, <1>12, <1>13, <1>14
  DEF Next, Call, Work

\* Until the cooldown after the last failure of a burst is over, no export leaves
\* for its destination, whatever became of the incident.
THEOREM CooldownsOutliveClears == Spec => CooldownOutlivesClear
<1>1. GateStep =>
        \A d \in Dests : Recovering(d) =>
          /\ \A q \in requests' \ requests : q.step = "sync" => q.dest # d
          /\ worker'.pc = "send" /\ worker.pc # "send" => worker'.job.dest # d
  BY DEF GateStep, Recovering, Refused, Quarantined
<1>2. IInv /\ [Next]_vars =>
        [\A d \in Dests : Recovering(d) =>
           /\ \A q \in requests' \ requests : q.step = "sync" => q.dest # d
           /\ worker'.pc = "send" /\ worker.pc # "send" => worker'.job.dest # d]_vars
  BY <1>1, StepGate
<1> QED
  BY <1>2, Invariance, PTL DEF Spec, CooldownOutlivesClear

-----------------------------------------------------------------------------
(* What the contract sees of the receipts. *)

\* The functions the refinement mapping substitutes.
PhaseOf == [i \in Ids |-> Seen(i, IF i \in ActiveIn(deliveries) THEN "pending"
                                  ELSE deliveries[i].status, "none")]

AttemptsOf == [i \in Ids |-> Seen(i, deliveries[i].attempts, 0)]

SourceOf == [i \in Ids |-> Seen(i, deliveries[i].src, 0)]

\* The contract's variables are these functions.
LEMMA ViewIs ==
  ASSUME UNCHANGED <<PhaseOf, AttemptsOf, SourceOf>>
  PROVE  UNCHANGED Contract!view
  BY DEF Contract!view, PhaseOf, AttemptsOf, SourceOf

\* What the contract sees depends on status, attempts and source alone.
LEMMA ViewUnchanged ==
  ASSUME DOMAIN deliveries' = DOMAIN deliveries,
         \A i \in DOMAIN deliveries :
           /\ deliveries'[i].status = deliveries[i].status
           /\ deliveries'[i].attempts = deliveries[i].attempts
           /\ deliveries'[i].src = deliveries[i].src
  PROVE  UNCHANGED Contract!view
<1>1. ASSUME NEW i \in Ids
      PROVE  PhaseOf'[i] = PhaseOf[i] /\ AttemptsOf'[i] = AttemptsOf[i] /\ SourceOf'[i] = SourceOf[i]
  BY DEF PhaseOf, AttemptsOf, SourceOf, Seen, ActiveIn
<1>2. PhaseOf' = PhaseOf /\ AttemptsOf' = AttemptsOf /\ SourceOf' = SourceOf
  BY <1>1 DEF PhaseOf, AttemptsOf, SourceOf
<1> QED
  BY <1>2, ViewIs

\* The phase of a receipt.
PhaseFor(r) == IF r.status \in ActiveStatus THEN "pending" ELSE r.status

\* After an upsert the contract sees the new receipt and the others as before.
LEMMA ViewUpsert ==
  ASSUME IInv, NEW r \in DeliveryRecord,
         NEW idem, idem \in [DOMAIN idem -> IdempotencyEntry], DOMAIN idem \subseteq Keys,
         Upsert(r, idem), DOMAIN deliveries' = DOMAIN deliveries \cup {r.id}, r.id \in Ids
  PROVE  /\ PhaseOf' = [PhaseOf EXCEPT ![r.id] = PhaseFor(r)]
         /\ AttemptsOf' = [AttemptsOf EXCEPT ![r.id] = r.attempts]
         /\ SourceOf' = [SourceOf EXCEPT ![r.id] = r.src]
<1>1. /\ PhaseOf = [i \in Ids |-> PhaseOf[i]] /\ PhaseOf' = [i \in Ids |-> PhaseOf'[i]]
      /\ AttemptsOf = [i \in Ids |-> AttemptsOf[i]] /\ AttemptsOf' = [i \in Ids |-> AttemptsOf'[i]]
      /\ SourceOf = [i \in Ids |-> SourceOf[i]] /\ SourceOf' = [i \in Ids |-> SourceOf'[i]]
  BY DEF PhaseOf, AttemptsOf, SourceOf
<1>2. ASSUME NEW i \in Ids, i # r.id
      PROVE  PhaseOf'[i] = PhaseOf[i] /\ AttemptsOf'[i] = AttemptsOf[i] /\ SourceOf'[i] = SourceOf[i]
  BY <1>2, UpsertFields DEF PhaseOf, AttemptsOf, SourceOf, Seen, ActiveIn
<1>3. PhaseOf'[r.id] = PhaseFor(r) /\ AttemptsOf'[r.id] = r.attempts /\ SourceOf'[r.id] = r.src
  BY UpsertFields DEF PhaseOf, AttemptsOf, SourceOf, Seen, ActiveIn, PhaseFor
<1> QED
  BY <1>1, <1>2, <1>3

\* A delivery that was not listed, as the contract sees it.
LEMMA UnlistedView ==
  ASSUME NEW i \in Ids, i \notin DOMAIN deliveries
  PROVE  PhaseOf[i] = "none" /\ AttemptsOf[i] = 0 /\ SourceOf[i] = 0
  BY DEF PhaseOf, AttemptsOf, SourceOf, Seen

\* The steps of the contract in terms of what it sees.
LEMMA ContractSteps ==
  ASSUME NEW i \in Ids
  PROVE  /\ PhaseOf[i] = "none" /\ PhaseOf' = [PhaseOf EXCEPT ![i] = "pending"]
              /\ UNCHANGED <<AttemptsOf, SourceOf>>
            => Contract!Next
         /\ \A s \in {"succeeded", "failed", "blocked"}, n \in {0, 1} :
              /\ PhaseOf[i] = "none" /\ PhaseOf' = [PhaseOf EXCEPT ![i] = s]
              /\ AttemptsOf' = [AttemptsOf EXCEPT ![i] = n] /\ UNCHANGED SourceOf
              => Contract!Next
         /\ /\ PhaseOf[i] = "pending" /\ AttemptsOf[i] + 1 < MaxAttempts
            /\ AttemptsOf' = [AttemptsOf EXCEPT ![i] = @ + 1] /\ UNCHANGED <<PhaseOf, SourceOf>>
            => Contract!Next
         /\ \A s \in SettledStatus, n \in {0, 1} :
              /\ PhaseOf[i] = "pending" /\ AttemptsOf[i] + n <= MaxAttempts
              /\ n = 0 => s = "dead_letter"
              /\ PhaseOf' = [PhaseOf EXCEPT ![i] = s]
              /\ AttemptsOf' = [AttemptsOf EXCEPT ![i] = @ + n] /\ UNCHANGED SourceOf
              => Contract!Next
         /\ \A j \in Ids :
              /\ PhaseOf[i] = "dead_letter" /\ PhaseOf[j] = "none"
              /\ Cardinality({k \in Ids : SourceOf[k] = i}) < MaxRedrives
              /\ PhaseOf' = [PhaseOf EXCEPT ![j] = "pending"]
              /\ SourceOf' = [SourceOf EXCEPT ![j] = i] /\ UNCHANGED AttemptsOf
              => Contract!Next
<1>1. ASSUME PhaseOf[i] = "none", PhaseOf' = [PhaseOf EXCEPT ![i] = "pending"],
             UNCHANGED <<AttemptsOf, SourceOf>>
      PROVE  Contract!Next
  <2>1. Contract!Accept(i)
    BY <1>1 DEF Contract!Accept, PhaseOf, AttemptsOf, SourceOf
  <2> QED
    BY <2>1 DEF Contract!Next
<1>2. ASSUME NEW s \in {"succeeded", "failed", "blocked"}, NEW n \in {0, 1},
             PhaseOf[i] = "none", PhaseOf' = [PhaseOf EXCEPT ![i] = s],
             AttemptsOf' = [AttemptsOf EXCEPT ![i] = n], UNCHANGED SourceOf
      PROVE  Contract!Next
  <2>1. Contract!Answer(i, s, n) /\ s \in Contract!Final
    BY <1>2 DEF Contract!Answer, Contract!Final, PhaseOf, AttemptsOf, SourceOf
  <2> QED
    BY <2>1 DEF Contract!Next
<1>3. ASSUME PhaseOf[i] = "pending", AttemptsOf[i] + 1 < MaxAttempts,
             AttemptsOf' = [AttemptsOf EXCEPT ![i] = @ + 1], UNCHANGED <<PhaseOf, SourceOf>>
      PROVE  Contract!Next
  <2>1. Contract!Retry(i)
    BY <1>3 DEF Contract!Retry, PhaseOf, AttemptsOf, SourceOf
  <2> QED
    BY <2>1 DEF Contract!Next
<1>4. ASSUME NEW s \in SettledStatus, NEW n \in {0, 1},
             PhaseOf[i] = "pending", AttemptsOf[i] + n <= MaxAttempts, n = 0 => s = "dead_letter",
             PhaseOf' = [PhaseOf EXCEPT ![i] = s],
             AttemptsOf' = [AttemptsOf EXCEPT ![i] = @ + n], UNCHANGED SourceOf
      PROVE  Contract!Next
  <2>1. Contract!Settle(i, s, n)
    BY <1>4 DEF Contract!Settle, PhaseOf, AttemptsOf, SourceOf
  <2>2. s \in Contract!Final
    BY DEF Contract!Final, SettledStatus
  <2> QED
    BY <2>1, <2>2 DEF Contract!Next
<1>5. ASSUME NEW j \in Ids,
             PhaseOf[i] = "dead_letter", PhaseOf[j] = "none",
             Cardinality({k \in Ids : SourceOf[k] = i}) < MaxRedrives,
             PhaseOf' = [PhaseOf EXCEPT ![j] = "pending"],
             SourceOf' = [SourceOf EXCEPT ![j] = i], UNCHANGED AttemptsOf
      PROVE  Contract!Next
  <2>1. Contract!Redrive(i, j)
    <3>1. Contract!Redriven(i) = {k \in Ids : SourceOf[k] = i}
      BY DEF Contract!Redriven, SourceOf
    <3>2. Contract!Cardinality(Contract!Redriven(i)) < MaxRedrives
      <4>1. Contract!Cardinality(Contract!Redriven(i)) = Cardinality(Contract!Redriven(i))
        BY DEF Contract!Cardinality, Cardinality
      <4> QED
        BY <1>5, <3>1, <4>1
    <3> QED
      BY <1>5, <3>2 DEF Contract!Redrive, PhaseOf, AttemptsOf, SourceOf
  <2> QED
    BY <2>1 DEF Contract!Next
<1> QED
  BY <1>1, <1>2, <1>3, <1>4, <1>5

-----------------------------------------------------------------------------
(* While receipts fit the list and no write fails. *)

\* The refinement mapping takes the step to a step of the contract or to none.
ContractStep == [Contract!Next]_(Contract!view)

\* The deliveries of callers that are under way.
Callers == {i \in ActiveIn(deliveries) : deliveries[i].src = 0}

\* The sets that are counted are finite.
LEMMA CountedAreFew ==
  ASSUME IInv, QueueInv
  PROVE  /\ IsFiniteSet(ActiveIn(deliveries)) /\ IsFiniteSet(Callers)
         /\ \A i : IsFiniteSet(Children(i)) /\ Cardinality(Children(i)) \in Nat
         /\ Cardinality(Callers) \in Nat /\ CountActive(deliveries) \in Nat
         /\ Cardinality(Callers) <= CountActive(deliveries)
<1>1. /\ IsFiniteSet(DOMAIN deliveries) /\ DOMAIN deliveries \subseteq 1 .. issued
      /\ issued \in Nat
  BY ListedAreFew
<1>2. IsFiniteSet(ActiveIn(deliveries)) /\ IsFiniteSet(Callers)
  <2>1. ActiveIn(deliveries) \subseteq DOMAIN deliveries /\ Callers \subseteq ActiveIn(deliveries)
    BY DEF ActiveIn, Callers
  <2> QED
    BY <1>1, <2>1, FS_Subset
<1>3. ASSUME NEW i
      PROVE  IsFiniteSet(Children(i))
  <2>1. Children(i) \subseteq 1 .. issued
    BY <1>1 DEF Children, QueueInv, OwnersInv, OwnerOK
  <2>2. IsFiniteSet(1 .. issued)
    BY <1>1, FS_Interval
  <2> QED
    BY <2>1, <2>2, FS_Subset
<1>4. Cardinality(Callers) <= CountActive(deliveries)
  <2>1. Callers \subseteq ActiveIn(deliveries)
    BY DEF Callers
  <2> QED
    BY <1>2, <2>1, FS_Subset DEF CountActive
<1> QED
  BY <1>2, <1>3, <1>4, FS_CardinalityType DEF CountActive

\* A step that leaves the queue alone.
LEMMA QuietUnfailed ==
  ASSUME IInv, QueueInv, Unfailed, spent'.faults = 0, Quiet
  PROVE  UnfailedInv' /\ ContractStep
<1>1. /\ UNCHANGED <<deliveries, materials, worker>> /\ spent'.crashes = spent.crashes
      /\ Owners' = Owners
  BY DEF Quiet
<1>2. ContractStep
  BY <1>1, ViewUnchanged DEF ContractStep
<1>3. KeptInv'
  BY <1>1 DEF Unfailed, UnfailedInv, KeptInv, Counted, Advances
<1>4. LineageInv'
  <2>1. \A i : Children(i)' = Children(i)
    BY <1>1 DEF Children
  <2> QED
    BY <1>1, <2>1 DEF Unfailed, UnfailedInv, LineageInv, DeadLetter
<1>5. AttemptsInv' /\ EnqueueCap'
  BY <1>1 DEF Unfailed, UnfailedInv, AttemptsInv, EnqueueCap
<1>6. spent'.crashes = 0 => \A i \in ActiveIn(deliveries') : Covered(i)'
  BY <1>1 DEF Unfailed, UnfailedInv, Covered
<1> QED
  BY <1>2, <1>3, <1>4, <1>5, <1>6 DEF UnfailedInv

\* A handler adds a receipt: a queued one whose material follows, or an answer.
LEMMA UpsertUnfailed ==
  ASSUME IInv, QueueInv, Unfailed, NEW r \in DeliveryRecord,
         NEW idem, idem \in [DOMAIN idem -> IdempotencyEntry], DOMAIN idem \subseteq Keys,
         Upsert(r, idem), UNCHANGED <<worker, spent>>,
         issued' \in Nat, issued <= issued', issued' <= MaxDeliveries,
         r.id \in 1 .. issued', r.id \notin DOMAIN deliveries, ~Held(r.id),
         NEW N, Owners' \subseteq Owners \cup N, N \subseteq Owners',
         \A q \in Owners : q.id # r.id => q \in Owners',
         \A next \in N :
           next.step = "material" /\ next.id = r.id /\ next.material.redrives <= MaxRedrives,
         \/ /\ r.status = "queued" /\ r.attempts = 0 /\ N # {}
            /\ \/ r.src = 0 /\ CountActive(deliveries) < MaxActive
               \/ r.src # 0 /\ \E q \in Owners : q.step = "redrive" /\ q.receipt = r /\ q.id = r.id
         \/ /\ r.status \in {"succeeded", "failed", "blocked"}
            /\ r.attempts \in {0, 1} /\ r.src = 0
  PROVE  UnfailedInv' /\ ContractStep
<1>1. /\ Ranked(deliveries') /\ DOMAIN deliveries' = DOMAIN deliveries \cup {r.id}
      /\ materials' = materials
  BY UpsertFits DEF Unfailed
<1>2. /\ deliveries'[r.id].status = r.status /\ deliveries'[r.id].attempts = r.attempts
      /\ deliveries'[r.id].src = r.src
      /\ \A i \in DOMAIN deliveries :
           /\ i # r.id
           /\ deliveries'[i].status = deliveries[i].status
           /\ deliveries'[i].attempts = deliveries[i].attempts
           /\ deliveries'[i].src = deliveries[i].src
  BY <1>1, UpsertFields
<1>3. UnfailedInv /\ r.src \in Nat
  BY DEF Unfailed, DeliveryRecord
<1>4. \A i \in DOMAIN deliveries : DeadLetter(i) <=> DeadLetter(i)'
  BY <1>1, <1>2 DEF DeadLetter
<1>5. r.src # 0 => \E q \in Owners : q.step = "redrive" /\ q.receipt = r /\ q.id = r.id
  OBVIOUS
<1>6. KeptInv'
  <2>1. worker'.pc # "fails" /\ \A s \in worker'.due : s.id \in DOMAIN deliveries'
    BY <1>1, <1>3 DEF UnfailedInv, KeptInv
  <2>2. \A q \in Owners' : q.step = "material" => q.id \in DOMAIN deliveries'
    BY <1>1, <1>3 DEF UnfailedInv, KeptInv
  <2>3. worker'.pc = "send" => Counted(worker.job)' /\ worker'.job.id \in DOMAIN materials'
    BY <1>1, <1>2, <1>3 DEF UnfailedInv, KeptInv, Counted, ActiveIn
  <2>4. worker'.pc = "settle" => Advances(worker.job)'
    BY <1>1, <1>2, <1>3 DEF UnfailedInv, KeptInv, Advances, ActiveIn
  <2> QED
    BY <2>1, <2>2, <2>3, <2>4 DEF KeptInv
<1>7. ASSUME NEW i, i # 0
      PROVE  /\ Children(i)' \subseteq Children(i)
             /\ Cardinality(Children(i)') \in Nat
             /\ Cardinality(Children(i)') <= Cardinality(Children(i))
  <2>1. Children(i)' \subseteq Children(i)
    <3>1. ASSUME NEW j \in DOMAIN deliveries', deliveries'[j].src = i
          PROVE  j \in Children(i)
      BY <1>1, <1>2, <1>5, <1>7, <3>1 DEF Children
    <3>2. ASSUME NEW q \in Owners', q.step = "redrive", q.receipt.src = i
          PROVE  q.id \in Children(i)
      BY <3>2 DEF Children
    <3> QED
      BY <3>1, <3>2 DEF Children
  <2> QED
    BY <2>1, CountedAreFew, FS_Subset, FS_CardinalityType
<1>8. LineageInv'
  <2>1. ASSUME NEW i \in DOMAIN deliveries', NEW x, x = deliveries'[i].src, x # 0
        PROVE  x \in DOMAIN deliveries' /\ deliveries'[x].status = "dead_letter"
    <3>1. DeadLetter(x)
      <4>1. CASE i = r.id
        <5>1. PICK q \in Owners : q.step = "redrive" /\ q.receipt = r /\ q.id = r.id
          BY <1>2, <1>5, <2>1, <4>1
        <5> QED
          BY <1>2, <1>3, <2>1, <4>1, <5>1 DEF UnfailedInv, LineageInv
      <4>2. CASE i # r.id
        BY <1>1, <1>2, <1>3, <2>1, <4>2 DEF UnfailedInv, LineageInv
      <4> QED
        BY <4>1, <4>2
    <3> QED
      BY <1>1, <1>2, <3>1 DEF DeadLetter
  <2>2. ASSUME NEW i \in DOMAIN materials'
        PROVE  Cardinality(Children(i)') <= materials'[i].redrives /\ materials'[i].redrives <= MaxRedrives
    <3>1. i \in DOMAIN materials /\ i # 0 /\ materials[i].redrives \in Nat
      BY <1>1 DEF QueueInv, ReceiptsInv, IInv, HandlerInv, StoreInv, RetryMaterial
    <3>2. Cardinality(Children(i)) <= materials[i].redrives /\ materials[i].redrives <= MaxRedrives
      BY <1>3, <3>1 DEF UnfailedInv, LineageInv
    <3>3. Cardinality(Children(i)) \in Nat
      BY CountedAreFew
    <3> QED
      BY <1>1, <1>7, <3>1, <3>2, <3>3
  <2>3. \A q \in Owners' :
          /\ q.step = "material" => q.material.redrives <= MaxRedrives
          /\ q.step = "redrive" =>
               /\ DeadLetter(q.receipt.src)' /\ q.receipt.src \in DOMAIN materials'
               /\ q.receipt.redrives <= MaxRedrives /\ q.receipt.attempts = 0
    BY <1>1, <1>3, <1>4 DEF UnfailedInv, LineageInv, DeadLetter
  <2> QED
    BY <2>1, <2>2, <2>3 DEF LineageInv, DeadLetter
<1>9. AttemptsInv'
  BY <1>1, <1>2, <1>3, DeliveryAssumption DEF UnfailedInv, AttemptsInv, ActiveIn, ActiveStatus
<1>10. EnqueueCap'
  <2>1. Callers' \subseteq Callers \cup {r.id} /\ (Callers' \subseteq Callers \/ CountActive(deliveries) < MaxActive)
    BY <1>1, <1>2 DEF Callers, ActiveIn, ActiveStatus
  <2>2. /\ IsFiniteSet(Callers) /\ Cardinality(Callers) \in Nat
        /\ CountActive(deliveries) \in Nat /\ Cardinality(Callers) <= CountActive(deliveries)
    BY CountedAreFew
  <2>3. MaxActive \in Nat /\ Cardinality(Callers) <= MaxActive
    BY <1>3, DeliveryAssumption DEF UnfailedInv, EnqueueCap, Callers
  <2>4. CASE Callers' \subseteq Callers
    <3>1. Cardinality(Callers') \in Nat /\ Cardinality(Callers') <= Cardinality(Callers)
      BY <2>2, <2>4, FS_Subset, FS_CardinalityType
    <3>2. Cardinality(Callers') <= MaxActive
      BY <2>2, <2>3, <3>1
    <3> QED
      BY <3>2 DEF EnqueueCap, Callers
  <2>5. CASE CountActive(deliveries) < MaxActive
    <3>1. /\ IsFiniteSet(Callers \cup {r.id})
          /\ \/ Cardinality(Callers \cup {r.id}) = Cardinality(Callers)
             \/ Cardinality(Callers \cup {r.id}) = Cardinality(Callers) + 1
      BY <2>2, FS_AddElement
    <3>2. Cardinality(Callers') \in Nat /\ Cardinality(Callers') <= Cardinality(Callers \cup {r.id})
      BY <2>1, <3>1, FS_Subset, FS_CardinalityType
    <3>3. Cardinality(Callers') <= MaxActive
      BY <2>2, <2>3, <2>5, <3>1, <3>2
    <3> QED
      BY <3>3 DEF EnqueueCap, Callers
  <2> QED
    BY <2>1, <2>4, <2>5
<1>11. ASSUME spent'.crashes = 0, NEW i \in ActiveIn(deliveries')
       PROVE  Covered(i)'
  <2>1. CASE i = r.id
    <3>1. N # {}
      BY <1>2, <1>11, <2>1 DEF ActiveIn, ActiveStatus
    <3>2. \E q \in Owners' : q.step = "material" /\ q.id = i
      BY <2>1, <3>1
    <3> QED
      BY <3>2 DEF Covered
  <2>2. CASE i # r.id
    <3>1. i \in ActiveIn(deliveries)
      BY <1>1, <1>2, <1>11, <2>2 DEF ActiveIn
    <3>2. Covered(i)
      BY <1>3, <1>11, <3>1 DEF UnfailedInv
    <3> QED
      BY <1>1, <2>2, <3>2 DEF Covered
  <2> QED
    BY <2>1, <2>2
<1>12. ContractStep
  <2>1. /\ r.id \in Ids
        /\ PhaseOf' = [PhaseOf EXCEPT ![r.id] = PhaseFor(r)]
        /\ AttemptsOf' = [AttemptsOf EXCEPT ![r.id] = r.attempts]
        /\ SourceOf' = [SourceOf EXCEPT ![r.id] = r.src]
    <3>1. r.id \in Ids
      BY DeliveryAssumption DEF Ids
    <3> QED
      BY <1>1, <3>1, ViewUpsert
  <2>2. PhaseOf[r.id] = "none" /\ AttemptsOf[r.id] = 0 /\ SourceOf[r.id] = 0
    BY <2>1, UnlistedView
  <2>3. /\ AttemptsOf = [i \in Ids |-> AttemptsOf[i]] /\ SourceOf = [i \in Ids |-> SourceOf[i]]
    BY DEF AttemptsOf, SourceOf
  <2>4. CASE r.status = "queued" /\ r.attempts = 0 /\ r.src = 0
    <3>1. PhaseFor(r) = "pending" /\ AttemptsOf' = AttemptsOf /\ SourceOf' = SourceOf
      BY <2>1, <2>2, <2>3, <2>4 DEF PhaseFor, ActiveStatus
    <3> QED
      BY <2>1, <2>2, <3>1, ContractSteps DEF ContractStep
  <2>5. CASE r.status \in {"succeeded", "failed", "blocked"} /\ r.attempts \in {0, 1} /\ r.src = 0
    <3>1. PhaseFor(r) = r.status /\ SourceOf' = SourceOf
      BY <2>1, <2>2, <2>3, <2>5 DEF PhaseFor, ActiveStatus
    <3> QED
      BY <2>1, <2>2, <2>5, <3>1, ContractSteps DEF ContractStep
  <2>6. CASE r.status = "queued" /\ r.attempts = 0 /\ r.src # 0
    <3>1. PICK q \in Owners : q.step = "redrive" /\ q.receipt = r /\ q.id = r.id
      BY <1>5, <2>6
    <3>2. DeadLetter(r.src) /\ r.src \in DOMAIN materials
      BY <1>3, <3>1 DEF UnfailedInv, LineageInv
    <3>3. r.src \in Ids
      BY <3>2, DeliveryAssumption DEF QueueInv, ReceiptsInv, IInv, HandlerInv, Ids
    <3>4. PhaseFor(r) = "pending" /\ AttemptsOf' = AttemptsOf
      BY <2>1, <2>2, <2>3, <2>6 DEF PhaseFor, ActiveStatus
    <3>5. PhaseOf[r.src] = "dead_letter"
      BY <3>2, <3>3 DEF PhaseOf, Seen, DeadLetter, ActiveIn, ActiveStatus
    <3>6. Cardinality({k \in Ids : SourceOf[k] = r.src}) < MaxRedrives
      <4> DEFINE K == {k \in Ids : SourceOf[k] = r.src}
                 C == Children(r.src)
      <4>1. K \subseteq C \ {r.id}
        BY <2>2, <2>6 DEF SourceOf, Seen, Children
      <4>2. r.id \in C
        BY <3>1 DEF Children
      <4>3. IsFiniteSet(C) /\ Cardinality(C) \in Nat
        BY CountedAreFew
      <4>4. Cardinality(C) <= MaxRedrives
        <5>1. Cardinality(C) <= materials[r.src].redrives /\ materials[r.src].redrives <= MaxRedrives
          BY <1>3, <3>2 DEF UnfailedInv, LineageInv
        <5>2. materials[r.src].redrives \in Nat /\ MaxRedrives \in Nat
          BY <3>2, DeliveryAssumption DEF IInv, StoreInv, RetryMaterial
        <5> HIDE DEF C
        <5> QED
          BY <4>3, <5>1, <5>2
      <4> HIDE DEF K, C
      <4>5. IsFiniteSet(C \ {r.id}) /\ Cardinality(C \ {r.id}) = Cardinality(C) - 1
        BY <4>2, <4>3, FS_RemoveElement
      <4>6. Cardinality(K) \in Nat /\ Cardinality(K) <= Cardinality(C \ {r.id})
        BY <4>1, <4>5, FS_Subset, FS_CardinalityType
      <4>7. Cardinality(K) < MaxRedrives
        BY <4>3, <4>4, <4>5, <4>6, DeliveryAssumption
      <4> QED
        BY <4>7 DEF K
    <3> QED
      BY <2>1, <2>2, <3>3, <3>4, <3>5, <3>6, ContractSteps DEF ContractStep
  <2> QED
    BY <2>4, <2>5, <2>6
<1> QED
  BY <1>6, <1>8, <1>9, <1>10, <1>11, <1>12 DEF UnfailedInv

\* A handler or a drain that begins or ends, or a payload that goes: the redrives
\* of the payloads that stay are still counted.
LEMMA LineageFrame ==
  ASSUME IInv, QueueInv, LineageInv, DOMAIN deliveries' = DOMAIN deliveries,
         \A i \in DOMAIN deliveries :
           /\ deliveries'[i].src = deliveries[i].src
           /\ deliveries[i].status = "dead_letter" => deliveries'[i].status = "dead_letter",
         Owners' \subseteq Owners, DOMAIN materials' \subseteq DOMAIN materials,
         \A i \in DOMAIN materials' : materials'[i] = materials[i],
         \A q \in Owners' : q.step = "redrive" => q.receipt.src \in DOMAIN materials'
  PROVE  LineageInv'
<1>1. \A i : DeadLetter(i) => i \in DOMAIN deliveries' /\ deliveries'[i].status = "dead_letter"
  BY DEF DeadLetter
<1>2. ASSUME NEW i \in DOMAIN deliveries', NEW x, x = deliveries'[i].src, x # 0
      PROVE  x \in DOMAIN deliveries' /\ deliveries'[x].status = "dead_letter"
  <2>1. DeadLetter(x)
    BY <1>2 DEF LineageInv
  <2> QED
    BY <1>1, <2>1
<1>3. ASSUME NEW i \in DOMAIN materials'
      PROVE  Cardinality(Children(i)') <= materials'[i].redrives /\ materials'[i].redrives <= MaxRedrives
  <2>1. Children(i)' \subseteq Children(i)
    BY DEF Children
  <2>2. IsFiniteSet(Children(i)) /\ Cardinality(Children(i)) \in Nat
    BY CountedAreFew
  <2>3. Cardinality(Children(i)') \in Nat /\ Cardinality(Children(i)') <= Cardinality(Children(i))
    BY <2>1, <2>2, FS_Subset, FS_CardinalityType
  <2>4. Cardinality(Children(i)) <= materials[i].redrives /\ materials[i].redrives <= MaxRedrives
    BY DEF LineageInv
  <2>5. materials[i].redrives \in Nat
    BY DEF IInv, StoreInv, RetryMaterial
  <2> QED
    BY <2>2, <2>3, <2>4, <2>5
<1>4. \A q \in Owners' :
        /\ q.step = "material" => q.material.redrives <= MaxRedrives
        /\ q.step = "redrive" =>
             /\ q.receipt.src \in DOMAIN deliveries'
             /\ deliveries'[q.receipt.src].status = "dead_letter"
             /\ q.receipt.src \in DOMAIN materials'
             /\ q.receipt.redrives <= MaxRedrives /\ q.receipt.attempts = 0
  BY <1>1 DEF LineageInv
<1> QED
  BY <1>2, <1>3, <1>4 DEF LineageInv, DeadLetter

\* Callers hold no more places after a step that activates none of them.
LEMMA CallersFrame ==
  ASSUME IInv, QueueInv, EnqueueCap, Callers' \subseteq Callers
  PROVE  EnqueueCap'
<1>1. IsFiniteSet(Callers) /\ Cardinality(Callers) \in Nat
  BY CountedAreFew
<1>2. Cardinality(Callers') \in Nat /\ Cardinality(Callers') <= Cardinality(Callers)
  BY <1>1, FS_Subset, FS_CardinalityType
<1>3. Cardinality(Callers) <= MaxActive /\ MaxActive \in Nat
  BY DeliveryAssumption DEF EnqueueCap, Callers
<1>4. Cardinality(Callers') <= MaxActive
  BY <1>1, <1>2, <1>3
<1> QED
  BY <1>4 DEF EnqueueCap, Callers

\* enqueue, below the tenant's limit.
LEMMA EnqueueUnfailed ==
  ASSUME IInv, QueueInv, Unfailed, NEW d \in Dests, NEW k \in Keys \cup {None}, Enqueue(d, k),
         spent'.faults = 0
  PROVE  UnfailedInv' /\ ContractStep
<1> DEFINE idem == IF k = None THEN idempotency ELSE PrunedIdempotency(idempotency, deliveries, now)
<1>1. /\ idem \in [DOMAIN idem -> IdempotencyEntry] /\ DOMAIN idem \subseteq Keys
  BY DEF PrunedIdempotency, Restrict, IInv, StoreInv
<1>2. /\ issued \in Nat /\ issued + 1 \in Nat /\ issued + 1 \in 1 .. issued + 1
      /\ issued <= issued + 1 /\ issued + 1 <= MaxDeliveries
      /\ issued + 1 \notin DOMAIN deliveries /\ ~Held(issued + 1)
  BY FreshId DEF Enqueue
<1>3. UNCHANGED <<worker, spent>> /\ now \in Nat /\ spent.faults \in Nat
  BY DEF Enqueue, queue, env, IInv, StoreInv, EnvInv
<1>4. CASE EnqueueTurnedAway(idem)
  <2>1. Quiet
    BY <1>3, <1>4 DEF EnqueueTurnedAway, Quiet, Owners
  <2> QED
    BY <2>1, QuietUnfailed
<1>5. CASE EnqueueRefused(issued + 1, d, idem) /\ issued' = issued + 1
  <2>1. PICK r : r = Receipt(issued + 1, "blocked", d, None)
    OBVIOUS
  <2>2. r \in DeliveryRecord
    BY <1>2, <1>3, <2>1, ReceiptType DEF SettledStatus
  <2>3. r.id = issued + 1 /\ r.status = "blocked" /\ r.attempts = 0 /\ r.src = 0
    BY <2>1 DEF Receipt
  <2>4. Upsert(r, idem) /\ Owners' = Owners
    BY <1>5, <2>1 DEF EnqueueRefused, Owners
  <2>5. PICK N : N = {}
    OBVIOUS
  <2>6. /\ Owners' \subseteq Owners \cup N /\ N \subseteq Owners'
        /\ \A q \in Owners : q.id # r.id => q \in Owners'
        /\ \A next \in N :
             next.step = "material" /\ next.id = r.id /\ next.material.redrives <= MaxRedrives
    BY <2>4, <2>5
  <2> HIDE DEF idem
  <2> QED
    BY <1>1, <1>2, <1>3, <1>5, <2>2, <2>3, <2>4, <2>6, UpsertUnfailed
<1>6. CASE EnqueueAccepted(issued + 1, d, k, idem) /\ issued' = issued + 1
           /\ CountActive(deliveries) < MaxActive
  <2>1. PICK r : r = Receipt(issued + 1, "queued", d, policy[d])
    OBVIOUS
  <2>2. PICK q : q = [step |-> "material", id |-> issued + 1, key |-> k, since |-> now,
                      material |-> [rule |-> policy[d], redrives |-> 0]]
    OBVIOUS
  <2>3. policy[d] \in Rules
    BY <1>6, OpenHasRule DEF EnqueueAccepted
  <2>4. r \in DeliveryRecord
    BY <1>2, <1>3, <2>1, <2>3, ReceiptType DEF ActiveStatus
  <2>5. r.id = issued + 1 /\ r.status = "queued" /\ r.attempts = 0 /\ r.src = 0
    BY <2>1 DEF Receipt
  <2>6. Upsert(r, idem) /\ requests' = requests \cup {q}
    BY <1>6, <2>1, <2>2 DEF EnqueueAccepted, Suspend
  <2>7. PICK N : N = {q}
    OBVIOUS
  <2>8. /\ Owners' \subseteq Owners \cup N /\ N \subseteq Owners' /\ N # {}
        /\ \A s \in Owners : s.id # r.id => s \in Owners'
    BY <2>2, <2>6, <2>7 DEF Owners
  <2>9. \A next \in N :
          next.step = "material" /\ next.id = r.id /\ next.material.redrives <= MaxRedrives
    BY <2>2, <2>5, <2>7, DeliveryAssumption
  <2> HIDE DEF idem
  <2> QED
    BY <1>1, <1>2, <1>3, <1>6, <2>4, <2>5, <2>6, <2>8, <2>9, UpsertUnfailed
<1>7. ~(CountActive(deliveries) >= MaxActive) => CountActive(deliveries) < MaxActive
  BY CountedAreFew, DeliveryAssumption
<1> QED
  BY <1>4, <1>5, <1>6, <1>7 DEF Enqueue

\* A synchronous delivery: refused, or an exchange that begins.
LEMMA DeliverUnfailed ==
  ASSUME IInv, QueueInv, Unfailed, NEW d \in Dests, Deliver(d), spent'.faults = 0
  PROVE  UnfailedInv' /\ ContractStep
<1>1. /\ issued \in Nat /\ issued + 1 \in Nat /\ issued + 1 \in 1 .. issued + 1
      /\ issued <= issued + 1 /\ issued + 1 <= MaxDeliveries
      /\ issued + 1 \notin DOMAIN deliveries /\ ~Held(issued + 1)
  BY FreshId DEF Deliver
<1>2. /\ UNCHANGED <<worker, spent>> /\ issued' = issued + 1 /\ now \in Nat
      /\ idempotency \in [DOMAIN idempotency -> IdempotencyEntry] /\ DOMAIN idempotency \subseteq Keys
  BY DEF Deliver, queue, env, IInv, StoreInv, EnvInv
<1>3. CASE Upsert([Receipt(issued + 1, "blocked", d, None) EXCEPT !.attempts = 1], idempotency)
           /\ UNCHANGED <<targets, requests>>
  <2>1. PICK r : r = [Receipt(issued + 1, "blocked", d, None) EXCEPT !.attempts = 1]
    OBVIOUS
  <2>2. r \in DeliveryRecord
    <3>1. Receipt(issued + 1, "blocked", d, None) \in DeliveryRecord
      BY <1>1, <1>2, ReceiptType DEF SettledStatus
    <3> QED
      BY <2>1, <3>1, CountedType
  <2>3. r.id = issued + 1 /\ r.status = "blocked" /\ r.attempts = 1 /\ r.src = 0
    BY <2>1 DEF Receipt
  <2>4. Upsert(r, idempotency) /\ Owners' = Owners
    BY <1>3, <2>1 DEF Owners
  <2>5. PICK N : N = {}
    OBVIOUS
  <2>6. /\ Owners' \subseteq Owners \cup N /\ N \subseteq Owners'
        /\ \A q \in Owners : q.id # r.id => q \in Owners'
        /\ \A next \in N :
             next.step = "material" /\ next.id = r.id /\ next.material.redrives <= MaxRedrives
    BY <2>4, <2>5
  <2> QED
    BY <1>1, <1>2, <2>2, <2>3, <2>4, <2>6, UpsertUnfailed
<1>4. CASE /\ Suspend([step |-> "sync", id |-> issued + 1, dest |-> d, rule |-> policy[d]])
           /\ UNCHANGED <<deliveries, materials>>
  <2>1. PICK q : q = [step |-> "sync", id |-> issued + 1, dest |-> d, rule |-> policy[d]]
    OBVIOUS
  <2>2. Owners' = Owners \cup {q} /\ q.step = "sync"
    BY <1>4, <2>1 DEF Suspend, Owners
  <2>3. KeptInv'
    BY <1>2, <1>4, <2>2 DEF Unfailed, UnfailedInv, KeptInv, Counted, Advances
  <2>4. LineageInv'
    <3>1. \A i : Children(i)' = Children(i)
      BY <1>4, <2>2 DEF Children
    <3> QED
      BY <1>4, <2>2, <3>1 DEF Unfailed, UnfailedInv, LineageInv, DeadLetter
  <2>5. AttemptsInv' /\ EnqueueCap'
    BY <1>4 DEF Unfailed, UnfailedInv, AttemptsInv, EnqueueCap
  <2>6. spent'.crashes = 0 => \A i \in ActiveIn(deliveries') : Covered(i)'
    BY <1>2, <1>4, <2>2 DEF Unfailed, UnfailedInv, Covered
  <2>7. ContractStep
    BY <1>4, ViewUnchanged DEF ContractStep
  <2> QED
    BY <2>3, <2>4, <2>5, <2>6, <2>7 DEF UnfailedInv
<1> QED
  BY <1>3, <1>4 DEF Deliver

\* redrive counts the child it is about to write.
LEMMA RedriveUnfailed ==
  ASSUME IInv, QueueInv, Unfailed, NEW i \in DOMAIN deliveries, Redrive(i), spent'.faults = 0
  PROVE  UnfailedInv' /\ ContractStep
<1>1. /\ UNCHANGED <<deliveries, worker, spent>> /\ i \in DOMAIN materials
      /\ deliveries[i].status = "dead_letter" /\ materials[i].redrives < MaxRedrives
  BY DEF Redrive, Redrivable, queue, env
<1>2. /\ materials[i].redrives \in Nat /\ MaxRedrives \in Nat
      /\ \A j \in DOMAIN materials : materials[j] \in RetryMaterial
  BY <1>1, DeliveryAssumption DEF IInv, StoreInv, RetryMaterial
<1>3. PICK r : r = [Receipt(issued + 1, "queued", deliveries[i].dest, deliveries[i].rule)
                      EXCEPT !.redrives = materials[i].redrives + 1, !.src = i]
  OBVIOUS
<1>4. PICK q : q = [step |-> "redrive", id |-> r.id, receipt |-> r]
  OBVIOUS
<1>5. r.id = issued + 1 /\ r.attempts = 0 /\ r.redrives = materials[i].redrives + 1 /\ r.src = i
  BY <1>3 DEF Receipt
<1>6. Owners' = Owners \cup {q} /\ q.step = "redrive" /\ q.receipt = r /\ q.id = issued + 1
  BY <1>3, <1>4, <1>5 DEF Redrive, Suspend, Owners
<1>7. /\ DOMAIN materials' = DOMAIN materials
      /\ \A j \in DOMAIN materials : j # i => materials'[j] = materials[j]
      /\ materials'[i].redrives = materials[i].redrives + 1
  <2>1. materials' = [j \in DOMAIN materials \cup {i} |->
                        IF j = i THEN [materials[i] EXCEPT !.redrives = materials[i].redrives + 1]
                        ELSE materials[j]]
    BY DEF Redrive, SetMaterial
  <2> QED
    BY <1>1, <1>2, <2>1 DEF RetryMaterial
<1>8. KeptInv'
  BY <1>1, <1>6, <1>7 DEF Unfailed, UnfailedInv, KeptInv, Counted, Advances
<1>9. LineageInv'
  <2>1. ASSUME NEW j \in DOMAIN materials'
        PROVE  Cardinality(Children(j)') <= materials'[j].redrives /\ materials'[j].redrives <= MaxRedrives
    <3>1. /\ Cardinality(Children(j)) <= materials[j].redrives /\ materials[j].redrives <= MaxRedrives
          /\ materials[j].redrives \in Nat
      BY <1>2, <1>7 DEF Unfailed, UnfailedInv, LineageInv, RetryMaterial
    <3>2. IsFiniteSet(Children(j)) /\ Cardinality(Children(j)) \in Nat
      BY CountedAreFew
    <3>3. CASE j # i
      <4>1. Children(j)' = Children(j)
        BY <1>1, <1>5, <1>6, <3>3 DEF Children
      <4> QED
        BY <1>7, <3>1, <3>3, <4>1
    <3>4. CASE j = i
      <4>1. Children(j)' = Children(j) \cup {issued + 1}
        BY <1>1, <1>5, <1>6, <3>4 DEF Children
      <4>2. Cardinality(Children(j)') \in {Cardinality(Children(j)), Cardinality(Children(j)) + 1}
        BY <3>2, <4>1, FS_AddElement
      <4> QED
        BY <1>1, <1>2, <1>7, <3>1, <3>2, <3>4, <4>2
    <3> QED
      BY <3>3, <3>4
  <2>2. \A s \in Owners' :
          /\ s.step = "material" => s.material.redrives <= MaxRedrives
          /\ s.step = "redrive" =>
               /\ DeadLetter(s.receipt.src) /\ s.receipt.src \in DOMAIN materials'
               /\ s.receipt.redrives <= MaxRedrives /\ s.receipt.attempts = 0
    <3>1. DeadLetter(i) /\ r.redrives <= MaxRedrives
      BY <1>1, <1>2, <1>5 DEF DeadLetter
    <3> QED
      BY <1>1, <1>5, <1>6, <1>7, <3>1 DEF Unfailed, UnfailedInv, LineageInv
  <2> QED
    BY <1>1, <2>1, <2>2 DEF Unfailed, UnfailedInv, LineageInv, DeadLetter
<1>10. AttemptsInv' /\ EnqueueCap'
  BY <1>1 DEF Unfailed, UnfailedInv, AttemptsInv, EnqueueCap
<1>11. spent'.crashes = 0 => \A j \in ActiveIn(deliveries') : Covered(j)'
  BY <1>1, <1>6, <1>7 DEF Unfailed, UnfailedInv, Covered
<1>12. ContractStep
  BY <1>1, ViewUnchanged DEF ContractStep
<1> QED
  BY <1>8, <1>9, <1>10, <1>11, <1>12 DEF UnfailedInv

\* setRetryMaterial: a delivery that nobody redrove yet.
LEMMA StoreMaterialUnfailed ==
  ASSUME IInv, QueueInv, Unfailed, NEW q \in requests, StoreMaterial(q), spent'.faults = 0
  PROVE  UnfailedInv' /\ ContractStep
<1>1. /\ q \in Owners /\ OwnerOK(q) /\ q.step = "material"
      /\ UNCHANGED <<deliveries, worker, spent>>
      /\ DOMAIN materials' = DOMAIN materials \cup {q.id}
      /\ materials'[q.id] = q.material
      /\ \A j \in DOMAIN materials : j # q.id => materials'[j] = materials[j]
  BY DEF StoreMaterial, SetMaterial, Owners, QueueInv, OwnersInv, queue, env
<1>2. Owners' = Owners \ {q}
  BY DEF StoreMaterial, Resume, Owners
<1>3. q.id # 0 /\ q.id \notin DOMAIN materials /\ ~DeadLetter(q.id) /\ issued \in Nat
  BY <1>1 DEF OwnerOK, DeadLetter, IInv, HandlerInv
<1>4. KeptInv'
  BY <1>1, <1>2 DEF Unfailed, UnfailedInv, KeptInv, Counted, Advances
<1>5. \A j : Children(j)' = Children(j)
  BY <1>1, <1>2 DEF Children
<1>6. Children(q.id) = {}
  BY <1>1, <1>3 DEF Children, Unfailed, UnfailedInv, LineageInv
<1>7. LineageInv'
  <2>1. ASSUME NEW j \in DOMAIN materials'
        PROVE  Cardinality(Children(j)') <= materials'[j].redrives /\ materials'[j].redrives <= MaxRedrives
    <3>1. CASE j = q.id
      <4>1. q.material.redrives <= MaxRedrives /\ q.material.redrives \in Nat
        BY <1>1, RequestFields DEF Unfailed, UnfailedInv, LineageInv, IInv, HandlerInv, Owners, RetryMaterial
      <4>2. Cardinality(Children(j)') = 0
        BY <1>5, <1>6, <3>1, FS_EmptySet
      <4> QED
        BY <1>1, <3>1, <4>1, <4>2
    <3>2. CASE j # q.id
      BY <1>1, <1>5, <3>2 DEF Unfailed, UnfailedInv, LineageInv
    <3> QED
      BY <3>1, <3>2
  <2> QED
    BY <1>1, <1>2, <2>1 DEF Unfailed, UnfailedInv, LineageInv, DeadLetter
<1>8. AttemptsInv' /\ EnqueueCap'
  BY <1>1 DEF Unfailed, UnfailedInv, AttemptsInv, EnqueueCap
<1>9. spent'.crashes = 0 => \A j \in ActiveIn(deliveries') : Covered(j)'
  BY <1>1, <1>2 DEF Unfailed, UnfailedInv, Covered
<1>10. ContractStep
  BY <1>1, ViewUnchanged DEF ContractStep
<1> QED
  BY <1>4, <1>7, <1>8, <1>9, <1>10 DEF UnfailedInv

\* The redriven receipt takes the place its handler held.
LEMMA RedriveQueuesUnfailed ==
  ASSUME IInv, QueueInv, Unfailed, NEW q \in requests, RedriveQueues(q), spent'.faults = 0
  PROVE  UnfailedInv' /\ ContractStep
<1>1. /\ q \in Owners /\ OwnerOK(q) /\ q.step = "redrive"
      /\ issued \in Nat /\ UNCHANGED <<worker, issued, spent>>
      /\ idempotency \in [DOMAIN idempotency -> IdempotencyEntry] /\ DOMAIN idempotency \subseteq Keys
  BY DEF RedriveQueues, Owners, QueueInv, OwnersInv, queue, env, IInv, HandlerInv, StoreInv
<1>2. PICK r : r = q.receipt
  OBVIOUS
<1>3. r \in DeliveryRecord /\ Upsert(r, idempotency)
  BY <1>1, <1>2, RequestFields DEF RedriveQueues, IInv, HandlerInv
<1>4. /\ r.id = q.id /\ r.status = "queued"
      /\ r.id \in 1 .. issued /\ r.id \notin DOMAIN deliveries /\ ~Held(r.id)
  BY <1>1, <1>2 DEF OwnerOK
<1>5. r.attempts = 0 /\ r.redrives <= MaxRedrives /\ r.src # 0
  <2>1. r.src \in DOMAIN materials
    BY <1>1, <1>2 DEF Unfailed, UnfailedInv, LineageInv
  <2> QED
    BY <1>1, <1>2, <2>1 DEF Unfailed, UnfailedInv, LineageInv, QueueInv, ReceiptsInv
<1>6. PICK m : m = [step |-> "material", id |-> q.id, key |-> None, since |-> q.receipt.at,
                    material |-> [rule |-> q.receipt.rule, redrives |-> q.receipt.redrives]]
  OBVIOUS
<1>7. m.step = "material" /\ m.id = r.id /\ m.material.redrives <= MaxRedrives
  BY <1>2, <1>4, <1>5, <1>6
<1>8. PICK N : N = {m}
  OBVIOUS
<1>9. Owners' = (Owners \ {q}) \cup N
  BY <1>6, <1>8 DEF RedriveQueues, Resume, Owners
<1>10. /\ Owners' \subseteq Owners \cup N /\ N \subseteq Owners' /\ N # {}
       /\ \A s \in Owners : s.id # r.id => s \in Owners'
       /\ \A next \in N :
            next.step = "material" /\ next.id = r.id /\ next.material.redrives <= MaxRedrives
  BY <1>4, <1>7, <1>8, <1>9
<1>11. issued <= issued' /\ issued' <= MaxDeliveries
  BY <1>1 DEF QueueInv, ReceiptsInv
<1> QED
  BY <1>1, <1>2, <1>3, <1>4, <1>5, <1>10, <1>11, UpsertUnfailed

\* The receipt of a synchronous delivery is settled from the start.
LEMMA DeliverAnsweredUnfailed ==
  ASSUME IInv, QueueInv, Unfailed, NEW q \in requests,
         NEW status \in {"succeeded", "failed", "blocked"}, NEW reached \in BOOLEAN,
         DeliverAnswered(q, status, reached), spent'.faults = 0
  PROVE  UnfailedInv' /\ ContractStep
<1>1. /\ q \in Owners /\ OwnerOK(q) /\ q.step = "sync"
      /\ issued \in Nat /\ now \in Nat /\ UNCHANGED <<worker, issued, spent>>
      /\ idempotency \in [DOMAIN idempotency -> IdempotencyEntry] /\ DOMAIN idempotency \subseteq Keys
  BY DEF DeliverAnswered, Owners, QueueInv, OwnersInv, queue, env, IInv, HandlerInv, StoreInv
<1>2. PICK rule : rule = IF reached THEN q.rule ELSE None
  OBVIOUS
<1>3. PICK r : r = Stamped([Receipt(q.id, status, q.dest, rule) EXCEPT !.attempts = 1])
  OBVIOUS
<1>4. r \in DeliveryRecord
  <2>1. q.id \in Nat /\ q.dest \in Dests /\ rule \in Rules \cup {None}
    BY <1>1, <1>2, RequestFields DEF IInv, HandlerInv, Owners
  <2>2. Receipt(q.id, status, q.dest, rule) \in DeliveryRecord
    BY <1>1, <2>1, ReceiptType DEF SettledStatus
  <2> QED
    BY <1>1, <1>3, <2>2, CountedType, StampedType
<1>5. Upsert(r, idempotency) /\ requests' = requests \ {q}
  BY <1>2, <1>3 DEF DeliverAnswered, Resume
<1>6. r.id = q.id /\ r.status = status /\ r.attempts = 1 /\ r.src = 0
  BY <1>3 DEF Receipt, Stamped
<1>7. r.id \in 1 .. issued /\ r.id \notin DOMAIN deliveries /\ ~Held(r.id)
  BY <1>1, <1>6 DEF OwnerOK
<1>8. PICK N : N = {}
  OBVIOUS
<1>9. /\ Owners' \subseteq Owners \cup N /\ N \subseteq Owners'
      /\ \A s \in Owners : s.id # r.id => s \in Owners'
      /\ \A next \in N :
           next.step = "material" /\ next.id = r.id /\ next.material.redrives <= MaxRedrives
  BY <1>5, <1>6, <1>8 DEF Owners
<1>10. issued <= issued' /\ issued' <= MaxDeliveries
  BY <1>1 DEF QueueInv, ReceiptsInv
<1> QED
  BY <1>1, <1>4, <1>5, <1>6, <1>7, <1>9, <1>10, UpsertUnfailed

\* A retry's backoff ends.
LEMMA BackoffEndsUnfailed ==
  ASSUME IInv, QueueInv, Unfailed, NEW i \in DOMAIN deliveries, BackoffEnds(i), spent'.faults = 0
  PROVE  UnfailedInv' /\ ContractStep
<1>1. /\ UNCHANGED <<materials, requests, worker, spent>>
      /\ deliveries' = [deliveries EXCEPT ![i].waiting = FALSE] /\ Owners' = Owners
  BY DEF BackoffEnds, queue, env, Owners
<1>2. /\ DOMAIN deliveries' = DOMAIN deliveries
      /\ \A j \in DOMAIN deliveries :
           /\ deliveries'[j].status = deliveries[j].status
           /\ deliveries'[j].attempts = deliveries[j].attempts
           /\ deliveries'[j].src = deliveries[j].src
  <2>1. /\ DOMAIN deliveries' = DOMAIN deliveries /\ deliveries[i] \in DeliveryRecord
        /\ \A j \in DOMAIN deliveries : j # i => deliveries'[j] = deliveries[j]
        /\ deliveries'[i] = [deliveries[i] EXCEPT !.waiting = FALSE]
    BY <1>1 DEF IInv, StoreInv, IsList
  <2> QED
    BY <2>1 DEF DeliveryRecord
<1>3. ContractStep
  BY <1>2, ViewUnchanged DEF ContractStep
<1>4. ActiveIn(deliveries') = ActiveIn(deliveries)
  BY <1>2 DEF ActiveIn
<1>5. KeptInv'
  <2>1. worker.pc = "send" => Counted(worker.job)'
    BY <1>1, <1>2, <1>4 DEF Unfailed, UnfailedInv, KeptInv, Counted, ActiveIn
  <2>2. worker.pc = "settle" => Advances(worker.job)'
    BY <1>1, <1>2, <1>4 DEF Unfailed, UnfailedInv, KeptInv, Advances, ActiveIn
  <2> QED
    BY <1>1, <1>2, <2>1, <2>2 DEF Unfailed, UnfailedInv, KeptInv
<1>6. LineageInv'
  BY <1>1, <1>2, LineageFrame DEF Unfailed, UnfailedInv, LineageInv
<1>7. AttemptsInv'
  BY <1>2, <1>4 DEF Unfailed, UnfailedInv, AttemptsInv, ActiveIn
<1>8. EnqueueCap'
  BY <1>2, <1>4, CallersFrame DEF Unfailed, UnfailedInv, Callers, ActiveIn
<1>9. spent'.crashes = 0 => \A j \in ActiveIn(deliveries') : Covered(j)'
  BY <1>1, <1>4 DEF Unfailed, UnfailedInv, Covered
<1> QED
  BY <1>3, <1>5, <1>6, <1>7, <1>8, <1>9 DEF UnfailedInv

\* The worker's steps begin and end between writes that succeed: what it holds is
\* one receipt under way.
Alone(r) == UnderWay(r) /\ (worker.pc \in {"send", "settle"} => worker.job.id = r.id)

\* A drain begins, ends or breaks off.
LEMMA IdleUnfailed ==
  ASSUME IInv, QueueInv, Unfailed, worker.pc \in {"idle", "next"}, worker'.pc \in {"idle", "next"},
         \A r \in worker'.due : r.id \in DOMAIN deliveries,
         UNCHANGED <<deliveries, materials, requests, spent>>
  PROVE  UnfailedInv' /\ ContractStep
<1>1. KeptInv'
  BY DEF Unfailed, UnfailedInv, KeptInv, Owners
<1>2. \A i : Children(i)' = Children(i)
  BY DEF Children, Owners
<1>3. LineageInv'
  BY <1>2 DEF Unfailed, UnfailedInv, LineageInv, DeadLetter, Owners
<1>4. AttemptsInv' /\ EnqueueCap'
  BY DEF Unfailed, UnfailedInv, AttemptsInv, EnqueueCap
<1>5. spent'.crashes = 0 => \A i \in ActiveIn(deliveries') : Covered(i)'
  BY DEF Unfailed, UnfailedInv, Covered, Owners
<1>6. ContractStep
  BY ViewUnchanged DEF ContractStep
<1> QED
  BY <1>1, <1>3, <1>4, <1>5, <1>6 DEF UnfailedInv

\* The snapshot of a drain is of listed receipts.
LEMMA DrainStartsUnfailed ==
  ASSUME IInv, QueueInv, Unfailed, DrainStarts, spent'.faults = 0
  PROVE  UnfailedInv' /\ ContractStep
<1>1. /\ UNCHANGED <<deliveries, materials, requests, spent>>
      /\ worker.pc = "idle" /\ worker'.pc = "next"
      /\ worker'.due = {Detached(deliveries[i]) : i \in DueRetryables(deliveries, materials)}
  BY DEF DrainStarts, store, env, Idle
<1>2. ASSUME NEW r \in worker'.due
      PROVE  r.id \in DOMAIN deliveries
  <2>1. PICK i \in DOMAIN deliveries : r = Detached(deliveries[i])
    BY <1>1 DEF DueRetryables, Retryable, ActiveIn
  <2>2. deliveries[i].id = i /\ deliveries[i] \in DeliveryRecord
    BY DEF QueueInv, ReceiptsInv, ReceiptOK, IInv, StoreInv, IsList
  <2> QED
    BY <2>1, <2>2 DEF Detached, DeliveryRecord
<1> QED
  BY <1>1, <1>2, IdleUnfailed

\* After a restart nothing is under way; what was is covered by a crash.
LEMMA RestartUnfailed ==
  ASSUME IInv, QueueInv, Unfailed, Restart, spent'.faults = 0
  PROVE  UnfailedInv' /\ ContractStep
<1>1. /\ Owners' = {} /\ UNCHANGED deliveries /\ worker' = Idle
      /\ DOMAIN materials' \subseteq DOMAIN materials
      /\ \A i \in DOMAIN materials' : materials'[i] = materials[i]
  BY DEF Restart, Owners, Restrict
<1>2. spent'.crashes # 0
  BY DEF Restart, IInv, EnvInv
<1>3. KeptInv'
  BY <1>1 DEF KeptInv, Idle
<1>4. LineageInv'
  BY <1>1, LineageFrame DEF Unfailed, UnfailedInv
<1>5. AttemptsInv' /\ EnqueueCap'
  BY <1>1 DEF Unfailed, UnfailedInv, AttemptsInv, EnqueueCap
<1>6. ContractStep
  BY <1>1, ViewUnchanged DEF ContractStep
<1> QED
  BY <1>2, <1>3, <1>4, <1>5, <1>6 DEF UnfailedInv

\* The contract's view of a receipt the worker writes: a retry or an end.
LEMMA AdvanceStep ==
  ASSUME IInv, QueueInv, AttemptsInv, NEW final \in DeliveryRecord, Advances(final),
         PhaseOf' = [PhaseOf EXCEPT ![final.id] = PhaseFor(final)],
         AttemptsOf' = [AttemptsOf EXCEPT ![final.id] = final.attempts],
         SourceOf' = [SourceOf EXCEPT ![final.id] = final.src]
  PROVE  ContractStep
<1>1. PICK i : i = final.id
  OBVIOUS
<1>2. PICK a : a = deliveries[i].attempts
  OBVIOUS
<1>3. /\ i \in DOMAIN deliveries /\ i \in ActiveIn(deliveries) /\ i \in Ids
      /\ final.src = deliveries[i].src
      /\ a \in Nat /\ a < MaxAttempts /\ MaxAttempts \in Nat
  <2>1. i \in DOMAIN deliveries /\ i \in ActiveIn(deliveries) /\ final.src = deliveries[i].src
    BY <1>1 DEF Advances, ActiveIn
  <2>2. i \in Ids
    BY <2>1, DeliveryAssumption DEF QueueInv, ReceiptsInv, ReceiptOK, IInv, HandlerInv, Ids
  <2>3. a \in Nat
    BY <1>2, <2>1 DEF IInv, StoreInv, IsList, DeliveryRecord
  <2> QED
    BY <1>2, <2>1, <2>2, <2>3, DeliveryAssumption DEF AttemptsInv
<1>4. /\ PhaseOf[i] = "pending" /\ AttemptsOf[i] = a /\ SourceOf[i] = final.src
      /\ PhaseOf = [k \in Ids |-> PhaseOf[k]] /\ AttemptsOf = [k \in Ids |-> AttemptsOf[k]]
      /\ SourceOf = [k \in Ids |-> SourceOf[k]]
  BY <1>2, <1>3 DEF PhaseOf, AttemptsOf, SourceOf, Seen
<1>5. SourceOf' = SourceOf
  BY <1>1, <1>3, <1>4
<1>6. CASE final.status = "retrying" /\ final.attempts < MaxAttempts /\ final.attempts = a + 1
  <2>1. PhaseOf' = PhaseOf
    BY <1>1, <1>3, <1>4, <1>6 DEF PhaseFor, ActiveStatus
  <2>2. AttemptsOf' = [AttemptsOf EXCEPT ![i] = @ + 1] /\ AttemptsOf[i] + 1 < MaxAttempts
    BY <1>1, <1>4, <1>6
  <2> QED
    BY <1>3, <1>4, <1>5, <2>1, <2>2, ContractSteps DEF ContractStep
<1>7. ASSUME NEW n \in {0, 1}, final.status \in SettledStatus, final.attempts = a + n,
             n = 0 => final.status = "dead_letter"
      PROVE  ContractStep
  <2>1. PhaseFor(final) = final.status
    BY <1>7 DEF PhaseFor, ActiveStatus, SettledStatus
  <2>2. AttemptsOf' = [AttemptsOf EXCEPT ![i] = @ + n] /\ AttemptsOf[i] + n <= MaxAttempts
    BY <1>1, <1>3, <1>4, <1>7
  <2>3. PhaseOf' = [PhaseOf EXCEPT ![i] = final.status]
    BY <1>1, <2>1
  <2>4. PICK s \in SettledStatus : s = final.status
    BY <1>7
  <2>5. /\ PhaseOf[i] = "pending" /\ AttemptsOf[i] + n <= MaxAttempts
        /\ n = 0 => s = "dead_letter"
        /\ PhaseOf' = [PhaseOf EXCEPT ![i] = s]
        /\ AttemptsOf' = [AttemptsOf EXCEPT ![i] = @ + n] /\ UNCHANGED SourceOf
        => Contract!Next
    BY <1>3, ContractSteps
  <2> QED
    BY <1>4, <1>5, <1>7, <2>2, <2>3, <2>4, <2>5 DEF ContractStep
<1> QED
  <2>1. \/ final.status = "retrying" /\ final.attempts < MaxAttempts /\ final.attempts = a + 1
        \/ final.status \in SettledStatus /\ final.attempts = a + 1
        \/ final.status \in SettledStatus /\ final.attempts = a + 0 /\ final.status = "dead_letter"
    BY <1>1, <1>2, <1>3 DEF Advances
  <2>2. CASE final.status \in SettledStatus /\ final.attempts = a + 1
    <3>1. 1 \in {0, 1} /\ (1 = 0 => final.status = "dead_letter")
      OBVIOUS
    <3> QED
      BY <1>7, <2>2, <3>1
  <2>3. CASE final.status \in SettledStatus /\ final.attempts = a + 0 /\ final.status = "dead_letter"
    <3>1. 0 \in {0, 1} /\ (0 = 0 => final.status = "dead_letter")
      BY <2>3
    <3> QED
      BY <1>7, <2>3, <3>1
  <2> QED
    BY <1>6, <2>1, <2>2, <2>3

\* The worker reports: the receipt is retried or settled, the others stay.
LEMMA ReportsUnfailed ==
  ASSUME IInv, QueueInv, Unfailed, NEW r, NEW final \in DeliveryRecord, NEW caught,
         Alone(r), final.id = r.id, Advances(final),
         final.status = "retrying" => r.id \in DOMAIN materials,
         Reports(r, final, caught), UNCHANGED <<requests, issued>>, spent'.faults = 0
  PROVE  UnfailedInv' /\ ContractStep
<1>1. /\ Upsert(final, idempotency) /\ WorkerWrites(r, final, caught, "next")
      /\ idempotency \in [DOMAIN idempotency -> IdempotencyEntry] /\ DOMAIN idempotency \subseteq Keys
  BY DEF Reports, IInv, StoreInv
<1>2. /\ worker'.pc = "next" /\ worker'.due \subseteq worker.due /\ UNCHANGED spent
  <2>1. spent.faults = 0 /\ spent \in [edits: Nat, crashes: Nat, faults: Nat]
    BY DEF Unfailed, IInv, EnvInv
  <2> QED
    BY <1>1, <2>1 DEF WorkerWrites
<1>3. /\ UnfailedInv /\ r.id \in DOMAIN deliveries /\ r.id \in ActiveIn(deliveries)
      /\ final.src = deliveries[r.id].src
  BY DEF Unfailed, Advances, ActiveIn
<1>4. DOMAIN deliveries' = DOMAIN deliveries /\ materials' = materials
  <2>1. /\ issued' \in Nat /\ issued <= issued' /\ issued' <= MaxDeliveries
        /\ final.id \in 1 .. issued'
    BY DEF IInv, HandlerInv, QueueInv, ReceiptsInv, Alone, UnderWay
  <2>2. DOMAIN deliveries' = DOMAIN deliveries \cup {final.id} /\ materials' = materials
    BY <1>1, <2>1, UpsertFits DEF Unfailed
  <2> QED
    BY <1>3, <2>2
<1>5. /\ deliveries'[r.id].status = final.status /\ deliveries'[r.id].attempts = final.attempts
      /\ deliveries'[r.id].src = final.src
      /\ \A i \in DOMAIN deliveries : i # r.id =>
           /\ deliveries'[i].status = deliveries[i].status
           /\ deliveries'[i].attempts = deliveries[i].attempts
           /\ deliveries'[i].src = deliveries[i].src
  BY <1>1, <1>3, <1>4, UpsertFields
<1>6. final.status \in ActiveStatus => final.status = "retrying" /\ final.attempts < MaxAttempts
  BY DEF Advances, ActiveStatus, SettledStatus
<1>7. KeptInv'
  BY <1>2, <1>3, <1>4 DEF UnfailedInv, KeptInv, Owners
<1>8. LineageInv'
  <2>1. deliveries[r.id].status # "dead_letter"
    BY <1>3 DEF ActiveIn, ActiveStatus
  <2>2. \A i \in DOMAIN deliveries :
          /\ deliveries'[i].src = deliveries[i].src
          /\ deliveries[i].status = "dead_letter" => deliveries'[i].status = "dead_letter"
    BY <1>3, <1>5, <2>1
  <2> QED
    BY <1>3, <1>4, <2>2, LineageFrame DEF UnfailedInv, LineageInv, Owners
<1>9. AttemptsInv'
  BY <1>3, <1>4, <1>5, <1>6 DEF UnfailedInv, AttemptsInv, ActiveIn
<1>10. EnqueueCap'
  <2>1. Callers' \subseteq Callers
    BY <1>3, <1>4, <1>5 DEF Callers, ActiveIn
  <2> QED
    BY <1>3, <2>1, CallersFrame DEF UnfailedInv
<1>11. ASSUME spent'.crashes = 0, NEW i \in ActiveIn(deliveries')
       PROVE  Covered(i)'
  <2>1. CASE i = r.id
    <3>1. final.status = "retrying"
      BY <1>5, <1>6, <1>11, <2>1 DEF ActiveIn
    <3> QED
      BY <1>4, <2>1, <3>1 DEF Covered
  <2>2. CASE i # r.id
    <3>1. i \in ActiveIn(deliveries)
      BY <1>4, <1>5, <1>11, <2>2 DEF ActiveIn
    <3>2. Covered(i)
      BY <1>2, <1>3, <1>11, <3>1 DEF UnfailedInv
    <3> QED
      BY <1>4, <2>2, <3>2 DEF Covered, Owners, Alone
  <2> QED
    BY <2>1, <2>2
<1>12. ContractStep
  <2>1. final.id \in Ids /\ DOMAIN deliveries' = DOMAIN deliveries \cup {final.id}
    <3>1. final.id \in 1 .. issued /\ issued \in Nat /\ issued <= MaxDeliveries
      BY DEF QueueInv, ReceiptsInv, IInv, HandlerInv, Alone, UnderWay
    <3>2. final.id \in Ids
      BY <3>1, DeliveryAssumption DEF Ids
    <3> QED
      BY <1>3, <1>4, <3>2
  <2>2. /\ PhaseOf' = [PhaseOf EXCEPT ![final.id] = PhaseFor(final)]
        /\ AttemptsOf' = [AttemptsOf EXCEPT ![final.id] = final.attempts]
        /\ SourceOf' = [SourceOf EXCEPT ![final.id] = final.src]
    BY <1>1, <2>1, ViewUpsert
  <2> QED
    BY <1>3, <2>2, AdvanceStep DEF UnfailedInv
<1> QED
  BY <1>7, <1>8, <1>9, <1>10, <1>11, <1>12 DEF UnfailedInv

\* The worker deletes the payload of a receipt it is about to settle.
LEMMA DeletesUnfailed ==
  ASSUME IInv, QueueInv, Unfailed, NEW r, NEW final \in DeliveryRecord, NEW caught,
         Alone(r), final.id = r.id, Advances(final),
         Deletes(r, final, caught), UNCHANGED <<requests, issued>>, spent'.faults = 0
  PROVE  UnfailedInv' /\ ContractStep
<1>1. /\ UNCHANGED deliveries /\ DOMAIN materials' = DOMAIN materials \ {r.id}
      /\ \A i \in DOMAIN materials' : materials'[i] = materials[i]
  BY DEF Deletes, DeleteMaterial, Without, Restrict
<1>2. /\ worker'.pc = "settle" /\ worker'.job = final /\ worker'.due \subseteq worker.due
      /\ UNCHANGED spent
  <2>1. spent.faults = 0 /\ spent \in [edits: Nat, crashes: Nat, faults: Nat]
    BY DEF Unfailed, IInv, EnvInv
  <2> QED
    BY <2>1 DEF Deletes, WorkerWrites
<1>3. /\ UnfailedInv /\ r.id \in DOMAIN deliveries /\ r.id \in ActiveIn(deliveries)
      /\ deliveries[r.id].status # "dead_letter" /\ Owners' = Owners
  BY DEF Unfailed, Advances, ActiveIn, ActiveStatus, Owners
<1>4. KeptInv'
  <2>1. Advances(worker.job)'
    BY <1>1, <1>2 DEF Advances
  <2> QED
    BY <1>1, <1>2, <1>3, <2>1 DEF UnfailedInv, KeptInv
<1>5. LineageInv'
  <2>1. \A q \in Owners : q.step = "redrive" => q.receipt.src \in DOMAIN materials'
    BY <1>1, <1>3 DEF UnfailedInv, LineageInv, DeadLetter
  <2> QED
    BY <1>1, <1>3, <2>1, LineageFrame DEF UnfailedInv
<1>6. AttemptsInv' /\ EnqueueCap'
  BY <1>1, <1>3 DEF UnfailedInv, AttemptsInv, EnqueueCap
<1>7. ASSUME spent'.crashes = 0, NEW i \in ActiveIn(deliveries')
      PROVE  Covered(i)'
  <2>1. Covered(i)
    BY <1>1, <1>2, <1>3, <1>7 DEF UnfailedInv
  <2> QED
    BY <1>1, <1>2, <1>3, <2>1 DEF Covered, Alone
<1>8. ContractStep
  BY <1>1, ViewUnchanged DEF ContractStep
<1> QED
  BY <1>4, <1>5, <1>6, <1>7, <1>8 DEF UnfailedInv

\* The worker settles a receipt.
LEMMA SettleLaterUnfailed ==
  ASSUME IInv, QueueInv, Unfailed, NEW r, NEW final \in DeliveryRecord, NEW caught,
         Alone(r), final.id = r.id, Advances(final), final.status \in SettledStatus,
         SettleLater(r, final, caught), UNCHANGED <<requests, issued>>, spent'.faults = 0
  PROVE  UnfailedInv' /\ ContractStep
<1>1. final.status # "retrying"
  BY DEF SettledStatus
<1> QED
  BY <1>1, DeletesUnfailed, ReportsUnfailed DEF SettleLater

\* What the worker sent advances its receipt, whatever came of it.
LEMMA CountedAdvances ==
  ASSUME IInv, NEW r \in DeliveryRecord, Counted(r),
         NEW status \in {"succeeded", "failed", "blocked", "dead_letter", "retrying"},
         NEW final, final = Outcome(r, status), status = "retrying" => r.attempts < MaxAttempts
  PROVE  /\ final \in DeliveryRecord /\ final.id = r.id /\ final.status = status
         /\ Advances(final)
<1>1. status \in ActiveStatus \cup SettledStatus
  BY DEF ActiveStatus, SettledStatus
<1>2. /\ final \in DeliveryRecord /\ final.id = r.id /\ final.status = status
      /\ final.attempts = r.attempts /\ final.src = r.src
  BY <1>1, OutcomeFields
<1>3. status # "retrying" => status \in SettledStatus
  BY DEF SettledStatus
<1> QED
  BY <1>2, <1>3 DEF Counted, Advances

\* A failed attempt.
LEMMA FailsUnfailed ==
  ASSUME IInv, QueueInv, Unfailed, NEW r \in DeliveryRecord, NEW thrown \in BOOLEAN,
         Alone(r), Counted(r), r.id \in DOMAIN materials, Fails(r, thrown),
         UNCHANGED <<requests, issued>>, spent'.faults = 0
  PROVE  UnfailedInv' /\ ContractStep
<1>1. CASE SettleLater(r, Outcome(r, "failed"), ~thrown)
  <2>1. PICK final : final = Outcome(r, "failed")
    OBVIOUS
  <2>2. final \in DeliveryRecord /\ final.id = r.id /\ Advances(final) /\ final.status = "failed"
    BY <2>1, CountedAdvances
  <2>3. final.status \in SettledStatus
    BY <2>2 DEF SettledStatus
  <2> QED
    BY <1>1, <2>1, <2>2, <2>3, SettleLaterUnfailed
<1>2. CASE SettleLater(r, Outcome(r, "blocked"), FALSE)
  <2>1. PICK final : final = Outcome(r, "blocked")
    OBVIOUS
  <2>2. final \in DeliveryRecord /\ final.id = r.id /\ Advances(final) /\ final.status = "blocked"
    BY <2>1, CountedAdvances
  <2>3. final.status \in SettledStatus
    BY <2>2 DEF SettledStatus
  <2> QED
    BY <1>2, <2>1, <2>2, <2>3, SettleLaterUnfailed
<1>3. CASE Retries(r, ~thrown)
  <2>1. PICK final : final = Outcome(r, "retrying")
    OBVIOUS
  <2>2. Reports(r, final, ~thrown) /\ r.attempts < MaxAttempts
    BY <1>3, <2>1 DEF Retries
  <2>3. final \in DeliveryRecord /\ final.id = r.id /\ Advances(final)
    BY <2>1, <2>2, CountedAdvances
  <2> QED
    BY <2>2, <2>3, ReportsUnfailed
<1>4. CASE Exhausts(r, ~thrown)
  <2>1. PICK final : final = Outcome(r, "dead_letter")
    OBVIOUS
  <2>2. Reports(r, final, ~thrown)
    BY <1>4, <2>1 DEF Exhausts
  <2>3. final \in DeliveryRecord /\ final.id = r.id /\ Advances(final)
    BY <2>1, CountedAdvances
  <2> QED
    BY <2>2, <2>3, ReportsUnfailed
<1> QED
  BY <1>1, <1>2, <1>3, <1>4 DEF Fails

\* A receipt of the snapshot: given up, refused, or sent with its attempt counted.
LEMMA TakeUnfailed ==
  ASSUME IInv, QueueInv, Unfailed, Take, spent'.faults = 0
  PROVE  UnfailedInv' /\ ContractStep
<1>1. PICK r \in worker.due :
        TakeMissing(r) \/ TakeUnusable(r) \/ TakeRefused(r) \/ TakeResolved(r)
  BY DEF Take
<1>2. /\ r \in DeliveryRecord /\ UNCHANGED <<requests, issued>> /\ worker.pc = "next"
      /\ DueOK(r) /\ UnfailedInv
  BY DEF Take, IInv, WorkerInv, QueueInv, DueInv, Unfailed
<1>3. Alone(r)
  BY <1>2 DEF Alone, UnderWay, Held, DueOK, QueueInv, DueInv
<1>4. /\ r.id \in DOMAIN deliveries /\ r.id \in ActiveIn(deliveries)
      /\ r.src = deliveries[r.id].src /\ r.attempts = deliveries[r.id].attempts
  <2>1. r.id \in DOMAIN deliveries
    BY <1>2 DEF UnfailedInv, KeptInv
  <2>2. /\ deliveries[r.id].status = r.status /\ deliveries[r.id].src = r.src
        /\ deliveries[r.id].attempts = r.attempts
    BY <1>2, <2>1, DetachedSame DEF DueOK, IInv, StoreInv, IsList
  <2> QED
    BY <1>2, <2>1, <2>2 DEF DueOK, ActiveIn
<1>5. PICK gone : gone = Outcome(r, "dead_letter")
  OBVIOUS
<1>6. gone \in DeliveryRecord /\ gone.id = r.id /\ gone.status \in SettledStatus /\ Advances(gone)
  <2>1. "dead_letter" \in SettledStatus
    BY DEF SettledStatus
  <2>2. /\ gone \in DeliveryRecord /\ gone.id = r.id /\ gone.status = "dead_letter"
        /\ gone.attempts = r.attempts /\ gone.src = r.src
    BY <1>2, <1>5, <2>1, OutcomeFields
  <2> QED
    BY <1>4, <2>1, <2>2 DEF Advances
<1>7. CASE TakeMissing(r)
  <2>1. Reports(r, gone, FALSE) /\ gone.status # "retrying"
    BY <1>5, <1>6, <1>7 DEF TakeMissing, SettledStatus
  <2> QED
    BY <1>2, <1>3, <1>6, <2>1, ReportsUnfailed
<1>8. CASE TakeUnusable(r)
  <2>1. SettleLater(r, gone, FALSE)
    BY <1>5, <1>8 DEF TakeUnusable
  <2> QED
    BY <1>2, <1>3, <1>6, <2>1, SettleLaterUnfailed
<1>9. PICK a : a = Attempted(r)
  OBVIOUS
<1>10. a \in DeliveryRecord /\ a.id = r.id /\ Counted(a)
  <2>1. /\ a \in DeliveryRecord /\ a.id = r.id /\ a.src = r.src
        /\ a.attempts = r.attempts + 1
    BY <1>2, <1>9, CountedType DEF Attempted, DeliveryRecord
  <2> QED
    BY <1>4, <2>1 DEF Counted
<1>11. CASE TakeRefused(r)
  <2>1. PICK final : final = Outcome(a, "blocked")
    OBVIOUS
  <2>2. SettleLater(r, final, FALSE)
    BY <1>9, <1>11, <2>1 DEF TakeRefused
  <2>3. /\ final \in DeliveryRecord /\ final.id = r.id /\ Advances(final)
        /\ final.status = "blocked"
    BY <1>10, <2>1, CountedAdvances
  <2>4. final.status \in SettledStatus
    BY <2>3 DEF SettledStatus
  <2> QED
    BY <1>2, <1>3, <2>2, <2>3, <2>4, SettleLaterUnfailed
<1>12. CASE TakeResolved(r)
  <2>1. /\ UNCHANGED <<deliveries, materials, spent>> /\ Owners' = Owners
        /\ worker'.pc = "send" /\ worker'.due \subseteq worker.due /\ worker'.job = a
        /\ r.id \in DOMAIN materials
    BY <1>2, <1>9, <1>12 DEF TakeResolved, Usable, Owners
  <2>2. Counted(worker.job)'
    BY <1>10, <2>1 DEF Counted
  <2>3. KeptInv'
    BY <1>2, <1>10, <2>1, <2>2 DEF UnfailedInv, KeptInv
  <2>4. LineageInv'
    <3>1. \A i : Children(i)' = Children(i)
      BY <2>1 DEF Children
    <3> QED
      BY <1>2, <2>1, <3>1 DEF UnfailedInv, LineageInv, DeadLetter
  <2>5. AttemptsInv' /\ EnqueueCap'
    BY <1>2, <2>1 DEF UnfailedInv, AttemptsInv, EnqueueCap
  <2>6. spent'.crashes = 0 => \A i \in ActiveIn(deliveries') : Covered(i)'
    BY <1>2, <2>1 DEF UnfailedInv, Covered
  <2>7. ContractStep
    BY <2>1, ViewUnchanged DEF ContractStep
  <2> QED
    BY <2>3, <2>4, <2>5, <2>6, <2>7 DEF UnfailedInv
<1> QED
  BY <1>1, <1>7, <1>8, <1>11, <1>12

\* The attempt is over.
LEMMA SendAnsweredUnfailed ==
  ASSUME IInv, QueueInv, Unfailed, SendAnswered, spent'.faults = 0
  PROVE  UnfailedInv' /\ ContractStep
<1>1. /\ worker.pc = "send" /\ UNCHANGED <<requests, issued>>
      /\ worker.job \in DeliveryRecord /\ worker.rule \in Rules \cup {None}
      /\ Counted(worker.job) /\ worker.job.id \in DOMAIN materials
  BY DEF SendAnswered, IInv, WorkerInv, Unfailed, UnfailedInv, KeptInv
<1>2. PICK j : j = worker.job
  OBVIOUS
<1>3. PICK p : p = Prepared
  OBVIOUS
<1>4. /\ p \in DeliveryRecord /\ p.id = j.id /\ p.src = j.src /\ p.attempts = j.attempts
  BY <1>1, <1>2, <1>3 DEF Prepared, DeliveryRecord
<1>5. Alone(j) /\ Alone(p)
  BY <1>1, <1>2, <1>4, JobUnderWay DEF Alone
<1>6. j \in DeliveryRecord /\ Counted(j) /\ Counted(p)
  BY <1>1, <1>2, <1>4 DEF Counted
<1>7. CASE SettleLater(p, Outcome(p, "succeeded"), TRUE)
  <2>1. PICK final : final = Outcome(p, "succeeded")
    OBVIOUS
  <2>2. /\ final \in DeliveryRecord /\ final.id = p.id /\ Advances(final)
        /\ final.status = "succeeded"
    BY <1>4, <1>6, <2>1, CountedAdvances
  <2>3. final.status \in SettledStatus
    BY <2>2 DEF SettledStatus
  <2> QED
    BY <1>1, <1>5, <1>7, <2>1, <2>2, <2>3, SettleLaterUnfailed
<1>8. CASE \E thrown \in BOOLEAN : Fails(p, thrown)
  BY <1>1, <1>2, <1>4, <1>5, <1>6, <1>8, FailsUnfailed
<1>9. CASE Fails(j, TRUE)
  BY <1>1, <1>2, <1>5, <1>6, <1>9, FailsUnfailed
<1> QED
  BY <1>2, <1>3, <1>7, <1>8, <1>9 DEF SendAnswered

\* The final receipt is written.
LEMMA SettleUnfailed ==
  ASSUME IInv, QueueInv, Unfailed, Settle, spent'.faults = 0
  PROVE  UnfailedInv' /\ ContractStep
<1>1. /\ worker.pc = "settle" /\ UNCHANGED <<requests, issued>> /\ worker.job \in DeliveryRecord
      /\ Advances(worker.job) /\ worker.job.status # "retrying"
  BY DEF Settle, IInv, WorkerInv, QueueInv, JobInv, SettledStatus, Unfailed, UnfailedInv, KeptInv
<1>2. PICK j : j = worker.job
  OBVIOUS
<1>3. Alone(j) /\ Reports(j, j, worker.caught)
  BY <1>1, <1>2, JobUnderWay DEF Settle, Reports, Alone
<1> QED
  BY <1>1, <1>2, <1>3, ReportsUnfailed

-----------------------------------------------------------------------------
(* The limits, the places and the contract. *)

\* Failed writes and crashes are not forgotten.
LEMMA SpentGrows ==
  ASSUME IInv, [Next]_vars
  PROVE  /\ spent'.faults \in Nat /\ spent.faults <= spent'.faults
         /\ spent.faults <= MaxFaults => spent'.faults <= MaxFaults
<1>1. spent \in [edits: Nat, crashes: Nat, faults: Nat]
  BY DEF IInv, EnvInv
<1>2. CASE UNCHANGED spent
  BY <1>1, <1>2
<1>3. ASSUME NEW r, NEW final, NEW caught, NEW then, WorkerWrites(r, final, caught, then)
      PROVE  /\ spent'.faults \in Nat /\ spent.faults <= spent'.faults
             /\ spent.faults <= MaxFaults => spent'.faults <= MaxFaults
  BY <1>1, <1>2, <1>3, DeliveryAssumption DEF WorkerWrites
<1>4. ASSUME NEW r, NEW final, NEW caught, SettleLater(r, final, caught)
      PROVE  /\ spent'.faults \in Nat /\ spent.faults <= spent'.faults
             /\ spent.faults <= MaxFaults => spent'.faults <= MaxFaults
  BY <1>3, <1>4 DEF SettleLater, Deletes, Reports
<1>5. ASSUME NEW r, NEW thrown, Fails(r, thrown)
      PROVE  /\ spent'.faults \in Nat /\ spent.faults <= spent'.faults
             /\ spent.faults <= MaxFaults => spent'.faults <= MaxFaults
  BY <1>3, <1>4, <1>5 DEF Fails, Retries, Exhausts, Reports
<1>6. CASE Work
  <2>1. CASE DrainStarts \/ DrainEnds
    BY <1>2, <2>1 DEF DrainStarts, DrainEnds, env
  <2>2. CASE Take
    BY <1>2, <1>3, <1>4, <2>2 DEF Take, TakeMissing, TakeUnusable, TakeRefused, TakeResolved, Reports
  <2>3. CASE SendAnswered
    BY <1>4, <1>5, <2>3 DEF SendAnswered
  <2>4. CASE Settle
    BY <1>3, <2>4 DEF Settle
  <2>5. CASE WorkerWriteFails
    BY <1>2, <1>5, <2>5 DEF WorkerWriteFails
  <2> QED
    BY <1>6, <2>1, <2>2, <2>3, <2>4, <2>5 DEF Work
<1>7. CASE Surroundings
  <2>1. CASE \E q \in requests : WriteFails(q)
    BY <1>1, <2>1, DeliveryAssumption DEF WriteFails
  <2>2. CASE \E d \in Dests, rule \in Rules \cup {None} : EditPolicy(d, rule)
    BY <1>1, <2>2 DEF EditPolicy
  <2>3. CASE Restart
    BY <1>1, <2>3 DEF Restart
  <2>4. CASE Tick
    BY <1>2, <2>4 DEF Tick, env
  <2> QED
    BY <1>7, <2>1, <2>2, <2>3, <2>4 DEF Surroundings
<1>8. CASE Call
  BY <1>2, <1>8 DEF Call, Deliver, Enqueue, Redrive, Acknowledge, RequestClear, Clear, env
<1>9. ASSUME NEW q \in requests, Continue(q)
      PROVE  UNCHANGED spent
  <2>1. ASSUME CanaryPasses(q) \/ ClearSaves(q)
        PROVE  UNCHANGED env
    BY <2>1 DEF CanaryPasses, ClearSaves
  <2> QED
    BY <1>9, <2>1 DEF Continue, StoreMaterial, StoreIdempotency, StartProcessing, RedriveQueues,
       DeliverAnswered, OperatorActionFails, env
<1>10. CASE TimerFires \/ (\E i \in DOMAIN deliveries : BackoffEnds(i)) \/ UNCHANGED vars
  BY <1>2, <1>10 DEF TimerFires, BackoffEnds, vars, env
<1> QED
  BY <1>2, <1>6, <1>7, <1>8, <1>9, <1>10 DEF Next

\* Without a failed write every step keeps what was said of the queue, and is a
\* step of the contract.
LEMMA StepUnfailed ==
  ASSUME IInv, QueueInv, Unfailed, [Next]_vars, spent'.faults = 0
  PROVE  UnfailedInv' /\ ContractStep
<1>1. CASE UNCHANGED vars
  BY <1>1, QuietSteps, QuietUnfailed
<1>2. CASE Call
  <2>1. CASE \E n \in DOMAIN incidents, op \in Operators :
               Acknowledge(n, op) \/ RequestClear(n, op) \/ Clear(n, op)
    BY <2>1, QuietSteps, QuietUnfailed
  <2> QED
    BY <1>2, <2>1, DeliverUnfailed, EnqueueUnfailed, RedriveUnfailed DEF Call
<1>3. ASSUME NEW q \in requests, Continue(q)
      PROVE  UnfailedInv' /\ ContractStep
  <2>1. CASE \/ StoreIdempotency(q) \/ StartProcessing(q) \/ CanaryPasses(q)
             \/ ClearSaves(q) \/ OperatorActionFails(q)
    BY <2>1, QuietSteps, QuietUnfailed
  <2>2. CASE \E status \in {"succeeded", "failed", "blocked"}, reached \in BOOLEAN :
               DeliverAnswered(q, status, reached)
    BY <2>2, DeliverAnsweredUnfailed
  <2> QED
    BY <1>3, <2>1, <2>2, StoreMaterialUnfailed, RedriveQueuesUnfailed DEF Continue
<1>4. CASE Work
  <2>1. CASE DrainEnds
    <3>1. /\ worker.pc = "next" /\ worker'.pc = "idle" /\ worker'.due = {}
          /\ UNCHANGED <<deliveries, materials, requests, spent>>
      BY <2>1 DEF DrainEnds, Idle, store, env
    <3> QED
      BY <3>1, IdleUnfailed
  <2>2. ~WorkerWriteFails
    BY DEF WorkerWriteFails, Unfailed, UnfailedInv, KeptInv
  <2> QED
    BY <1>4, <2>1, <2>2, DrainStartsUnfailed, TakeUnfailed, SendAnsweredUnfailed, SettleUnfailed
       DEF Work
<1>5. CASE TimerFires
  BY <1>5, QuietSteps, QuietUnfailed
<1>6. CASE \E i \in DOMAIN deliveries : BackoffEnds(i)
  BY <1>6, BackoffEndsUnfailed
<1>7. CASE Surroundings
  <2>1. CASE \/ \E d \in Dests, rule \in Rules \cup {None} : EditPolicy(d, rule)
             \/ \E q \in requests : WriteFails(q)
             \/ Tick
    BY <2>1, QuietSteps, QuietUnfailed
  <2> QED
    BY <1>7, <2>1, RestartUnfailed DEF Surroundings
<1> QED
  BY <1>1, <1>2, <1>3, <1>4, <1>5, <1>6, <1>7 DEF Next

\* No write of a handler or of the worker has failed so far.
NoWriteFailed == spent.faults = 0

\* At the start there is nothing to lose.
LEMMA InitFit == Init => FitInv
<1> SUFFICES ASSUME Init PROVE FitInv
  OBVIOUS
<1>1. /\ DOMAIN deliveries = {} /\ DOMAIN materials = {} /\ Owners = {}
      /\ worker.pc = "idle" /\ worker.due = {}
  BY DEF Init, Nothing, Owners, Idle
<1>2. ActiveIn(deliveries) = {}
  BY <1>1 DEF ActiveIn
<1>3. EnqueueCap
  <2>1. Callers = {} /\ Cardinality({}) = 0
    BY <1>2, FS_EmptySet DEF Callers
  <2>2. Cardinality(Callers) <= MaxActive
    BY <2>1, DeliveryAssumption
  <2> QED
    BY <2>2 DEF EnqueueCap, Callers
<1> QED
  BY <1>1, <1>2, <1>3 DEF FitInv, Ranked, UnfailedInv, KeptInv, LineageInv, AttemptsInv

\* Every step keeps the places and, until a write fails, the rest.
LEMMA StepFit ==
  IInv /\ QueueInv /\ FitInv /\ [Next]_vars =>
    FitInv' /\ (Fits /\ NoWriteFailed' => ContractStep)
<1> SUFFICES ASSUME IInv, QueueInv, FitInv, [Next]_vars
             PROVE  FitInv' /\ (Fits /\ NoWriteFailed' => ContractStep)
  OBVIOUS
<1>1. Fits => Ranked(deliveries')
  BY StepQueue DEF FitInv, PlaceStep
<1>2. ASSUME Fits, spent'.faults = 0
      PROVE  UnfailedInv' /\ ContractStep
  <2>1. spent.faults = 0
    <3>1. spent.faults \in Nat /\ spent.faults <= spent'.faults
      BY SpentGrows DEF IInv, EnvInv
    <3> QED
      BY <1>2, <3>1
  <2>2. Unfailed
    BY <1>2, <2>1 DEF Unfailed, FitInv
  <2> QED
    BY <1>2, <2>2, StepUnfailed
<1> QED
  BY <1>1, <1>2 DEF FitInv, Fits, NoWriteFailed

\* Places, lineage, attempts and limits, in every behaviour of the service.
THEOREM FitInvariance == Spec => []FitInv
  BY Invariance, QueueInvariance, InitFit, StepFit, PTL DEF Spec

\* While receipts fit the list and no write fails, the deliveries callers enqueued
\* never exceed the tenant's limit, however redrives and retries interleave.
THEOREM CallersKeepToTheLimit == Spec => [](Fits /\ NoWriteFailed => EnqueueCap)
<1>1. FitInv => (Fits /\ NoWriteFailed => EnqueueCap)
  BY DEF FitInv, NoWriteFailed, UnfailedInv
<1> QED
  BY <1>1, FitInvariance, PTL

\* Nor does any interleaving leave a receipt that holds a place for ever, until the
\* process dies: its payload is stored, or about to be, or its end is being written.
THEOREM ActiveDeliveriesCanEnd ==
  Spec => [](Fits /\ NoWriteFailed /\ spent.crashes = 0 => NoOrphanActive)
<1>1. FitInv => (Fits /\ NoWriteFailed /\ spent.crashes = 0 => NoOrphanActive)
  BY DEF FitInv, NoWriteFailed, UnfailedInv, Covered, NoOrphanActive, Owners
<1> QED
  BY <1>1, FitInvariance, PTL

\* The initial state of the queue is the contract's.
LEMMA InitContract == Init => Contract!Init
<1> SUFFICES ASSUME Init PROVE Contract!Init
  OBVIOUS
<1>1. DOMAIN deliveries = {}
  BY DEF Init, Nothing
<1> QED
  BY <1>1 DEF Contract!Init, Seen

\* As long as receipts fit the list and no write fails, the queue implements its
\* contract: sends and redrives are counted and bounded, a receipt settles once, and
\* only a dead letter is redriven.
THEOREM QueueKeepsContract ==
  ASSUME Fits
  PROVE  Spec /\ []NoWriteFailed => ImplementsContract
<1>1. IInv /\ QueueInv /\ FitInv /\ NoWriteFailed' /\ [Next]_vars => [Contract!Next]_(Contract!view)
  BY StepFit DEF ContractStep
<1>2. Spec => []IInv /\ []QueueInv /\ []FitInv
  BY Invariance, QueueInvariance, FitInvariance
<1> QED
  BY <1>1, <1>2, InitContract, PTL DEF Spec, ImplementsContract, Contract!Spec

=============================================================================
