------------------------------ MODULE AuditLog ------------------------------
(***************************************************************************)
(* The audit log of one tenant: a bounded list of events that each carry   *)
(* the hash of the one before, the windows cut from it for summaries and   *)
(* exports, and the debounced file it is restored from                     *)
(* (src/service/security/audit-log.ts).                                    *)
(*                                                                         *)
(* SHA-256 is taken to be injective: a chain hash is the sequence of the   *)
(* events hashed into it, from the event the chain begins with.  Events    *)
(* are numbered in the order they are recorded.  The file holds whole      *)
(* events, but only what is not part of the chain is read back.            *)
(***************************************************************************)
EXTENDS Naturals, Sequences, FiniteSets, Sublists

CONSTANTS
  AuditLimits,     \* limits a process may be started with, maxEventsPerTenant
  MaxEvents,       \* bounds of the model: events recorded,
  MaxAuditTime,    \* ticks,
  MaxSetBacks,     \* times the system's clock is set back,
  MaxAuditWaiting, \* writes waiting for the one under way,
  MaxReloads       \* restarts

ASSUME AuditAssumption ==
  /\ AuditLimits \subseteq Nat \ {0} /\ AuditLimits # {}
  /\ {MaxEvents, MaxAuditTime, MaxSetBacks, MaxAuditWaiting, MaxReloads} \subseteq Nat

VARIABLES
  bucket,       \* the tenant's events, the oldest first
  limit,        \* the limit of this process
  recorded,     \* events recorded so far, the last one's number
  auditTimer, auditWaiting, auditWriting, auditSaved,   \* debounce, chain and file
  trimmed,      \* the list was cut when it was read back, and not chained anew since
  auditClock, setBacks, reloads

auditVars == <<bucket, limit, recorded, auditTimer, auditWaiting, auditWriting, auditSaved,
               trimmed, auditClock, setBacks, reloads>>
auditFile == <<auditTimer, auditWaiting, auditWriting, auditSaved>>

Base(event) == [id |-> event.id, time |-> event.time]
Latest(n, events) ==   \* slice(-n)
  IF Len(events) > n THEN SubSeq(events, Len(events) - n + 1, Len(events)) ELSE events

AuditInit ==
  /\ bucket = <<>>
  /\ limit \in AuditLimits
  /\ recorded = 0
  /\ auditTimer = FALSE /\ auditWaiting = 0 /\ auditWriting = <<>> /\ auditSaved = <<>>
  /\ trimmed = FALSE
  /\ auditClock = 0
  /\ setBacks = 0
  /\ reloads = 0

\* computeEventChainHash covers the event, its number and the hash before it.
Linked(event, seq, prev) ==
  [id |-> event.id, time |-> event.time, seq |-> seq, prev |-> prev,
   hash |-> Append(prev, event.id)]

\* Mutant: of equal timestamps the last comes first.
ByTimeUnstably(events) ==
  Ordered(events, {p \in (1..Len(events)) \X (1..Len(events)) :
                     \/ events[p[1]].time < events[p[2]].time
                     \/ events[p[1]].time = events[p[2]].time /\ p[1] > p[2]})

\* attachChain sorts by timestamp, keeping the order of equal ones, and numbers
\* and hashes the whole list from 1.
ByTime(events) ==
  Ordered(events, {p \in (1..Len(events)) \X (1..Len(events)) :
                     \/ events[p[1]].time < events[p[2]].time
                     \/ events[p[1]].time = events[p[2]].time /\ p[1] < p[2]})

AttachChain(events) ==
  LET sorted == ByTime(events)
      Ids(n) == [i \in 1..n |-> sorted[i].id]
  IN  [i \in 1..Len(sorted) |-> Linked(sorted[i], i, Ids(i - 1))]

Linking(event) ==
  IF bucket = <<>> THEN Linked(event, 1, <<>>)
  ELSE LET previous == bucket[Len(bucket)]
       IN  Linked(event, previous.seq + 1, previous.hash)

Overflows == Len(bucket) >= limit

\* Mutant: what is left keeps the hashes it had.
RecordUnchained ==
  LET event == [id |-> recorded + 1, time |-> auditClock]
  IN  /\ recorded < MaxEvents
      /\ recorded' = recorded + 1
      /\ bucket' = Latest(limit, Append(bucket, Linking(event)))
      /\ trimmed' = (trimmed /\ ~Overflows)
      /\ auditTimer' = TRUE
      /\ UNCHANGED <<limit, auditWaiting, auditWriting, auditSaved, auditClock, setBacks, reloads>>

\* record: what falls off takes the chain with it, the rest is chained anew.
Record ==
  LET event    == [id |-> recorded + 1, time |-> auditClock]
      extended == Append(bucket, Linking(event))
  IN  /\ recorded < MaxEvents
      /\ recorded' = recorded + 1
      /\ bucket' = IF Overflows THEN AttachChain(Latest(limit, extended)) ELSE extended
      /\ trimmed' = (trimmed /\ ~Overflows)
      /\ auditTimer' = TRUE
      /\ UNCHANGED <<limit, auditWaiting, auditWriting, auditSaved, auditClock, setBacks, reloads>>

-----------------------------------------------------------------------------
(* The file, written a debounce after the last event. *)

AuditTimerFires ==
  /\ auditTimer /\ auditWaiting < MaxAuditWaiting
  /\ auditTimer' = FALSE
  /\ auditWaiting' = auditWaiting + 1
  /\ UNCHANGED <<bucket, limit, recorded, auditWriting, auditSaved, trimmed, auditClock, setBacks,
                 reloads>>

AuditWriteBegins ==
  /\ auditWaiting > 0 /\ auditWriting = <<>>
  /\ auditWaiting' = auditWaiting - 1
  /\ auditWriting' = <<[i \in 1..Len(bucket) |-> Base(bucket[i])]>>
  /\ UNCHANGED <<bucket, limit, recorded, auditTimer, auditSaved, trimmed, auditClock, setBacks,
                 reloads>>

AuditWriteEnds ==
  /\ auditWriting # <<>>
  /\ auditSaved' = auditWriting[1]
  /\ auditWriting' = <<>>
  /\ UNCHANGED <<bucket, limit, recorded, auditTimer, auditWaiting, trimmed, auditClock, setBacks,
                 reloads>>

\* The process stops and another starts, perhaps with another limit: it chains
\* everything it reads and then cuts the list.
Reload ==
  /\ reloads < MaxReloads
  /\ reloads' = reloads + 1
  /\ limit' \in AuditLimits
  /\ bucket' = Latest(limit', AttachChain(auditSaved))
  /\ trimmed' = (Len(auditSaved) > limit')
  /\ auditTimer' = FALSE /\ auditWaiting' = 0 /\ auditWriting' = <<>>
  /\ UNCHANGED <<recorded, auditSaved, auditClock, setBacks>>

AuditTick ==
  /\ auditClock < MaxAuditTime
  /\ auditClock' = auditClock + 1
  /\ UNCHANGED <<bucket, limit, recorded, trimmed, setBacks, reloads>> /\ UNCHANGED auditFile

ClockSetBack ==
  /\ setBacks < MaxSetBacks /\ auditClock > 0
  /\ setBacks' = setBacks + 1
  /\ auditClock' \in 0..(auditClock - 1)
  /\ UNCHANGED <<bucket, limit, recorded, trimmed, reloads>> /\ UNCHANGED auditFile

AuditNext ==
  \/ Record
  \/ AuditTimerFires \/ AuditWriteBegins \/ AuditWriteEnds
  \/ Reload
  \/ AuditTick \/ ClockSetBack

AuditSpec == AuditInit /\ [][AuditNext]_auditVars

-----------------------------------------------------------------------------
(* What readers get. *)

\* selectWindow: the events after since, and of those the newest n, together with
\* the hash of the event before the first of them.
SelectWindow(since, n) ==
  LET late  == {i \in 1..Len(bucket) : bucket[i].time > since}
      start == IF late = {} THEN Len(bucket) + 1 ELSE CHOOSE i \in late : \A j \in late : i <= j
      matching == IF since = 0 THEN bucket ELSE SubSeq(bucket, start, Len(bucket))
      events   == Latest(n, matching)
      first    == Len(bucket) - Len(events) + 1
  IN  [events |-> events,
       anchor |-> IF events # <<>> /\ first > 1 THEN bucket[first - 1].hash ELSE <<>>]

\* verifySecurityAuditIntegrity on a bundle that nobody has touched.
Verified(w) ==
  \A i \in 1..Len(w.events) :
    LET before == IF i = 1 THEN w.anchor ELSE w.events[i - 1].hash
    IN  w.events[i].prev = before /\ w.events[i].hash = Append(before, w.events[i].id)

-----------------------------------------------------------------------------
(* What should hold. *)

\* The shapes of the variables.
AuditTypeOK ==
  LET Ids   == 1..MaxEvents
      Times == 0..MaxAuditTime
      IsBase(events) == events \in Seq([id : Ids, time : Times])
  IN  /\ \A i \in 1..Len(bucket) :
           /\ Base(bucket[i]) \in [id : Ids, time : Times]
           /\ bucket[i].seq \in Ids
           /\ {bucket[i].prev, bucket[i].hash} \subseteq Seq(Ids)
      /\ limit \in AuditLimits /\ recorded \in 0..MaxEvents
      /\ auditTimer \in BOOLEAN /\ auditWaiting \in 0..MaxAuditWaiting
      /\ IsBase(auditSaved)
      /\ auditWriting # <<>> => Len(auditWriting) = 1 /\ IsBase(auditWriting[1])
      /\ trimmed \in BOOLEAN
      /\ auditClock \in Times /\ setBacks \in 0..MaxSetBacks /\ reloads \in 0..MaxReloads

\* Whatever window is cut, it verifies against its anchor, after overflows,
\* restarts and steps of the clock.  A list that was cut when it was read back
\* has lost the hash its first event refers to: until the next overflow windows
\* that reach back to that event do not verify.
WindowsVerify ==
  \A since \in 0..MaxAuditTime, n \in 1..limit :
    LET w == SelectWindow(since, n)
    IN  Verified(w) <=> ~(trimmed /\ w.anchor = <<>> /\ w.events # <<>>)

\* Two exports agree on the hash of an event both contain if their chains begin
\* with the same event, whatever was recorded, saved, lost and read back between
\* them; while the clock only goes forward nothing else can part them.
Origin(events) == IF events = <<>> THEN 0 ELSE events[1].hash[1]

SameOriginSameHashes ==
  [][setBacks = 0 /\ Origin(bucket') = Origin(bucket) =>
       \A i \in 1..Len(bucket), j \in 1..Len(bucket') :
         bucket[i].id = bucket'[j].id => bucket[i] = bucket'[j]]_auditVars

\* While the clock only goes forward the log keeps the latest events without a
\* gap: what a restart may lose is the end of the list, before what is recorded
\* after it.
Lost == recorded - Len(bucket)
KeepsTheLatest ==
  setBacks = 0 =>
    /\ \A i \in 1..(Len(bucket) - 1) : bucket[i].id < bucket[i + 1].id
    /\ reloads = 0 => \A i \in 1..Len(bucket) : bucket[i].id = Lost + i
    /\ Len(bucket) <= limit

\* What the log shows is whole: windows verify, and no event is missing from within.
AuditTrailHolds == WindowsVerify /\ KeepsTheLatest
=============================================================================
