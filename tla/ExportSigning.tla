---------------------------- MODULE ExportSigning ----------------------------
(***************************************************************************)
(* Signing keys of security exports (src/service/security/export-signing). *)
(* Several instances of the service share one store file.  An instance     *)
(* works on a copy in memory, reads the file again when its mtime moved,   *)
(* and changes it only inside a mutex: a lock file created exclusively,    *)
(* which any waiter may remove when it looks abandoned.  The code is       *)
(* synchronous, so an instance does one thing at a time, but another       *)
(* instance may run between any two of its calls to the file system: the   *)
(* steps below end at those calls.                                         *)
(*                                                                         *)
(* Keys are numbered as they are generated; inside one file that is the    *)
(* order of activated_at and of deactivated_at.  `retired' is              *)
(* deactivated_at, 0 while the key is active.                              *)
(***************************************************************************)
EXTENDS Naturals, FiniteSets

CONSTANTS
  Instances, NoOne,
  Policies, DefaultPolicy,
  MaxVerifyKeys, LeaseTtl,
  StaleAfter,     \* age at which a waiter takes the lock file for abandoned
  \* Bounds of the model.
  MaxKeys, MaxClock, MaxDemands, MaxMishaps

Policy == [auto: BOOLEAN, rotate: Nat, expire: Nat, retain: Nat]

\* normalizeLifecyclePolicy: no period is zero and a key expires after its rotation is
\* due.  withStoreMutation: a lock file is not stale before the TTL of the lease.
ASSUME SigningAssumption ==
  /\ NoOne \notin Instances
  /\ Policies \subseteq Policy /\ DefaultPolicy \in Policies
  /\ \A p \in Policies : p.rotate > 0 /\ p.retain > 0 /\ p.expire > p.rotate
  /\ {MaxVerifyKeys, LeaseTtl} \subseteq Nat \ {0}
  /\ StaleAfter \in Nat /\ StaleAfter >= LeaseTtl
  /\ {MaxKeys, MaxClock, MaxDemands, MaxMishaps} \subseteq Nat

VARIABLES
  file,        \* the store file
  written,     \* when it was last written, 0 while there is none
  lock,        \* the lock file, or Free; owner is who created it, which the code never reads
  mem,         \* each instance's copy
  fresh,       \* the mtime an instance remembers is the file's
  pc, task,
  clock,
  generated,   \* keys generated and kept so far
  stored,      \* history: keys that have been in the file
  signed,      \* history: keys that have signed
  trespassed,  \* history: a lock was removed while the instance it belongs to was inside
  demands, crashes, faults

locals == <<mem, fresh, pc, task>>
shared == <<file, written, stored>>
counts == <<demands, crashes, faults>>
signingVars == <<shared, lock, locals, clock, generated, signed, trespassed, counts>>

Key   == [id: Nat, born: Nat, retired: Nat]
Lease == [holder: Instances, until: Nat]
NoLease == [holder |-> NoOne, until |-> 0]
Store == [keys: SUBSET Key, policy: Policies, lease: Lease \cup {NoLease}]

Blank == [keys |-> {}, policy |-> DefaultPolicy, lease |-> NoLease]
Free  == [owner |-> NoOne, since |-> 0]

Trigger == {"startup", "timer", "sign", "read", "run", "rotate", "policy", "failed", "aborted"}
Task    == [op: Trigger, at: Nat \ {0}, changing: BOOLEAN, policy: Policies]
NoTask  == [op |-> "read", at |-> 1, changing |-> FALSE, policy |-> DefaultPolicy]

SigningInit ==
  /\ file = Blank /\ written = 0 /\ stored = {}
  /\ lock = Free
  /\ mem = [i \in Instances |-> Blank]
  /\ fresh = [i \in Instances |-> FALSE]
  /\ pc = [i \in Instances |-> "down"]
  /\ task = [i \in Instances |-> NoTask]
  /\ clock = 1
  /\ generated = 0
  /\ signed = {}
  /\ trespassed = FALSE
  /\ demands = 0 /\ crashes = 0 /\ faults = 0

-----------------------------------------------------------------------------
(* Keys.                                                                   *)

NewKey(at) == [id |-> generated + 1, born |-> at, retired |-> 0]

Active(keys) == {k \in keys : k.retired = 0}

Newest(keys) == {k \in keys : \A j \in keys : j.id <= k.id}

Retire(k, at) == IF k.retired = 0 THEN [k EXCEPT !.retired = at] ELSE k

\* normalizeKeysInPlace: the newest key is the active one, every other is retired.
Normalised(keys, at) ==
  IF keys = {}
    THEN {NewKey(at)}
    ELSE {[k EXCEPT !.retired = 0] : k \in Newest(keys)}
           \cup {Retire(k, at) : k \in keys \ Newest(keys)}

RetainedFromBirth(keys, policy, at) ==
  {k \in keys \ Active(keys) : at < k.born + policy.retain}

Retained(keys, policy, at) ==
  {k \in keys \ Active(keys) : at < k.retired + policy.retain}

\* pruneVerifyOnlyKeysInPlace.
Pruned(keys, policy, at) ==
  LET kept == Retained(keys, policy, at)
  IN Active(keys) \cup {k \in kept : Cardinality({j \in kept : j.id > k.id}) < MaxVerifyKeys}

RotatedTwoActive(keys, policy, at) == Pruned({NewKey(at)} \cup keys, policy, at)

\* rotateKeysInPlace, rotateKeysOnCopy.
Rotated(keys, policy, at) ==
  Pruned({NewKey(at)} \cup {Retire(k, at) : k \in keys}, policy, at)

\* rotation_due of buildKeyLifecycle; an expired key is always due.
Due(keys, policy, at) == \E k \in Active(keys) : at >= k.born + policy.rotate

\* signDetachedText refuses an expired key.
Expired(k, policy, at) == at >= k.born + policy.expire

\* nextKeys of computeMaintenancePreview.
Maintained(store, allowRotate, at) ==
  LET keys == Normalised(store.keys, at)
  IN IF allowRotate /\ store.policy.auto /\ Due(keys, store.policy, at)
       THEN Rotated(keys, store.policy, at)
       ELSE Pruned(keys, store.policy, at)

AllowsRotation(op) == op # "read"

-----------------------------------------------------------------------------
(* An instance's copy of the store.                                        *)

FileExists == written > 0

ReloadIfMoved(i) == IF FileExists /\ ~fresh[i] THEN file ELSE mem[i]

\* syncFromDisk(true): a file that is missing changes nothing.
Reload(i) == IF FileExists THEN file ELSE mem[i]

\* syncFromDisk().
Refresh(i) == IF fresh[i] THEN mem[i] ELSE Reload(i)

LookedAndApplied(i, op) ==
  [Refresh(i) EXCEPT !.keys = Maintained(Refresh(i), AllowsRotation(op), clock)]

\* What an instance holds after it looked whether maintenance is needed: the keys of
\* that preview are dropped.
Looked(i, op) == Refresh(i)

Hold(i, store) == mem' = [mem EXCEPT ![i] = store]

MarkRead(i) == fresh' = [fresh EXCEPT ![i] = FileExists]

Continue(i, where) == pc' = [pc EXCEPT ![i] = where]

\* The signature at the end of signDetachedText.
Sign(keys, policy, at) ==
  signed' = signed \cup {k.id : k \in {a \in Active(keys) : ~Expired(a, policy, at)}}

-----------------------------------------------------------------------------
(* Requests, the maintenance timer and the start of an instance.           *)

\* runMaintenance up to the mutex, with what its callers did before and, when there
\* is nothing to change, what they do after.
Consider(i, op) ==
  LET store   == Refresh(i)
      changes == Maintained(store, AllowsRotation(op), clock) # store.keys
  IN
  /\ Hold(i, Looked(i, op))
  /\ MarkRead(i)
  /\ IF changes \/ op = "run"
       THEN /\ task' = [task EXCEPT ![i] = [op |-> op, at |-> clock, changing |-> changes,
                                             policy |-> DefaultPolicy]]
            /\ Continue(i, "waiting")
            /\ UNCHANGED signed
       ELSE /\ task' = [task EXCEPT ![i] = NoTask]
            /\ Continue(i, "idle")
            /\ IF op = "sign" THEN Sign(store.keys, store.policy, clock) ELSE UNCHANGED signed
  /\ UNCHANGED <<shared, lock, clock, generated, trespassed, crashes, faults>>

\* Requests of admins, which are bounded.
Demanded == demands < MaxDemands /\ demands' = demands + 1

\* The constructor: a blank copy, then the file, then ensureActiveKeySync.
Boot(i) == pc[i] = "down" /\ Consider(i, "startup") /\ UNCHANGED demands

\* signDetachedText, the timer, the listings and verification.
Ask(i, op) == pc[i] = "idle" /\ Consider(i, op) /\ UNCHANGED demands

\* runMaintenanceNow.
AskRun(i) == pc[i] = "idle" /\ Demanded /\ Consider(i, "run")

\* getLifecyclePolicy, getMaintenanceState, a dry run.
Look(i) ==
  /\ pc[i] = "idle"
  /\ Hold(i, Refresh(i))
  /\ MarkRead(i)
  /\ UNCHANGED <<shared, lock, pc, task, clock, generated, signed, trespassed, counts>>

\* rotate and updateLifecyclePolicy, which go to the mutex at once.
Demand(i, op, p) ==
  /\ pc[i] = "idle"
  /\ Demanded
  /\ task' = [task EXCEPT ![i] = [op |-> op, at |-> clock, changing |-> TRUE, policy |-> p]]
  /\ Continue(i, "waiting")
  /\ UNCHANGED <<shared, lock, mem, fresh, clock, generated, signed, trespassed, crashes, faults>>

\* rotate answers with getActiveKeySummary, updateLifecyclePolicy with getLifecyclePolicy.
Answer(i) ==
  /\ pc[i] = "answering"
  /\ IF task[i].op = "rotate"
       THEN Consider(i, "read") /\ UNCHANGED demands
       ELSE /\ Hold(i, Refresh(i))
            /\ MarkRead(i)
            /\ task' = [task EXCEPT ![i] = NoTask]
            /\ Continue(i, "idle")
            /\ UNCHANGED <<shared, lock, clock, generated, signed, trespassed, counts>>

-----------------------------------------------------------------------------
(* The mutex: withFileMutexSync.                                           *)

Inside(i) == pc[i] \in {"locked", "writing", "releasing"}

Removes(i) ==
  /\ lock' = Free
  /\ trespassed' = (trespassed \/ \E j \in Instances \ {i} : lock.owner = j /\ Inside(j))

\* openSync(lockPath, 'wx').
OpenLock(i) ==
  /\ pc[i] = "waiting"
  /\ lock = Free
  /\ lock' = [owner |-> i, since |-> clock]
  /\ Continue(i, "locked")
  /\ UNCHANGED <<shared, mem, fresh, task, clock, generated, signed, trespassed, counts>>

\* The age of an existing lock file is looked at after the open failed.
Abandoned == clock - lock.since > StaleAfter

NoticeBusy(i) ==
  /\ pc[i] = "waiting"
  /\ lock # Free /\ ~Abandoned
  /\ Continue(i, "late")
  /\ UNCHANGED <<shared, lock, mem, fresh, task, clock, generated, signed, trespassed, counts>>

NoticeAbandoned(i) ==
  /\ pc[i] = "waiting"
  /\ lock # Free /\ Abandoned
  /\ Continue(i, "breaking")
  /\ UNCHANGED <<shared, lock, mem, fresh, task, clock, generated, signed, trespassed, counts>>

\* Whatever lock file is there by then is removed.
BreakLock(i) ==
  /\ pc[i] = "breaking"
  /\ Removes(i)
  /\ Continue(i, "late")
  /\ UNCHANGED <<shared, mem, fresh, task, clock, generated, signed, counts>>

\* What a task does when it is done with the mutex, or could not have it.
Finish(i, wasInside) ==
  LET op == task[i].op IN
  /\ Continue(i, IF wasInside /\ op \in {"rotate", "policy"} THEN "answering" ELSE "idle")
  /\ task' = [task EXCEPT ![i] = IF wasInside /\ op \in {"rotate", "policy"} THEN @ ELSE NoTask]
  /\ IF op = "sign" THEN Sign(mem[i].keys, mem[i].policy, task[i].at) ELSE UNCHANGED signed

\* The deadline passes: mutex_unavailable, after which the caller goes on with the
\* copy it has, or store_busy.
GiveUp(i) ==
  /\ pc[i] = "late"
  /\ Finish(i, FALSE)
  /\ UNCHANGED <<shared, lock, mem, fresh, clock, generated, trespassed, counts>>

\* Or it has not passed and the open is tried again.
TryAgain(i) ==
  /\ pc[i] = "late"
  /\ Continue(i, "waiting")
  /\ UNCHANGED <<shared, lock, mem, fresh, task, clock, generated, signed, trespassed, counts>>

-----------------------------------------------------------------------------
(* Inside the mutex.  Every task reads the file again first.               *)

LeaseIgnored(store, i, at) == FALSE

\* getActiveLease names another instance.
LeaseElsewhere(store, i, at) == store.lease.until > at /\ store.lease.holder # i

Leased(store, i, at) == [store EXCEPT !.lease = [holder |-> i, until |-> at + LeaseTtl]]

\* Whether the task was found worth a run of maintenance, which needs the lease;
\* an admin's run that changes nothing is only noted in the history.
Maintains(i) == task[i].op \notin {"rotate", "policy"} /\ task[i].changing

Refuse(i) ==
  LET store == Reload(i) IN
  /\ pc[i] = "locked"
  /\ Maintains(i)
  /\ LeaseElsewhere(store, i, task[i].at)
  /\ Hold(i, store) /\ MarkRead(i)
  /\ Continue(i, "releasing")
  /\ UNCHANGED <<shared, lock, task, clock, generated, signed, trespassed, counts>>

\* The copy the instance is about to write, made from the file as it is now.
Prepare(i, store, keys) ==
  LET isNew == \E k \in keys : k.id > generated IN
  /\ isNew => generated < MaxKeys
  /\ generated' = IF isNew THEN generated + 1 ELSE generated
  /\ Hold(i, [store EXCEPT !.keys = keys])
  /\ MarkRead(i)
  /\ UNCHANGED <<shared, lock, task, clock, signed, trespassed, counts>>

Maintain(i) ==
  LET store == Reload(i)
      at    == task[i].at
      keys  == Maintained(store, AllowsRotation(task[i].op), at)
  IN
  /\ pc[i] = "locked"
  /\ Maintains(i)
  /\ ~LeaseElsewhere(store, i, at)
  /\ Prepare(i, Leased(store, i, at), keys)
  /\ Continue(i, IF keys # store.keys \/ task[i].op = "run" THEN "writing" ELSE "releasing")

\* rotate, updateLifecyclePolicy (which maintains the keys under the new policy), and
\* the note of a run that had nothing to do: none of them asks for the lease.
Change(i) ==
  LET store == Reload(i)
      next  == [store EXCEPT !.policy = task[i].policy]
  IN
  /\ pc[i] = "locked"
  /\ ~Maintains(i)
  /\ CASE task[i].op = "rotate" -> Prepare(i, store, Rotated(store.keys, store.policy, clock))
       [] task[i].op = "policy" -> Prepare(i, next, Maintained(next, TRUE, clock))
       [] OTHER                 -> Prepare(i, store, store.keys)
  /\ Continue(i, "writing")

\* persistSync.  Two writes within the resolution of mtime leave the same one.
Write(i) ==
  /\ pc[i] = "writing"
  /\ file' = mem[i]
  /\ written' = clock
  /\ stored' = stored \cup {k.id : k \in mem[i].keys}
  /\ \E moved \in {written # clock, TRUE} :
       fresh' = [j \in Instances |-> j = i \/ (fresh[j] /\ ~moved)]
  /\ Continue(i, "releasing")
  /\ UNCHANGED <<lock, mem, task, clock, generated, signed, trespassed, counts>>

\* The write throws (a full disk): the copy in memory stays as it was prepared, and
\* the request fails, or the instance does not start.
WriteFails(i) ==
  /\ pc[i] = "writing"
  /\ crashes + faults < MaxMishaps
  /\ faults' = faults + 1
  /\ task' = [task EXCEPT ![i].op = IF @ = "startup" THEN "aborted" ELSE "failed"]
  /\ Continue(i, "releasing")
  /\ UNCHANGED <<shared, lock, mem, fresh, clock, generated, signed, trespassed, demands, crashes>>

Release(i) ==
  /\ pc[i] = "releasing" /\ task[i].op # "aborted"
  /\ Removes(i)
  /\ Finish(i, TRUE)
  /\ UNCHANGED <<shared, mem, fresh, clock, generated, counts>>

Exit(i) ==
  /\ mem' = [mem EXCEPT ![i] = Blank]
  /\ fresh' = [fresh EXCEPT ![i] = FALSE]
  /\ task' = [task EXCEPT ![i] = NoTask]
  /\ Continue(i, "down")

\* The constructor threw while the module was loaded.
Abort(i) ==
  /\ pc[i] = "releasing" /\ task[i].op = "aborted"
  /\ Removes(i)
  /\ Exit(i)
  /\ UNCHANGED <<shared, clock, generated, signed, counts>>

-----------------------------------------------------------------------------

\* The process dies anywhere; a lock file it created stays.
Crash(i) ==
  /\ pc[i] # "down"
  /\ crashes + faults < MaxMishaps
  /\ crashes' = crashes + 1
  /\ Exit(i)
  /\ UNCHANGED <<shared, lock, clock, generated, signed, trespassed, demands, faults>>

Tick ==
  /\ clock < MaxClock
  /\ clock' = clock + 1
  /\ UNCHANGED <<shared, lock, locals, generated, signed, trespassed, counts>>

Serves(i) ==
  \/ Boot(i)
  \/ \E op \in {"timer", "sign", "read"} : Ask(i, op)
  \/ AskRun(i)
  \/ Look(i)
  \/ Demand(i, "rotate", DefaultPolicy)
  \/ \E p \in Policies : Demand(i, "policy", p)
  \/ Answer(i)

Locks(i) ==
  \/ OpenLock(i) \/ NoticeBusy(i) \/ NoticeAbandoned(i) \/ BreakLock(i)
  \/ GiveUp(i) \/ TryAgain(i) \/ Release(i) \/ Abort(i)

Works(i) == Refuse(i) \/ Maintain(i) \/ Change(i) \/ Write(i) \/ WriteFails(i)

SigningNext == Tick \/ \E i \in Instances : Serves(i) \/ Locks(i) \/ Works(i) \/ Crash(i)

SigningSpec == SigningInit /\ [][SigningNext]_signingVars

-----------------------------------------------------------------------------
(* Properties.                                                             *)

\* The newest key of a store is its only active one.
WellKept(keys) ==
  keys = {} \/ \E a \in Active(keys) : \A k \in keys \ {a} : k.retired # 0 /\ k.id < a.id

SigningTypeOK ==
  /\ file \in Store
  /\ mem \in [Instances -> Store]
  /\ lock \in [owner: Instances, since: Nat] \cup {Free}
  /\ fresh \in [Instances -> BOOLEAN]
  /\ pc \in [Instances -> {"down", "idle", "waiting", "late", "breaking", "locked", "writing",
                           "releasing", "answering"}]
  /\ task \in [Instances -> Task]
  /\ {written, generated, demands, crashes, faults} \subseteq Nat /\ clock \in Nat \ {0}
  /\ stored \subseteq 1 .. generated /\ signed \subseteq 1 .. generated
  /\ trespassed \in BOOLEAN
  /\ \A store \in {file} \cup {mem[i] : i \in Instances} :
       WellKept(store.keys) /\ \A k \in store.keys : k.id \in 1 .. generated

\* While no write has failed, an instance signs with keys that are, or have been, in the
\* shared file, so that any instance can verify what any other signed (decisions.md:301).
SignedKeyWasStored == faults = 0 => signed \subseteq stored

\* Instances that find the same key due do not rotate it twice: the active key of the
\* file is replaced when the policy of the file says so, or an admin does, however the
\* instance's own copy had aged.
RotatesOnlyWhenDue ==
  [][ ~trespassed /\ FileExists /\ Active(file'.keys) # Active(file.keys)
      => \/ file'.policy.auto /\ Due(file.keys, file'.policy, clock)
         \/ \E i \in Instances : pc[i] = "writing" /\ task[i].op = "rotate" ]_signingVars

\* A key leaves the file when it has been retained as long as the policy asks or when
\* MaxVerifyKeys were retired after it (README.md:334): no change made by another
\* instance meanwhile is written over.
KeysLeaveByPruning ==
  [][ ~trespassed => \A k \in file.keys :
        \/ \E l \in file'.keys : l.id = k.id
        \/ k.retired # 0 /\ clock >= k.retired + file'.policy.retain
        \/ Cardinality({l \in file'.keys : l.id > k.id /\ l.retired # 0}) >= MaxVerifyKeys
    ]_signingVars

\* While another instance holds the lease no maintenance of this one changes the keys,
\* not even one that was begun before the lease was taken (decisions.md:302).
OnlyTheLeaderMaintains ==
  [][ ~trespassed => \A i \in Instances :
        /\ pc[i] = "writing" /\ Maintains(i)
        /\ file.lease.until > clock /\ file.lease.holder # i
        => file'.keys = file.keys ]_signingVars

=============================================================================
