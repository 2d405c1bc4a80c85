------------------------- MODULE ExportSigningProofs -------------------------
(***************************************************************************)
(* Proofs about ExportSigning: its types, that signatures are made with    *)
(* keys of the shared file while no write fails, and, while no lock was    *)
(* taken from an instance that was inside, that only the holder of the     *)
(* lease maintains the keys, that the active key is replaced only when it  *)
(* is due, and that no write drops a key before pruning would.             *)
(***************************************************************************)
EXTENDS ExportSigning, FiniteSetTheorems, NaturalsInduction, WellFoundedInduction, TLAPS

\* Keys of a store whose ids were given out before n.
Known(keys, n) == keys \in SUBSET Key /\ \A k \in keys : k.id \in 1 .. n

-----------------------------------------------------------------------------
(* The operators on keys.                                                  *)

\* Pruning drops keys, but never the active one (pruneVerifyOnlyKeysInPlace).
LEMMA PrunedKeepsActive ==
  ASSUME NEW keys, NEW policy, NEW at
  PROVE  /\ Pruned(keys, policy, at) \subseteq keys
         /\ Active(keys) \subseteq Pruned(keys, policy, at)
BY DEF Pruned, Retained, Active

\* Pruning a well kept set of keys leaves it well kept.
LEMMA PrunedWellKept ==
  ASSUME NEW keys, NEW policy, NEW at, WellKept(keys)
  PROVE  WellKept(Pruned(keys, policy, at))
<1>1. Pruned(keys, policy, at) \subseteq keys /\ Active(keys) \subseteq Pruned(keys, policy, at)
  BY PrunedKeepsActive
<1>2. CASE keys = {}
  BY <1>1, <1>2 DEF WellKept
<1>3. CASE keys # {}
  <2>1. PICK a \in Active(keys) : \A k \in keys \ {a} : k.retired # 0 /\ k.id < a.id
    BY <1>3 DEF WellKept
  <2>2. a \in Active(Pruned(keys, policy, at))
    BY <2>1, <1>1 DEF Active
  <2> QED BY <2>1, <2>2, <1>1 DEF WellKept
<1> QED BY <1>2, <1>3

\* A rotation retires every key and adds a newer, active one (rotateKeysInPlace).
LEMMA RotatedWellKept ==
  ASSUME NEW keys, NEW n \in Nat, generated = n, Known(keys, n),
         NEW policy, NEW at \in Nat \ {0}
  PROVE  /\ WellKept(Rotated(keys, policy, at))
         /\ Known(Rotated(keys, policy, at), n + 1)
<1> DEFINE all == {NewKey(at)} \cup {Retire(k, at) : k \in keys}
<1>1. \A k \in keys : /\ Retire(k, at) \in Key
                      /\ Retire(k, at).retired # 0 /\ Retire(k, at).id = k.id
  BY DEF Retire, Known, Key
<1>2. NewKey(at) = [id |-> n + 1, born |-> at, retired |-> 0] /\ NewKey(at) \in Key
  BY DEF NewKey, Key
<1>3. Known(all, n + 1)
  BY <1>1, <1>2 DEF Known
<1>4. WellKept(all)
  <2>1. NewKey(at) \in Active(all)
    BY <1>2 DEF Active
  <2>2. ASSUME NEW k \in all \ {NewKey(at)} PROVE k.retired # 0 /\ k.id < NewKey(at).id
    <3>1. PICK j \in keys : k = Retire(j, at)
      BY <2>2
    <3> QED BY <3>1, <1>1, <1>2 DEF Known
  <2> QED BY <2>1, <2>2 DEF WellKept
<1>5. Rotated(keys, policy, at) = Pruned(all, policy, at)
  BY DEF Rotated
<1> HIDE DEF all
<1> QED BY <1>3, <1>4, <1>5, PrunedWellKept, PrunedKeepsActive DEF Known

\* Normalising a well kept set of keys changes nothing, unless it is empty.
LEMMA NormalisedWellKept ==
  ASSUME NEW keys, NEW n \in Nat, generated = n, Known(keys, n), WellKept(keys),
         NEW at \in Nat \ {0}
  PROVE  /\ WellKept(Normalised(keys, at))
         /\ Known(Normalised(keys, at), n + 1)
         /\ keys # {} => Normalised(keys, at) = keys
<1>1. CASE keys = {}
  <2>1. Normalised(keys, at) = {NewKey(at)}
    BY <1>1 DEF Normalised
  <2> QED BY <2>1, <1>1 DEF WellKept, Active, Known, NewKey, Key
<1>2. CASE keys # {}
  <2>1. PICK a \in Active(keys) : \A k \in keys \ {a} : k.retired # 0 /\ k.id < a.id
    BY <1>2 DEF WellKept
  <2>2. a \in keys /\ a.retired = 0
    BY <2>1 DEF Active
  <2>3. \A k \in keys : k \in Key /\ k.id \in Nat
    BY DEF Known, Key
  <2>4. Newest(keys) = {a}
    BY <2>1, <2>2, <2>3 DEF Newest
  <2>5. [a EXCEPT !.retired = 0] = a
    BY <2>2, <2>3 DEF Key
  <2>6. \A k \in keys \ {a} : Retire(k, at) = k
    BY <2>1 DEF Retire
  <2>7. Normalised(keys, at) = {[k EXCEPT !.retired = 0] : k \in {a}}
                                 \cup {Retire(k, at) : k \in keys \ {a}}
    BY <1>2, <2>4 DEF Normalised
  <2>8. Normalised(keys, at) = keys
    BY <2>7, <2>5, <2>6, <2>2
  <2> QED BY <2>8, <2>3 DEF Known
<1> QED BY <1>1, <1>2

\* What maintenance makes of a store it was given well kept is well kept, and holds at
\* most one key more than there were (computeMaintenancePreview).
LEMMA MaintainedWellKept ==
  ASSUME NEW store, NEW n \in Nat, generated = n,
         Known(store.keys, n), WellKept(store.keys), store.policy \in Policies,
         NEW allow \in BOOLEAN, NEW at \in Nat \ {0}
  PROVE  /\ WellKept(Maintained(store, allow, at))
         /\ Known(Maintained(store, allow, at), n + 1)
<1> DEFINE keys == Normalised(store.keys, at)
<1>1. /\ WellKept(keys) /\ Known(keys, n + 1)
      /\ store.keys # {} => keys = store.keys
  BY NormalisedWellKept
<1>2. /\ WellKept(Pruned(keys, store.policy, at))
      /\ Known(Pruned(keys, store.policy, at), n + 1)
  BY <1>1, PrunedWellKept, PrunedKeepsActive DEF Known
<1>3. CASE store.keys # {}
  <2>1. /\ WellKept(Rotated(keys, store.policy, at))
        /\ Known(Rotated(keys, store.policy, at), n + 1)
    BY <1>1, <1>3, RotatedWellKept
  <2> QED BY <1>2, <2>1 DEF Maintained
<1>4. CASE store.keys = {}
  <2>1. keys = {NewKey(at)}
    BY <1>4 DEF Normalised
  <2>2. store.policy.rotate \in Nat \ {0}
    BY SigningAssumption DEF Policy
  <2>3. ~ Due(keys, store.policy, at)
    BY <2>1, <2>2 DEF Due, Active, NewKey
  <2> QED BY <1>2, <2>3 DEF Maintained
<1> QED BY <1>3, <1>4

-----------------------------------------------------------------------------
(* Types.                                                                  *)

\* A store an instance may hold: its keys are well kept and were generated.
Sound(store) == store \in Store /\ WellKept(store.keys) /\ Known(store.keys, generated)

\* The types, with what they say of the stores put in one place.
LEMMA TypesOfStores ==
  ASSUME SigningTypeOK
  PROVE  Sound(file) /\ \A i \in Instances : Sound(mem[i])
<1>1. file \in Store /\ \A i \in Instances : mem[i] \in Store
  BY DEF SigningTypeOK
<1>2. ASSUME NEW store \in {file} \cup {mem[i] : i \in Instances}
      PROVE  WellKept(store.keys) /\ \A k \in store.keys : k.id \in 1 .. generated
  BY DEF SigningTypeOK
<1> QED BY <1>1, <1>2 DEF Sound, Known, Store

\* A blank copy is sound.
LEMMA BlankSound == generated \in Nat => Sound(Blank)
  BY SigningAssumption DEF Sound, Blank, Store, Known, WellKept, NoLease

\* Reading the file, forced or not, gives a sound store.
LEMMA ReadsSound ==
  ASSUME SigningTypeOK, NEW i \in Instances
  PROVE  Sound(Reload(i)) /\ Sound(Refresh(i))
  BY TypesOfStores DEF Reload, Refresh

\* Signing adds ids of keys of a sound store.
LEMMA SignTypes ==
  ASSUME NEW keys, NEW policy, NEW at, generated \in Nat, Known(keys, generated),
         signed \subseteq 1 .. generated, Sign(keys, policy, at)
  PROVE  signed' \subseteq 1 .. generated
  BY DEF Sign, Known, Active

PCs == {"down", "idle", "waiting", "late", "breaking", "locked", "writing", "releasing",
        "answering"}

\* A step that replaces one instance's copy by a sound store keeps every copy sound.
LEMMA HoldKeepsSound ==
  ASSUME SigningTypeOK, NEW i \in Instances, NEW store, NEW n \in Nat,
         generated' = n, n >= generated,
         store \in Store, WellKept(store.keys), Known(store.keys, n), Hold(i, store)
  PROVE  /\ mem' \in [Instances -> Store]
         /\ \A j \in Instances : WellKept(mem'[j].keys) /\ Known(mem'[j].keys, n)
<1>1. generated \in Nat /\ mem \in [Instances -> Store]
  BY DEF SigningTypeOK
<1>2. mem' \in [Instances -> Store] /\ mem'[i] = store
       /\ \A j \in Instances \ {i} : mem'[j] = mem[j]
  BY <1>1 DEF Hold
<1>3. \A j \in Instances : WellKept(mem[j].keys) /\ Known(mem[j].keys, generated)
  BY TypesOfStores DEF Sound
<1>4. \A j \in Instances : Known(mem[j].keys, n)
  BY <1>1, <1>3 DEF Known
<1> QED BY <1>2, <1>3, <1>4

\* The conjunct of SigningTypeOK about stores, from its parts.
LEMMA StoresTypes ==
  ASSUME mem' \in [Instances -> Store], WellKept(file'.keys), Known(file'.keys, generated'),
         \A j \in Instances : WellKept(mem'[j].keys) /\ Known(mem'[j].keys, generated')
  PROVE  \A store \in {file'} \cup {mem'[i] : i \in Instances} :
           WellKept(store.keys) /\ \A k \in store.keys : k.id \in 1 .. generated'
  BY DEF Known

\* The initial state has its types.
LEMMA TypesInit == SigningInit => SigningTypeOK
<1> SUFFICES ASSUME SigningInit PROVE SigningTypeOK
  OBVIOUS
<1>1. generated = 0 /\ file = Blank /\ mem = [i \in Instances |-> Blank]
  BY DEF SigningInit
<1>2. Sound(Blank)
  BY <1>1, BlankSound
<1>3. NoTask \in Task
  BY SigningAssumption DEF NoTask, Task, Trigger
<1>4. \A store \in {file} \cup {mem[i] : i \in Instances} : store = Blank
  <2>1. \A i \in Instances : mem[i] = Blank
    BY <1>1
  <2> QED BY <2>1, <1>1
<1>5. \A store \in {file} \cup {mem[i] : i \in Instances} :
        WellKept(store.keys) /\ \A k \in store.keys : k.id \in 1 .. generated
  BY <1>1, <1>2, <1>4 DEF Sound, Known
<1>6. file \in Store /\ mem \in [Instances -> Store]
  BY <1>1, <1>2 DEF Sound
<1>7. lock = Free /\ fresh \in [Instances -> BOOLEAN] /\ trespassed \in BOOLEAN
  BY DEF SigningInit
<1>8. pc \in [Instances -> PCs] /\ task \in [Instances -> Task]
  BY <1>3 DEF SigningInit, PCs
<1>9. /\ {written, generated, demands, crashes, faults} \subseteq Nat /\ clock \in Nat \ {0}
      /\ stored \subseteq 1 .. generated /\ signed \subseteq 1 .. generated
  BY DEF SigningInit
<1> QED BY <1>5, <1>6, <1>7, <1>8, <1>9 DEF SigningTypeOK, PCs

\* runMaintenance up to the mutex keeps the types.
LEMMA ConsiderTypes ==
  ASSUME SigningTypeOK, NEW i \in Instances, NEW op \in Trigger, Consider(i, op),
         demands' \in Nat
  PROVE  SigningTypeOK'
<1>1. Sound(Refresh(i))
  BY ReadsSound
<1>2. /\ Hold(i, Refresh(i))
      /\ UNCHANGED <<shared, lock, clock, generated, trespassed, crashes, faults>>
  BY DEF Consider, Looked
<1>3. generated \in Nat /\ generated' = generated
  BY <1>2 DEF SigningTypeOK
<1>4. /\ mem' \in [Instances -> Store]
      /\ \A j \in Instances : WellKept(mem'[j].keys) /\ Known(mem'[j].keys, generated')
  BY <1>1, <1>2, <1>3, HoldKeepsSound DEF Sound
<1>5. file' \in Store /\ WellKept(file'.keys) /\ Known(file'.keys, generated')
  BY <1>2, <1>3, TypesOfStores DEF Sound, shared
<1>6. fresh' \in [Instances -> BOOLEAN]
  BY DEF SigningTypeOK, Consider, MarkRead, FileExists
<1>7. pc' \in [Instances -> PCs]
  BY DEF SigningTypeOK, Consider, Continue, PCs
<1>8. task' \in [Instances -> Task]
  <2>1. NoTask \in Task
    BY SigningAssumption DEF NoTask, Task, Trigger
  <2> DEFINE changes == Maintained(Refresh(i), AllowsRotation(op), clock) # Refresh(i).keys
  <2>2. [op |-> op, at |-> clock, changing |-> changes, policy |-> DefaultPolicy] \in Task
    BY SigningAssumption DEF Task, SigningTypeOK
  <2> QED BY <2>1, <2>2 DEF SigningTypeOK, Consider
<1>9. signed' \subseteq 1 .. generated
  <2>1. CASE UNCHANGED signed
    BY <2>1 DEF SigningTypeOK
  <2>2. CASE Sign(Refresh(i).keys, Refresh(i).policy, clock)
    BY <2>2, <1>1, <1>3, SignTypes DEF SigningTypeOK, Sound
  <2> QED BY <2>1, <2>2 DEF Consider
<1> QED BY <1>2, <1>3, <1>4, <1>5, <1>6, <1>7, <1>8, <1>9, StoresTypes
        DEF SigningTypeOK, shared, PCs

\* Preparing a write keeps the types, given keys of which at most one is new.
LEMMA PrepareTypes ==
  ASSUME SigningTypeOK, NEW i \in Instances, NEW store \in Store, NEW keys,
         WellKept(keys), Known(keys, generated + 1), Prepare(i, store, keys),
         pc' \in [Instances -> PCs]
  PROVE  SigningTypeOK'
<1>1. generated \in Nat
  BY DEF SigningTypeOK
<1>2. /\ Hold(i, [store EXCEPT !.keys = keys]) /\ MarkRead(i)
      /\ UNCHANGED <<shared, lock, task, clock, signed, trespassed, counts>>
      /\ generated' \in {generated, generated + 1}
      /\ generated' = generated => \A k \in keys : ~(k.id > generated)
  BY <1>1 DEF Prepare
<1>3. Known(keys, generated')
  BY <1>1, <1>2 DEF Known
<1>4. PICK next \in Store : next = [store EXCEPT !.keys = keys] /\ next.keys = keys
  <2>1. [store EXCEPT !.keys = keys] \in Store /\ [store EXCEPT !.keys = keys].keys = keys
    BY DEF Store, Known
  <2> QED BY <2>1
<1>5. /\ mem' \in [Instances -> Store]
      /\ \A j \in Instances : WellKept(mem'[j].keys) /\ Known(mem'[j].keys, generated')
  <2>1. PICK n \in Nat : n = generated' /\ n >= generated
    BY <1>1, <1>2
  <2> QED BY <2>1, <1>2, <1>3, <1>4, HoldKeepsSound
<1>6. file' \in Store /\ WellKept(file'.keys) /\ Known(file'.keys, generated')
  BY <1>1, <1>2, TypesOfStores DEF Sound, shared, Known
<1>7. fresh' \in [Instances -> BOOLEAN]
  BY <1>2 DEF SigningTypeOK, MarkRead, FileExists
<1> QED BY <1>1, <1>2, <1>5, <1>6, <1>7, StoresTypes DEF SigningTypeOK, shared, counts, PCs

\* A step of the mutex, or of a request that goes to it, changes no store.
LEMMA QuietTypes ==
  ASSUME SigningTypeOK, UNCHANGED <<shared, mem, generated>>,
         fresh' \in [Instances -> BOOLEAN], pc' \in [Instances -> PCs],
         task' \in [Instances -> Task], lock' \in [owner: Instances, since: Nat] \cup {Free},
         signed' \subseteq 1 .. generated, trespassed' \in BOOLEAN, clock' \in Nat \ {0},
         {demands', crashes', faults'} \subseteq Nat
  PROVE  SigningTypeOK'
  BY DEF SigningTypeOK, shared, PCs

\* The end of a task keeps the types.
LEMMA FinishTypes ==
  ASSUME SigningTypeOK, NEW i \in Instances, NEW inside \in BOOLEAN, Finish(i, inside)
  PROVE  /\ pc' \in [Instances -> PCs] /\ task' \in [Instances -> Task]
         /\ signed' \subseteq 1 .. generated
<1>1. NoTask \in Task
  BY SigningAssumption DEF NoTask, Task, Trigger
<1>2. pc' \in [Instances -> PCs] /\ task' \in [Instances -> Task]
  BY <1>1 DEF SigningTypeOK, Finish, Continue, PCs
<1>3. CASE UNCHANGED signed
  BY <1>2, <1>3 DEF SigningTypeOK
<1>4. CASE Sign(mem[i].keys, mem[i].policy, task[i].at)
  BY <1>2, <1>4, TypesOfStores, SignTypes DEF SigningTypeOK, Sound
<1> QED BY <1>3, <1>4 DEF Finish

\* An instance that ends keeps the types: it starts over from a blank copy.
LEMMA ExitTypes ==
  ASSUME SigningTypeOK, NEW i \in Instances, Exit(i),
         UNCHANGED <<shared, clock, generated, signed>>,
         lock' \in [owner: Instances, since: Nat] \cup {Free}, trespassed' \in BOOLEAN,
         {demands', crashes', faults'} \subseteq Nat
  PROVE  SigningTypeOK'
<1>1. Sound(Blank) /\ generated \in Nat /\ generated' = generated /\ Hold(i, Blank)
  BY BlankSound DEF Exit, Hold, SigningTypeOK
<1>2. /\ mem' \in [Instances -> Store]
      /\ \A j \in Instances : WellKept(mem'[j].keys) /\ Known(mem'[j].keys, generated')
  BY <1>1, HoldKeepsSound DEF Sound
<1>3. file' \in Store /\ WellKept(file'.keys) /\ Known(file'.keys, generated')
  BY <1>1, TypesOfStores DEF Sound, shared
<1>4. NoTask \in Task
  BY SigningAssumption DEF NoTask, Task, Trigger
<1>5. /\ fresh' \in [Instances -> BOOLEAN] /\ pc' \in [Instances -> PCs]
      /\ task' \in [Instances -> Task]
  BY <1>4 DEF Exit, Continue, SigningTypeOK, PCs
<1> QED BY <1>1, <1>2, <1>3, <1>5, StoresTypes DEF SigningTypeOK, shared, PCs

\* Every step keeps the types.
LEMMA TypesStep == SigningTypeOK /\ [SigningNext]_signingVars => SigningTypeOK'
<1> SUFFICES ASSUME SigningTypeOK, [SigningNext]_signingVars PROVE SigningTypeOK'
  OBVIOUS
<1>p. pc \in [Instances -> PCs]
  BY DEF SigningTypeOK, PCs
<1>n. NoTask \in Task
  BY SigningAssumption DEF NoTask, Task, Trigger
<1>1. CASE UNCHANGED signingVars
  BY <1>1 DEF SigningTypeOK, signingVars, shared, locals, counts
<1>2. CASE Tick
  BY <1>2, <1>p, QuietTypes DEF Tick, SigningTypeOK, locals, counts
<1>3. ASSUME NEW i \in Instances, Serves(i) PROVE SigningTypeOK'
  <2>1. CASE Boot(i)
    BY <2>1, ConsiderTypes DEF Boot, Trigger, SigningTypeOK
  <2>2. ASSUME NEW op \in {"timer", "sign", "read"}, Ask(i, op) PROVE SigningTypeOK'
    BY <2>2, ConsiderTypes DEF Ask, Trigger, SigningTypeOK
  <2>3. CASE AskRun(i)
    BY <2>3, ConsiderTypes DEF AskRun, Demanded, Trigger, SigningTypeOK
  <2>4. ASSUME Hold(i, Refresh(i)), MarkRead(i),
               UNCHANGED <<shared, lock, clock, generated, signed, trespassed, counts>>,
               pc' \in [Instances -> PCs], task' \in [Instances -> Task]
        PROVE  SigningTypeOK'
    <3>1. Sound(Refresh(i)) /\ generated \in Nat /\ generated' = generated
      BY <2>4, ReadsSound DEF SigningTypeOK
    <3>2. /\ mem' \in [Instances -> Store]
          /\ \A j \in Instances : WellKept(mem'[j].keys) /\ Known(mem'[j].keys, generated')
      BY <3>1, <2>4, HoldKeepsSound DEF Sound
    <3>3. file' \in Store /\ WellKept(file'.keys) /\ Known(file'.keys, generated')
      BY <3>1, <2>4, TypesOfStores DEF Sound, shared
    <3>4. fresh' \in [Instances -> BOOLEAN]
      BY <2>4 DEF SigningTypeOK, MarkRead, FileExists
    <3> QED BY <2>4, <3>1, <3>2, <3>3, <3>4, StoresTypes
            DEF SigningTypeOK, shared, counts, PCs
  <2>5. CASE Look(i)
    BY <2>5, <2>4, <1>p DEF Look, SigningTypeOK
  <2>6. ASSUME NEW op \in {"rotate", "policy"}, NEW p \in Policies, Demand(i, op, p)
        PROVE  SigningTypeOK'
    <3>1. [op |-> op, at |-> clock, changing |-> TRUE, policy |-> p] \in Task
      BY DEF Task, Trigger, SigningTypeOK
    <3>2. task' \in [Instances -> Task] /\ pc' \in [Instances -> PCs]
      BY <2>6, <3>1, <1>p DEF Demand, Continue, PCs, SigningTypeOK
    <3> QED BY <2>6, <3>2, QuietTypes DEF Demand, Demanded, SigningTypeOK
  <2>7. CASE Answer(i)
    <3>1. CASE Consider(i, "read") /\ UNCHANGED demands
      BY <3>1, ConsiderTypes DEF Trigger, SigningTypeOK
    <3>2. CASE task[i].op # "rotate"
      <4>1. task' \in [Instances -> Task] /\ pc' \in [Instances -> PCs]
        BY <2>7, <3>2, <1>p, <1>n DEF Answer, Continue, PCs, SigningTypeOK
      <4> QED BY <2>7, <3>2, <2>4, <4>1 DEF Answer
    <3> QED BY <2>7, <3>1, <3>2 DEF Answer
  <2> QED BY <1>3, <2>1, <2>2, <2>3, <2>5, <2>6, <2>7, SigningAssumption DEF Serves
<1>4. ASSUME NEW i \in Instances, Locks(i) PROVE SigningTypeOK'
  <2>1. CASE OpenLock(i)
    BY <2>1, <1>p, QuietTypes DEF OpenLock, Continue, PCs, SigningTypeOK, counts
  <2>2. CASE NoticeBusy(i) \/ NoticeAbandoned(i) \/ TryAgain(i)
    BY <2>2, <1>p, QuietTypes
       DEF NoticeBusy, NoticeAbandoned, TryAgain, Continue, PCs, SigningTypeOK, counts
  <2>3. CASE BreakLock(i)
    BY <2>3, <1>p, QuietTypes DEF BreakLock, Removes, Continue, PCs, SigningTypeOK, counts
  <2>4. CASE GiveUp(i)
    BY <2>4, FinishTypes, QuietTypes DEF GiveUp, SigningTypeOK, counts
  <2>5. CASE Release(i)
    BY <2>5, FinishTypes, QuietTypes DEF Release, Removes, SigningTypeOK, counts
  <2>6. CASE Abort(i)
    BY <2>6, ExitTypes DEF Abort, Removes, SigningTypeOK, counts
  <2> QED BY <1>4, <2>1, <2>2, <2>3, <2>4, <2>5, <2>6 DEF Locks
<1>5. ASSUME NEW i \in Instances, Works(i) PROVE SigningTypeOK'
  <2>1. /\ Sound(Reload(i)) /\ generated \in Nat /\ clock \in Nat \ {0}
        /\ task[i] \in Task /\ task[i].at \in Nat \ {0} /\ task[i].policy \in Policies
        /\ Reload(i).policy \in Policies
    BY ReadsSound DEF SigningTypeOK, Task, Sound, Store
  <2>2. CASE Refuse(i)
    <3>1. Hold(i, Reload(i)) /\ MarkRead(i) /\ generated' = generated
      BY <2>2 DEF Refuse
    <3>2. /\ mem' \in [Instances -> Store]
          /\ \A j \in Instances : WellKept(mem'[j].keys) /\ Known(mem'[j].keys, generated')
      BY <2>1, <3>1, HoldKeepsSound DEF Sound
    <3>3. file' \in Store /\ WellKept(file'.keys) /\ Known(file'.keys, generated')
      BY <2>2, <3>1, TypesOfStores DEF Refuse, Sound, shared
    <3>4. fresh' \in [Instances -> BOOLEAN] /\ pc' \in [Instances -> PCs]
      BY <2>2, <1>p DEF Refuse, SigningTypeOK, MarkRead, FileExists, Continue, PCs
    <3> QED BY <2>2, <3>1, <3>2, <3>3, <3>4, StoresTypes
            DEF Refuse, SigningTypeOK, shared, counts, PCs
  <2>3. CASE Maintain(i)
    <3> DEFINE keys == Maintained(Reload(i), AllowsRotation(task[i].op), task[i].at)
    <3>1. AllowsRotation(task[i].op) \in BOOLEAN
      BY DEF AllowsRotation
    <3>2. WellKept(keys) /\ Known(keys, generated + 1)
      BY <2>1, <3>1, MaintainedWellKept DEF Sound
    <3>3. Leased(Reload(i), i, task[i].at) \in Store
      BY <2>1, SigningAssumption DEF Leased, Sound, Store, Lease
    <3>4. pc' \in [Instances -> PCs]
      BY <2>3, <1>p DEF Maintain, Continue, PCs
    <3> HIDE DEF keys
    <3>5. Prepare(i, Leased(Reload(i), i, task[i].at), keys)
      BY <2>3 DEF Maintain, keys
    <3> QED BY <3>2, <3>3, <3>4, <3>5, PrepareTypes
  <2>4. CASE Change(i)
    <3> DEFINE store == Reload(i)
               next  == [store EXCEPT !.policy = task[i].policy]
    <3>1. /\ next \in Store /\ WellKept(next.keys) /\ Known(next.keys, generated)
          /\ next.policy \in Policies
      BY <2>1 DEF Sound, Store
    <3>2. pc' \in [Instances -> PCs]
      BY <2>4, <1>p DEF Change, Continue, PCs
    <3>3. CASE Prepare(i, store, Rotated(store.keys, store.policy, clock))
      <4>1. /\ WellKept(Rotated(store.keys, store.policy, clock))
            /\ Known(Rotated(store.keys, store.policy, clock), generated + 1)
        BY <2>1, RotatedWellKept DEF Sound
      <4> QED BY <2>1, <3>2, <3>3, <4>1, PrepareTypes DEF Sound
    <3>4. CASE Prepare(i, next, Maintained(next, TRUE, clock))
      <4> HIDE DEF next
      <4>1. /\ WellKept(Maintained(next, TRUE, clock))
            /\ Known(Maintained(next, TRUE, clock), generated + 1)
        BY <2>1, <3>1, MaintainedWellKept
      <4> QED BY <3>1, <3>2, <3>4, <4>1, PrepareTypes
    <3>5. CASE Prepare(i, store, store.keys)
      <4>1. WellKept(store.keys) /\ Known(store.keys, generated + 1)
        BY <2>1 DEF Sound, Known
      <4> QED BY <2>1, <3>2, <3>5, <4>1, PrepareTypes DEF Sound
    <3> QED BY <2>4, <3>3, <3>4, <3>5 DEF Change
  <2>5. CASE Write(i)
    <3>1. UNCHANGED <<lock, mem, task, clock, generated, signed, trespassed, counts>>
      BY <2>5 DEF Write
    <3>2. file' \in Store /\ WellKept(file'.keys) /\ Known(file'.keys, generated')
      BY <2>5, <3>1, TypesOfStores DEF Write, Sound
    <3>3. /\ mem' \in [Instances -> Store]
          /\ \A j \in Instances : WellKept(mem'[j].keys) /\ Known(mem'[j].keys, generated')
      BY <3>1, TypesOfStores DEF Sound, SigningTypeOK
    <3>4. stored' \subseteq 1 .. generated' /\ written' \in Nat
      BY <2>5, <2>1, <3>1, <3>2 DEF Write, SigningTypeOK, Known
    <3>5. fresh' \in [Instances -> BOOLEAN] /\ pc' \in [Instances -> PCs]
      BY <2>5, <1>p DEF Write, SigningTypeOK, Continue, PCs
    <3> QED BY <3>1, <3>2, <3>3, <3>4, <3>5, StoresTypes DEF SigningTypeOK, counts, PCs
  <2>6. CASE WriteFails(i)
    <3>1. task' \in [Instances -> Task] /\ pc' \in [Instances -> PCs]
      BY <2>1, <2>6, <1>p DEF WriteFails, SigningTypeOK, Task, Trigger, Continue, PCs
    <3> QED BY <2>6, <3>1, QuietTypes DEF WriteFails, SigningTypeOK
  <2> QED BY <1>5, <2>2, <2>3, <2>4, <2>5, <2>6 DEF Works
<1>6. ASSUME NEW i \in Instances, Crash(i) PROVE SigningTypeOK'
  BY <1>6, ExitTypes DEF Crash, SigningTypeOK, counts
<1> QED BY <1>1, <1>2, <1>3, <1>4, <1>5, <1>6 DEF SigningNext

\* The types of the signing store hold for any instances, policies and limits.
THEOREM SigningTypeCorrect == SigningSpec => []SigningTypeOK
<1> QED BY TypesInit, TypesStep, PTL DEF SigningSpec

-----------------------------------------------------------------------------
(* Signatures are made with keys of the shared file.  The invariant says   *)
(* it of every copy from which a signature could be made: all but those    *)
(* of instances about to write.                                            *)

FromFile(keys) == \A k \in keys : k.id \in stored

KeysShared ==
  faults = 0 =>
    /\ FromFile(file.keys)
    /\ \A i \in Instances : pc[i] # "writing" => FromFile(mem[i].keys)
    /\ signed \subseteq stored

\* At the start no instance holds a key.
LEMMA SharedInit == SigningInit => KeysShared
  BY DEF SigningInit, KeysShared, FromFile, Blank

\* What a signature adds is stored when the keys it is made from are.
LEMMA SignShared ==
  ASSUME NEW keys, NEW policy, NEW at, FromFile(keys), signed \subseteq stored,
         Sign(keys, policy, at)
  PROVE  signed' \subseteq stored
  BY DEF FromFile, Sign, Active

\* A step that leaves the file alone and gives one instance a copy with stored keys.
LEMMA HoldShared ==
  ASSUME SigningTypeOK, KeysShared, NEW i \in Instances, NEW store, Hold(i, store),
         UNCHANGED <<shared, faults>>,
         faults = 0 => (pc'[i] # "writing" => FromFile(store.keys)),
         \A j \in Instances \ {i} : pc'[j] = pc[j],
         faults = 0 => signed' \subseteq stored
  PROVE  KeysShared'
<1>1. mem'[i] = store /\ \A j \in Instances \ {i} : mem'[j] = mem[j]
  BY DEF SigningTypeOK, Hold
<1>2. stored' = stored /\ file' = file /\ faults' = faults
  BY DEF shared
<1> QED BY <1>1, <1>2 DEF KeysShared, FromFile

\* A step that changes no store and lets nobody leave "writing" keeps the invariant.
LEMMA QuietShared ==
  ASSUME KeysShared, UNCHANGED <<shared, mem, faults>>,
         \A j \in Instances : pc[j] = "writing" => pc'[j] = "writing",
         faults = 0 => signed' \subseteq stored
  PROVE  KeysShared'
  BY DEF KeysShared, FromFile, shared

\* Every step keeps it.
LEMMA SharedStep ==
  SigningTypeOK /\ KeysShared /\ [SigningNext]_signingVars => KeysShared'
<1> SUFFICES ASSUME SigningTypeOK, KeysShared, [SigningNext]_signingVars PROVE KeysShared'
  OBVIOUS
<1>p. pc \in [Instances -> PCs]
  BY DEF SigningTypeOK, PCs
<1>s. faults = 0 => signed \subseteq stored
  BY DEF KeysShared
<1>r. ASSUME NEW i \in Instances, pc[i] # "writing", faults = 0
      PROVE  FromFile(Reload(i).keys) /\ FromFile(Refresh(i).keys) /\ FromFile(mem[i].keys)
  BY <1>r DEF KeysShared, Reload, Refresh
<1>c. ASSUME NEW i \in Instances, NEW op, pc[i] # "writing", Consider(i, op) PROVE KeysShared'
  <2>1. Hold(i, Refresh(i)) /\ UNCHANGED <<shared, faults>>
    BY <1>c DEF Consider, Looked
  <2>2. \A j \in Instances \ {i} : pc'[j] = pc[j]
    BY <1>c, <1>p DEF Consider, Continue
  <2>3. faults = 0 => signed' \subseteq stored
    <3>1. CASE UNCHANGED signed
      BY <3>1, <1>s
    <3>2. CASE Sign(Refresh(i).keys, Refresh(i).policy, clock)
      BY <3>2, <1>c, <1>s, <1>r, SignShared
    <3> QED BY <1>c, <3>1, <3>2 DEF Consider
  <2> QED BY <2>1, <2>2, <2>3, <1>c, <1>r, HoldShared
<1>e. ASSUME NEW i \in Instances, Exit(i), UNCHANGED <<shared, signed, faults>> PROVE KeysShared'
  <2>1. Hold(i, Blank) /\ \A j \in Instances \ {i} : pc'[j] = pc[j]
    BY <1>e, <1>p DEF Exit, Hold, Continue
  <2>2. FromFile(Blank.keys)
    BY DEF FromFile, Blank
  <2> QED BY <1>e, <2>1, <2>2, <1>s, HoldShared
<1>f. ASSUME NEW i \in Instances, NEW inside, pc[i] # "writing", Finish(i, inside),
             UNCHANGED <<shared, mem, faults>>
      PROVE  KeysShared'
  <2>1. \A j \in Instances : pc[j] = "writing" => pc'[j] = "writing"
    BY <1>f, <1>p DEF Finish, Continue
  <2>2. faults = 0 => signed' \subseteq stored
    <3>1. CASE UNCHANGED signed
      BY <3>1, <1>s
    <3>2. CASE Sign(mem[i].keys, mem[i].policy, task[i].at)
      BY <3>2, <1>f, <1>s, <1>r, SignShared
    <3> QED BY <1>f, <3>1, <3>2 DEF Finish
  <2> QED BY <1>f, <2>1, <2>2, QuietShared
<1>1. CASE UNCHANGED signingVars \/ Tick
  BY <1>1, <1>s, QuietShared DEF signingVars, shared, locals, counts, Tick
<1>2. ASSUME NEW i \in Instances, Serves(i) PROVE KeysShared'
  <2>1. CASE Boot(i) \/ (\E op \in {"timer", "sign", "read"} : Ask(i, op)) \/ AskRun(i)
    BY <2>1, <1>c DEF Boot, Ask, AskRun
  <2>2. ASSUME Hold(i, Refresh(i)), pc[i] # "writing", UNCHANGED <<shared, signed, counts>>,
               \A j \in Instances \ {i} : pc'[j] = pc[j]
        PROVE  KeysShared'
    BY <2>2, <1>r, <1>s, HoldShared DEF counts
  <2>3. CASE Look(i)
    BY <2>3, <2>2 DEF Look
  <2>4. CASE \E op \in {"rotate", "policy"}, p \in Policies : Demand(i, op, p)
    BY <2>4, <1>p, <1>s, QuietShared DEF Demand, Continue
  <2>5. CASE Answer(i)
    <3>1. CASE Consider(i, "read")
      BY <2>5, <3>1, <1>c DEF Answer
    <3>2. CASE task[i].op # "rotate"
      <4>1. \A j \in Instances \ {i} : pc'[j] = pc[j]
        BY <2>5, <3>2, <1>p DEF Answer, Continue
      <4> QED BY <2>5, <3>2, <4>1, <2>2 DEF Answer
    <3> QED BY <2>5, <3>1, <3>2 DEF Answer
  <2> QED BY <1>2, <2>1, <2>3, <2>4, <2>5, SigningAssumption DEF Serves
<1>3. ASSUME NEW i \in Instances, Locks(i) PROVE KeysShared'
  <2>1. CASE OpenLock(i) \/ NoticeBusy(i) \/ NoticeAbandoned(i) \/ BreakLock(i) \/ TryAgain(i)
    <3>1. UNCHANGED <<shared, mem, signed, faults>> /\ pc[i] # "writing"
      BY <2>1 DEF OpenLock, NoticeBusy, NoticeAbandoned, BreakLock, TryAgain, counts
    <3>2. \A j \in Instances : pc[j] = "writing" => pc'[j] = "writing"
      BY <2>1, <1>p, <3>1
         DEF OpenLock, NoticeBusy, NoticeAbandoned, BreakLock, TryAgain, Continue
    <3> QED BY <3>1, <3>2, <1>s, QuietShared
  <2>2. CASE GiveUp(i)
    BY <2>2, <1>f DEF GiveUp, counts
  <2>3. CASE Release(i)
    BY <2>3, <1>f DEF Release, counts
  <2>4. CASE Abort(i)
    BY <2>4, <1>e DEF Abort, counts
  <2> QED BY <1>3, <2>1, <2>2, <2>3, <2>4 DEF Locks
<1>4. ASSUME NEW i \in Instances, Works(i) PROVE KeysShared'
  <2>o. pc' = [pc EXCEPT ![i] = pc'[i]] /\ \A j \in Instances \ {i} : pc'[j] = pc[j]
    BY <1>4, <1>p DEF Works, Refuse, Maintain, Change, Write, WriteFails, Continue
  <2>1. CASE Refuse(i)
    BY <2>1, <2>o, <1>r, <1>s, HoldShared DEF Refuse, counts
  <2>2. CASE Maintain(i)
    <3> DEFINE store == Reload(i)
               keys  == Maintained(store, AllowsRotation(task[i].op), task[i].at)
               next  == [Leased(store, i, task[i].at) EXCEPT !.keys = keys]
    <3>1. /\ Hold(i, next) /\ UNCHANGED <<shared, signed, faults>>
          /\ pc[i] = "locked"
          /\ pc'[i] # "writing" => keys = store.keys
      BY <2>2, <1>p DEF Maintain, Prepare, Continue, counts
    <3>2. next.keys = keys
      <4>1. store \in Store
        BY ReadsSound DEF Sound
      <4> QED BY <4>1 DEF Leased, Store
    <3>3. faults = 0 => (pc'[i] # "writing" => FromFile(next.keys))
      BY <3>1, <3>2, <1>r
    <3> HIDE DEF next
    <3> QED BY <3>1, <3>3, <2>o, <1>s, HoldShared
  <2>3. CASE Change(i)
    <3>1. PICK store, keys : Prepare(i, store, keys)
      BY <2>3 DEF Change
    <3>2. pc'[i] = "writing"
      BY <2>3, <1>p DEF Change, Continue
    <3> QED BY <3>1, <3>2, <2>o, <1>s, HoldShared DEF Prepare, counts
  <2>4. CASE Write(i)
    <3>1. /\ file' = mem[i] /\ mem' = mem /\ signed' = signed /\ faults' = faults
          /\ stored \subseteq stored' /\ \A k \in mem[i].keys : k.id \in stored'
      BY <2>4 DEF Write, counts
    <3>2. faults = 0 => FromFile(file.keys)' /\ FromFile(mem[i].keys)'
      BY <3>1 DEF FromFile
    <3>3. faults = 0 =>
            \A j \in Instances \ {i} : pc'[j] # "writing" => FromFile(mem[j].keys)'
      BY <3>1, <2>o DEF KeysShared, FromFile
    <3> QED BY <3>1, <3>2, <3>3, <1>s DEF KeysShared
  <2>5. CASE WriteFails(i)
    BY <2>5 DEF WriteFails, KeysShared, SigningTypeOK
  <2> QED BY <1>4, <2>1, <2>2, <2>3, <2>4, <2>5 DEF Works
<1>5. ASSUME NEW i \in Instances, Crash(i) PROVE KeysShared'
  BY <1>5, <1>e DEF Crash
<1> QED BY <1>1, <1>2, <1>3, <1>4, <1>5 DEF SigningNext

\* While no write has failed, every signature is made with a key that was written to the
\* shared file, whatever instances crash and whatever locks are broken.
THEOREM SignaturesAreShared == SigningSpec => []SignedKeyWasStored
<1>1. KeysShared => SignedKeyWasStored
  BY DEF KeysShared, SignedKeyWasStored
<1> QED BY <1>1, TypesInit, TypesStep, SharedInit, SharedStep, PTL DEF SigningSpec

-----------------------------------------------------------------------------
(* The mutex and the lease.  While no lock was taken from an instance that *)
(* was inside, the lock file belongs to whoever is inside, so there is one *)
(* instance at most; what it found out about the lease when it read the    *)
(* file is therefore still true when it writes.                            *)

NotLedByAnother(i) == ~(file.lease.until > clock /\ file.lease.holder # i)

LeaderInv ==
  /\ written = 0 => file = Blank
  /\ \A i \in Instances : task[i].at <= clock
  /\ ~trespassed =>
       \A i \in Instances :
         /\ Inside(i) => lock.owner = i
         /\ pc[i] = "writing" /\ Maintains(i) => NotLedByAnother(i)

\* At the start nobody is inside the lock.
LEMMA LeaderInit == SigningInit => LeaderInv
  BY DEF SigningInit, LeaderInv, Inside, NoTask

\* A step that leaves the file alone and of which nobody comes to write.
LEMMA QuietLeader ==
  ASSUME SigningTypeOK, LeaderInv, UNCHANGED shared, clock' \in Nat, clock' >= clock,
         \A j \in Instances : task'[j].at <= clock',
         ~trespassed' => ~trespassed,
         ~trespassed' => \A j \in Instances :
           /\ Inside(j)' => lock'.owner = j
           /\ pc'[j] = "writing" => pc[j] = "writing" /\ task'[j] = task[j]
  PROVE  LeaderInv'
<1>1. file' = file /\ written' = written
  BY DEF shared
<1>2. ASSUME NEW j \in Instances, NotLedByAnother(j) PROVE NotLedByAnother(j)'
  <2>1. file.lease.until \in Nat /\ clock \in Nat
    BY DEF SigningTypeOK, Store, Lease, NoLease
  <2> QED BY <1>1, <1>2, <2>1 DEF NotLedByAnother
<1>3. \A j \in Instances : task'[j] = task[j] => Maintains(j)' = Maintains(j)
  BY DEF Maintains
<1> QED BY <1>1, <1>2, <1>3 DEF LeaderInv

\* A step of one instance that stays outside the mutex.
LEMMA OutsideLeader ==
  ASSUME SigningTypeOK, LeaderInv, NEW i \in Instances,
         UNCHANGED <<shared, lock, clock, trespassed>>,
         task'[i].at <= clock, \A j \in Instances \ {i} : task'[j] = task[j] /\ pc'[j] = pc[j],
         ~Inside(i)'
  PROVE  LeaderInv'
<1>1. pc'[i] # "writing"
  BY DEF Inside
<1>2. \A j \in Instances \ {i} : Inside(j)' = Inside(j)
  BY DEF Inside
<1>3. clock \in Nat
  BY DEF SigningTypeOK
<1> QED BY <1>1, <1>2, <1>3, QuietLeader DEF LeaderInv

\* An instance that removes the lock file is then alone, or has trespassed.
LEMMA RemovesLeader ==
  ASSUME SigningTypeOK, LeaderInv, NEW i \in Instances, UNCHANGED <<shared, clock>>,
         Removes(i), task'[i].at <= clock,
         \A j \in Instances \ {i} : task'[j] = task[j] /\ pc'[j] = pc[j],
         ~Inside(i)'
  PROVE  LeaderInv'
<1>1. ~trespassed' => ~trespassed /\ \A j \in Instances : ~Inside(j)'
  <2>1. \A j \in Instances \ {i} : Inside(j)' = Inside(j)
    BY DEF Inside
  <2> QED BY <2>1 DEF Removes, LeaderInv
<1>2. \A j \in Instances : ~Inside(j)' => pc'[j] # "writing"
  BY DEF Inside
<1>3. clock \in Nat
  BY DEF SigningTypeOK
<1> QED BY <1>1, <1>2, <1>3, QuietLeader DEF LeaderInv

\* Every step keeps the invariant.
LEMMA LeaderStep ==
  SigningTypeOK /\ LeaderInv /\ [SigningNext]_signingVars => LeaderInv'
<1> SUFFICES ASSUME SigningTypeOK, LeaderInv, [SigningNext]_signingVars PROVE LeaderInv'
  OBVIOUS
<1>p. /\ pc \in [Instances -> PCs] /\ task \in [Instances -> Task]
      /\ clock \in Nat \ {0} /\ NoTask.at = 1
  BY DEF SigningTypeOK, PCs, NoTask
<1>t. \A i \in Instances : task[i].at <= clock
  BY DEF LeaderInv
<1>c. ASSUME NEW i \in Instances, NEW op, Consider(i, op) PROVE LeaderInv'
  <2>1. UNCHANGED <<shared, lock, clock, trespassed>>
    BY <1>c DEF Consider
  <2>2. /\ pc'[i] \in {"waiting", "idle"} /\ task'[i].at \in {clock, 1}
        /\ \A j \in Instances \ {i} : task'[j] = task[j] /\ pc'[j] = pc[j]
    BY <1>c, <1>p DEF Consider, Continue
  <2>3. ~Inside(i)' /\ task'[i].at <= clock
    BY <2>2, <1>p DEF Inside
  <2> QED BY <2>1, <2>2, <2>3, OutsideLeader
<1>1. CASE UNCHANGED signingVars
  BY <1>1, <1>p, <1>t, QuietLeader DEF signingVars, shared, locals, LeaderInv, Inside
<1>2. CASE Tick
  <2>1. \A j \in Instances : task[j].at \in Nat
    BY <1>p DEF Task
  <2>2. UNCHANGED <<shared, lock, pc, task, trespassed>> /\ clock' = clock + 1
    BY <1>2 DEF Tick, locals
  <2> QED BY <2>1, <2>2, <1>p, <1>t, QuietLeader DEF LeaderInv, Inside
<1>3. ASSUME NEW i \in Instances, Serves(i) PROVE LeaderInv'
  <2>1. CASE Boot(i) \/ (\E op \in {"timer", "sign", "read"} : Ask(i, op)) \/ AskRun(i)
    BY <2>1, <1>c DEF Boot, Ask, AskRun
  <2>2. CASE Look(i)
    <3>1. ~Inside(i)'
      BY <2>2 DEF Look, Inside
    <3> QED BY <2>2, <3>1, <1>t, OutsideLeader DEF Look
  <2>3. CASE \E op \in {"rotate", "policy"}, p \in Policies : Demand(i, op, p)
    <3>1. /\ pc'[i] = "waiting" /\ task'[i].at = clock
          /\ \A j \in Instances \ {i} : task'[j] = task[j] /\ pc'[j] = pc[j]
          /\ UNCHANGED <<shared, lock, clock, trespassed>>
      BY <2>3, <1>p DEF Demand, Continue
    <3> QED BY <3>1, <1>p, OutsideLeader DEF Inside
  <2>4. CASE Answer(i)
    <3>1. CASE Consider(i, "read")
      BY <3>1, <1>c
    <3>2. CASE task[i].op # "rotate"
      <4>1. /\ pc'[i] = "idle" /\ task'[i].at = 1
            /\ \A j \in Instances \ {i} : task'[j] = task[j] /\ pc'[j] = pc[j]
            /\ UNCHANGED <<shared, lock, clock, trespassed>>
        BY <2>4, <3>2, <1>p DEF Answer, Continue
      <4> QED BY <4>1, <1>p, OutsideLeader DEF Inside
    <3> QED BY <2>4, <3>1, <3>2 DEF Answer
  <2> QED BY <1>3, <2>1, <2>2, <2>3, <2>4, SigningAssumption DEF Serves
<1>4. ASSUME NEW i \in Instances, Locks(i) PROVE LeaderInv'
  <2>f. ASSUME NEW inside \in BOOLEAN, Finish(i, inside)
        PROVE  /\ pc'[i] \in {"idle", "answering"} /\ task'[i].at <= clock
               /\ \A j \in Instances \ {i} : task'[j] = task[j] /\ pc'[j] = pc[j]
    BY <2>f, <1>p, <1>t DEF Finish, Continue
  <2>1. CASE OpenLock(i)
    <3>1. /\ lock = Free /\ lock'.owner = i /\ pc'[i] = "locked"
          /\ \A j \in Instances \ {i} : pc'[j] = pc[j]
          /\ UNCHANGED <<shared, task, clock, trespassed>>
      BY <2>1, <1>p DEF OpenLock, Continue
    <3>2. ~trespassed => \A j \in Instances : ~Inside(j)
      BY <3>1, SigningAssumption DEF LeaderInv, Free
    <3>3. \A j \in Instances \ {i} : Inside(j)' = Inside(j)
      BY <3>1 DEF Inside
    <3>4. \A j \in Instances : pc'[j] = "writing" => pc[j] = "writing"
      BY <3>1
    <3> QED BY <3>1, <3>2, <3>3, <3>4, <1>p, <1>t, QuietLeader
  <2>2. CASE NoticeBusy(i) \/ NoticeAbandoned(i) \/ TryAgain(i)
    <3>1. /\ pc'[i] \in {"late", "breaking", "waiting"}
          /\ \A j \in Instances \ {i} : pc'[j] = pc[j]
          /\ UNCHANGED <<shared, lock, task, clock, trespassed>>
      BY <2>2, <1>p DEF NoticeBusy, NoticeAbandoned, TryAgain, Continue
    <3> QED BY <3>1, <1>t, OutsideLeader DEF Inside
  <2>3. CASE BreakLock(i)
    <3>1. /\ pc'[i] = "late" /\ \A j \in Instances \ {i} : pc'[j] = pc[j]
          /\ Removes(i) /\ UNCHANGED <<shared, task, clock>>
      BY <2>3, <1>p DEF BreakLock, Continue
    <3> QED BY <3>1, <1>t, RemovesLeader DEF Inside
  <2>4. CASE GiveUp(i)
    BY <2>4, <2>f, OutsideLeader DEF GiveUp, Inside
  <2>5. CASE Release(i)
    BY <2>5, <2>f, RemovesLeader DEF Release, Inside
  <2>6. CASE Abort(i)
    <3>1. /\ pc'[i] = "down" /\ task'[i].at = 1
          /\ \A j \in Instances \ {i} : task'[j] = task[j] /\ pc'[j] = pc[j]
      BY <2>6, <1>p DEF Abort, Exit, Continue
    <3> QED BY <2>6, <3>1, <1>p, RemovesLeader DEF Abort, Inside
  <2> QED BY <1>4, <2>1, <2>2, <2>3, <2>4, <2>5, <2>6 DEF Locks
<1>5. ASSUME NEW i \in Instances, Works(i) PROVE LeaderInv'
  <2>o. /\ Inside(i) /\ \A j \in Instances \ {i} : pc'[j] = pc[j]
        /\ UNCHANGED <<lock, clock, trespassed>>
    BY <1>5, <1>p DEF Works, Refuse, Maintain, Change, Write, WriteFails, Continue, Prepare, Inside
  <2>s. \A j \in Instances \ {i} : Inside(j)' = Inside(j)
    BY <2>o DEF Inside
  <2>a. ~trespassed => lock.owner = i /\ \A j \in Instances \ {i} : ~Inside(j) /\ pc[j] # "writing"
    BY <2>o DEF LeaderInv, Inside
  <2>1. CASE Refuse(i) \/ WriteFails(i)
    <3>1. pc'[i] = "releasing" /\ UNCHANGED shared
      BY <2>1, <1>p DEF Refuse, WriteFails, Continue
    <3>2. \A j \in Instances : task'[j].at = task[j].at /\ (j # i => task'[j] = task[j])
      BY <2>1, <1>p DEF Refuse, WriteFails, Task
    <3>3. ~trespassed' => \A j \in Instances :
            /\ Inside(j)' => lock'.owner = j
            /\ pc'[j] = "writing" => pc[j] = "writing" /\ task'[j] = task[j]
      BY <3>1, <3>2, <2>o, <2>s, <2>a
    <3> QED BY <3>1, <3>2, <3>3, <2>o, <1>p, <1>t, QuietLeader
  <2>2. CASE Maintain(i) \/ Change(i)
    <3>1. UNCHANGED <<shared, task>>
      BY <2>2 DEF Maintain, Change, Prepare
    <3>2. file' = file /\ written' = written
      BY <3>1 DEF shared
    <3>3. Maintains(i) => NotLedByAnother(i)
      <4>1. SUFFICES ASSUME Maintains(i) PROVE NotLedByAnother(i)
        OBVIOUS
      <4>2. ~LeaseElsewhere(Reload(i), i, task[i].at)
        BY <2>2, <4>1 DEF Maintain, Change
      <4>3. CASE FileExists
        <5>1. /\ file.lease.until \in Nat /\ task[i].at \in Nat /\ clock \in Nat
              /\ task[i].at <= clock
          BY <1>p, <1>t DEF SigningTypeOK, Store, Lease, NoLease, Task
        <5> QED BY <4>2, <4>3, <5>1 DEF LeaseElsewhere, Reload, NotLedByAnother
      <4>4. CASE ~FileExists
        <5>1. written = 0
          BY <4>4 DEF FileExists, SigningTypeOK
        <5> QED BY <5>1, <1>p DEF LeaderInv, Blank, NoLease, NotLedByAnother
      <4> QED BY <4>3, <4>4
    <3>4. Maintains(i)' = Maintains(i) /\ NotLedByAnother(i)' = NotLedByAnother(i)
      BY <3>1, <3>2, <2>o DEF Maintains, NotLedByAnother
    <3> QED BY <3>1, <3>2, <3>3, <3>4, <2>o, <2>s, <2>a DEF LeaderInv, Inside
  <2>3. CASE Write(i)
    <3>1. /\ pc'[i] = "releasing" /\ UNCHANGED task /\ written' = clock
      BY <2>3, <1>p DEF Write, Continue
    <3> QED BY <3>1, <2>o, <2>s, <2>a, <1>p DEF LeaderInv, Inside
  <2> QED BY <1>5, <2>1, <2>2, <2>3 DEF Works
<1>6. ASSUME NEW i \in Instances, Crash(i) PROVE LeaderInv'
  <2>1. /\ pc'[i] = "down" /\ task'[i].at = 1
        /\ \A j \in Instances \ {i} : task'[j] = task[j] /\ pc'[j] = pc[j]
        /\ UNCHANGED <<shared, lock, clock, trespassed>>
    BY <1>6, <1>p DEF Crash, Exit, Continue
  <2> QED BY <2>1, <1>p, OutsideLeader DEF Inside
<1> QED BY <1>1, <1>2, <1>3, <1>4, <1>5, <1>6 DEF SigningNext

\* The file is written by an instance inside the mutex, which then has nobody beside it.
LEMMA WriterLeads ==
  ASSUME SigningTypeOK, LeaderInv, [SigningNext]_signingVars, ~trespassed,
         NEW i \in Instances, pc[i] = "writing", Maintains(i),
         file.lease.until > clock, file.lease.holder # i
  PROVE  file'.keys = file.keys
<1>1. SUFFICES ASSUME NEW j \in Instances, Write(j) PROVE FALSE
  <2>1. CASE UNCHANGED file
    BY <2>1
  <2> QED BY <2>1 DEF SigningNext, signingVars, shared, Tick, Serves, Locks, Works, Crash, Boot,
        Ask, AskRun, Look, Demand, Answer, Consider, OpenLock, NoticeBusy, NoticeAbandoned,
        BreakLock, GiveUp, TryAgain, Release, Abort, Refuse, Maintain, Change, Prepare, WriteFails
<1>2. lock.owner = i /\ lock.owner = j
  BY <1>1 DEF LeaderInv, Inside, Write
<1> QED BY <1>2 DEF LeaderInv, NotLedByAnother

\* Two instances never maintain the keys against the lease, while no lock was taken from
\* an instance that was inside.
THEOREM LeaseIsRespected == SigningSpec => OnlyTheLeaderMaintains
<1>1. SigningTypeOK /\ LeaderInv /\ [SigningNext]_signingVars
      => [~trespassed => \A i \in Instances :
            /\ pc[i] = "writing" /\ Maintains(i)
            /\ file.lease.until > clock /\ file.lease.holder # i
            => file'.keys = file.keys]_signingVars
  BY WriterLeads
<1> QED BY <1>1, TypesInit, TypesStep, LeaderInit, LeaderStep, PTL
        DEF SigningSpec, OnlyTheLeaderMaintains

-----------------------------------------------------------------------------
(* Stores are finite, and neither the file nor a copy that may come to be  *)
(* written is ever without a key.                                          *)

\* A nonempty set of natural numbers has a least element.
LEMMA LeastExists ==
  ASSUME NEW S \in SUBSET Nat, S # {}
  PROVE  \E m \in S : \A n \in S : m <= n
<1> DEFINE R == OpToRel(<, Nat)
<1>1. IsWellFoundedOn(R, Nat)
  BY NatLessThanWellFounded
<1>2. \A x, y \in Nat : x < y => <<x, y>> \in R
  BY DEF OpToRel
<1> HIDE DEF R
<1>3. PICK m \in S : \A n \in S : ~(<<n, m>> \in R)
  BY <1>1, WFMin
<1>4. ASSUME NEW n \in S PROVE m <= n
  <2>1. m \in Nat /\ n \in Nat /\ ~(n < m)
    BY <1>2, <1>3
  <2> QED BY <2>1
<1> QED BY <1>4

\* Of some keys one is the last that was generated.
LEMMA LastExists ==
  ASSUME NEW S, NEW n \in Nat, Known(S, n), S # {}
  PROVE  \E k \in S : \A j \in S : j.id <= k.id
<1> DEFINE T == {n - k.id : k \in S}
<1>1. \A k \in S : k.id \in Nat /\ k.id <= n /\ n - k.id \in Nat
  BY DEF Known
<1>2. PICK m \in T : \A l \in T : m <= l
  <2>1. T \in SUBSET Nat /\ T # {}
    BY <1>1
  <2> HIDE DEF T
  <2> QED BY <2>1, LeastExists
<1>3. PICK k \in S : m = n - k.id
  BY <1>2
<1>4. ASSUME NEW j \in S PROVE j.id <= k.id
  <2>1. n - k.id <= n - j.id
    BY <1>2, <1>3
  <2> QED BY <2>1, <1>1
<1> QED BY <1>4

\* Retiring keys leaves as many, and pruning and rotating add at most one.
LEMMA RetiredFinite ==
  ASSUME NEW keys, IsFiniteSet(keys), NEW at
  PROVE  IsFiniteSet({Retire(k, at) : k \in keys})
<1> DEFINE T == {Retire(k, at) : k \in keys}
           f == [k \in keys |-> Retire(k, at)]
<1>1. f \in Surjection(keys, T)
  BY DEF Surjection
<1> QED BY <1>1, FS_Surjection

\* Pruning leaves finitely many keys,
LEMMA PrunedFinite ==
  ASSUME NEW keys, IsFiniteSet(keys), NEW policy, NEW at
  PROVE  IsFiniteSet(Pruned(keys, policy, at))
BY PrunedKeepsActive, FS_Subset

\* and rotation does, which adds one.
LEMMA RotatedFinite ==
  ASSUME NEW keys, IsFiniteSet(keys), NEW policy, NEW at
  PROVE  IsFiniteSet(Rotated(keys, policy, at))
<1> DEFINE all == {NewKey(at)} \cup {Retire(k, at) : k \in keys}
<1>1. IsFiniteSet(all)
  <2>1. PICK one, retired : /\ one = {NewKey(at)} /\ IsFiniteSet(one)
                            /\ retired = {Retire(k, at) : k \in keys} /\ IsFiniteSet(retired)
    <3>1. IsFiniteSet({NewKey(at)})
      BY FS_Singleton
    <3>2. IsFiniteSet({Retire(k, at) : k \in keys})
      BY RetiredFinite
    <3> QED BY <3>1, <3>2
  <2>2. IsFiniteSet(one \cup retired)
    BY <2>1, FS_Union
  <2> QED BY <2>1, <2>2
<1> HIDE DEF all
<1>2. Rotated(keys, policy, at) = Pruned(all, policy, at)
  BY DEF Rotated, all
<1> QED BY <1>1, <1>2, PrunedFinite

\* What maintenance makes of well kept keys: the keys it was given, or a first one,
\* pruned, or rotated where the policy asks for it.
LEMMA MaintainedShape ==
  ASSUME NEW store, NEW n \in Nat, generated = n, Known(store.keys, n),
         WellKept(store.keys), store.policy \in Policies, NEW allow, NEW at \in Nat \ {0}
  PROVE  LET keys == IF store.keys = {} THEN {NewKey(at)} ELSE store.keys IN
         \/ Maintained(store, allow, at) = Pruned(keys, store.policy, at)
         \/ /\ Maintained(store, allow, at) = Rotated(keys, store.policy, at)
            /\ store.policy.auto /\ Due(keys, store.policy, at)
<1>1. store.keys # {} => Normalised(store.keys, at) = store.keys
  BY NormalisedWellKept
<1>2. store.keys = {} => Normalised(store.keys, at) = {NewKey(at)}
  BY DEF Normalised
<1> QED BY <1>1, <1>2 DEF Maintained

\* Maintenance leaves finitely many keys, and never none.
LEMMA MaintainedStocked ==
  ASSUME NEW store, NEW n \in Nat, generated = n, Known(store.keys, n),
         WellKept(store.keys), store.policy \in Policies, NEW allow, NEW at \in Nat \ {0},
         IsFiniteSet(store.keys)
  PROVE  IsFiniteSet(Maintained(store, allow, at)) /\ Maintained(store, allow, at) # {}
<1> DEFINE keys == IF store.keys = {} THEN {NewKey(at)} ELSE store.keys
<1>1. IsFiniteSet(keys) /\ Active(keys) # {}
  <2>1. store.keys = {} => NewKey(at) \in Active(keys)
    BY DEF NewKey, Active
  <2> QED BY <2>1, FS_Singleton DEF WellKept
<1>2. \/ Maintained(store, allow, at) = Pruned(keys, store.policy, at)
      \/ Maintained(store, allow, at) = Rotated(keys, store.policy, at)
  BY MaintainedShape
<1>3. NewKey(at) \in Rotated(keys, store.policy, at)
  BY DEF Rotated, Pruned, Active, NewKey
<1> HIDE DEF keys
<1> QED BY <1>1, <1>2, <1>3, PrunedKeepsActive, PrunedFinite, RotatedFinite

-----------------------------------------------------------------------------
(* What a step does to the file and to the copies: whatever is not written *)
(* was read from the file, or prepared inside the mutex.                   *)

\* An instance that writes, or may yet write, the keys it has.
KeepsKeys(i) ==
  \/ pc[i] = "writing"
  \/ /\ pc[i] \in {"waiting", "late", "breaking", "locked"}
     /\ task[i].op \notin {"rotate", "policy"} /\ ~task[i].changing

\* Time passes, a trespass is not forgotten, and the file changes by a write.
LEMMA FileSteps ==
  ASSUME SigningTypeOK, [SigningNext]_signingVars
  PROVE  /\ clock' >= clock /\ (trespassed => trespassed')
         /\ (file' = file /\ written' = written) \/ \E i \in Instances : Write(i)
<1>1. clock \in Nat
  BY DEF SigningTypeOK
<1>2. CASE UNCHANGED signingVars \/ Tick
  BY <1>1, <1>2 DEF signingVars, shared, Tick
<1>3. ASSUME NEW i \in Instances, Serves(i) \/ Locks(i) \/ Works(i) \/ Crash(i)
      PROVE  /\ clock' = clock /\ (trespassed => trespassed')
             /\ (file' = file /\ written' = written) \/ Write(i)
  <2>1. CASE Serves(i)
    BY <2>1 DEF Serves, Boot, Ask, AskRun, Look, Demand, Answer, Consider, shared
  <2>2. CASE Locks(i)
    <3>1. CASE Release(i) \/ Abort(i) \/ BreakLock(i)
      <4>1. Removes(i) /\ UNCHANGED <<shared, clock>>
        BY <3>1 DEF Release, Abort, BreakLock
      <4> QED BY <4>1 DEF Removes, shared
    <3>2. CASE OpenLock(i) \/ NoticeBusy(i) \/ NoticeAbandoned(i) \/ GiveUp(i) \/ TryAgain(i)
      <4>1. UNCHANGED <<shared, clock, trespassed>>
        BY <3>2 DEF OpenLock, NoticeBusy, NoticeAbandoned, GiveUp, TryAgain
      <4> QED BY <4>1 DEF shared
    <3> QED BY <2>2, <3>1, <3>2 DEF Locks
  <2>3. CASE Works(i)
    <3>1. CASE Maintain(i) \/ Change(i)
      <4>1. PICK store, keys : Prepare(i, store, keys)
        BY <3>1 DEF Maintain, Change
      <4> QED BY <4>1 DEF Prepare, shared
    <3>2. CASE Refuse(i) \/ Write(i) \/ WriteFails(i)
      BY <3>2 DEF Refuse, Write, WriteFails, shared
    <3> QED BY <2>3, <3>1, <3>2 DEF Works
  <2>4. CASE Crash(i)
    BY <2>4 DEF Crash, shared
  <2> QED BY <1>3, <2>1, <2>2, <2>3, <2>4
<1> QED BY <1>1, <1>2, <1>3 DEF SigningNext

\* What an instance holds after a step it held before, or read, or starts with.
Reread(j) == mem'[j] \in {mem[j], Blank} \/ (FileExists /\ mem'[j] = file)

\* One instance's part of a step: it prepares a write, or reads; and then it may come to
\* write what it has only if it found it maintained.
CopyStep(j) ==
  \/ Maintain(j) \/ Change(j)
  \/ /\ Reread(j)
     /\ pc'[j] = "writing" => pc[j] = "writing" /\ mem'[j] = mem[j] /\ task'[j] = task[j]
     /\ \/ KeepsKeys(j)' => KeepsKeys(j) /\ mem'[j] = mem[j]
        \/ /\ mem'[j] = Refresh(j)
           /\ \E op \in Trigger :
                Maintained(Refresh(j), AllowsRotation(op), clock) = Refresh(j).keys

\* The instance runMaintenance is called in.
LEMMA ConsiderCopies ==
  ASSUME SigningTypeOK, NEW i \in Instances, NEW op \in Trigger, Consider(i, op)
  PROVE  CopyStep(i)
<1>1. /\ mem'[i] = Refresh(i)
      /\ pc'[i] \in {"waiting", "idle"}
      /\ pc'[i] = "waiting" =>
           task'[i].changing = (Maintained(Refresh(i), AllowsRotation(op), clock) # Refresh(i).keys)
  <2> DEFINE changes == Maintained(Refresh(i), AllowsRotation(op), clock) # Refresh(i).keys
  <2>1. changes \in BOOLEAN
    OBVIOUS
  <2> HIDE DEF changes
  <2>2. mem'[i] = Refresh(i)
    BY DEF Consider, Hold, Looked, SigningTypeOK
  <2>3. /\ pc'[i] \in {"waiting", "idle"}
        /\ pc'[i] = "waiting" => task'[i].changing = changes
    BY DEF Consider, Continue, changes, SigningTypeOK
  <2> QED BY <2>2, <2>3 DEF changes
<1>2. Reread(i)
  BY <1>1 DEF Reread, Refresh, Reload
<1>3. CASE KeepsKeys(i)'
  <2>1. pc'[i] = "waiting" /\ ~task'[i].changing
    BY <1>1, <1>3 DEF KeepsKeys
  <2> QED BY <1>1, <1>2, <2>1 DEF CopyStep
<1> QED BY <1>1, <1>2, <1>3 DEF CopyStep

\* Each instance takes such a step, or none.
LEMMA CopySteps ==
  ASSUME SigningTypeOK, [SigningNext]_signingVars, NEW j \in Instances
  PROVE  CopyStep(j)
<1>p. /\ pc \in [Instances -> PCs] /\ task \in [Instances -> Task]
      /\ mem \in [Instances -> Store]
  BY DEF SigningTypeOK, PCs
<1>q. ASSUME Reread(j), ~KeepsKeys(j)'
      PROVE  CopyStep(j)
  BY <1>q DEF CopyStep, KeepsKeys, Reread
<1>k. ASSUME mem'[j] = mem[j], pc'[j] = pc[j], task'[j] = task[j] PROVE CopyStep(j)
  BY <1>k DEF CopyStep, Reread, KeepsKeys
<1>1. CASE UNCHANGED signingVars \/ Tick
  BY <1>1, <1>k DEF signingVars, Tick, locals
<1>2. ASSUME NEW i \in Instances, i # j, Serves(i) \/ Locks(i) \/ Works(i) \/ Crash(i)
      PROVE  CopyStep(j)
  <2>1. mem'[j] = mem[j] /\ pc'[j] = pc[j] /\ task'[j] = task[j]
    <3>1. CASE Serves(i)
      BY <1>p, <1>2, <3>1 DEF Serves, Boot, Ask, AskRun, Look, Demand, Answer, Consider, Hold,
                              Continue
    <3>2. CASE Locks(i)
      BY <1>p, <1>2, <3>2 DEF Locks, OpenLock, NoticeBusy, NoticeAbandoned, BreakLock, GiveUp,
                              TryAgain, Release, Abort, Exit, Finish, Continue
    <3>3. CASE Works(i)
      BY <1>p, <1>2, <3>3 DEF Works, Refuse, Maintain, Change, Prepare, Write, WriteFails, Hold,
                              Continue
    <3>4. CASE Crash(i)
      BY <1>p, <1>2, <3>4 DEF Crash, Exit, Continue
    <3> QED BY <1>2, <3>1, <3>2, <3>3, <3>4
  <2> QED BY <2>1, <1>k
<1>3. CASE Serves(j)
  <2>1. CASE Boot(j) \/ (\E op \in {"timer", "sign", "read"} : Ask(j, op)) \/ AskRun(j)
    BY <2>1, ConsiderCopies DEF Boot, Ask, AskRun, Trigger
  <2>2. CASE Look(j)
    BY <2>2, <1>p, <1>q DEF Look, Hold, Refresh, Reload, KeepsKeys, Reread
  <2>3. ASSUME NEW op \in {"rotate", "policy"}, NEW p \in Policies, Demand(j, op, p)
        PROVE  CopyStep(j)
    BY <2>3, <1>p, <1>q DEF Demand, Continue, KeepsKeys, Reread
  <2>4. CASE Answer(j)
    <3>1. CASE Consider(j, "read")
      BY <3>1, ConsiderCopies DEF Trigger
    <3>2. CASE task[j].op # "rotate"
      BY <2>4, <3>2, <1>p, <1>q DEF Answer, Hold, Refresh, Reload, Continue, KeepsKeys, Reread
    <3> QED BY <2>4, <3>1, <3>2 DEF Answer
  <2> QED BY <1>3, <2>1, <2>2, <2>3, <2>4, SigningAssumption DEF Serves
<1>4. CASE Locks(j)
  <2>1. CASE OpenLock(j) \/ NoticeBusy(j) \/ NoticeAbandoned(j) \/ BreakLock(j) \/ TryAgain(j)
    <3>1. /\ mem' = mem /\ task' = task
          /\ pc'[j] \in {"waiting", "late", "breaking", "locked"}
          /\ pc[j] \in {"waiting", "late", "breaking", "locked"}
      BY <2>1, <1>p DEF OpenLock, NoticeBusy, NoticeAbandoned, BreakLock, TryAgain, Continue
    <3> QED BY <3>1 DEF CopyStep, Reread, KeepsKeys
  <2>2. CASE GiveUp(j) \/ Release(j)
    <3>1. mem' = mem /\ pc'[j] \in {"idle", "answering"}
      BY <2>2, <1>p DEF GiveUp, Release, Finish, Continue
    <3> QED BY <3>1, <1>q DEF KeepsKeys, Reread
  <2>3. CASE Abort(j)
    BY <2>3, <1>p, <1>q DEF Abort, Exit, Continue, KeepsKeys, Reread
  <2> QED BY <1>4, <2>1, <2>2, <2>3 DEF Locks
<1>5. CASE Works(j)
  <2>1. CASE Refuse(j)
    BY <2>1, <1>p, <1>q DEF Refuse, Hold, Reload, Continue, KeepsKeys, Reread
  <2>2. CASE Write(j) \/ WriteFails(j)
    BY <2>2, <1>p, <1>q DEF Write, WriteFails, Continue, KeepsKeys, Reread
  <2> QED BY <1>5, <2>1, <2>2 DEF Works, CopyStep
<1>6. CASE Crash(j)
  BY <1>6, <1>p, <1>q DEF Crash, Exit, Continue, KeepsKeys, Reread
<1> QED BY <1>1, <1>2, <1>3, <1>4, <1>5, <1>6 DEF SigningNext

-----------------------------------------------------------------------------

StockInv ==
  /\ IsFiniteSet(file.keys) /\ \A i \in Instances : IsFiniteSet(mem[i].keys)
  /\ FileExists => file.keys # {}
  /\ \A i \in Instances : KeepsKeys(i) => mem[i].keys # {}

\* At the start there is no file.
LEMMA StockInit == SigningInit => StockInv
<1>1. IsFiniteSet(Blank.keys)
  BY FS_EmptySet DEF Blank
<1> QED BY <1>1 DEF SigningInit, StockInv, KeepsKeys, FileExists

\* What Prepare leaves in the instance's copy.
LEMMA PreparedCopy ==
  ASSUME SigningTypeOK, NEW i \in Instances, NEW store \in Store, NEW keys,
         Prepare(i, store, keys)
  PROVE  mem'[i].keys = keys /\ mem'[i].policy = store.policy
BY DEF SigningTypeOK, Prepare, Hold, Store

\* A copy prepared for writing is what maintenance or a rotation makes of the file, or
\* of the copy where there is no file; or, for the note of an idle run, that itself.
LEMMA PreparedFrom ==
  ASSUME SigningTypeOK, NEW i \in Instances, Maintain(i) \/ Change(i)
  PROVE  \/ /\ mem'[i].policy = Reload(i).policy
            /\ mem'[i].keys = Maintained(Reload(i), AllowsRotation(task[i].op), task[i].at)
         \/ /\ mem'[i].policy = Reload(i).policy /\ task'[i].op = "rotate"
            /\ mem'[i].keys = Rotated(Reload(i).keys, Reload(i).policy, clock)
         \/ \E next \in Store : 
              /\ next.keys = Reload(i).keys /\ next.policy = mem'[i].policy
              /\ mem'[i].keys = Maintained(next, TRUE, clock)
         \/ /\ mem'[i].policy = Reload(i).policy /\ mem'[i].keys = Reload(i).keys
            /\ pc[i] = "locked"
            /\ task[i].op \notin {"rotate", "policy"} /\ ~task[i].changing
<1>1. Reload(i) \in Store /\ task[i].policy \in Policies
  BY ReadsSound DEF Sound, SigningTypeOK, Task
<1>2. CASE Maintain(i)
  <2>1. /\ Leased(Reload(i), i, task[i].at) \in Store
        /\ Leased(Reload(i), i, task[i].at).policy = Reload(i).policy
    BY <1>1, SigningAssumption DEF Leased, Store, Lease, SigningTypeOK, Task
  <2>2. Prepare(i, Leased(Reload(i), i, task[i].at),
                Maintained(Reload(i), AllowsRotation(task[i].op), task[i].at))
    BY <1>2 DEF Maintain
  <2> QED BY <2>1, <2>2, PreparedCopy
<1>3. CASE Change(i)
  <2>1. CASE task[i].op = "rotate"
    <3>1. Prepare(i, Reload(i), Rotated(Reload(i).keys, Reload(i).policy, clock))
      BY <1>3, <2>1 DEF Change
    <3>2. task' = task
      BY <3>1 DEF Prepare
    <3> QED BY <1>1, <2>1, <3>1, <3>2, PreparedCopy
  <2>2. CASE task[i].op = "policy"
    <3>1. PICK next : next = [Reload(i) EXCEPT !.policy = task[i].policy]
      OBVIOUS
    <3>2. next \in Store /\ next.keys = Reload(i).keys
      BY <1>1, <3>1 DEF Store
    <3>3. Prepare(i, next, Maintained(next, TRUE, clock))
      BY <1>3, <2>2, <3>1 DEF Change
    <3> QED BY <3>2, <3>3, PreparedCopy
  <2>3. CASE task[i].op \notin {"rotate", "policy"}
    <3>1. Prepare(i, Reload(i), Reload(i).keys)
      BY <1>3, <2>3 DEF Change
    <3>2. pc[i] = "locked" /\ ~task[i].changing
      BY <1>3, <2>3 DEF Change, Maintains, SigningTypeOK, Task
    <3> QED BY <1>1, <2>3, <3>1, <3>2, PreparedCopy
  <2> QED BY <2>1, <2>2, <2>3
<1> QED BY <1>2, <1>3

\* Every step keeps the stores stocked.
LEMMA StockStep ==
  SigningTypeOK /\ StockInv /\ [SigningNext]_signingVars => StockInv'
<1> SUFFICES ASSUME SigningTypeOK, StockInv, [SigningNext]_signingVars PROVE StockInv'
  OBVIOUS
<1>g. PICK n \in Nat : n = generated
  BY DEF SigningTypeOK
<1>1. ASSUME NEW j \in Instances
      PROVE  IsFiniteSet(mem'[j].keys) /\ (KeepsKeys(j)' => mem'[j].keys # {})
  <2>0. /\ clock \in Nat \ {0} /\ task[j].at \in Nat \ {0}
    BY DEF SigningTypeOK, Task
  <2>1. IsFiniteSet(Blank.keys)
    BY FS_EmptySet DEF Blank
  <2>2. CASE Reread(j) /\ (KeepsKeys(j)' => KeepsKeys(j) /\ mem'[j] = mem[j])
    BY <2>1, <2>2 DEF Reread, StockInv
  <2>3. ASSUME mem'[j] = Refresh(j), NEW op \in Trigger,
               Maintained(Refresh(j), AllowsRotation(op), clock) = Refresh(j).keys
        PROVE  IsFiniteSet(mem'[j].keys) /\ mem'[j].keys # {}
    <3>1. IsFiniteSet(Refresh(j).keys)
      BY DEF Refresh, Reload, StockInv
    <3>2. Sound(Refresh(j)) /\ Refresh(j).policy \in Policies
      BY ReadsSound DEF Sound, Store
    <3>3. Maintained(Refresh(j), AllowsRotation(op), clock) # {}
      BY <1>g, <2>0, <3>1, <3>2, MaintainedStocked DEF Sound
    <3> QED BY <2>3, <3>1, <3>3
  <2>4. CASE Maintain(j) \/ Change(j)
    <3>1. /\ IsFiniteSet(Reload(j).keys)
          /\ KeepsKeys(j) => Reload(j).keys # {}
      BY DEF Reload, StockInv
    <3>2. Sound(Reload(j)) /\ Reload(j).policy \in Policies
      BY ReadsSound DEF Sound, Store
    <3>3. CASE mem'[j].keys = Maintained(Reload(j), AllowsRotation(task[j].op), task[j].at)
      BY <1>g, <2>0, <3>1, <3>2, <3>3, MaintainedStocked DEF Sound
    <3>4. CASE mem'[j].keys = Rotated(Reload(j).keys, Reload(j).policy, clock)
      <4>1. NewKey(clock) \in Rotated(Reload(j).keys, Reload(j).policy, clock)
        BY DEF Rotated, Pruned, Active, NewKey
      <4> QED BY <3>1, <3>4, <4>1, RotatedFinite
    <3>5. ASSUME NEW next \in Store, next.keys = Reload(j).keys,
                 mem'[j].keys = Maintained(next, TRUE, clock)
          PROVE  IsFiniteSet(mem'[j].keys) /\ mem'[j].keys # {}
      <4>1. next.policy \in Policies
        BY DEF Store
      <4> QED BY <1>g, <2>0, <3>1, <3>2, <3>5, <4>1, MaintainedStocked DEF Sound
    <3>6. CASE /\ mem'[j].keys = Reload(j).keys /\ pc[j] = "locked"
               /\ task[j].op \notin {"rotate", "policy"} /\ ~task[j].changing
      BY <3>1, <3>6 DEF KeepsKeys
    <3> QED BY <2>4, <3>3, <3>4, <3>5, <3>6, PreparedFrom
  <2>5. CopyStep(j)
    BY CopySteps
  <2> QED BY <2>2, <2>3, <2>4, <2>5 DEF CopyStep
<1>2. IsFiniteSet(file'.keys) /\ (FileExists' => file'.keys # {})
  <2>1. CASE file' = file /\ written' = written
    BY <2>1 DEF StockInv, FileExists
  <2>2. ASSUME NEW i \in Instances, Write(i) PROVE IsFiniteSet(file'.keys) /\ file'.keys # {}
    BY <2>2 DEF Write, StockInv, KeepsKeys
  <2> QED BY <2>1, <2>2, FileSteps
<1> QED BY <1>1, <1>2 DEF StockInv

-----------------------------------------------------------------------------
(* What a write makes of the keys of the file.  While no lock was taken    *)
(* from an instance that was inside, nobody writes between the reading of  *)
(* the file and the writing of what was made of it.                        *)

\* Why a key of the file need not be among the keys given, under a policy at a time.
Accounted(k, keys, policy, at) ==
  \/ \E l \in keys : l.id = k.id
  \/ k.retired # 0 /\ at >= k.retired + policy.retain
  \/ Cardinality({l \in keys : l.id > k.id /\ l.retired # 0}) >= MaxVerifyKeys

\* Pruning drops a key that was retained long enough, or after which as many as may be
\* kept were retired, and these are all kept (pruneVerifyOnlyKeysInPlace).
LEMMA PrunedAccounts ==
  ASSUME NEW keys, NEW n \in Nat, Known(keys, n), IsFiniteSet(keys),
         NEW policy \in Policies, NEW at \in Nat, NEW k \in keys
  PROVE  Accounted(k, Pruned(keys, policy, at), policy, at)
<1> DEFINE kept  == Retained(keys, policy, at)
           left  == Pruned(keys, policy, at)
           S     == {j \in kept : j.id > k.id}
           R     == {l \in left : l.id > k.id /\ l.retired # 0}
<1>1. /\ \A j \in keys : j \in Key /\ j.id \in Nat /\ j.retired \in Nat
      /\ policy.retain \in Nat /\ MaxVerifyKeys \in Nat
  BY SigningAssumption DEF Known, Key, Policy
<1>2. /\ kept \subseteq keys /\ \A j \in kept : j.retired # 0
      /\ left \subseteq keys
      /\ \A j \in kept : Cardinality({m \in kept : m.id > j.id}) < MaxVerifyKeys => j \in left
  BY PrunedKeepsActive DEF Retained, Active, Pruned
<1>3. CASE k \in left
  BY <1>3 DEF Accounted
<1>4. CASE k \notin left /\ k \notin kept
  <2>1. k \notin Active(keys)
    BY <1>4, PrunedKeepsActive
  <2> QED BY <1>1, <1>4, <2>1 DEF Accounted, Retained, Active
<1>5. CASE k \notin left /\ k \in kept
  <2>1. SUFFICES ASSUME Cardinality(R) < MaxVerifyKeys PROVE FALSE
    <3>1. IsFiniteSet(R)
      BY <1>2, FS_Subset
    <3>2. Cardinality(R) \in Nat
      BY <3>1, FS_CardinalityType
    <3> QED BY <1>1, <2>1, <3>2 DEF Accounted
  <2>2. IsFiniteSet(R) /\ IsFiniteSet(S) /\ Cardinality(R) \in Nat /\ Cardinality(S) \in Nat
    <3>1. R \in SUBSET keys /\ S \in SUBSET keys
      BY <1>2
    <3> HIDE DEF R, S
    <3> QED BY <3>1, FS_Subset, FS_CardinalityType
  <2>3. ~(Cardinality(S) < MaxVerifyKeys)
    BY <1>2, <1>5
  <2>4. PICK u \in S \ R : \A j \in S \ R : j.id <= u.id
    <3>1. S \ R # {}
      <4>1. SUFFICES ASSUME S \in SUBSET R PROVE FALSE
        OBVIOUS
      <4> HIDE DEF R, S
      <4>2. Cardinality(S) <= Cardinality(R)
        BY <2>2, <4>1, FS_Subset
      <4> QED BY <1>1, <2>1, <2>2, <2>3, <4>2
    <3>2. Known(S \ R, n)
      BY <1>2 DEF Known
    <3> HIDE DEF R, S
    <3> QED BY <3>1, <3>2, LastExists
  <2> DEFINE above == {m \in kept : m.id > u.id}
  <2>5. above \in SUBSET R
    <3>1. SUFFICES ASSUME NEW m \in above PROVE m \in R
      OBVIOUS
    <3>2. m \in S
      <4>1. m \in keys /\ u \in keys /\ m.id > u.id /\ u.id > k.id /\ m \in kept
        BY <1>2, <2>4
      <4> QED BY <1>1, <4>1
    <3>3. ~(m.id <= u.id)
      <4>1. m \in keys /\ u \in keys /\ m.id > u.id
        BY <1>2, <2>4
      <4> QED BY <1>1, <4>1
    <3> QED BY <2>4, <3>2, <3>3
  <2>6. Cardinality(above) <= Cardinality(R) /\ Cardinality(above) \in Nat
    <3> HIDE DEF above, R
    <3> QED BY <2>2, <2>5, FS_Subset, FS_CardinalityType
  <2>7. Cardinality(above) < MaxVerifyKeys
    BY <1>1, <2>1, <2>2, <2>6
  <2>8. u \in left
    BY <1>2, <2>4, <2>7
  <2>9. u \in R
    BY <1>2, <2>4, <2>8
  <2> QED BY <2>4, <2>9
<1> QED BY <1>3, <1>4, <1>5

\* The same of a rotation: the key it retires is not dropped by it.
LEMMA RotatedAccounts ==
  ASSUME NEW keys, NEW n \in Nat, generated = n, Known(keys, n), IsFiniteSet(keys),
         NEW policy \in Policies, NEW at \in Nat \ {0}, NEW k \in keys
  PROVE  Accounted(k, Rotated(keys, policy, at), policy, at)
<1> DEFINE all == {NewKey(at)} \cup {Retire(j, at) : j \in keys}
           r   == Retire(k, at)
<1>1. Known(all, n + 1) /\ IsFiniteSet(all) /\ r \in all
  <2>1. \A j \in keys : Retire(j, at) \in Key /\ Retire(j, at).id = j.id
    BY DEF Retire, Known, Key
  <2>2. NewKey(at) \in Key /\ NewKey(at).id = n + 1
    BY DEF NewKey, Key
  <2>3. PICK one, retired : /\ one = {NewKey(at)} /\ IsFiniteSet(one)
                            /\ retired = {Retire(j, at) : j \in keys} /\ IsFiniteSet(retired)
    <3>1. IsFiniteSet({NewKey(at)})
      BY FS_Singleton
    <3>2. IsFiniteSet({Retire(j, at) : j \in keys})
      BY RetiredFinite
    <3> QED BY <3>1, <3>2
  <2>4. IsFiniteSet(one \cup retired)
    BY <2>3, FS_Union
  <2> QED BY <2>1, <2>2, <2>3, <2>4 DEF Known
<1>2. /\ r.id = k.id /\ k.id \in Nat
      /\ policy.retain \in Nat /\ policy.retain > 0
      /\ r.retired = IF k.retired = 0 THEN at ELSE k.retired
  BY SigningAssumption DEF Retire, Known, Key, Policy
<1>3. PICK left : left = Rotated(keys, policy, at) /\ left = Pruned(all, policy, at)
  BY DEF Rotated
<1>4. Accounted(r, left, policy, at)
  <2> HIDE DEF all, r
  <2>1. n + 1 \in Nat /\ at \in Nat
    OBVIOUS
  <2> QED BY <1>1, <1>3, <2>1, PrunedAccounts
<1>5. CASE r.retired # 0 /\ at >= r.retired + policy.retain
  BY <1>2, <1>3, <1>5 DEF Accounted
<1>6. CASE \/ \E l \in left : l.id = r.id
           \/ Cardinality({l \in left : l.id > r.id /\ l.retired # 0}) >= MaxVerifyKeys
  BY <1>2, <1>3, <1>6 DEF Accounted
<1> QED BY <1>4, <1>5, <1>6 DEF Accounted

\* Pruning leaves the active keys, and what is due stays so.
LEMMA PrunedActive ==
  ASSUME NEW keys, NEW policy, NEW at
  PROVE  Active(Pruned(keys, policy, at)) = Active(keys)
BY PrunedKeepsActive DEF Active

\* A rotation that was due stays due.
LEMMA DueLater ==
  ASSUME NEW keys, NEW n, Known(keys, n), NEW policy \in Policies,
         NEW at \in Nat, NEW now \in Nat, at <= now, Due(keys, policy, at)
  PROVE  Due(keys, policy, now)
<1>1. \A k \in keys : k.born \in Nat
  BY DEF Known, Key
<1>2. policy.rotate \in Nat
  BY SigningAssumption DEF Policy
<1> QED BY <1>1, <1>2 DEF Due, Active

\* A key that was long enough retired to be dropped stays so.
LEMMA AccountedLater ==
  ASSUME NEW k \in Key, NEW keys, NEW policy \in Policies,
         NEW at \in Nat, NEW now \in Nat, at <= now, Accounted(k, keys, policy, at)
  PROVE  Accounted(k, keys, policy, now)
<1>1. k.retired \in Nat /\ policy.retain \in Nat
  BY SigningAssumption DEF Key, Policy
<1> QED BY <1>1 DEF Accounted

\* What a store written now, by a task of that kind, owes to the file.
LawfulCopy(store, byAdmin, now) ==
  /\ FileExists /\ ~byAdmin /\ Active(store.keys) # Active(file.keys)
     => store.policy.auto /\ Due(file.keys, store.policy, now)
  /\ \A k \in file.keys : Accounted(k, store.keys, store.policy, now)

Lawful(i) == LawfulCopy(mem[i], task[i].op = "rotate", clock)

DraftInv == ~trespassed => \A i \in Instances : pc[i] = "writing" => Lawful(i)

\* At the start nobody has anything to write.
LEMMA DraftInit == SigningInit => DraftInv
  BY DEF SigningInit, DraftInv

\* Maintenance of the keys of the file, begun earlier, makes a lawful copy.
LEMMA MaintainedLawful ==
  ASSUME SigningTypeOK, StockInv, FileExists, NEW now \in Nat, NEW at \in Nat \ {0}, at <= now,
         NEW before, before.keys = file.keys, before.policy \in Policies,
         NEW store, store.policy = before.policy, NEW allow,
         store.keys = Maintained(before, allow, at), NEW byAdmin
  PROVE  LawfulCopy(store, byAdmin, now)
<1>1. /\ Sound(file) /\ file.keys # {} /\ IsFiniteSet(file.keys)
      /\ \A k \in file.keys : k \in Key
  BY TypesOfStores DEF StockInv, Sound, Known
<1>2. PICK n \in Nat : n = generated
  BY DEF SigningTypeOK
<1>3. /\ Known(file.keys, n) /\ WellKept(file.keys)
  BY <1>1, <1>2 DEF Sound
<1>4. \/ store.keys = Pruned(file.keys, store.policy, at)
      \/ /\ store.keys = Rotated(file.keys, store.policy, at)
         /\ store.policy.auto /\ Due(file.keys, store.policy, at)
  BY <1>1, <1>2, <1>3, MaintainedShape
<1>5. \A k \in file.keys : Accounted(k, store.keys, store.policy, now)
  <2>1. \A k \in file.keys : Accounted(k, store.keys, store.policy, at)
    BY <1>1, <1>2, <1>3, <1>4, PrunedAccounts, RotatedAccounts
  <2> QED BY <1>1, <2>1, AccountedLater
<1>6. store.policy.auto /\ Due(file.keys, store.policy, at)
      => store.policy.auto /\ Due(file.keys, store.policy, now)
  BY <1>3, DueLater
<1> QED BY <1>4, <1>5, <1>6, PrunedActive DEF LawfulCopy

\* A copy is lawful when it is prepared.
LEMMA PreparedLawful ==
  ASSUME SigningTypeOK, StockInv, LeaderInv, NEW i \in Instances, Maintain(i) \/ Change(i)
  PROVE  Lawful(i)'
<1>0. file' = file /\ written' = written /\ clock' = clock
  BY DEF Maintain, Change, Prepare, shared
<1>1. PICK store, byAdmin : /\ store = mem'[i] /\ byAdmin = (task'[i].op = "rotate")
                            /\ byAdmin \in BOOLEAN
  OBVIOUS
<1>2. SUFFICES LawfulCopy(store, byAdmin, clock)
  BY <1>0, <1>1 DEF Lawful, LawfulCopy, FileExists
<1>t. /\ clock \in Nat \ {0} /\ task[i].at \in Nat \ {0} /\ task[i].at <= clock
  BY DEF SigningTypeOK, Task, LeaderInv
<1>3. CASE ~FileExists
  <2>1. file = Blank
    BY <1>3 DEF FileExists, LeaderInv, SigningTypeOK
  <2> QED BY <1>3, <2>1 DEF LawfulCopy, Blank
<1>4. CASE FileExists
  <2>0. Reload(i) = file /\ file.policy \in Policies
    BY <1>4, TypesOfStores DEF Reload, Sound, Store
  <2>f. /\ Sound(file) /\ IsFiniteSet(file.keys)
    BY TypesOfStores DEF StockInv
  <2>1. CASE /\ store.policy = file.policy
             /\ store.keys = Maintained(file, AllowsRotation(task[i].op), task[i].at)
    BY <1>4, <1>t, <2>0, <2>1, MaintainedLawful
  <2>2. CASE /\ store.policy = file.policy /\ byAdmin
             /\ store.keys = Rotated(file.keys, file.policy, clock)
    <3>1. PICK n \in Nat : n = generated
      BY DEF SigningTypeOK
    <3>2. \A k \in file.keys : Accounted(k, store.keys, store.policy, clock)
      BY <1>t, <2>0, <2>f, <2>2, <3>1, RotatedAccounts DEF Sound
    <3> QED BY <2>2, <3>2 DEF LawfulCopy
  <2>3. ASSUME NEW next \in Store, next.keys = file.keys, next.policy = store.policy,
               store.keys = Maintained(next, TRUE, clock)
        PROVE  LawfulCopy(store, byAdmin, clock)
    <3>1. next.policy \in Policies
      BY DEF Store
    <3>2. PICK allow : allow = TRUE
      OBVIOUS
    <3>3. store.keys = Maintained(next, allow, clock) /\ clock \in Nat /\ clock <= clock
      BY <1>t, <2>3, <3>2
    <3> QED BY <1>4, <1>t, <2>3, <3>1, <3>3, MaintainedLawful
  <2>4. CASE store.keys = file.keys
    <3>1. \A k \in file.keys : \E l \in store.keys : l.id = k.id
      BY <2>4
    <3>2. \A k \in file.keys : Accounted(k, store.keys, store.policy, clock)
      BY <3>1 DEF Accounted
    <3>3. Active(store.keys) = Active(file.keys)
      BY <2>4 DEF Active
    <3> QED BY <3>2, <3>3 DEF LawfulCopy
  <2>5. \/ /\ mem'[i].policy = file.policy
           /\ mem'[i].keys = Maintained(file, AllowsRotation(task[i].op), task[i].at)
        \/ /\ mem'[i].policy = file.policy /\ task'[i].op = "rotate"
           /\ mem'[i].keys = Rotated(file.keys, file.policy, clock)
        \/ \E next \in Store :
             /\ next.keys = file.keys /\ next.policy = mem'[i].policy
             /\ mem'[i].keys = Maintained(next, TRUE, clock)
        \/ mem'[i].keys = file.keys
    BY <2>0, PreparedFrom
  <2> QED BY <1>1, <2>1, <2>2, <2>3, <2>4, <2>5
<1> QED BY <1>3, <1>4

\* Every step keeps the copies lawful: nobody else writes meanwhile.
LEMMA DraftStep ==
  SigningTypeOK /\ LeaderInv /\ StockInv /\ DraftInv /\ [SigningNext]_signingVars => DraftInv'
<1> SUFFICES ASSUME SigningTypeOK, LeaderInv, StockInv, DraftInv, [SigningNext]_signingVars,
                    ~trespassed', NEW j \in Instances, pc'[j] = "writing"
             PROVE  Lawful(j)'
  BY DEF DraftInv
<1>1. /\ clock' >= clock /\ ~trespassed
      /\ (file' = file /\ written' = written) \/ \E i \in Instances : Write(i)
  BY FileSteps
<1>2. CASE Maintain(j) \/ Change(j)
  BY <1>2, PreparedLawful
<1>3. CASE pc[j] = "writing" /\ mem'[j] = mem[j] /\ task'[j] = task[j]
  <2>1. Lawful(j)
    BY <1>1, <1>3 DEF DraftInv
  <2>2. ASSUME NEW i \in Instances, Write(i) PROVE FALSE
    <3>1. lock.owner = i /\ lock.owner = j
      BY <1>1, <1>3, <2>2 DEF LeaderInv, Inside, Write
    <3>2. pc'[i] = "releasing"
      BY <2>2 DEF Write, Continue, SigningTypeOK
    <3> QED BY <3>1, <3>2
  <2>3. file' = file /\ written' = written
    BY <1>1, <2>2
  <2>4. /\ \A k \in file.keys : k \in Key
        /\ Known(file.keys, generated) /\ mem[j].policy \in Policies
        /\ clock \in Nat
    BY TypesOfStores DEF Sound, Known, Store, SigningTypeOK
  <2>5. PICK now \in Nat : now = clock' /\ clock <= now
    <3>1. clock' \in Nat
      BY TypesStep DEF SigningTypeOK
    <3> QED BY <1>1, <2>4, <3>1
  <2>6. LawfulCopy(mem[j], task[j].op = "rotate", clock)
    BY <2>1 DEF Lawful
  <2>7. LawfulCopy(mem[j], task[j].op = "rotate", now)
    BY <2>4, <2>5, <2>6, DueLater, AccountedLater DEF LawfulCopy
  <2> QED BY <1>3, <2>3, <2>5, <2>7 DEF Lawful, LawfulCopy, FileExists
<1> QED BY <1>2, <1>3, CopySteps DEF CopyStep

\* The invariant of all that is said of the file and the copies made of it.
FileInv == SigningTypeOK /\ LeaderInv /\ StockInv /\ DraftInv

\* Leaders, keys and drafts: the invariant over which the file is only ever changed
\* lawfully.
LEMMA FileInvariance == SigningSpec => []FileInv
<1>1. SigningInit => FileInv
  BY TypesInit, LeaderInit, StockInit, DraftInit DEF FileInv
<1>2. FileInv /\ [SigningNext]_signingVars => FileInv'
  BY TypesStep, LeaderStep, StockStep, DraftStep DEF FileInv
<1> QED BY <1>1, <1>2, PTL DEF SigningSpec

\* Whoever writes the file, while no lock was taken from an instance that was inside,
\* writes a lawful copy.
LEMMA WritesAreLawful ==
  ASSUME FileInv, [SigningNext]_signingVars, ~trespassed
  PROVE  \/ file' = file
         \/ \E i \in Instances : /\ pc[i] = "writing" /\ file' = mem[i]
                                 /\ LawfulCopy(file', task[i].op = "rotate", clock)
<1>1. file' = file \/ \E i \in Instances : Write(i)
  BY FileSteps DEF FileInv
<1>2. ASSUME NEW i \in Instances, Write(i)
      PROVE  /\ pc[i] = "writing" /\ file' = mem[i]
             /\ LawfulCopy(file', task[i].op = "rotate", clock)
  <2>1. pc[i] = "writing" /\ file' = mem[i]
    BY <1>2 DEF Write
  <2>2. LawfulCopy(mem[i], task[i].op = "rotate", clock)
    BY <2>1 DEF FileInv, DraftInv, Lawful
  <2>3. PICK next : next = file' /\ next = mem[i]
    BY <2>1
  <2> QED BY <2>1, <2>2, <2>3
<1> QED BY <1>1, <1>2

\* Two instances that find the same key due do not rotate it twice: a key is replaced
\* when the policy written with it says so of the key the file had, or an admin rotates
\* (maintainSync, rotate; while no lock was taken from an instance inside the mutex).
THEOREM KeysRotateWhenDue == SigningSpec => RotatesOnlyWhenDue
<1>1. FileInv /\ [SigningNext]_signingVars
      => [~trespassed /\ FileExists /\ Active(file'.keys) # Active(file.keys)
          => \/ file'.policy.auto /\ Due(file.keys, file'.policy, clock)
             \/ \E i \in Instances : pc[i] = "writing" /\ task[i].op = "rotate"]_signingVars
  BY WritesAreLawful DEF LawfulCopy
<1> QED BY <1>1, FileInvariance, PTL DEF SigningSpec, RotatesOnlyWhenDue

\* No write drops a key before its time: what another instance added since is never
\* written over, and what is missing was retained long enough or is followed by as many
\* retired keys as are kept (pruneVerifyOnlyKeysInPlace).
THEOREM KeysStayUntilPruned == SigningSpec => KeysLeaveByPruning
<1>1. FileInv /\ [SigningNext]_signingVars
      => [~trespassed => \A k \in file.keys :
            \/ \E l \in file'.keys : l.id = k.id
            \/ k.retired # 0 /\ clock >= k.retired + file'.policy.retain
            \/ Cardinality({l \in file'.keys : l.id > k.id /\ l.retired # 0}) >= MaxVerifyKeys
         ]_signingVars
  <2> SUFFICES ASSUME FileInv, [SigningNext]_signingVars, ~trespassed, NEW k \in file.keys
               PROVE  Accounted(k, file'.keys, file'.policy, clock)
    BY DEF Accounted
  <2> QED BY WritesAreLawful DEF LawfulCopy, Accounted
<1> QED BY <1>1, FileInvariance, PTL DEF SigningSpec, KeysLeaveByPruning
=============================================================================
