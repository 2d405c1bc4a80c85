----------------------- MODULE OperatorDelegationProofs -----------------------
(***************************************************************************)
(* Proofs about OperatorDelegation for any principals, rosters, limits and *)
(* numbers of writers and grants.                                          *)
(*                                                                         *)
(* The safety properties speak of every content that can be read, now or   *)
(* once the writes under way are over (Contents).  A step of a writer adds *)
(* no content to that set, and an operation adds one that it made of a     *)
(* content in it; so it is enough that reading, with the expiries that     *)
(* have passed, and each operation on what was read keep a store in order  *)
(* (StoreOK), however the writers interleave.                              *)
(***************************************************************************)
EXTENDS OperatorDelegation, FiniteSetTheorems, TLAPS

Live(c) == Active(c) \cup Pending(c)

\* A store in order, of grants with ids up to n.
StoreOK(c, n) ==
  /\ DOMAIN c \subseteq 1 .. n /\ c \in [DOMAIN c -> Grant]
  /\ \A g \in DOMAIN c : TwoPersonRule(c[g])
  /\ \A g, o \in DOMAIN c :
       g # o /\ c[g].status \in LiveStatus /\ c[o].status \in LiveStatus => ~SameScope(c[g], c[o])
  /\ Cardinality(Pending(c)) <= MaxPending
  /\ Cardinality(Live(c)) <= MaxActive + MaxPending - 1

WriterOK(w, n) ==
  /\ w = [step |-> w.step, fd |-> w.fd, content |-> w.content]
  /\ w.step \in {"open", "write", "rename"}
  /\ w.fd \in Places
  /\ StoreOK(w.content, n)

FileInv(n) ==
  /\ DOMAIN disk = {"file", "tmp"}
  /\ DOMAIN writers \subseteq Slots
  /\ \A w \in DOMAIN writers : WriterOK(writers[w], n)
  /\ \A c \in Contents : StoreOK(c, n)

RestInv ==
  /\ incident \in Incident
  /\ DOMAIN handlers \subseteq Nat /\ handlers \in [DOMAIN handlers -> Handler]
  /\ now \in Nat
  /\ issued \in Nat
  /\ crashes \in Nat

Inv == FileInv(issued) /\ RestInv

-----------------------------------------------------------------------------
(* Stores. *)

\* The live grants of a store are finitely many.
LEMMA FiniteStore ==
  ASSUME NEW n \in Nat, NEW c, StoreOK(c, n)
  PROVE  /\ IsFiniteSet(Active(c)) /\ IsFiniteSet(Pending(c)) /\ IsFiniteSet(Live(c))
         /\ Cardinality(Active(c)) \in Nat /\ Cardinality(Pending(c)) \in Nat
         /\ Cardinality(Live(c)) \in Nat
<1>1. IsFiniteSet(1 .. n)
  BY FS_Interval
<1>2. /\ Active(c) \subseteq 1 .. n /\ Pending(c) \subseteq 1 .. n /\ Live(c) \subseteq 1 .. n
  BY DEF StoreOK, Active, Pending, WithStatus, Live
<1> QED
  BY <1>1, <1>2, FS_Subset, FS_CardinalityType

\* A store with grants settled, and nothing else changed, is in order.
LEMMA SettlingSound ==
  ASSUME NEW n \in Nat, NEW c, StoreOK(c, n), NEW d,
         DOMAIN d = DOMAIN c, d \in [DOMAIN c -> Grant],
         \A g \in DOMAIN c : \/ d[g] = c[g]
                             \/ /\ d[g].status \in SettledStatus
                                /\ d[g].by = c[g].by /\ d[g].delegate = c[g].delegate
                                /\ d[g].approver = c[g].approver
                                /\ d[g].status \in {"consumed", "expired"} =>
                                     c[g].status = "active"
  PROVE  StoreOK(d, n)
<1>1. \A g \in DOMAIN d : TwoPersonRule(d[g])
  BY DEF StoreOK, TwoPersonRule, SettledStatus
<1>2. \A g \in DOMAIN d : d[g].status \in LiveStatus => d[g] = c[g]
  BY DEF LiveStatus, SettledStatus
<1>3. Pending(d) \subseteq Pending(c) /\ Live(d) \subseteq Live(c)
  BY <1>2 DEF Pending, Active, Live, WithStatus, LiveStatus
<1>4. /\ Cardinality(Pending(d)) <= Cardinality(Pending(c))
      /\ Cardinality(Live(d)) <= Cardinality(Live(c))
      /\ Cardinality(Pending(d)) \in Nat /\ Cardinality(Live(d)) \in Nat
  BY <1>3, FiniteStore, FS_Subset, FS_CardinalityType
<1>5. Cardinality(Pending(c)) \in Nat /\ Cardinality(Live(c)) \in Nat
  BY FiniteStore
<1>6. /\ Cardinality(Pending(d)) <= MaxPending
      /\ Cardinality(Live(d)) <= MaxActive + MaxPending - 1
  BY <1>4, <1>5, DelegationAssumption DEF StoreOK
<1> QED
  BY <1>1, <1>2, <1>6 DEF StoreOK

\* What readStore returns is in order: time only expires grants.
LEMMA ReadSound ==
  ASSUME Inv
  PROVE  StoreOK(Store, issued)
<1> DEFINE file == IF Legible(disk.file) THEN disk.file ELSE NoGrants
<1>n. issued \in Nat /\ now \in Nat
  BY DEF Inv, RestInv
<1>1. StoreOK(file, issued)
  <2>1. CASE Legible(disk.file)
    BY <2>1 DEF Inv, FileInv, Contents
  <2>2. CASE ~Legible(disk.file)
    <3>1. DOMAIN file = {} /\ file \in [DOMAIN file -> Grant]
      BY <2>2 DEF NoGrants
    <3>2. Pending(file) = {} /\ Live(file) = {}
      BY <3>1 DEF Pending, Active, Live, WithStatus
    <3>3. 0 <= MaxPending /\ 0 <= MaxActive + MaxPending - 1
      BY DelegationAssumption
    <3> HIDE DEF file
    <3> QED
      BY <3>1, <3>2, <3>3, FS_EmptySet DEF StoreOK
  <2> QED
    BY <2>1, <2>2
<1>2. Store = [g \in DOMAIN file |-> Materialized(file[g])]
  BY DEF Store
<1>3. ASSUME NEW g \in DOMAIN file
      PROVE  /\ Materialized(file[g]) \in Grant
             /\ \/ Materialized(file[g]) = file[g]
                \/ /\ Materialized(file[g]).status \in SettledStatus
                   /\ Materialized(file[g]).by = file[g].by
                   /\ Materialized(file[g]).delegate = file[g].delegate
                   /\ Materialized(file[g]).approver = file[g].approver
                   /\ Materialized(file[g]).status \in {"consumed", "expired"} =>
                        file[g].status = "active"
  <2>1. file[g] \in Grant
    BY <1>1 DEF StoreOK
  <2> QED
    BY <2>1 DEF Materialized, Grant, SettledStatus, LiveStatus
<1> HIDE DEF file
<1> QED
  BY <1>n, <1>1, <1>2, <1>3, SettlingSound

\* A store in order stays in order when more ids are handed out.
LEMMA MoreIds ==
  ASSUME NEW n \in Nat, FileInv(n)
  PROVE  FileInv(n + 1)
BY DEF FileInv, WriterOK, StoreOK

-----------------------------------------------------------------------------
(* The file. *)

\* Starting a write adds its content to what can be read, and nothing else.
LEMMA WriteContents ==
  ASSUME NEW c, WriteJson(c)
  PROVE  Contents' \subseteq Contents \cup {c}
<1>1. PICK new \in Slots \ DOMAIN writers :
        writers' = [w \in DOMAIN writers \cup {new} |->
                      IF w = new THEN [step |-> "open", fd |-> "none", content |-> c]
                      ELSE writers[w]]
  BY DEF WriteJson
<1> QED
  BY <1>1 DEF WriteJson, Contents, Legible

\* A store in order may be written.
LEMMA WriteSound ==
  ASSUME NEW n \in Nat, FileInv(n), NEW c, StoreOK(c, n), WriteJson(c)
  PROVE  FileInv(n)'
<1>1. PICK new \in Slots \ DOMAIN writers :
        writers' = [w \in DOMAIN writers \cup {new} |->
                      IF w = new THEN [step |-> "open", fd |-> "none", content |-> c]
                      ELSE writers[w]]
  BY DEF WriteJson
<1>2. disk' = disk
  BY DEF WriteJson
<1>3. DOMAIN writers' = DOMAIN writers \cup {new} /\ DOMAIN writers' \subseteq Slots
  BY <1>1 DEF FileInv
<1>4. \A w \in DOMAIN writers' : WriterOK(writers'[w], n)
  BY <1>1, <1>3 DEF FileInv, WriterOK, Places
<1>6. \A d \in Contents' : StoreOK(d, n)
  BY WriteContents DEF FileInv
<1> QED
  BY <1>2, <1>3, <1>4, <1>6 DEF FileInv

\* A writer's step adds nothing to what can be read.
LEMMA FileStepContents ==
  ASSUME NEW n \in Nat, FileInv(n), NEW w \in DOMAIN writers,
         OpensTmp(w) \/ Writes(w) \/ Renames(w)
  PROVE  FileInv(n)' /\ Contents' \subseteq Contents
<1>w. WriterOK(writers[w], n)
  BY DEF FileInv
<1>1. CASE OpensTmp(w)
  <2>1. DOMAIN disk' = {"file", "tmp"} /\ disk'.file = disk.file /\ disk'.tmp = Empty
    BY <1>1 DEF OpensTmp, FileInv
  <2>2. DOMAIN writers' = DOMAIN writers
    BY <1>1 DEF OpensTmp
  <2>3. ASSUME NEW v \in DOMAIN writers
        PROVE  WriterOK(writers'[v], n) /\ writers'[v].content = writers[v].content
    <3>1. CASE v # w
      BY <1>1, <3>1 DEF OpensTmp, FileInv
    <3>2. CASE v = w
      <4>1. writers'[v] = [step |-> "write", fd |-> "tmp", content |-> writers[v].content]
        BY <1>1, <1>w, <3>2 DEF OpensTmp, WriterOK
      <4> QED
        BY <1>w, <3>2, <4>1 DEF WriterOK, Places
    <3> QED
      BY <3>1, <3>2
  <2>4. Contents' \subseteq Contents
    BY <2>1, <2>2, <2>3 DEF Contents, Legible
  <2>5. \A c \in Contents' : StoreOK(c, n)
    BY <2>4 DEF FileInv
  <2> QED
    BY <2>1, <2>2, <2>3, <2>4, <2>5 DEF FileInv
<1>2. CASE Writes(w)
  <2>1. /\ DOMAIN disk' = {"file", "tmp"}
        /\ disk'.file \in {disk.file, writers[w].content, Torn}
        /\ disk'.tmp \in {disk.tmp, writers[w].content, Torn}
    BY <1>2 DEF Writes, FileInv, Overlaid
  <2>2. DOMAIN writers' = DOMAIN writers
    BY <1>2 DEF Writes
  <2>3. \A v \in DOMAIN writers : WriterOK(writers'[v], n) /\ writers'[v].content = writers[v].content
    BY <1>2 DEF Writes, FileInv, WriterOK
  <2>4. Contents' \subseteq Contents
    BY <2>1, <2>2, <2>3 DEF Contents, Legible
  <2>5. \A c \in Contents' : StoreOK(c, n)
    BY <2>4 DEF FileInv
  <2> QED
    BY <2>1, <2>2, <2>3, <2>4, <2>5 DEF FileInv
<1>3. CASE Renames(w)
  <2>1. /\ DOMAIN disk' = {"file", "tmp"}
        /\ disk'.file \in {disk.file, disk.tmp}
        /\ disk'.tmp \in {disk.tmp, None}
    BY <1>3 DEF Renames, FileInv
  <2>2. DOMAIN writers' = DOMAIN writers \ {w}
    BY <1>3 DEF Renames, Others
  <2>3. \A v \in DOMAIN writers' : WriterOK(writers'[v], n) /\ writers'[v].content = writers[v].content
    BY <1>3, <2>2 DEF Renames, Others, FileInv, WriterOK, Places, Follows
  <2>4. Contents' \subseteq Contents
    BY <2>1, <2>2, <2>3 DEF Contents, Legible
  <2>5. \A c \in Contents' : StoreOK(c, n)
    BY <2>4 DEF FileInv
  <2> QED
    BY <2>1, <2>2, <2>3, <2>4, <2>5 DEF FileInv
<1> QED
  BY <1>1, <1>2, <1>3

\* A crash leaves the disk as it is.
LEMMA CrashContents ==
  ASSUME NEW n \in Nat, FileInv(n), WritersDie
  PROVE  FileInv(n)' /\ Contents' \subseteq Contents
<1>1. DOMAIN writers' = {} /\ disk' = disk
  BY DEF WritersDie
<1>2. Contents' \subseteq Contents
  BY <1>1 DEF Contents, Legible
<1> QED
  BY <1>1, <1>2 DEF FileInv

-----------------------------------------------------------------------------
(* The operations. *)

\* A request adds one pending grant, for a thing no live grant is for.
LEMMA RequestSound ==
  ASSUME Inv, NEW p \in Principals, NEW d \in Delegates, NEW a \in Askable, RequestGrant(p, d, a)
  PROVE  Inv'
<1> DEFINE grant == NewGrant(p, d, a)
           c == [g \in DOMAIN Store \cup {issued + 1} |->
                   IF g \in DOMAIN Store THEN Store[g] ELSE grant]
<1>1. PICK n \in Nat : n = issued
  BY DEF Inv, RestInv
<1>2. StoreOK(Store, n)
  BY <1>1, ReadSound
<1>3. grant \in Grant /\ TwoPersonRule(grant)
  <2>1. /\ now + ApprovalTtl \in Nat /\ incident.rev \in Nat
        /\ a \in Actions /\ d \in Principals /\ p \in Approvers /\ p # d
    BY DelegationAssumption DEF Inv, RestInv, Incident, Actions, RequestGrant, CreateGrant, MayDelegate
  <2> QED
    BY <2>1 DEF NewGrant, Grant, LiveStatus, TwoPersonRule
<1>4. /\ DOMAIN c = DOMAIN Store \cup {n + 1} /\ n + 1 \notin DOMAIN Store
      /\ \A g \in DOMAIN Store : c[g] = Store[g]
      /\ c[n + 1] = grant
      /\ DOMAIN c \subseteq 1 .. n + 1
  BY <1>1, <1>2 DEF StoreOK
<1>c. c \in [DOMAIN c -> Grant]
  BY <1>1, <1>2, <1>3 DEF StoreOK
<1>w. WriteJson(c) /\ issued' = n + 1 /\ Room(Store) /\ ~Duplicate(Store, grant)
  BY <1>1 DEF RequestGrant, CreateGrant, MayDelegate
<1> HIDE DEF c
<1>5. /\ Pending(c) = Pending(Store) \cup {n + 1} /\ n + 1 \notin Pending(Store)
      /\ Live(c) = Live(Store) \cup {n + 1} /\ n + 1 \notin Live(Store)
  BY <1>4 DEF Pending, Active, Live, WithStatus, NewGrant
<1>6. /\ Cardinality(Pending(c)) <= MaxPending
      /\ Cardinality(Live(c)) <= MaxActive + MaxPending - 1
  <2>1. /\ IsFiniteSet(Active(Store)) /\ IsFiniteSet(Pending(Store)) /\ IsFiniteSet(Live(Store))
        /\ Cardinality(Active(Store)) \in Nat /\ Cardinality(Pending(Store)) \in Nat
        /\ Cardinality(Live(Store)) \in Nat
    BY <1>2, FiniteStore
  <2>2. /\ Cardinality(Pending(c)) = Cardinality(Pending(Store)) + 1
        /\ Cardinality(Live(c)) = Cardinality(Live(Store)) + 1
    BY <1>5, <2>1, FS_AddElement
  <2>3. /\ Cardinality(Live(Store)) =
             Cardinality(Active(Store)) + Cardinality(Pending(Store))
               - Cardinality(Active(Store) \cap Pending(Store))
        /\ Cardinality(Active(Store) \cap Pending(Store)) \in Nat
    BY <2>1, FS_Union, FS_Intersection, FS_CardinalityType DEF Live
  <2>4. Cardinality(Active(Store)) < MaxActive /\ Cardinality(Pending(Store)) < MaxPending
    BY <1>w DEF Room
  <2>5. MaxActive \in Nat /\ MaxPending \in Nat
    BY DelegationAssumption
  <2> QED
    BY <2>1, <2>2, <2>3, <2>4, <2>5
<1>7. \A g \in DOMAIN Store : Store[g].status \in LiveStatus => ~SameScope(Store[g], grant)
  BY <1>w DEF Duplicate, Active, Pending, WithStatus, LiveStatus
<1>8. \A g, o \in DOMAIN c :
        g # o /\ c[g].status \in LiveStatus /\ c[o].status \in LiveStatus => ~SameScope(c[g], c[o])
  BY <1>2, <1>4, <1>7 DEF StoreOK, SameScope
<1>9. \A g \in DOMAIN c : TwoPersonRule(c[g])
  BY <1>2, <1>3, <1>4 DEF StoreOK
<1>10. StoreOK(c, n + 1)
  BY <1>4, <1>c, <1>6, <1>8, <1>9 DEF StoreOK
<1>11. FileInv(n + 1)
  BY <1>1, MoreIds DEF Inv
<1>12. FileInv(n + 1)'
  BY <1>10, <1>11, <1>w, WriteSound
<1>13. RestInv'
  BY <1>1, <1>w DEF Inv, RestInv, RequestGrant, CreateGrant, MayDelegate
<1> QED
  BY <1>12, <1>13, <1>w DEF Inv

\* Approval makes one pending grant active, which leaves the live ones as they were.
LEMMA ApproveSound ==
  ASSUME Inv, NEW p \in Principals, NEW g \in 1 .. MaxGrants, Approve(p, g)
  PROVE  Inv'
<1> DEFINE c == [Store EXCEPT ![g].status = "active", ![g].approver = p, ![g].due = now + GrantTtl]
<1>1. PICK n \in Nat : n = issued
  BY DEF Inv, RestInv
<1>2. StoreOK(Store, n)
  BY <1>1, ReadSound
<1>3. WriteJson(c) /\ g \in DOMAIN Store /\ Approvable(Store, g, p) /\ p \in Approvers
  BY DEF Approve, ApproveGrant, MayDelegate
<1>4. Store \in [DOMAIN Store -> Grant] /\ DOMAIN Store \subseteq 1 .. n
  BY <1>2 DEF StoreOK
<1>5. /\ DOMAIN c = DOMAIN Store
      /\ \A o \in DOMAIN Store \ {g} : c[o] = Store[o]
      /\ c[g] = [Store[g] EXCEPT !.status = "active", !.approver = p, !.due = now + GrantTtl]
      /\ c = [o \in DOMAIN c |-> c[o]]
  BY <1>3, <1>4
<1> HIDE DEF c
<1>6. c[g] \in Grant /\ c[g].status = "active" /\ c[g].approver = p /\ c[g].by = Store[g].by
      /\ c[g].delegate = Store[g].delegate /\ SameScope(c[g], Store[g])
  <2>1. Store[g] \in Grant /\ now + GrantTtl \in Nat
    BY <1>3, <1>4, DelegationAssumption DEF Inv, RestInv
  <2>2. p \in Principals \cup {None} /\ "active" \in LiveStatus \cup SettledStatus
    BY DEF LiveStatus
  <2> QED
    BY <1>5, <2>1, <2>2 DEF Grant, SameScope
<1>7. c \in [DOMAIN c -> Grant]
  BY <1>3, <1>4, <1>5, <1>6
<1>8. \A o \in DOMAIN c : TwoPersonRule(c[o])
  <2>1. TwoPersonRule(c[g])
    BY <1>2, <1>3, <1>6 DEF StoreOK, TwoPersonRule, Approvable
  <2> QED
    BY <1>2, <1>5, <2>1 DEF StoreOK
<1>9. Pending(c) = Pending(Store) \ {g} /\ Live(c) = Live(Store)
  <2>1. Store[g].status = "pending_approval"
    BY <1>3 DEF Approvable
  <2>2. \A o \in DOMAIN Store : o # g => c[o].status = Store[o].status
    BY <1>5
  <2>3. Active(c) = Active(Store) \cup {g} /\ Pending(c) = Pending(Store) \ {g}
    BY <1>3, <1>5, <1>6, <2>1, <2>2 DEF Pending, Active, WithStatus
  <2>4. g \in Pending(Store)
    BY <1>3, <2>1 DEF Pending, WithStatus
  <2> QED
    BY <2>3, <2>4 DEF Live
<1>10. /\ Cardinality(Pending(c)) <= MaxPending
       /\ Cardinality(Live(c)) <= MaxActive + MaxPending - 1
  <2>1. IsFiniteSet(Pending(Store)) /\ Cardinality(Pending(Store)) \in Nat
    BY <1>2, FiniteStore
  <2>2. Cardinality(Pending(c)) <= Cardinality(Pending(Store)) /\ Cardinality(Pending(c)) \in Nat
    BY <1>9, <2>1, FS_Subset, FS_CardinalityType
  <2> QED
    BY <1>2, <1>9, <2>1, <2>2, DelegationAssumption DEF StoreOK
<1>11. \A o \in DOMAIN Store \ {g} : Store[o].status \in LiveStatus => ~SameScope(Store[o], Store[g])
  BY <1>2, <1>3 DEF StoreOK, Approvable, LiveStatus
<1>12. \A o, q \in DOMAIN c :
        o # q /\ c[o].status \in LiveStatus /\ c[q].status \in LiveStatus => ~SameScope(c[o], c[q])
  <2>1. ASSUME NEW o \in DOMAIN c, NEW q \in DOMAIN c, o # q,
               c[o].status \in LiveStatus, c[q].status \in LiveStatus
        PROVE  ~SameScope(c[o], c[q])
    <3>1. CASE o # g /\ q # g
      BY <1>2, <1>5, <2>1, <3>1 DEF StoreOK
    <3>2. CASE o = g
      BY <1>5, <1>6, <1>11, <2>1, <3>2 DEF SameScope
    <3>3. CASE q = g
      BY <1>5, <1>6, <1>11, <2>1, <3>3 DEF SameScope
    <3> QED
      BY <3>1, <3>2, <3>3
  <2> QED
    BY <2>1
<1>13. StoreOK(c, n)
  BY <1>4, <1>5, <1>7, <1>8, <1>10, <1>12 DEF StoreOK
<1>14. FileInv(n)'
  BY <1>1, <1>3, <1>13, WriteSound DEF Inv
<1>15. RestInv' /\ issued' = n
  BY <1>1 DEF Inv, RestInv, Approve, ApproveGrant, MayDelegate
<1> QED
  BY <1>14, <1>15 DEF Inv

\* Settling one live grant that was read keeps the store in order.
LEMMA SettleOneSound ==
  ASSUME Inv, NEW g \in Live(Store), NEW s \in {"revoked", "consumed"},
         s = "consumed" => g \in Active(Store)
  PROVE  StoreOK([Store EXCEPT ![g].status = s], issued)
<1> DEFINE c == [Store EXCEPT ![g].status = s]
<1>1. StoreOK(Store, issued) /\ issued \in Nat
  BY ReadSound DEF Inv, RestInv
<1>2. Store \in [DOMAIN Store -> Grant] /\ g \in DOMAIN Store
  BY <1>1 DEF StoreOK, Live, Active, Pending, WithStatus
<1>3. /\ DOMAIN c = DOMAIN Store
      /\ \A o \in DOMAIN Store \ {g} : c[o] = Store[o]
      /\ c[g] = [Store[g] EXCEPT !.status = s]
  BY <1>2
<1>4. c[g] \in Grant /\ c[g].status = s /\ c[g].by = Store[g].by
      /\ c[g].delegate = Store[g].delegate /\ c[g].approver = Store[g].approver
  BY <1>2, <1>3 DEF Grant, SettledStatus
<1>5. c \in [DOMAIN Store -> Grant]
  BY <1>2, <1>3, <1>4
<1>6. s = "consumed" => Store[g].status = "active"
  BY DEF Active, WithStatus
<1> HIDE DEF c
<1>7. \A o \in DOMAIN Store : \/ c[o] = Store[o]
                               \/ /\ c[o].status \in SettledStatus
                                  /\ c[o].by = Store[o].by /\ c[o].delegate = Store[o].delegate
                                  /\ c[o].approver = Store[o].approver
                                  /\ c[o].status \in {"consumed", "expired"} =>
                                       Store[o].status = "active"
  BY <1>3, <1>4, <1>6 DEF SettledStatus
<1>8. StoreOK(c, issued)
  BY <1>1, <1>3, <1>5, <1>7, SettlingSound
<1> QED
  BY <1>8 DEF c

\* A write of a store in order keeps the invariant when nothing else changes but
\* the incident and the handlers.
LEMMA WriteInv ==
  ASSUME Inv, NEW c, StoreOK(c, issued), WriteJson(c), RestInv', issued' = issued
  PROVE  Inv'
<1>1. PICK n \in Nat : n = issued
  BY DEF Inv, RestInv
<1>2. FileInv(n)'
  BY <1>1, WriteSound DEF Inv
<1> QED
  BY <1>1, <1>2 DEF Inv

\* The file as it is, or after a step that adds nothing to what can be read.
LEMMA FileUnchanged ==
  ASSUME Inv, UNCHANGED fileVars, RestInv', issued' = issued
  PROVE  Inv' /\ Contents' = Contents
BY DEF Inv, FileInv, fileVars, Contents, Legible

\* The steps of an incident stay within its type.
LEMMA IncidentSteps ==
  ASSUME NEW i \in Incident, NEW p \in Principals
  PROVE  /\ [i EXCEPT !.ackBy = p, !.rev = @ + 1] \in Incident
         /\ [i EXCEPT !.request = p, !.rev = @ + 1] \in Incident
         /\ [i EXCEPT !.status = "resolved", !.rev = @ + 1] \in Incident
<1>1. i.rev + 1 \in Nat
  BY DEF Incident
<1> QED
  BY <1>1 DEF Incident

\* ... and so does what another receipt does to it.
LEMMA ReceiptStep ==
  ASSUME NEW i \in Incident, NEW b \in Principals \cup {None}
  PROVE  [i EXCEPT !.rev = @ + 1, !.ackBy = b, !.request = None] \in Incident
<1>1. i.rev + 1 \in Nat
  BY DEF Incident
<1> QED
  BY <1>1 DEF Incident

\* An action that starts takes a copy of the incident.
LEMMA BeginSound ==
  ASSUME Inv, NEW p \in Principals, NEW a \in Actions,
         NEW g \in {None} \cup 1 .. MaxGrants, Begin(p, a, g)
  PROVE  Inv'
<1>1. incident \in Incident
  BY DEF Inv, RestInv
<1>2. incident' \in Incident
  <2>1. CASE incident' = incident
    BY <1>1, <2>1
  <2>2. CASE incident' = [incident EXCEPT !.ackBy = p, !.rev = @ + 1]
    BY <1>1, <2>2, IncidentSteps
  <2> QED
    BY <2>1, <2>2 DEF Begin
<1>3. PICK new \in (1 .. MaxHandlers) \ DOMAIN handlers :
        handlers' = [h \in DOMAIN handlers \cup {new} |->
                       IF h = new THEN [action |-> a, by |-> p, grant |-> g, copy |-> incident]
                       ELSE handlers[h]]
  BY DEF Begin
<1>4. [action |-> a, by |-> p, grant |-> g, copy |-> incident] \in Handler
  BY <1>1 DEF Handler
<1>5. DOMAIN handlers' \subseteq Nat /\ handlers' \in [DOMAIN handlers' -> Handler]
  BY <1>3, <1>4 DEF Inv, RestInv
<1>6. RestInv' /\ UNCHANGED fileVars /\ issued' = issued
  BY <1>2, <1>5 DEF Begin, Inv, RestInv, fileVars
<1> QED
  BY <1>6, FileUnchanged

\* An action that ends saves its copy and settles its grant, if that is active.
LEMMA FinishSound ==
  ASSUME Inv, NEW h \in DOMAIN handlers, Finish(h)
  PROVE  Inv'
<1> DEFINE q == handlers[h]
<1>1. q \in Handler /\ incident \in Incident
  BY DEF Inv, RestInv
<1>2. incident' \in Incident
  <2>1. q.action \in Actions /\ q.copy \in Incident /\ q.by \in Principals
    BY <1>1 DEF Handler
  <2>2. [q.copy EXCEPT !.request = q.by, !.rev = @ + 1] \in Incident
    BY <2>1, IncidentSteps
  <2>3. [q.copy EXCEPT !.status = "resolved", !.rev = @ + 1] \in Incident
    BY <2>1, IncidentSteps
  <2> QED
    BY <1>1, <2>1, <2>2, <2>3 DEF Finish, ConsumeIfNeeded, Saved, Actions
<1>3. DOMAIN handlers' \subseteq Nat /\ handlers' \in [DOMAIN handlers' -> Handler]
  BY DEF Finish, ConsumeIfNeeded, WithoutHandler, Inv, RestInv
<1>4. RestInv' /\ issued' = issued
  BY <1>2, <1>3 DEF Finish, ConsumeIfNeeded, Inv, RestInv
<1>5. CASE UNCHANGED <<disk, writers>>
  BY <1>4, <1>5, FileUnchanged DEF fileVars
<1>6. CASE q.grant \in Active(Store) /\ WriteJson([Store EXCEPT ![q.grant].status = "consumed"])
  <2>1. StoreOK([Store EXCEPT ![q.grant].status = "consumed"], issued)
    BY <1>6, SettleOneSound DEF Live
  <2> QED
    BY <1>4, <1>6, <2>1, WriteInv
<1> QED
  BY <1>5, <1>6 DEF Finish, ConsumeIfNeeded, Consume

\* An approver settles a live grant.
LEMMA RevokeSound ==
  ASSUME Inv, NEW p \in Principals, NEW g \in 1 .. MaxGrants, Revoke(p, g)
  PROVE  Inv'
<1>1. g \in Live(Store) /\ WriteJson([Store EXCEPT ![g].status = "revoked"])
  BY DEF Revoke, RevokeGrant, MayDelegate, Live
<1>2. StoreOK([Store EXCEPT ![g].status = "revoked"], issued)
  BY <1>1, SettleOneSound
<1>3. RestInv' /\ issued' = issued
  BY DEF Revoke, RevokeGrant, MayDelegate, Inv, RestInv
<1> QED
  BY <1>1, <1>2, <1>3, WriteInv

-----------------------------------------------------------------------------
(* Theorems. *)

\* Every step keeps the invariant.
LEMMA StepInv ==
  ASSUME Inv, [Next]_vars
  PROVE  Inv'
<1>1. CASE \E p \in Principals, d \in Delegates, a \in Askable : RequestGrant(p, d, a)
  BY <1>1, RequestSound
<1>2. CASE \E p \in Principals, g \in 1 .. MaxGrants : Approve(p, g) \/ Revoke(p, g)
  BY <1>2, ApproveSound, RevokeSound
<1>3. CASE \E p \in Principals, g \in {None} \cup 1 .. MaxGrants :
             Acknowledge(p, g) \/ RequestClear(p, g) \/ ApproveClear(p, g)
  BY <1>3, BeginSound DEF Actions, Acknowledge, RequestClear, ApproveClear
<1>4. CASE \E h \in DOMAIN handlers : Finish(h) \/ Fail(h)
  <2>1. PICK h \in DOMAIN handlers : Finish(h) \/ Fail(h)
    BY <1>4
  <2>2. CASE Finish(h)
    BY <2>2, FinishSound
  <2>3. CASE Fail(h)
    <3>1. RestInv' /\ UNCHANGED fileVars /\ issued' = issued
      BY <2>3 DEF Fail, WithoutHandler, Inv, RestInv, fileVars
    <3> QED
      BY <3>1, FileUnchanged
  <2> QED
    BY <2>1, <2>2, <2>3
<1>5. CASE FileStep
  <2>1. PICK n \in Nat : n = issued
    BY DEF Inv, RestInv
  <2>2. FileInv(n)'
    BY <1>5, <2>1, FileStepContents DEF FileStep, WriterStep, Inv
  <2>3. RestInv' /\ issued' = n
    BY <1>5, <2>1 DEF FileStep, Inv, RestInv
  <2> QED
    BY <2>2, <2>3 DEF Inv
<1>6. CASE ReceiptArrives
  <2>1. incident' \in Incident
    <3>1. incident \in Incident /\ {None, incident.ackBy} \subseteq Principals \cup {None}
      BY DEF Inv, RestInv, Incident
    <3>2. PICK ackBy \in {None, incident.ackBy} :
            incident' = [incident EXCEPT !.rev = @ + 1, !.ackBy = ackBy, !.request = None]
      BY <1>6 DEF ReceiptArrives
    <3> QED
      BY <3>1, <3>2, ReceiptStep
  <2>2. RestInv' /\ UNCHANGED fileVars /\ issued' = issued
    BY <1>6, <2>1 DEF ReceiptArrives, Inv, RestInv, fileVars
  <2> QED
    BY <2>2, FileUnchanged
<1>7. CASE Crash
  <2>1. PICK n \in Nat : n = issued
    BY DEF Inv, RestInv
  <2>2. FileInv(n)'
    BY <1>7, <2>1, CrashContents DEF Crash, Inv
  <2>3. RestInv' /\ issued' = n
    BY <1>7, <2>1 DEF Crash, Inv, RestInv
  <2> QED
    BY <2>2, <2>3 DEF Inv
<1>8. CASE Tick
  <2>1. RestInv' /\ UNCHANGED fileVars /\ issued' = issued
    BY <1>8 DEF Tick, Inv, RestInv, fileVars
  <2> QED
    BY <2>1, FileUnchanged
<1>9. CASE UNCHANGED vars
  <2>1. RestInv' /\ UNCHANGED fileVars /\ issued' = issued
    BY <1>9 DEF vars, Inv, RestInv, fileVars
  <2> QED
    BY <2>1, FileUnchanged
<1> QED
  BY <1>1, <1>2, <1>3, <1>4, <1>5, <1>6, <1>7, <1>8, <1>9 DEF Next

\* The inductive invariant: the types, and every content that can be read, now or
\* after the writes under way, is in order.
THEOREM Invariance == Spec => []Inv
<1>1. Init => Inv
  BY DelegationAssumption DEF Init, Inv, FileInit, FileInv, RestInv, Contents, Legible, Incident
<1>2. Inv /\ [Next]_vars => Inv'
  BY StepInv
<1> QED
  BY <1>1, <1>2, PTL DEF Spec

\* Type correctness for any principals, limits and number of writers.
THEOREM DelegationTypeCorrect == Spec => []TypeOK
<1>1. Inv => TypeOK
  BY DEF Inv, FileInv, RestInv, WriterOK, StoreOK, TypeOK, IsStore
<1> QED
  BY <1>1, Invariance, PTL

\* Every grant that may be used, or was, has the word of two approvers, neither
\* of them its delegate, however the reads and writes of the file overlap.
THEOREM TwoPersonsAlways == Spec => []SeparationOfDuties
<1>1. Inv => SeparationOfDuties
  BY DEF Inv, FileInv, StoreOK, SeparationOfDuties
<1> QED
  BY <1>1, Invariance, PTL

\* No content of the file ever holds two live grants for the same thing.
THEOREM NeverTwins == Spec => []NoTwinGrants
<1>1. Inv => NoTwinGrants
  BY DEF Inv, FileInv, StoreOK, NoTwinGrants
<1> QED
  BY <1>1, Invariance, PTL

\* What the two limits bound together, for any limits.
THEOREM LimitsHold == Spec => []LiveGrantsBounded
<1>1. Inv => LiveGrantsBounded
  BY DEF Inv, FileInv, StoreOK, LiveGrantsBounded, Live
<1> QED
  BY <1>1, Invariance, PTL

-----------------------------------------------------------------------------
(* What is settled stays settled. *)

\* A grant that is settled wherever it can be read is settled where it is read.
LEMMA ReadSettled ==
  ASSUME Inv, NEW g \in DOMAIN Store, SettledEverywhere(g)
  PROVE  Store[g].status \in SettledStatus
<1>1. Legible(disk.file) /\ g \in DOMAIN disk.file /\ Store[g] = Materialized(disk.file[g])
  BY DEF Store, NoGrants
<1>2. disk.file[g].status \in SettledStatus
  BY <1>1 DEF SettledEverywhere, Contents
<1> QED
  BY <1>1, <1>2 DEF Materialized, SettledStatus

\* It stays so when all that is added to what can be read has it settled, or not
\* at all.
LEMMA StaysSettled ==
  ASSUME NEW g, SettledEverywhere(g), NEW c, Contents' \subseteq Contents \cup {c},
         g \in DOMAIN c => c[g].status \in SettledStatus
  PROVE  SettledEverywhere(g)'
BY DEF SettledEverywhere

\* An operation changes no grant but the one it is about, and that one is live.
LEMMA OperationSettles ==
  ASSUME Inv, NEW g \in 1 .. issued, SettledEverywhere(g), Next, ~ UNCHANGED fileVars, ~FileStep, ~Crash
  PROVE  SettledEverywhere(g)'
<1>0. issued \in Nat /\ Store \in [DOMAIN Store -> Grant] /\ SettledStatus \cap LiveStatus = {}
  BY ReadSound DEF Inv, RestInv, StoreOK, SettledStatus, LiveStatus
<1>1. ASSUME NEW p \in Principals, NEW d \in Delegates, NEW a \in Askable, RequestGrant(p, d, a)
      PROVE  SettledEverywhere(g)'
  <2> DEFINE c == [o \in DOMAIN Store \cup {issued + 1} |->
                     IF o \in DOMAIN Store THEN Store[o] ELSE NewGrant(p, d, a)]
  <2>1. Contents' \subseteq Contents \cup {c}
    BY <1>1, WriteContents DEF RequestGrant, CreateGrant, MayDelegate
  <2>2. g \in DOMAIN c => g \in DOMAIN Store /\ c[g] = Store[g]
    BY <1>0
  <2>3. g \in DOMAIN c => c[g].status \in SettledStatus
    BY <2>2, ReadSettled
  <2> HIDE DEF c
  <2> QED
    BY <2>1, <2>3, StaysSettled
<1>2. ASSUME NEW o \in DOMAIN Store, NEW c, WriteJson(c), Store[o].status \in LiveStatus,
             DOMAIN c = DOMAIN Store, \A q \in DOMAIN Store \ {o} : c[q] = Store[q]
      PROVE  SettledEverywhere(g)'
  <2>1. Contents' \subseteq Contents \cup {c}
    BY <1>2, WriteContents
  <2>2. g \in DOMAIN c => g # o /\ c[g].status \in SettledStatus
    BY <1>0, <1>2, ReadSettled
  <2> QED
    BY <2>1, <2>2, StaysSettled
<1>3. ASSUME NEW p \in Principals, NEW o \in 1 .. MaxGrants, Approve(p, o)
      PROVE  SettledEverywhere(g)'
  <2> DEFINE c == [Store EXCEPT ![o].status = "active", ![o].approver = p, ![o].due = now + GrantTtl]
  <2>1. WriteJson(c) /\ o \in DOMAIN Store /\ Store[o].status \in LiveStatus
    BY <1>3 DEF Approve, ApproveGrant, MayDelegate, Approvable, LiveStatus
  <2>2. DOMAIN c = DOMAIN Store /\ \A q \in DOMAIN Store \ {o} : c[q] = Store[q]
    BY <1>0
  <2> HIDE DEF c
  <2> QED
    BY <1>2, <2>1, <2>2
<1>4. ASSUME NEW o \in Live(Store), NEW s, WriteJson([Store EXCEPT ![o].status = s])
      PROVE  SettledEverywhere(g)'
  <2> DEFINE c == [Store EXCEPT ![o].status = s]
  <2>1. WriteJson(c) /\ o \in DOMAIN Store /\ Store[o].status \in LiveStatus
    BY <1>4 DEF Live, Active, Pending, WithStatus, LiveStatus
  <2>2. DOMAIN c = DOMAIN Store /\ \A q \in DOMAIN Store \ {o} : c[q] = Store[q]
    BY <1>0
  <2> HIDE DEF c
  <2> QED
    BY <1>2, <2>1, <2>2
<1>5. ASSUME NEW p \in Principals, NEW o \in 1 .. MaxGrants, Revoke(p, o)
      PROVE  SettledEverywhere(g)'
  BY <1>4, <1>5 DEF Revoke, RevokeGrant, MayDelegate, Live
<1>6. ASSUME NEW h \in DOMAIN handlers, Finish(h)
      PROVE  SettledEverywhere(g)'
  <2>1. /\ handlers[h].grant \in Live(Store)
        /\ WriteJson([Store EXCEPT ![handlers[h].grant].status = "consumed"])
    BY <1>6 DEF Finish, ConsumeIfNeeded, Consume, Live, fileVars
  <2> QED
    BY <1>4, <2>1
<1> QED
  BY <1>1, <1>3, <1>5, <1>6
  DEF Next, Acknowledge, RequestClear, ApproveClear, Begin, Fail, ReceiptArrives, Tick, fileVars

\* A grant that is settled wherever it can be read never comes back to life.
THEOREM SettledForEver == Spec => SettledIsFinal
<1>1. ASSUME Inv, [Next]_vars, NEW g \in 1 .. MaxGrants, g <= issued, SettledEverywhere(g)
      PROVE  SettledEverywhere(g)'
  <2>1. issued \in Nat /\ FileInv(issued)
    BY <1>1 DEF Inv, RestInv
  <2>2. CASE UNCHANGED fileVars
    BY <1>1, <2>2 DEF fileVars, SettledEverywhere, Contents, Legible
  <2>3. CASE FileStep
    <3>1. Contents' \subseteq Contents
      BY <2>1, <2>3, FileStepContents DEF FileStep, WriterStep
    <3> QED
      BY <1>1, <3>1 DEF SettledEverywhere
  <2>4. CASE Crash
    <3>1. Contents' \subseteq Contents
      BY <2>1, <2>4, CrashContents DEF Crash
    <3> QED
      BY <1>1, <3>1 DEF SettledEverywhere
  <2>5. CASE Next /\ ~ UNCHANGED fileVars /\ ~FileStep /\ ~Crash
    BY <1>1, <2>1, <2>5, OperationSettles
  <2> QED
    BY <1>1, <2>2, <2>3, <2>4, <2>5 DEF vars, fileVars
<1>2. Inv /\ [Next]_vars =>
        \A g \in 1 .. MaxGrants : g <= issued /\ SettledEverywhere(g) => SettledEverywhere(g)'
  BY <1>1
<1> QED
  BY <1>2, Invariance, PTL DEF Spec, SettledIsFinal
=============================================================================
