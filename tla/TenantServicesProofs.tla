------------------------- MODULE TenantServicesProofs -------------------------
(***************************************************************************)
(* Proofs about the components that keep state for tenants, for any        *)
(* tenants, limits and numbers of calls.                                   *)
(*                                                                         *)
(* Model policies and keys live in the same kind of file, so their         *)
(* invariants begin with the one of PlainStoreProofs.  The policies over   *)
(* their atomic files need one of their own (PolicyInv): what is being     *)
(* written but not renamed yet, since that becomes what is stored.         *)
(* Memory and documents change what a call has read in one go and write it *)
(* over several steps: their invariants say what the one call at work will *)
(* make of the file.                                                       *)
(***************************************************************************)
EXTENDS MCTenantServices, AccessAndAuditProofs, PlainStoreProofs
LOCAL INSTANCE SequencesExt
SeqFacts == INSTANCE SequenceTheorems

-----------------------------------------------------------------------------
(* Model policies. *)

\* A call that has decided to write named the revision it is about to replace.
NamesWhatItReplaces ==
  \A c \in DOMAIN updates :
    ~stale /\ (updates[c].step = "write" \/ (updates[c].step = "open" /\ updates[c].read = edition))
      => ReplacesWhatItSaw(c)

ModelInv == StoreInv /\ NamesWhatItReplaces

\* The invariant of the model policies' file holds at the start.
LEMMA ModelInitially ==
  ModelInit => ModelInv
<1>1. ModelInit => StoreInv /\ DOMAIN updates = {}
  BY StoreInitially DEF ModelInit, PlainInit
<1> QED
  BY <1>1 DEF ModelInv, NamesWhatItReplaces

\* A step of a call that answers nothing leaves the revisions as they are.
LEMMA QuietNames ==
  ASSUME ModelInv, answered' = answered, stale' = stale, edition' = edition,
         \A c \in DOMAIN updates' :
           \/ updates'[c].step \notin {"open", "write"}
           \/ c \in DOMAIN updates /\ updates'[c] = updates[c]
  PROVE  NamesWhatItReplaces'
BY DEF ModelInv, NamesWhatItReplaces, ReplacesWhatItSaw

\* What truncates knowing what it truncates leaves no other call that knows it.
LEMMA TruncatesNames ==
  ASSUME ModelInv, NEW c \in DOMAIN updates, NEW knows \in BOOLEAN, NEW next \in {"fill", "write"},
         Truncates(c, knows, next),
         next = "write" /\ knows /\ ~stale => ReplacesWhatItSaw(c)
  PROVE  NamesWhatItReplaces'
<1>1. /\ DOMAIN updates' = DOMAIN updates
      /\ updates'[c] = [updates[c] EXCEPT !.step = next]
      /\ \A d \in DOMAIN updates \ {c} : updates'[d] = updates[d]
      /\ edition' = edition + 1
      /\ stale' = (stale \/ ~knows)
      /\ answered' = answered
  BY DEF Truncates, Goes
<1>2. edition \in Nat /\ \A d \in DOMAIN updates : IsCall(updates[d])
  BY DEF ModelInv, StoreInv, KeptInv, CallInv
<1>3. \A d \in DOMAIN updates : updates[d].read # edition'
  BY <1>1, <1>2 DEF IsCall
<1>4. /\ updates'[c].step = next /\ updates'[c].read = updates[c].read
      /\ updates'[c].request = updates[c].request
  BY <1>1, <1>2 DEF IsCall
<1>5. ASSUME ~stale', NEW d \in DOMAIN updates \ {c}, updates'[d].step = "write"
      PROVE  ReplacesWhatItSaw(d)'
  BY <1>1, <1>5 DEF ModelInv, NamesWhatItReplaces, ReplacesWhatItSaw
<1>6. ASSUME ~stale', updates'[c].step = "write"
      PROVE  ReplacesWhatItSaw(c)'
  BY <1>1, <1>4, <1>6 DEF ReplacesWhatItSaw
<1>7. ASSUME NEW d \in DOMAIN updates'
      PROVE  ~(updates'[d].step = "open" /\ updates'[d].read = edition')
  <2>1. CASE d = c
    BY <1>4, <2>1
  <2>2. CASE d # c
    BY <1>1, <1>3, <1>7, <2>2
  <2> QED
    BY <2>1, <2>2
<1> QED
  BY <1>1, <1>5, <1>6, <1>7 DEF NamesWhatItReplaces

\* A step of the file replaces what the update named.
LEMMA StoreStepNames ==
  ASSUME ModelInv, StoreStep
  PROVE  NamesWhatItReplaces'
<1> PICK c \in DOMAIN updates :
      Accesses(c) \/ Creates(c) \/ Fills(c) \/ ReadsFile(c) \/ BeginsWrite(c) \/ EndsWrite(c)
  BY DEF StoreStep
<1>0. IsCall(updates[c])
  BY DEF ModelInv, StoreInv, CallInv
<1>1. CASE Accesses(c) \/ Fills(c)
  <2>1. /\ DOMAIN updates' = DOMAIN updates
        /\ updates'[c].step \in {"create", "read"}
        /\ \A d \in DOMAIN updates \ {c} : updates'[d] = updates[d]
        /\ UNCHANGED <<edition, answered, stale>>
    BY <1>0, <1>1 DEF Accesses, Fills, Goes, IsCall
  <2> QED
    BY <2>1, QuietNames
<1>2. CASE Creates(c)
  BY <1>2, TruncatesNames DEF Creates
<1>3. CASE ReadsFile(c)
  <2>1. /\ \A d \in DOMAIN updates' \ {c} : d \in DOMAIN updates /\ updates'[d] = updates[d]
        /\ c \in DOMAIN updates' => updates'[c].step = "decide"
        /\ UNCHANGED <<edition, answered, stale>>
    BY <1>0, <1>3 DEF ReadsFile, Finished, IsCall
  <2> QED
    BY <2>1, QuietNames
<1>4. CASE BeginsWrite(c)
  <2>1. /\ Truncates(c, updates[c].read = edition, "write")
        /\ updates[c].read = edition /\ ~stale => ReplacesWhatItSaw(c)
    BY <1>4 DEF BeginsWrite, Reached, ModelInv, NamesWhatItReplaces
  <2> QED
    BY <2>1, TruncatesNames
<1>5. CASE EndsWrite(c)
  <2>1. /\ updates[c].step = "write"
        /\ DOMAIN updates' = DOMAIN updates \ {c}
        /\ \A d \in DOMAIN updates' : updates'[d] = updates[d]
        /\ UNCHANGED <<edition, stale>>
    BY <1>5 DEF EndsWrite, Reached, Finished
  <2>2. ~stale => \A d \in DOMAIN updates' :
          /\ updates[d].step # "write"
          /\ ~(updates[d].step = "open" /\ updates[d].read = edition)
    BY <2>1 DEF ModelInv, StoreInv, KeptInv, CallInv, Halfway
  <2> QED
    BY <2>1, <2>2 DEF NamesWhatItReplaces
<1> QED
  BY <1>1, <1>2, <1>3, <1>4, <1>5

\* The revision a request names is compared with the one read, which is the last one
\* answered.
LEMMA PutsNames ==
  ASSUME ModelInv, NEW c, NEW entry, Puts(c, entry),
         updates[c].request.expected = updates[c].map[updates[c].request.tenant].revision
  PROVE  NamesWhatItReplaces'
<1>1. /\ c \in DOMAIN updates
      /\ updates[c].step = "decide"
      /\ DOMAIN updates' = DOMAIN updates
      /\ \A d \in DOMAIN updates \ {c} : updates'[d] = updates[d]
      /\ updates'[c] = [updates[c] EXCEPT !.step = "open", !.map = updates'[c].map]
      /\ UNCHANGED <<plain, edition, answered, stale>>
      /\ IsCall(updates[c])
  BY DEF Puts, Reached, ModelInv, StoreInv, CallInv, IsCall
<1>2. updates'[c].read = updates[c].read /\ updates'[c].request = updates[c].request
  BY <1>1 DEF IsCall
<1>3. ~stale /\ updates[c].read = edition => ReplacesWhatItSaw(c)
  BY <1>1 DEF ModelInv, StoreInv, CallInv, ReplacesWhatItSaw
<1>4. updates'[c].step = "open"
  BY <1>1 DEF IsCall
<1> QED
  BY <1>1, <1>2, <1>3, <1>4 DEF ModelInv, NamesWhatItReplaces, ReplacesWhatItSaw

\* Every step of the model policies keeps their file's invariant.
LEMMA ModelNextKeeps ==
  ASSUME ModelInv, [ModelNext]_modelVars
  PROVE  ModelInv'
<1>0. StoreInv
  BY DEF ModelInv
<1>1. ASSUME NEW c \in StoreCalls, NEW t \in StoreTenants, NEW rev, NEW input,
             ReadModelPolicy(c, t) \/ PutModelPolicy(c, t, rev, input)
               \/ DeleteModelPolicy(c, t, rev)
      PROVE  ModelInv'
  <2>1. PICK request : Asks(c, request) /\ request.tenant \in StoreTenants
    BY <1>1 DEF ReadModelPolicy, PutModelPolicy, DeleteModelPolicy, Change
  <2>2. NamesWhatItReplaces'
    BY <2>1, QuietNames DEF Asks, Joined
  <2> QED
    BY <1>0, <2>1, <2>2, AsksKeeps DEF ModelInv
<1>2. ASSUME NEW c \in DOMAIN updates, Decides(c)
      PROVE  ModelInv'
  <2>1. CASE Refuses(c)
    <3>1. NamesWhatItReplaces'
      BY <2>1, QuietNames DEF Refuses, Finished
    <3> QED
      BY <1>0, <2>1, <3>1, RefusesKeeps DEF ModelInv
  <2>2. ASSUME NEW entry, Puts(c, entry),
               updates[c].request.expected = updates[c].map[updates[c].request.tenant].revision
        PROVE  ModelInv'
    BY <1>0, <2>2, PutsKeeps, PutsNames DEF ModelInv
  <2> QED
    BY <1>2, <2>1, <2>2 DEF Decides
<1>3. CASE ModelStoreStep
  BY <1>0, <1>3, StoreStepKeeps, StoreStepNames DEF ModelStoreStep, ModelInv
<1>4. CASE ModelRestart
  <2>1. NamesWhatItReplaces'
    BY <1>4 DEF ModelRestart, UpdatesDie, NamesWhatItReplaces
  <2> QED
    BY <1>0, <1>4, <2>1, DeathKeeps DEF ModelRestart, ModelInv
<1>5. CASE UNCHANGED modelVars
  <2>1. UNCHANGED storeVars
    BY <1>5 DEF modelVars
  <2>2. NamesWhatItReplaces'
    BY <2>1 DEF storeVars, ModelInv, NamesWhatItReplaces, ReplacesWhatItSaw
  <2> QED
    BY <1>0, <2>1, <2>2, StutterKeeps DEF ModelInv
<1> QED
  BY <1>1, <1>2, <1>3, <1>4, <1>5 DEF ModelNext

\* Until a call writes over something unread, every tenant's model policy in the file is
\* the one its last answered update stored.
THEOREM AnsweredStaysStored == ModelSpec => []AnsweredIsStored
<1>1. ModelInv => AnsweredIsStored
  BY InvImpliesStored DEF ModelInv
<1> QED
  BY <1>1, ModelInitially, ModelNextKeeps, PTL DEF ModelSpec

\* Until then an update that is answered has replaced the revision it named.
THEOREM UpdatesReplaceWhatTheyNamed == ModelSpec => UpdatesNameWhatTheyReplace
<1>1. ASSUME ModelInv, [ModelNext]_modelVars, ~stale, NEW c \in DOMAIN updates, Answers(c)
      PROVE  ReplacesWhatItSaw(c)
  <2>1. answered' # answered /\ c \notin DOMAIN updates'
    BY <1>1 DEF Answers
  <2>2. PICK d \in DOMAIN updates : EndsWrite(d)
    BY <1>1, <2>1
    DEF ModelNext, ReadModelPolicy, PutModelPolicy, DeleteModelPolicy, Asks, Decides, Puts,
        Refuses, ModelStoreStep, StoreStep, Accesses, Creates, Truncates, Fills, ReadsFile,
        BeginsWrite, ModelRestart, UpdatesDie, modelVars, storeVars
  <2>3. d = c /\ updates[c].step = "write"
    BY <2>1, <2>2 DEF EndsWrite, Reached, Finished
  <2> QED
    BY <1>1, <2>3 DEF ModelInv, NamesWhatItReplaces
<1>2. ModelInv /\ [ModelNext]_modelVars
        => [~stale => \A c \in DOMAIN updates : Answers(c) => ReplacesWhatItSaw(c)]_modelVars
  BY <1>1
<1> QED
  BY <1>2, ModelInitially, ModelNextKeeps, PTL DEF ModelSpec, UpdatesNameWhatTheyReplace

-----------------------------------------------------------------------------
(***************************************************************************)
(* What is stored has the shape of a policy, in the file and in the hands  *)
(* of a call, and revisions stay below the number of writes: a new one     *)
(* follows one that was read from a file written before.                   *)
(***************************************************************************)

ModelInputs == [allowed : Seq(Models), default : Models]

\* Every entry of a map is a policy that one of the first n writes can have stored.
StoredBefore(map, n) ==
  \A t \in StoreTenants : map[t] \in Policies /\ (map[t] = NoPolicy \/ map[t].revision < n)

CallShape(c) ==
  /\ updates[c].request \in Requests
  /\ updates[c].request.op = "set" => updates[c].request.input \in ModelInputs
  /\ updates[c].step \in {"fill", "decide", "open", "write"} => edition > 0
  /\ updates[c].step = "open" => StoredBefore(updates[c].map, edition + 1)
  /\ updates[c].step # "open" => StoredBefore(updates[c].map, edition)

ModelShapes ==
  /\ edition \in 0..MaxEditions
  /\ plain.form # "missing" => edition > 0
  /\ StoredBefore(plain.map, edition) /\ StoredBefore(answered, edition)
  /\ \A c \in DOMAIN updates : CallShape(c)
  /\ deployment \in Deployments /\ modelRestarts \in 0..MaxModelRestarts

\* No policy was stored by any number of writes.
LEMMA NothingStored ==
  ASSUME NEW n
  PROVE  StoredBefore(NoEntries, n)
BY ModelAssumption DEF StoredBefore, NoEntries, Policies

\* What was stored before stays stored before when there are more writes.
LEMMA StoredBeforeLater ==
  ASSUME NEW map, NEW m \in Nat, NEW n \in Nat, m <= n, StoredBefore(map, m)
  PROVE  StoredBefore(map, n)
<1>1. ASSUME NEW t \in StoreTenants
      PROVE  map[t] \in Policies /\ (map[t] = NoPolicy \/ map[t].revision < n)
  <2>1. map[t] \in Policies /\ (map[t] = NoPolicy \/ map[t].revision < m)
    BY DEF StoredBefore
  <2>2. map[t] # NoPolicy => map[t].revision \in Nat
    BY <2>1, ModelAssumption DEF Policies
  <2> QED
    BY <2>1, <2>2
<1> QED
  BY <1>1 DEF StoredBefore

\* At the start there are no policies.
LEMMA ModelShapesInit ==
  ModelInit => ModelShapes
<1> SUFFICES ASSUME ModelInit PROVE ModelShapes
  OBVIOUS
<1>1. /\ edition = 0 /\ plain.form = "missing" /\ plain.map = NoEntries /\ answered = NoEntries
      /\ DOMAIN updates = {}
      /\ deployment \in Deployments /\ modelRestarts = 0
  BY DEF ModelInit, PlainInit, Holding
<1>2. 0 \in 0..MaxEditions /\ 0 \in 0..MaxModelRestarts
  BY ModelAssumption
<1> QED
  BY <1>1, <1>2, NothingStored DEF ModelShapes

\* A call that waits while others write keeps its shape.
LEMMA OtherCallKept ==
  ASSUME ModelShapes, edition' \in Nat, edition <= edition',
         NEW c \in DOMAIN updates, updates'[c] = updates[c]
  PROVE  CallShape(c)'
<1>1. CallShape(c) /\ edition \in Nat
  BY DEF ModelShapes
<1>2. PICK map : map = updates[c].map
  OBVIOUS
<1>3. PICK m \in Nat, n \in Nat : m = edition /\ n = edition' /\ m <= n /\ m + 1 <= n + 1
  BY <1>1
<1>4. updates[c].step = "open" => StoredBefore(map, n + 1)
  <2>1. \A i \in Nat : i + 1 \in Nat
    OBVIOUS
  <2> QED
    BY <1>1, <1>2, <1>3, <2>1, StoredBeforeLater DEF CallShape
<1>5. updates[c].step # "open" => StoredBefore(map, n)
  BY <1>1, <1>2, <1>3, StoredBeforeLater DEF CallShape
<1>6. updates[c].step \in {"fill", "decide", "open", "write"} => n > 0
  BY <1>1, <1>3 DEF CallShape
<1> QED
  BY <1>1, <1>2, <1>3, <1>4, <1>5, <1>6 DEF CallShape

\* A call brings a proposal of the right shape,
LEMMA AsksShapes ==
  ASSUME ModelShapes, NEW c, NEW request \in Requests, Asks(c, request),
         request.op = "set" => request.input \in ModelInputs, UNCHANGED <<deployment, modelRestarts>>
  PROVE  ModelShapes'
<1> DEFINE new == [step |-> "access", request |-> request, read |-> 0, map |-> NoEntries]
<1>1. /\ c \notin DOMAIN updates
      /\ DOMAIN updates' = DOMAIN updates \cup {c}
      /\ updates'[c] = new
      /\ \A d \in DOMAIN updates : updates'[d] = updates[d]
      /\ UNCHANGED <<plain, edition, answered, stale>>
  BY DEF Asks, Joined
<1>2. edition \in Nat
  BY ModelAssumption DEF ModelShapes
<1>3. CallShape(c)'
  BY <1>1, <1>2, NothingStored DEF CallShape
<1>4. \A d \in DOMAIN updates : CallShape(d)'
  BY <1>1, <1>2, OtherCallKept
<1> QED
  BY <1>1, <1>3, <1>4 DEF ModelShapes

\* The other calls, while one truncates the file.
LEMMA TruncatesShapes ==
  ASSUME StoreInv, ModelShapes, NEW c \in DOMAIN updates, NEW knows \in BOOLEAN,
         NEW next \in {"fill", "write"}, Truncates(c, knows, next),
         UNCHANGED <<deployment, modelRestarts>>
  PROVE  ModelShapes'
<1>1. /\ DOMAIN updates' = DOMAIN updates
      /\ updates'[c] = [updates[c] EXCEPT !.step = next]
      /\ \A d \in DOMAIN updates \ {c} : updates'[d] = updates[d]
      /\ plain' = Holding("blank", NoEntries)
      /\ edition < MaxEditions /\ edition' = edition + 1
      /\ answered' = answered
  BY DEF Truncates, Goes
<1>2. edition \in Nat /\ edition' \in Nat /\ edition <= edition' /\ edition' > 0
      /\ edition' \in 0..MaxEditions
  BY <1>1, ModelAssumption DEF ModelShapes
<1>3. IsCall(updates[c])
  BY DEF StoreInv, CallInv
<1>4. /\ updates'[c].step = next /\ updates'[c].map = updates[c].map
      /\ updates'[c].request = updates[c].request
  BY <1>1, <1>3 DEF IsCall
<1>5. CallShape(c)'
  <2>1. CallShape(c)
    BY DEF ModelShapes
  <2>2. PICK map : map = updates[c].map
    OBVIOUS
  <2>3. StoredBefore(map, edition + 1)
    BY <1>1, <1>2, <2>1, <2>2, StoredBeforeLater DEF CallShape
  <2> QED
    BY <1>1, <1>2, <1>4, <2>1, <2>2, <2>3 DEF CallShape
<1>6. \A d \in DOMAIN updates \ {c} : CallShape(d)'
  BY <1>1, <1>2, OtherCallKept
<1>7. StoredBefore(answered, edition + 1)
  <2>1. PICK map : map = answered
    OBVIOUS
  <2>2. StoredBefore(map, edition)
    BY <2>1 DEF ModelShapes
  <2> QED
    BY <1>1, <1>2, <2>1, <2>2, StoredBeforeLater
<1>8. plain.map' = NoEntries
  BY <1>1 DEF Holding
<1> QED
  BY <1>1, <1>2, <1>5, <1>6, <1>7, <1>8, NothingStored DEF ModelShapes

\* What a write leaves, over a blank file or not.
LEMMA LaidOverShapes ==
  ASSUME NEW map, plain' \in LaidOver(map), NEW n, StoredBefore(map, n)
  PROVE  StoredBefore(plain.map', n) /\ plain.form' # "missing"
BY NothingStored DEF LaidOver, Whole, Holding

\* the steps of the file pass policies on as they are,
LEMMA StoreStepShapes ==
  ASSUME StoreInv, ModelShapes, ModelStoreStep
  PROVE  ModelShapes'
<1> PICK c \in DOMAIN updates :
      Accesses(c) \/ Creates(c) \/ Fills(c) \/ ReadsFile(c) \/ BeginsWrite(c) \/ EndsWrite(c)
  BY DEF ModelStoreStep, StoreStep
<1>0. /\ UNCHANGED <<deployment, modelRestarts>>
      /\ IsCall(updates[c]) /\ CallShape(c) /\ edition \in Nat
  BY ModelAssumption DEF ModelStoreStep, StoreInv, CallInv, ModelShapes
<1>1. CASE Accesses(c) \/ Fills(c)
  <2>1. /\ DOMAIN updates' = DOMAIN updates
        /\ updates'[c].step \in {"create", "read"}
        /\ updates'[c].map = updates[c].map /\ updates'[c].request = updates[c].request
        /\ updates[c].step # "open"
        /\ \A d \in DOMAIN updates \ {c} : updates'[d] = updates[d]
        /\ UNCHANGED <<edition, answered>>
    BY <1>0, <1>1 DEF Accesses, Fills, Goes, IsCall, Reached
  <2>2. CallShape(c)'
    BY <1>0, <2>1 DEF CallShape
  <2>3. \A d \in DOMAIN updates \ {c} : CallShape(d)'
    BY <1>0, <2>1, OtherCallKept
  <2>4. StoredBefore(plain.map', edition) /\ (plain.form' # "missing" => edition > 0)
    <3>1. CASE Accesses(c)
      BY <3>1 DEF Accesses, ModelShapes
    <3>2. CASE Fills(c)
      <4>1. plain' \in LaidOver(NoEntries) /\ updates[c].step = "fill"
        BY <3>2 DEF Fills, Reached
      <4>2. edition > 0
        BY <1>0, <4>1 DEF CallShape
      <4> QED
        BY <4>1, <4>2, NothingStored, LaidOverShapes
    <3> QED
      BY <1>1, <3>1, <3>2
  <2> QED
    BY <1>0, <2>1, <2>2, <2>3, <2>4 DEF ModelShapes
<1>2. CASE Creates(c)
  BY <1>0, <1>2, TruncatesShapes DEF Creates
<1>3. CASE ReadsFile(c)
  <2>1. /\ DOMAIN updates' \subseteq DOMAIN updates
        /\ \A d \in DOMAIN updates' \ {c} : updates'[d] = updates[d]
        /\ c \in DOMAIN updates' =>
             /\ plain.form = "whole" /\ updates'[c].step = "decide"
             /\ updates'[c].map = plain.map /\ updates'[c].request = updates[c].request
        /\ UNCHANGED <<plain, edition, answered>>
    <3>1. CASE plain.form = "whole"
      <4>1. updates' = [updates EXCEPT ![c].step = "decide", ![c].read = edition, ![c].map = plain.map]
        BY <1>3, <3>1 DEF ReadsFile
      <4>2. updates'[c] = [updates[c] EXCEPT !.step = "decide", !.read = edition, !.map = plain.map]
        BY <4>1
      <4>3. /\ updates'[c].step = "decide" /\ updates'[c].map = plain.map
            /\ updates'[c].request = updates[c].request
        BY <1>0, <4>2 DEF IsCall
      <4> QED
        BY <1>3, <3>1, <4>1, <4>3 DEF ReadsFile
    <3>2. CASE plain.form # "whole"
      BY <1>3, <3>2 DEF ReadsFile, Finished
    <3> QED
      BY <3>1, <3>2
  <2>2. c \in DOMAIN updates' => CallShape(c)'
    BY <1>0, <2>1 DEF CallShape, ModelShapes
  <2>3. \A d \in DOMAIN updates' \ {c} : CallShape(d)'
    BY <1>0, <2>1, OtherCallKept
  <2> QED
    BY <1>0, <2>1, <2>2, <2>3 DEF ModelShapes
<1>4. CASE BeginsWrite(c)
  BY <1>0, <1>4, TruncatesShapes DEF BeginsWrite
<1>5. CASE EndsWrite(c)
  <2>1. /\ updates[c].step = "write"
        /\ DOMAIN updates' = DOMAIN updates \ {c}
        /\ \A d \in DOMAIN updates' : updates'[d] = updates[d]
        /\ plain' \in LaidOver(updates[c].map)
        /\ \E t \in StoreTenants : answered' = [answered EXCEPT ![t] = updates[c].map[t]]
        /\ edition' = edition
    BY <1>0, <1>5 DEF EndsWrite, Reached, Finished, IsCall
  <2>2. StoredBefore(updates[c].map, edition)
    BY <1>0, <2>1 DEF CallShape
  <2>3. StoredBefore(answered', edition)
    <3>1. IsMap(answered) /\ StoredBefore(answered, edition)
      BY DEF StoreInv, KeptInv, ModelShapes
    <3>2. \A t \in StoreTenants : answered'[t] \in {answered[t], updates[c].map[t]}
      BY <2>1, <3>1 DEF IsMap
    <3> QED
      BY <2>2, <3>1, <3>2 DEF StoredBefore
  <2>4. \A d \in DOMAIN updates' : CallShape(d)'
    BY <1>0, <2>1, OtherCallKept
  <2>5. StoredBefore(plain.map', edition)
    BY <2>1, <2>2, LaidOverShapes
  <2>6. edition > 0
    BY <1>0, <2>1 DEF CallShape
  <2> QED
    BY <1>0, <2>1, <2>3, <2>4, <2>5, <2>6 DEF ModelShapes
<1> QED
  BY <1>1, <1>2, <1>3, <1>4, <1>5

\* A new revision is the one read plus one.
LEMMA PutsShapes ==
  ASSUME StoreInv, ModelShapes, NEW c, NEW entry, Puts(c, entry),
         UNCHANGED <<deployment, modelRestarts>>,
         entry \in Policies,
         entry.revision = updates[c].map[updates[c].request.tenant].revision + 1
  PROVE  ModelShapes'
<1> DEFINE t == updates[c].request.tenant
<1>1. /\ c \in DOMAIN updates /\ updates[c].step = "decide"
      /\ DOMAIN updates' = DOMAIN updates
      /\ \A d \in DOMAIN updates \ {c} : updates'[d] = updates[d]
      /\ updates' = [updates EXCEPT ![c].step = "open", ![c].map[t] = entry]
      /\ UNCHANGED <<plain, edition, answered>>
  BY DEF Puts, Reached
<1>2. IsCall(updates[c]) /\ CallShape(c) /\ edition \in Nat /\ t \in StoreTenants
  BY <1>1, ModelAssumption DEF StoreInv, CallInv, ModelShapes, IsCall
<1>3. updates'[c] = [updates[c] EXCEPT !.step = "open", !.map = [updates[c].map EXCEPT ![t] = entry]]
  BY <1>1, <1>2 DEF IsCall
<1>4. /\ updates'[c].step = "open" /\ updates'[c].request = updates[c].request
      /\ updates'[c].map = [updates[c].map EXCEPT ![t] = entry]
  BY <1>2, <1>3 DEF IsCall
<1>5. PICK map : map = updates[c].map
  OBVIOUS
<1>6. edition > 0 /\ edition \in 1..MaxEditions /\ StoredBefore(map, edition)
  BY <1>1, <1>2, <1>5 DEF CallShape, ModelShapes
<1>7. entry \in Policies /\ entry.revision < edition + 1
  <2>1. map[t].revision \in Nat /\ map[t].revision < edition
    BY <1>2, <1>6, ModelAssumption DEF StoredBefore, Policies, NoPolicy
  <2> QED
    BY <1>2, <1>5, <1>6, <2>1
<1>8. StoredBefore([map EXCEPT ![t] = entry], edition + 1)
  <2>1. StoredBefore(map, edition + 1)
    BY <1>2, <1>6, StoredBeforeLater
  <2>2. IsMap(map)
    BY <1>2, <1>5 DEF IsCall
  <2>3. ASSUME NEW u \in StoreTenants
        PROVE  [map EXCEPT ![t] = entry][u] = IF u = t THEN entry ELSE map[u]
    BY <2>2 DEF IsMap
  <2> QED
    BY <1>7, <2>1, <2>3 DEF StoredBefore
<1>9. CallShape(c)'
  BY <1>1, <1>2, <1>4, <1>5, <1>6, <1>8 DEF CallShape
<1>10. \A d \in DOMAIN updates \ {c} : CallShape(d)'
  BY <1>1, <1>2, OtherCallKept
<1> QED
  BY <1>1, <1>9, <1>10 DEF ModelShapes

\* The new entries are policies.
LEMMA NewEntries ==
  ASSUME NEW rev \in 1..MaxEditions, NEW input \in ModelInputs
  PROVE  ActivePolicy(rev, input) \in Policies /\ ResetTo(rev) \in Policies
BY DEF ActivePolicy, ResetTo, Policies, ModelInputs

\* and a decision writes a policy whose revision is one more than what it replaces.
LEMMA DecidesShapes ==
  ASSUME StoreInv, ModelShapes, NEW c \in DOMAIN updates, Decides(c)
  PROVE  ModelShapes'
<1> DEFINE request == updates[c].request
           current == updates[c].map[request.tenant]
           next    == current.revision + 1
<1>1. updates[c].step = "decide" /\ UNCHANGED <<deployment, modelRestarts>>
  BY DEF Decides, Reached
<1>2. IsCall(updates[c]) /\ CallShape(c) /\ edition \in Nat
  BY <1>1, ModelAssumption DEF StoreInv, CallInv, ModelShapes
<1>3. CASE Refuses(c)
  <2>1. /\ DOMAIN updates' \subseteq DOMAIN updates
        /\ \A d \in DOMAIN updates' : updates'[d] = updates[d]
        /\ UNCHANGED <<plain, edition, answered>>
    BY <1>3 DEF Refuses, Finished
  <2>2. \A d \in DOMAIN updates' : CallShape(d)'
    BY <1>2, <2>1, OtherCallKept
  <2> QED
    BY <1>1, <2>1, <2>2 DEF ModelShapes
<1>4. edition \in 1..MaxEditions /\ next \in 1..edition /\ next \in 1..MaxEditions
  <2>1. edition \in 1..MaxEditions
    BY <1>1, <1>2 DEF CallShape, ModelShapes
  <2>2. current.revision \in Nat /\ current.revision < edition
    <3>1. StoredBefore(updates[c].map, edition) /\ request.tenant \in StoreTenants
      BY <1>1, <1>2 DEF CallShape, IsCall
    <3>2. PICK entry : entry = current
      OBVIOUS
    <3>3. entry \in Policies /\ (entry = NoPolicy \/ entry.revision < edition)
      BY <3>1, <3>2 DEF StoredBefore
    <3>4. entry.revision \in Nat /\ entry.revision < edition
      BY <1>2, <2>1, <3>3, ModelAssumption DEF Policies, NoPolicy
    <3> QED
      BY <3>2, <3>4
  <2>3. \A n, e, m \in Nat : n < e /\ e \in 1..m => n + 1 \in 1..e /\ n + 1 \in 1..m
    OBVIOUS
  <2> HIDE DEF current
  <2> QED
    BY <1>2, <2>1, <2>2, <2>3, ModelAssumption
<1>5. CASE request.op = "set" /\ Puts(c, ActivePolicy(next, request.input))
  <2>1. request.input \in ModelInputs
    BY <1>2, <1>5 DEF CallShape
  <2>2. ActivePolicy(next, request.input).revision = next
    BY DEF ActivePolicy
  <2> QED
    BY <1>1, <1>4, <1>5, <2>1, <2>2, NewEntries, PutsShapes
<1>6. CASE Puts(c, ResetTo(next))
  <2>1. ResetTo(next) \in Policies
    BY <1>4 DEF ResetTo, Policies
  <2>2. ResetTo(next).revision = next
    BY DEF ResetTo
  <2> QED
    BY <1>1, <1>6, <2>1, <2>2, PutsShapes
<1> QED
  BY <1>3, <1>5, <1>6 DEF Decides

\* Every step keeps the shapes of the model policies.
LEMMA ModelNextShapes ==
  ASSUME StoreInv, ModelShapes, [ModelNext]_modelVars
  PROVE  ModelShapes'
<1>1. ASSUME NEW c \in StoreCalls, NEW t \in StoreTenants,
             NEW rev \in {plain.map[t].revision, answered[t].revision}
      PROVE  rev \in 0..MaxEditions
  <2>1. PICK entry \in Policies : rev = entry.revision
    BY DEF ModelShapes, StoredBefore
  <2> QED
    BY <2>1, ModelAssumption DEF Policies, NoPolicy
<1>2. ASSUME NEW c \in StoreCalls, NEW t \in StoreTenants, ReadModelPolicy(c, t)
      PROVE  ModelShapes'
  <2>1. Change("get", t, 0, NoInput) \in Requests
    BY ModelAssumption DEF Change, Requests
  <2> QED
    BY <1>2, <2>1, AsksShapes DEF ReadModelPolicy, Change
<1>3. ASSUME NEW c \in StoreCalls, NEW t \in StoreTenants,
             NEW rev \in {plain.map[t].revision, answered[t].revision},
             NEW input \in Proposals, PutModelPolicy(c, t, rev, input)
      PROVE  ModelShapes'
  <2>1. input \in ModelInputs
    BY ModelAssumption DEF ModelInputs
  <2>2. Change("set", t, rev, input) \in Requests
    BY <1>1, <2>1 DEF Change, Requests, ModelInputs
  <2> QED
    BY <1>3, <2>1, <2>2, AsksShapes DEF PutModelPolicy, Change
<1>4. ASSUME NEW c \in StoreCalls, NEW t \in StoreTenants,
             NEW rev \in {plain.map[t].revision, answered[t].revision}, DeleteModelPolicy(c, t, rev)
      PROVE  ModelShapes'
  <2>1. Change("reset", t, rev, NoInput) \in Requests
    BY <1>1 DEF Change, Requests
  <2> QED
    BY <1>4, <2>1, AsksShapes DEF DeleteModelPolicy, Change
<1>5. CASE ModelRestart
  <2>1. /\ DOMAIN updates' = {} /\ UNCHANGED <<plain, edition, answered>>
        /\ deployment' \in Deployments
        /\ modelRestarts < MaxModelRestarts /\ modelRestarts' = modelRestarts + 1
    BY <1>5 DEF ModelRestart, UpdatesDie
  <2>2. modelRestarts' \in 0..MaxModelRestarts
    BY <2>1, ModelAssumption DEF ModelShapes
  <2> QED
    BY <2>1, <2>2 DEF ModelShapes
<1>6. CASE UNCHANGED modelVars
  <2>1. UNCHANGED <<plain, edition, updates, answered, deployment, modelRestarts>>
    BY <1>6 DEF modelVars, storeVars
  <2> QED
    BY <2>1 DEF ModelShapes, CallShape
<1> QED
  BY <1>2, <1>3, <1>4, <1>5, <1>6, DecidesShapes, StoreStepShapes DEF ModelNext

-----------------------------------------------------------------------------
(* What a stored policy means to a request, whatever the deployment is by now. *)

\* Filtering keeps the models that are in both.
LEMMA OnlyFacts ==
  ASSUME NEW T, NEW list \in Seq(T), NEW S
  PROVE  Only(list, S) \in Seq(T) /\ In(Only(list, S)) = In(list) \cap S
<1> PICK I : I = {i \in 1..Len(list) : list[i] \in S}
  OBVIOUS
<1>1. I \in SUBSET (1..Len(list))
  OBVIOUS
<1>2. /\ Picked(list, I) \in Seq(T)
      /\ \A n \in 1..Len(Picked(list, I)) : \E i \in I : Picked(list, I)[n] = list[i]
      /\ \A i \in I : \E n \in 1..Len(Picked(list, I)) : Picked(list, I)[n] = list[i]
  <2>1. /\ Picked(list, I) \in Seq(T) /\ Len(Picked(list, I)) = Cardinality(I)
        /\ \A n \in 1..Cardinality(I) : \E i \in I : Picked(list, I)[n] = list[i]
        /\ \A i \in I : \E n \in 1..Cardinality(I) : Picked(list, I)[n] = list[i]
    BY <1>1, PickedFacts
  <2> QED
    BY <2>1
<1>3. In(Picked(list, I)) = {list[i] : i \in I}
  <2> PICK kept : kept = Picked(list, I)
    OBVIOUS
  <2>1. {kept[i] : i \in 1..Len(kept)} = {list[i] : i \in I}
    <3> PICK J : J = 1..Len(kept)
      OBVIOUS
    <3>1. /\ \A n \in J : \E i \in I : kept[n] = list[i]
          /\ \A i \in I : \E n \in J : kept[n] = list[i]
      BY <1>2
    <3>2. {kept[i] : i \in J} = {list[i] : i \in I}
      BY ONLY <3>1
    <3> QED
      BY <3>2
  <2> QED
    BY <2>1 DEF In
<1>4. {list[i] : i \in I} = In(list) \cap S
  BY DEF In
<1> QED
  BY <1>2, <1>3, <1>4 DEF Only

\* The entries of a list of one.
LEMMA InOne ==
  ASSUME NEW m
  PROVE  In(<<m>>) = {m} /\ <<m>> # <<>>
BY DEF In

\* Only the empty list has no entries.
LEMMA InNone ==
  ASSUME NEW T, NEW list \in Seq(T)
  PROVE  list = <<>> <=> In(list) = {}
<1>1. list # <<>> => 1 \in 1..Len(list)
  OBVIOUS
<1> QED
  BY <1>1 DEF In

\* The deployment's default is one of its models, unless it has none.
LEMMA DefaultIsDeployed ==
  ASSUME deployment \in Deployments, deployment.allowed # <<>>
  PROVE  DeploymentDefault \in In(deployment.allowed)
<1>1. deployment.allowed \in Seq(Models)
  BY ModelAssumption
<1>2. 1 \in 1..Len(deployment.allowed)
  BY <1>1
<1> QED
  BY <1>2 DEF DeploymentDefault, In

\* A policy of a tenant or of the deployment: a list, with a default out of it unless
\* the list is empty.
LEMMA EffectiveFacts ==
  ASSUME deployment \in Deployments, NEW stored \in Policies
  PROVE  LET policy == Effective(stored)
         IN  /\ policy.allowed \in Seq(Models)
             /\ In(policy.allowed) \subseteq In(deployment.allowed)
             /\ IsActive(stored) =>
                  In(policy.allowed) = In(stored.allowed) \cap In(deployment.allowed)
             /\ ~IsActive(stored) =>
                  policy.allowed = deployment.allowed /\ policy.default = <<DeploymentDefault>>
             /\ policy.allowed # <<>> =>
                  \E m \in In(policy.allowed) : policy.default = <<m>>
             /\ IsActive(stored) /\ stored.default \in In(policy.allowed) =>
                  policy.default = <<stored.default>>
             /\ IsActive(stored) /\ policy.allowed = <<>> => policy.default = <<>>
<1>1. deployment.allowed \in Seq(Models)
  BY ModelAssumption
<1>2. CASE ~IsActive(stored)
  <2>1. Effective(stored) = FromDeployment
    BY <1>2 DEF Effective
  <2> QED
    BY <1>1, <1>2, <2>1, DefaultIsDeployed DEF FromDeployment
<1>3. CASE IsActive(stored)
  <2>1. stored.allowed \in Seq(Models)
    BY <1>3 DEF IsActive, Policies, NoPolicy
  <2> PICK allowed : allowed = Only(stored.allowed, In(deployment.allowed))
    OBVIOUS
  <2> PICK default : default = IF stored.default \in In(allowed) THEN <<stored.default>>
                               ELSE SubSeq(allowed, 1, IF allowed = <<>> THEN 0 ELSE 1)
    OBVIOUS
  <2>2. Effective(stored) = [source |-> "tenant", allowed |-> allowed, default |-> default]
    BY <1>3 DEF Effective
  <2>3. /\ allowed \in Seq(Models)
        /\ In(allowed) = In(stored.allowed) \cap In(deployment.allowed)
    BY <2>1, OnlyFacts
  <2>4. allowed # <<>> => \E m \in In(allowed) : default = <<m>>
    <3>1. CASE stored.default \in In(allowed)
      BY <3>1
    <3>2. CASE stored.default \notin In(allowed) /\ allowed # <<>>
      <4>1. default = SubSeq(allowed, 1, 1) /\ 1 \in 1..Len(allowed)
        BY <2>3, <3>2
      <4>2. SubSeq(allowed, 1, 1) = <<allowed[1]>>
        <5>1. PICK one : one = SubSeq(allowed, 1, 1)
          OBVIOUS
        <5>2. \A i \in 1..1 : allowed[i] \in Models
          BY <2>3, <4>1
        <5>3. one \in Seq(Models) /\ Len(one) = 1 /\ one[1] = allowed[1]
          BY <5>1, <5>2, SeqFacts!SubSeqProperties
        <5>4. <<allowed[1]>> \in Seq(Models) /\ Len(<<allowed[1]>>) = 1
              /\ <<allowed[1]>>[1] = allowed[1]
          BY <5>2
        <5>5. PICK other : other = <<allowed[1]>>
          OBVIOUS
        <5>6. \A i \in 1..1 : one[i] = other[i]
          BY <5>3, <5>4, <5>5
        <5>7. other \in Seq(Models) /\ Len(other) = 1 /\ Len(one) = 1
          BY <5>3, <5>4, <5>5
        <5>8. one = other
          BY <5>3, <5>6, <5>7, SeqFacts!SeqEqual
        <5> QED
          BY <5>1, <5>5, <5>8
      <4> QED
        BY <4>1, <4>2 DEF In
    <3> QED
      BY <3>1, <3>2
  <2>5. allowed = <<>> => default = <<>>
    <3>1. allowed = <<>> => In(allowed) = {}
      BY DEF In
    <3> QED
      BY <2>3, <3>1
  <2> QED
    BY <1>3, <2>2, <2>3, <2>4, <2>5
<1> QED
  BY <1>2, <1>3

\* The models a policy gives a request.
LEMMA ResolveFacts ==
  ASSUME NEW policy, policy.allowed \in Seq(Models), NEW m, policy.default = <<m>>, NEW requested
  PROVE  /\ policy.allowed # <<>> =>
              Resolve(policy, requested) = IF requested = Unnamed THEN {m}
                                           ELSE {requested} \cap In(policy.allowed)
         /\ policy.allowed = <<>> => Resolve(policy, requested) = {}
<1>1. <<m>> # <<>>
  BY InOne
<1>2. In(policy.default) = {m}
  BY InOne
<1> QED
  BY <1>1, <1>2 DEF Resolve

\* What a request gets is on the effective list.
LEMMA ResolvesInList ==
  ASSUME deployment \in Deployments, NEW stored \in Policies, NEW requested
  PROVE  Resolve(Effective(stored), requested) \subseteq In(Effective(stored).allowed)
<1> PICK policy : policy = Effective(stored)
  OBVIOUS
<1>1. policy.allowed \in Seq(Models)
  BY EffectiveFacts
<1>2. CASE policy.allowed = <<>>
  BY <1>2 DEF Resolve
<1>3. CASE policy.allowed # <<>>
  <2>1. PICK m \in In(policy.allowed) : policy.default = <<m>>
    BY <1>3, EffectiveFacts
  <2> QED
    BY <1>1, <1>3, <2>1, ResolveFacts
<1> QED
  BY <1>2, <1>3

\* Whatever the tenant's list and the deployment's have become, a request gets a model
\* that is in both.
THEOREM ModelsStayWithinBoth == ModelSpec => []ResolvesWithinBoth
<1>1. ASSUME ModelShapes
      PROVE  ResolvesWithinBoth
  <2>1. ASSUME NEW t \in StoreTenants, NEW requested
        PROVE  /\ Resolve(Effective(plain.map[t]), requested) \subseteq In(deployment.allowed)
               /\ IsActive(plain.map[t]) =>
                    Resolve(Effective(plain.map[t]), requested) \subseteq In(plain.map[t].allowed)
    <3> PICK stored \in Policies : stored = plain.map[t]
      BY <1>1 DEF ModelShapes, StoredBefore
    <3>1. deployment \in Deployments
      BY <1>1 DEF ModelShapes
    <3>2. Resolve(Effective(stored), requested) \subseteq In(Effective(stored).allowed)
      BY <3>1, ResolvesInList
    <3>3. /\ In(Effective(stored).allowed) \subseteq In(deployment.allowed)
          /\ IsActive(stored) => In(Effective(stored).allowed) \subseteq In(stored.allowed)
      BY <3>1, EffectiveFacts
    <3> QED
      BY <3>2, <3>3
  <2> QED
    BY <2>1 DEF ResolvesWithinBoth
<1>2. ModelSpec => []ModelInv
  BY ModelInitially, ModelNextKeeps, PTL DEF ModelSpec
<1>3. ModelInv => StoreInv
  BY DEF ModelInv
<1> QED
  BY <1>1, <1>2, <1>3, ModelShapesInit, ModelNextShapes, PTL DEF ModelSpec

\* A valid update, once stored, is what it says: its list, with its default.
LEMMA ValidIsServed ==
  ASSUME deployment \in Deployments, NEW input \in ModelInputs, ValidInput(input),
         NEW rev \in Nat \ {0}, NEW requested
  PROVE  Serves(ActivePolicy(rev, input), requested)
           = IF requested = Unnamed THEN {input.default} ELSE {requested} \cap In(input.allowed)
<1> PICK new : new = ActivePolicy(rev, input)
  OBVIOUS
<1>1. /\ IsActive(new) /\ new.allowed = input.allowed /\ new.default = input.default
  BY DEF ActivePolicy, IsActive
<1>2. /\ input.allowed \in Seq(Models)
      /\ In(input.allowed) \subseteq In(deployment.allowed) /\ input.default \in In(input.allowed)
  BY DEF ModelInputs, ValidInput
<1> PICK allowed : allowed = Only(input.allowed, In(deployment.allowed))
  OBVIOUS
<1>3. allowed \in Seq(Models) /\ In(allowed) = In(input.allowed)
  <2>1. allowed \in Seq(Models) /\ In(allowed) = In(input.allowed) \cap In(deployment.allowed)
    BY <1>2, OnlyFacts
  <2> QED
    BY <1>2, <2>1
<1> PICK policy : policy = Effective(new)
  OBVIOUS
<1>4. policy = [source |-> "tenant", allowed |-> allowed, default |-> <<input.default>>]
  BY <1>1, <1>2, <1>3 DEF Effective
<1>5. policy.allowed = allowed /\ policy.default = <<input.default>>
  BY <1>4
<1>6. allowed # <<>>
  BY <1>2, <1>3, InNone
<1>7. Resolve(policy, requested) = IF requested = Unnamed THEN {input.default}
                                   ELSE {requested} \cap In(allowed)
  BY <1>3, <1>5, <1>6, ResolveFacts
<1> QED
  BY <1>3, <1>7 DEF Serves

\* What a policy serves, if it allows anything.
LEMMA Served ==
  ASSUME deployment \in Deployments, NEW stored \in Policies, NEW requested, NEW m,
         Effective(stored).default = <<m>>, In(Effective(stored).allowed) # {}
  PROVE  Serves(stored, requested) = IF requested = Unnamed THEN {m}
                                     ELSE {requested} \cap In(Effective(stored).allowed)
<1> PICK policy : policy = Effective(stored)
  OBVIOUS
<1>1. policy.allowed \in Seq(Models) /\ policy.allowed # <<>>
  BY EffectiveFacts, InNone
<1> QED
  BY <1>1, ResolveFacts DEF Serves

\* At low risk the default is kept, and every reasoning model that was allowed.
LEMMA PreviewFacts ==
  ASSUME NEW stored, NEW input
  PROVE  LET current == Effective(stored)
             preview == Preview(stored, input)
         IN  /\ preview.nextRevision = stored.revision + 1
             /\ ~preview.wouldChange =>
                  In(current.allowed) = In(input.allowed) /\ current.default = <<input.default>>
             /\ preview.kind = "equivalent_to_reset" =>
                  In(input.allowed) = In(deployment.allowed) /\ input.default = DeploymentDefault
             /\ preview.risk = "low" =>
                  /\ current.default = <<input.default>>
                  /\ In(current.allowed) \cap ReasoningModels \subseteq In(input.allowed)
<1> PICK current : current = Effective(stored)
  OBVIOUS
<1> DEFINE now  == In(current.allowed)
           then == In(input.allowed)
           removed == now \ then
           added   == then \ now
           wouldChange == ~(now = then /\ current.default = <<input.default>>)
           isReset == /\ wouldChange /\ current.source = "tenant" /\ then = In(deployment.allowed)
                      /\ input.default = DeploymentDefault
           otherwise == IF added = {} /\ removed = {} THEN "rotate_default"
                        ELSE IF current.source = "deployment" THEN "create_override"
                        ELSE IF removed # {} /\ Cardinality(removed) >= Cardinality(added)
                          THEN "tighten_override" ELSE "widen_override"
<1>1. Preview(stored, input).wouldChange = wouldChange
  BY DEF Preview, KeepsDefault
<1>2. Preview(stored, input).nextRevision = stored.revision + 1
  BY DEF Preview
<1>3. Preview(stored, input).kind =
        CASE ~wouldChange -> "no_change"
          [] isReset -> "equivalent_to_reset"
          [] OTHER -> otherwise
  BY DEF Preview, KeepsDefault
<1>4. Preview(stored, input).kind = "equivalent_to_reset" => isReset
  <2>1. otherwise # "equivalent_to_reset"
    OBVIOUS
  <2> QED
    BY <1>3, <2>1
<1>5. Preview(stored, input).risk = "low" =>
        /\ current.default = <<input.default>>
        /\ Reasoning(current.allowed) \ Reasoning(input.allowed) = {}
  BY DEF Preview, KeepsDefault
<1>6. Reasoning(current.allowed) = now \cap ReasoningModels
      /\ Reasoning(input.allowed) = then \cap ReasoningModels
  BY DEF Reasoning
<1> QED
  BY <1>1, <1>2, <1>4, <1>5, <1>6

\* A preview foretells what the update will do.
LEMMA Foretold ==
  ASSUME deployment \in Deployments, NEW stored \in Policies, NEW input \in ModelInputs,
         ValidInput(input)
  PROVE  LET preview == Preview(stored, input)
             new     == ActivePolicy(preview.nextRevision, input)
             SameFor(old, requests) == \A r \in requests : Serves(new, r) = Serves(old, r)
             all     == Models \cup {Unnamed}
         IN  /\ ~preview.wouldChange => SameFor(stored, all)
             /\ preview.kind = "equivalent_to_reset" => SameFor(ResetTo(preview.nextRevision), all)
             /\ preview.risk = "low" =>
                  /\ SameFor(stored, {Unnamed})
                  /\ \A m \in ReasoningModels : Serves(stored, m) \subseteq Serves(new, m)
<1> PICK preview : preview = Preview(stored, input)
  OBVIOUS
<1> PICK rev : rev = preview.nextRevision
  OBVIOUS
<1> PICK new : new = ActivePolicy(rev, input)
  OBVIOUS
<1> PICK reset : reset = ResetTo(rev)
  OBVIOUS
<1> PICK current : current = Effective(stored)
  OBVIOUS
<1>1. rev \in Nat \ {0}
  <2>1. stored.revision \in Nat
    BY ModelAssumption DEF Policies, NoPolicy
  <2> QED
    BY <2>1, PreviewFacts
<1>2. \A r : Serves(new, r) = IF r = Unnamed THEN {input.default} ELSE {r} \cap In(input.allowed)
  BY <1>1, ValidIsServed
<1>3. /\ In(input.allowed) \subseteq In(deployment.allowed)
      /\ input.default \in In(input.allowed)
  BY DEF ValidInput
<1>4. ASSUME ~preview.wouldChange, NEW r
      PROVE  Serves(new, r) = Serves(stored, r)
  <2>1. In(current.allowed) = In(input.allowed) /\ current.default = <<input.default>>
    BY <1>4, PreviewFacts
  <2>2. Serves(stored, r) = IF r = Unnamed THEN {input.default} ELSE {r} \cap In(current.allowed)
    BY <1>3, <2>1, Served
  <2> QED
    BY <1>2, <2>1, <2>2
<1>5. ASSUME preview.kind = "equivalent_to_reset", NEW r
      PROVE  Serves(new, r) = Serves(reset, r)
  <2>1. In(input.allowed) = In(deployment.allowed) /\ input.default = DeploymentDefault
    BY <1>5, PreviewFacts
  <2>2. Effective(reset) = FromDeployment
    BY DEF ResetTo, IsActive, Effective
  <2>3. deployment.allowed \in Seq(Models) /\ deployment.allowed # <<>>
    BY <1>3, <2>1, ModelAssumption, InNone
  <2>4. Resolve(FromDeployment, r) = IF r = Unnamed THEN {DeploymentDefault}
                                     ELSE {r} \cap In(deployment.allowed)
    <3>1. PICK policy : policy = FromDeployment
      OBVIOUS
    <3>2. policy.allowed = deployment.allowed /\ policy.default = <<DeploymentDefault>>
      BY <3>1 DEF FromDeployment
    <3>3. Resolve(policy, r) = IF r = Unnamed THEN {DeploymentDefault}
                               ELSE {r} \cap In(policy.allowed)
      BY <2>3, <3>2, ResolveFacts
    <3> QED
      BY <3>1, <3>2, <3>3
  <2> QED
    BY <1>2, <2>1, <2>2, <2>4 DEF Serves
<1>6. ASSUME preview.risk = "low"
      PROVE  /\ Serves(new, Unnamed) = Serves(stored, Unnamed)
             /\ \A m \in ReasoningModels : Serves(stored, m) \subseteq Serves(new, m)
  <2>1. /\ current.default = <<input.default>>
        /\ In(current.allowed) \cap ReasoningModels \subseteq In(input.allowed)
    BY <1>6, PreviewFacts
  <2>2. current.allowed \in Seq(Models) /\ In(current.allowed) # {}
    <3>1. current.allowed \in Seq(Models)
      BY EffectiveFacts
    <3>2. CASE IsActive(stored)
      <4>1. current.allowed = <<>> => current.default = <<>>
        BY <3>2, EffectiveFacts
      <4>2. current.default # <<>>
        BY <2>1, InOne
      <4> QED
        BY <3>1, <4>1, <4>2, InNone
    <3>3. CASE ~IsActive(stored)
      <4>1. current.allowed = deployment.allowed
        BY <3>3, EffectiveFacts
      <4> QED
        BY <1>3, <3>1, <4>1
    <3> QED
      BY <3>1, <3>2, <3>3
  <2>3. \A r : Serves(stored, r) = IF r = Unnamed THEN {input.default}
                                   ELSE {r} \cap In(current.allowed)
    BY <2>1, <2>2, Served
  <2>4. ASSUME NEW m \in ReasoningModels
        PROVE  Serves(stored, m) \subseteq Serves(new, m)
    <3>1. Serves(stored, m) = IF m = Unnamed THEN {input.default} ELSE {m} \cap In(current.allowed)
      BY <2>3
    <3>2. Serves(new, m) = IF m = Unnamed THEN {input.default} ELSE {m} \cap In(input.allowed)
      BY <1>2
    <3>3. {m} \cap In(current.allowed) \subseteq {m} \cap In(input.allowed)
      BY <2>1, <2>4
    <3> QED
      BY <3>1, <3>2, <3>3
  <2> QED
    BY <1>2, <2>3, <2>4
<1> QED
  BY <1>4, <1>5, <1>6

\* What a preview says of an update is what requests will find, in whatever order stores,
\* restarts and changes of the deployment have come.
THEOREM PreviewsComeTrue == ModelSpec => []PreviewForetells
<1>1. ASSUME ModelShapes, NEW t \in StoreTenants, NEW input \in Inputs, ValidInput(input)
      PROVE  LET stored  == plain.map[t]
                 preview == Preview(stored, input)
                 new     == ActivePolicy(preview.nextRevision, input)
                 SameFor(old, requests) == \A r \in requests : Serves(new, r) = Serves(old, r)
                 all     == Models \cup {Unnamed}
             IN  /\ ~preview.wouldChange => SameFor(stored, all)
                 /\ preview.kind = "equivalent_to_reset" =>
                      SameFor(ResetTo(preview.nextRevision), all)
                 /\ preview.risk = "low" =>
                      /\ SameFor(stored, {Unnamed})
                      /\ \A m \in ReasoningModels : Serves(stored, m) \subseteq Serves(new, m)
  <2> PICK stored \in Policies : stored = plain.map[t]
    BY <1>1 DEF ModelShapes, StoredBefore
  <2>1. input \in ModelInputs
    BY DEF Inputs, ModelInputs, SeqOf
  <2>2. deployment \in Deployments
    BY <1>1 DEF ModelShapes
  <2> QED
    BY <1>1, <2>1, <2>2, Foretold
<1>2. ModelSpec => []ModelInv
  BY ModelInitially, ModelNextKeeps, PTL DEF ModelSpec
<1>3. ModelInv => StoreInv
  BY DEF ModelInv
<1>4. ModelShapes => PreviewForetells
  BY <1>1 DEF PreviewForetells
<1> QED
  BY <1>2, <1>3, <1>4, ModelShapesInit, ModelNextShapes, PTL DEF ModelSpec

\* Every step of the model policies keeps the shapes of their file: a new revision is one
\* more than one that an earlier write stored.
LEMMA ModelNextTypes ==
  ASSUME StoreTypeOK(Policies, Requests), ModelShapes, ModelShapes', [ModelNext]_modelVars
  PROVE  StoreTypeOK(Policies, Requests)'
<1>0. MaxEditions \in Nat /\ NoEntry \in Policies
  BY ModelAssumption DEF Policies
<1>1. ASSUME NEW c \in StoreCalls, NEW t \in StoreTenants,
             NEW rev \in {plain.map[t].revision, answered[t].revision},
             NEW input \in Proposals, PutModelPolicy(c, t, rev, input)
      PROVE  StoreTypeOK(Policies, Requests)'
  <2>1. plain.map[t] \in Policies /\ answered[t] \in Policies
    BY DEF ModelShapes, StoredBefore
  <2>2. rev \in 0..MaxEditions
    BY <1>0, <2>1 DEF Policies, NoPolicy
  <2>3. input \in [allowed : Seq(Models), default : Models]
    BY ModelAssumption
  <2>4. PICK request \in Requests : Asks(c, request)
    BY <1>0, <1>1, <2>2, <2>3
    DEF PutModelPolicy, Change, Requests
  <2> QED
    BY <1>0, <2>4, AsksTypes
<1>2. ASSUME NEW c \in StoreCalls, NEW t \in StoreTenants,
             ReadModelPolicy(c, t) \/ \E rev \in {plain.map[t].revision, answered[t].revision} :
               DeleteModelPolicy(c, t, rev)
      PROVE  StoreTypeOK(Policies, Requests)'
  <2>1. plain.map[t] \in Policies /\ answered[t] \in Policies
    BY DEF ModelShapes, StoredBefore
  <2>2. \A rev \in {0, plain.map[t].revision, answered[t].revision} : rev \in 0..MaxEditions
    BY <1>0, <2>1 DEF Policies, NoPolicy
  <2>3. PICK request \in Requests : Asks(c, request)
    BY <1>0, <1>2, <2>2 DEF ReadModelPolicy, DeleteModelPolicy, Change, Requests
  <2> QED
    BY <1>0, <2>3, AsksTypes
<1>3. ASSUME NEW c \in DOMAIN updates, Decides(c)
      PROVE  StoreTypeOK(Policies, Requests)'
  <2> DEFINE request == updates[c].request
             current == updates[c].map[request.tenant]
             next    == current.revision + 1
  <2>1. request \in Requests /\ request.tenant \in StoreTenants
    BY DEF ModelShapes, CallShape, Requests
  <2>2. CASE Refuses(c)
    BY <1>0, <2>2, FinishedTypes DEF Refuses
  <2>3. CASE \/ request.op = "set" /\ Puts(c, ActivePolicy(next, request.input))
             \/ request.op = "reset" /\ Puts(c, ResetTo(next))
    <3>1. updates[c].step = "decide"
      BY <2>3 DEF Puts, Reached
    <3>2. StoredBefore(updates[c].map, edition) /\ edition > 0
      BY <3>1 DEF ModelShapes, CallShape
    <3>3. /\ current \in Policies /\ edition \in 0..MaxEditions
          /\ current = NoPolicy \/ current.revision < edition
      BY <2>1, <3>2 DEF StoredBefore, ModelShapes
    <3>4. current.revision \in Nat
      BY <1>0, <3>3 DEF Policies, NoPolicy
    <3>5. next \in 1..MaxEditions
      BY <1>0, <3>2, <3>3, <3>4 DEF NoPolicy
    <3>6. request.op = "set" => request.input \in ModelInputs
      BY DEF ModelShapes, CallShape
    <3>7. request.op = "set" => ActivePolicy(next, request.input) \in Policies
      BY <3>5, <3>6 DEF ActivePolicy, Policies, ModelInputs
    <3>8. ResetTo(next) \in Policies
      BY <3>5 DEF ResetTo, Policies
    <3>9. \E entry \in Policies : Puts(c, entry)
      BY <2>3, <3>7, <3>8
    <3> QED
      BY <1>0, <3>9, PutsTypes
  <2> QED
    BY <1>3, <2>2, <2>3 DEF Decides
<1>4. CASE ModelStoreStep
  BY <1>0, <1>4, StoreStepTypes DEF ModelStoreStep
<1>5. CASE ModelRestart
  BY <1>0, <1>5, FinishedTypes DEF ModelRestart
<1>6. CASE UNCHANGED modelVars
  BY <1>0, <1>6, FinishedTypes DEF modelVars
<1> QED
  BY <1>1, <1>2, <1>3, <1>4, <1>5, <1>6 DEF ModelNext

\* The model policies' file and the calls on it keep their shapes; revisions stay within the
\* number of writes.
THEOREM ModelTypes == ModelSpec => []ModelTypeOK
<1>1. ModelInit => StoreTypeOK(Policies, Requests)
  <2>1. MaxEditions \in Nat /\ NoEntry \in Policies
    BY ModelAssumption DEF Policies
  <2> QED
    BY <2>1, TypesInitially DEF ModelInit
<1>2. ModelSpec => [](ModelShapes /\ StoreInv)
  <2>1. ModelSpec => []ModelInv
    BY ModelInitially, ModelNextKeeps, PTL DEF ModelSpec
  <2>2. ModelInv => StoreInv
    BY DEF ModelInv
  <2> QED
    BY <2>1, <2>2, ModelShapesInit, ModelNextShapes, PTL DEF ModelSpec
<1>3. StoreTypeOK(Policies, Requests) /\ ModelShapes => ModelTypeOK
  BY DEF ModelTypeOK, ModelShapes
<1> QED
  BY <1>1, <1>2, <1>3, ModelNextTypes, PTL DEF ModelSpec

-----------------------------------------------------------------------------
(* The tenants' keys. *)

KeyFile == INSTANCE PlainStoreProofs WITH
  StoreTenants <- KeyTenants, NoEntry <- NoKey, StoreCalls <- KeyCalls, MaxEditions <- MaxKeyWrites,
  plain <- keyFile, edition <- keyWrites, updates <- keyUpdates, answered <- keysAnswered,
  stale <- keysStale

\* The two instances of PlainStore say the same.
LEMMA SameKeyStore ==
  /\ Keys!PlainInit = KeyFile!PlainInit
  /\ Keys!StoreStep = KeyFile!StoreStep
  /\ Keys!UpdatesDie = KeyFile!UpdatesDie
  /\ \A c, request : Keys!Asks(c, request) = KeyFile!Asks(c, request)
  /\ \A c, entry : Keys!Puts(c, entry) = KeyFile!Puts(c, entry)
  /\ \A c : Keys!Refuses(c) = KeyFile!Refuses(c)
  /\ Keys!AnsweredIsStored = KeyFile!AnsweredIsStored
  /\ \A E, R : Keys!StoreTypeOK(E, R) = KeyFile!StoreTypeOK(E, R)
<1> USE DEF Keys!Goes, KeyFile!Goes, Keys!Reached, KeyFile!Reached, Keys!NoEntries, KeyFile!NoEntries,
            Keys!Finished, KeyFile!Finished, Keys!Holding, KeyFile!Holding,
            Keys!Truncates, KeyFile!Truncates, Keys!Whole, KeyFile!Whole,
            Keys!LaidOver, KeyFile!LaidOver
<1>1. Keys!PlainInit = KeyFile!PlainInit
  BY DEF Keys!PlainInit, KeyFile!PlainInit
<1>2. Keys!StoreStep = KeyFile!StoreStep
  BY Zenon DEF Keys!StoreStep, KeyFile!StoreStep, Keys!Accesses, KeyFile!Accesses, Keys!Creates,
         KeyFile!Creates, Keys!Fills, KeyFile!Fills, Keys!ReadsFile, KeyFile!ReadsFile,
         Keys!BeginsWrite, KeyFile!BeginsWrite, Keys!EndsWrite, KeyFile!EndsWrite
<1>3. Keys!UpdatesDie = KeyFile!UpdatesDie
  BY DEF Keys!UpdatesDie, KeyFile!UpdatesDie
<1>4. \A c, request : Keys!Asks(c, request) = KeyFile!Asks(c, request)
  BY DEF Keys!Asks, KeyFile!Asks, Keys!Joined, KeyFile!Joined
<1>5. \A c, entry : Keys!Puts(c, entry) = KeyFile!Puts(c, entry)
  BY DEF Keys!Puts, KeyFile!Puts
<1>6. \A c : Keys!Refuses(c) = KeyFile!Refuses(c)
  BY DEF Keys!Refuses, KeyFile!Refuses
<1>7. Keys!AnsweredIsStored = KeyFile!AnsweredIsStored
  BY DEF Keys!AnsweredIsStored, KeyFile!AnsweredIsStored
<1>8. \A E, R : Keys!StoreTypeOK(E, R) = KeyFile!StoreTypeOK(E, R)
  BY DEF Keys!StoreTypeOK, KeyFile!StoreTypeOK, Keys!Files, KeyFile!Files
<1> QED
  BY <1>1, <1>2, <1>3, <1>4, <1>5, <1>6, <1>7, <1>8

KeyInv == KeyFile!StoreInv

\* Every step of the keys keeps their file's invariant.
LEMMA KeyNextKeeps ==
  ASSUME KeyInv, [KeyNext]_keyVars
  PROVE  KeyInv'
<1> USE DEF KeyInv
<1>1. ASSUME NEW c \in KeyCalls, NEW t \in KeyTenants, NEW k,
             PostKey(c, t, k) \/ DeleteKey(c, t) \/ ReadKey(c, t)
      PROVE  KeyInv'
  <2>1. PICK request : KeyFile!Asks(c, request) /\ request.tenant \in KeyTenants
    BY <1>1, SameKeyStore DEF PostKey, DeleteKey, ReadKey, KeyRequest
  <2> QED
    BY <2>1, KeyFile!AsksKeeps
<1>2. ASSUME NEW c \in DOMAIN keyUpdates, StoresKey(c)
      PROVE  KeyInv'
  <2>1. KeyFile!Refuses(c) \/ \E entry : KeyFile!Puts(c, entry)
    BY <1>2, SameKeyStore DEF StoresKey
  <2> QED
    BY <2>1, KeyFile!RefusesKeeps, KeyFile!PutsKeeps
<1>3. CASE Keys!StoreStep
  BY <1>3, SameKeyStore, KeyFile!StoreStepKeeps
<1>4. CASE Keys!UpdatesDie
  BY <1>4, SameKeyStore, KeyFile!DeathKeeps
<1>5. CASE UNCHANGED keyVars
  <2>1. UNCHANGED KeyFile!storeVars
    BY <1>5 DEF keyVars, KeyFile!storeVars
  <2> QED
    BY <2>1, KeyFile!StutterKeeps
<1> QED
  BY <1>1, <1>2, <1>3, <1>4, <1>5 DEF KeyNext

\* Until a call writes over something unread, a tenant has the key it was last told it
\* has, whatever other tenants store and wherever the process dies.
THEOREM KeysStayAsAnswered == KeySpec => []KeysAreAsAnswered
<1>1. KeyInit => KeyInv
  BY SameKeyStore, KeyFile!StoreInitially DEF KeyInit, KeyInv
<1>2. KeyInv => KeysAreAsAnswered
  BY SameKeyStore, KeyFile!InvImpliesStored DEF KeysAreAsAnswered, KeyInv
<1> QED
  BY <1>1, <1>2, KeyNextKeeps, PTL DEF KeySpec

\* The shapes of the keys' file, of its entries and of the calls on it.
KeyEntries == TenantKeys \cup {NoKey}
KeyRequests == [op : {"set", "delete", "get"}, tenant : KeyTenants, key : KeyEntries]

\* Every step of the keys keeps their shapes: what a call stores is the key it was sent or
\* none.
LEMMA KeyNextTypes ==
  ASSUME KeyFile!StoreTypeOK(KeyEntries, KeyRequests), [KeyNext]_keyVars
  PROVE  KeyFile!StoreTypeOK(KeyEntries, KeyRequests)'
<1>0. MaxKeyWrites \in Nat /\ NoKey \in KeyEntries
  BY KeyAssumption DEF KeyEntries
<1>1. ASSUME NEW c \in KeyCalls, NEW t \in KeyTenants, NEW k \in TenantKeys,
             PostKey(c, t, k)
      PROVE  KeyFile!StoreTypeOK(KeyEntries, KeyRequests)'
  <2>1. PICK request \in KeyRequests : KeyFile!Asks(c, request)
    BY <1>1, SameKeyStore DEF PostKey, KeyRequest, KeyRequests, KeyEntries
  <2> QED
    BY <1>0, <2>1, KeyFile!AsksTypes
<1>2. ASSUME NEW c \in KeyCalls, NEW t \in KeyTenants, DeleteKey(c, t) \/ ReadKey(c, t)
      PROVE  KeyFile!StoreTypeOK(KeyEntries, KeyRequests)'
  <2>1. PICK request \in KeyRequests : KeyFile!Asks(c, request)
    BY <1>2, SameKeyStore DEF DeleteKey, ReadKey, KeyRequest, KeyRequests, KeyEntries
  <2> QED
    BY <1>0, <2>1, KeyFile!AsksTypes
<1>3. ASSUME NEW c \in DOMAIN keyUpdates, StoresKey(c)
      PROVE  KeyFile!StoreTypeOK(KeyEntries, KeyRequests)'
  <2>1. keyUpdates[c] \in KeyFile!Calls(KeyEntries, KeyRequests)
    BY <1>0, KeyFile!TypesByCall
  <2>2. keyUpdates[c].request.key \in KeyEntries
    BY <2>1 DEF KeyFile!Calls, KeyRequests
  <2>3. KeyFile!Refuses(c) \/ \E entry \in KeyEntries : KeyFile!Puts(c, entry)
    BY <1>0, <1>3, <2>2, SameKeyStore DEF StoresKey
  <2>4. CASE KeyFile!Refuses(c)
    BY <1>0, <2>4, KeyFile!FinishedTypes DEF KeyFile!Refuses
  <2> QED
    BY <1>0, <2>3, <2>4, KeyFile!PutsTypes
<1>4. CASE Keys!StoreStep
  BY <1>0, <1>4, SameKeyStore, KeyFile!StoreStepTypes
<1>5. CASE Keys!UpdatesDie
  BY <1>0, <1>5, SameKeyStore, KeyFile!FinishedTypes
<1>6. CASE UNCHANGED keyVars
  <2>1. UNCHANGED KeyFile!storeVars
    BY <1>6 DEF keyVars, KeyFile!storeVars
  <2> QED
    BY <1>0, <2>1, KeyFile!FinishedTypes
<1> QED
  BY <1>1, <1>2, <1>3, <1>4, <1>5, <1>6 DEF KeyNext

\* Whatever calls meet in the keys' file, it holds keys, and so does every call.
THEOREM KeyTypes == KeySpec => []KeyTypeOK
<1>1. KeyTypeOK <=> KeyFile!StoreTypeOK(KeyEntries, KeyRequests)
  BY SameKeyStore DEF KeyTypeOK, KeyEntries, KeyRequests
<1>2. KeyInit => KeyFile!StoreTypeOK(KeyEntries, KeyRequests)
  <2>1. MaxKeyWrites \in Nat /\ NoKey \in KeyEntries
    BY KeyAssumption DEF KeyEntries
  <2> QED
    BY <2>1, SameKeyStore, KeyFile!TypesInitially DEF KeyInit
<1> QED
  BY <1>1, <1>2, KeyNextTypes, PTL DEF KeySpec

-----------------------------------------------------------------------------
(* Fetches. *)

\* How many of its hops a fetch has requested: the last one only once it is resolved.
Requested(f) == IF f.step = "request" THEN Len(f.hops) ELSE Len(f.hops) - 1

FetchInv(f) ==
  /\ f = [tenant |-> f.tenant, ingest |-> f.ingest, step |-> f.step, hops |-> f.hops]
  /\ f.step \in {"resolve", "request"}
  /\ f.hops \in Seq(Urls) /\ f.hops # <<>> /\ Len(f.hops) <= MaxRedirects + 1
  /\ \A i \in 1 .. Requested(f) : f.hops[i] \in WellShaped
  /\ \A i, j \in 1 .. Requested(f) : f.hops[i] = f.hops[j] => i = j

FetchesInv == \A n \in DOMAIN fetches : FetchInv(fetches[n])

\* All but the last entry of a list.
LEMMA FrontFacts ==
  ASSUME NEW S, NEW s \in Seq(S), s # <<>>
  PROVE  /\ Front(s) \in Seq(S) /\ Len(Front(s)) = Len(s) - 1
         /\ \A i \in 1 .. (Len(s) - 1) : Front(s)[i] = s[i]
<1>1. PICK n \in Nat : n = Len(s) - 1
  OBVIOUS
<1>2. \A i \in 1 .. n : s[i] \in S
  BY <1>1
<1>3. Front(s) = SubSeq(s, 1, n)
  BY <1>1 DEF Front
<1>4. /\ SubSeq(s, 1, n) \in Seq(S)
      /\ Len(SubSeq(s, 1, n)) = IF 1 <= n THEN n - 1 + 1 ELSE 0
      /\ \A i \in 1 .. n - 1 + 1 : SubSeq(s, 1, n)[i] = s[1 + i - 1]
  BY <1>2, SeqFacts!SubSeqProperties
<1>5. Len(SubSeq(s, 1, n)) = n
  BY <1>4
<1>6. ASSUME NEW i \in 1 .. n
      PROVE  SubSeq(s, 1, n)[i] = s[i]
  <2>1. i \in 1 .. n - 1 + 1 /\ 1 + i - 1 = i
    OBVIOUS
  <2> QED
    BY <1>4, <2>1
<1> QED
  BY <1>1, <1>3, <1>4, <1>5, <1>6

\* A hop is requested if it is well shaped and not among those requested before.
LEMMA ResolvesKeeps ==
  ASSUME FetchesInv, NEW n \in DOMAIN fetches, HopResolves(n)
  PROVE  FetchesInv'
<1> DEFINE f == fetches[n]
           new == [f EXCEPT !.step = "request"]
<1>1. /\ f.step = "resolve" /\ FetchInv(f)
      /\ f.hops[Len(f.hops)] \in WellShaped
      /\ ~Contains(Front(f.hops), f.hops[Len(f.hops)])
      /\ fetches' = [fetches EXCEPT ![n] = new]
  BY DEF HopResolves, FetchesInv, PassesShape, Url, Last
<1>2. Len(f.hops) \in Nat /\ Len(f.hops) >= 1
  BY <1>1 DEF FetchInv
<1>3. \A i \in 1 .. (Len(f.hops) - 1) : f.hops[i] # f.hops[Len(f.hops)]
  BY <1>1, <1>2, FrontFacts DEF Contains, FetchInv
<1>4. new.step = "request" /\ new.hops = f.hops /\ new.tenant = f.tenant /\ new.ingest = f.ingest
  BY <1>1 DEF FetchInv
<1>5. new = [tenant |-> f.tenant, ingest |-> f.ingest, step |-> "request", hops |-> f.hops]
  BY <1>1 DEF FetchInv
<1>6. FetchInv(new)
  <2>1. Requested(new) = Len(f.hops) /\ Requested(f) = Len(f.hops) - 1
    BY <1>1, <1>4 DEF Requested
  <2>2. \A i \in 1 .. Len(f.hops) : f.hops[i] \in WellShaped
    BY <1>1, <1>2, <2>1 DEF FetchInv
  <2>3. ASSUME NEW i \in 1 .. Len(f.hops), NEW j \in 1 .. Len(f.hops), f.hops[i] = f.hops[j]
        PROVE  i = j
    BY <1>1, <1>2, <1>3, <2>1, <2>3 DEF FetchInv
  <2> HIDE DEF new
  <2> QED
    BY <1>1, <1>4, <1>5, <2>1, <2>2, <2>3 DEF FetchInv
<1> QED
  BY <1>1, <1>6 DEF FetchesInv

\* A redirect makes the hops requested those before the last one.
LEMMA RedirectsKeeps ==
  ASSUME FetchesInv, NEW n \in DOMAIN fetches, Redirects(n)
  PROVE  FetchesInv'
<1>1. PICK next \in Urls :
        fetches' = [fetches EXCEPT ![n].step = "resolve", ![n].hops = Append(@, next)]
  BY DEF Redirects
<1> DEFINE f == fetches[n]
           hops == Append(f.hops, next)
           new == [tenant |-> f.tenant, ingest |-> f.ingest, step |-> "resolve", hops |-> hops]
<1>2. /\ f.step = "request" /\ FetchInv(f)
      /\ Len(f.hops) - 1 < MaxRedirects
      /\ fetches' = [fetches EXCEPT ![n] = new]
  BY <1>1 DEF Redirects, RedirectsLeft, FetchesInv, FetchInv
<1>3. /\ hops \in Seq(Urls) /\ hops # <<>> /\ Len(hops) = Len(f.hops) + 1
      /\ \A i \in 1 .. Len(f.hops) : hops[i] = f.hops[i]
      /\ Len(f.hops) \in Nat
  BY <1>2 DEF FetchInv
<1>4. MaxRedirects \in Nat
  BY KnowledgeAssumption
<1>5. FetchInv(new)
  <2>1. Requested(new) = Len(f.hops) /\ Requested(f) = Len(f.hops)
    BY <1>2, <1>3 DEF Requested
  <2> HIDE DEF hops
  <2>2. /\ new.step = "resolve" /\ new.hops = hops
        /\ new = [tenant |-> new.tenant, ingest |-> new.ingest, step |-> new.step, hops |-> new.hops]
    OBVIOUS
  <2>3. /\ \A i \in 1 .. Len(f.hops) : hops[i] \in WellShaped
        /\ \A i, j \in 1 .. Len(f.hops) : hops[i] = hops[j] => i = j
    BY <1>2, <1>3, <2>1 DEF FetchInv
  <2>4. Len(hops) <= MaxRedirects + 1
    BY <1>2, <1>3, <1>4
  <2> HIDE DEF new
  <2> QED
    BY <1>3, <2>1, <2>2, <2>3, <2>4 DEF FetchInv
<1> QED
  BY <1>2, <1>5 DEF FetchesInv

\* A fetch begins with one URL, of the right shape.
LEMMA BeginsKeeps ==
  ASSUME FetchesInv, NEW t, NEW ingest, NEW url \in Urls, FetchBegins(t, ingest, url)
  PROVE  FetchesInv'
<1> DEFINE new == [tenant |-> t, ingest |-> ingest, step |-> "resolve", hops |-> <<url>>]
<1>1. MaxRedirects \in Nat
  BY KnowledgeAssumption
<1>2. FetchInv(new)
  <2>1. Len(<<url>>) = 1 /\ <<url>> \in Seq(Urls) /\ <<url>> # <<>>
    OBVIOUS
  <2>2. /\ Requested(new) = 0
        /\ new.step = "resolve" /\ new.hops = <<url>>
        /\ new = [tenant |-> new.tenant, ingest |-> new.ingest, step |-> new.step, hops |-> new.hops]
    BY <2>1 DEF Requested
  <2>3. 1 <= MaxRedirects + 1
    BY <1>1
  <2> HIDE DEF new
  <2> QED
    BY <2>1, <2>2, <2>3 DEF FetchInv
<1>3. \A n \in DOMAIN fetches' : fetches'[n] = new \/ (n \in DOMAIN fetches /\ fetches'[n] = fetches[n])
  BY DEF FetchBegins
<1> QED
  BY <1>2, <1>3 DEF FetchesInv

\* Every step keeps what fetches have requested.
LEMMA RagNextKeeps ==
  ASSUME FetchesInv, [RagNext]_ragVars
  PROVE  FetchesInv'
<1>1. CASE \E t \in RagTenants : \E url \in Urls : PreviewUrl(t, url) \/ IngestUrl(t, url)
  BY <1>1, BeginsKeeps DEF PreviewUrl, IngestUrl
<1>2. CASE \E n \in DOMAIN fetches : HopResolves(n)
  BY <1>2, ResolvesKeeps
<1>3. CASE \E n \in DOMAIN fetches : Redirects(n)
  BY <1>3, RedirectsKeeps
<1>4. CASE \E n \in DOMAIN fetches : HopRefused(n) \/ RequestFails(n) \/ Shown(n) \/ Arrives(n)
  <2>1. PICK n \in DOMAIN fetches : fetches' = Others(n)
    BY <1>4 DEF HopRefused, RequestFails, Shown, Arrives, Ends
  <2> QED
    BY <2>1 DEF Others, FetchesInv
<1>5. CASE UNCHANGED fetches
  BY <1>5 DEF FetchesInv
<1>6. CASE RagDies
  BY <1>6 DEF RagDies, FetchesInv
<1> QED
  BY <1>1, <1>2, <1>3, <1>4, <1>5, <1>6
  DEF RagNext, PostDocuments, SearchTenantKnowledge, ListTenantDocuments, DeleteTenantDocument,
      RagWaits, BeginsRagCall, WritesRag, ragVars

\* Whatever the servers answer, a fetch requests well shaped and different URLs, and no
\* more than the redirects allow.
THEOREM FetchesCome ==
  RagSpec => []FetchesEnd
<1>1. RagInit => FetchesInv
  BY DEF RagInit, FetchesInv
<1>2. ASSUME FetchesInv PROVE FetchesEnd
  <2>1. ASSUME NEW n \in DOMAIN fetches
        PROVE  LET hops      == fetches[n].hops
                   requested == IF fetches[n].step = "request" THEN hops ELSE Front(hops)
               IN  /\ ToSet(requested) \subseteq WellShaped
                   /\ \A i, j \in DOMAIN requested : requested[i] = requested[j] => i = j
                   /\ Len(requested) <= MaxRedirects + 1
    <3> DEFINE f == fetches[n]
    <3>1. PICK requested : requested = IF f.step = "request" THEN f.hops ELSE Front(f.hops)
      OBVIOUS
    <3>2. FetchInv(f) /\ MaxRedirects \in Nat
      BY <1>2, KnowledgeAssumption DEF FetchesInv
    <3>3. /\ requested \in Seq(Urls) /\ Len(requested) = Requested(f)
          /\ \A i \in 1 .. Requested(f) : requested[i] = f.hops[i]
      BY <3>1, <3>2, FrontFacts DEF FetchInv, Requested
    <3>4. DOMAIN requested = 1 .. Requested(f)
      BY <3>3
    <3>5. Len(requested) <= MaxRedirects + 1
      BY <3>2, <3>3 DEF FetchInv, Requested
    <3>6. ToSet(requested) \subseteq WellShaped
      BY <3>2, <3>3, <3>4 DEF ToSet, FetchInv
    <3>7. \A i, j \in DOMAIN requested : requested[i] = requested[j] => i = j
      BY <3>2, <3>3, <3>4 DEF FetchInv
    <3> QED
      BY <3>1, <3>5, <3>6, <3>7
  <2> QED
    BY <2>1 DEF FetchesEnd
<1> QED
  BY <1>1, <1>2, RagNextKeeps, PTL DEF RagSpec

-----------------------------------------------------------------------------
(* The three policies over their files. *)

\* The files, the process and the history have their shapes: a file holds nothing, what
\* does not parse, or a policy or none for each tenant.
Readings == {NoFile, EmptyFile, TornFile} \cup StoredMaps(policyKind)

PolicyWriterOK(w) ==
  /\ policyWriters[w] = [step |-> policyWriters[w].step, fd |-> policyWriters[w].fd,
                         content |-> policyWriters[w].content]
  /\ policyWriters[w].content \in StoredMaps(policyKind)

PolicyShapes ==
  /\ policyKind \in Kinds
  /\ policyDisk = [file |-> policyDisk.file, tmp |-> policyDisk.tmp]
  /\ policyDisk.file \in Readings /\ policyDisk.tmp \in Readings
  /\ \A w \in DOMAIN policyWriters : PolicyWriterOK(w)
  /\ DOMAIN policyWriters \subseteq PolicySlots
  /\ authors \in [DOMAIN policyWriters -> PolicyTenants]
  /\ perRole \in PolicyLimits /\ fallback \in PolicyDefaults[policyKind]
  /\ told \in StoredMaps(policyKind)
  /\ crossed \in BOOLEAN /\ starts \in 0..MaxPolicyStarts

\* Until two writes overlap, the file says what was told, and the one write under way is
\* about to put there what was told but for its author's entry.
AboutToTell(w) ==
  LET content == policyWriters[w].content
  IN  /\ \A t \in PolicyTenants : t # authors[w] => content[t] = told[t]
      /\ policyWriters[w].step \in {"open", "write", "rename"}
      /\ policyWriters[w].step = "write" => policyWriters[w].fd = "tmp" /\ policyDisk.tmp = EmptyFile
      /\ policyWriters[w].step = "rename" => policyDisk.tmp = content

ToldIsStored ==
  ~crossed =>
    /\ Stored = told
    /\ \A v, w \in DOMAIN policyWriters : v = w
    /\ \A w \in DOMAIN policyWriters : AboutToTell(w)

PolicyInv == PolicyShapes /\ ToldIsStored

\* What is stored can be told from a file that is not there or cannot be read.
LEMMA StoredIsLegible ==
  ASSUME NEW k \in Kinds, NEW map \in StoredMaps(k)
  PROVE  File!Legible(map)
BY PolicyAssumption DEF File!Legible

\* What is read from a well formed file is a well formed map of policies.
LEMMA StoredShape ==
  ASSUME PolicyShapes
  PROVE  Stored \in StoredMaps(policyKind)
<1>1. NoPolicies \in StoredMaps(policyKind)
  BY DEF NoPolicies, StoredMaps
<1> QED
  BY <1>1 DEF Stored, File!Legible, PolicyShapes, Readings

\* The invariant of the policies holds at the start,
LEMMA PolicyInitially ==
  PolicyInit => PolicyInv
<1> SUFFICES ASSUME PolicyInit PROVE PolicyInv
  OBVIOUS
<1>1. /\ policyDisk = [file |-> NoFile, tmp |-> NoFile]
      /\ DOMAIN policyWriters = {} /\ DOMAIN authors = {}
      /\ authors = [w \in {} |-> 0]
      /\ told = NoPolicies /\ crossed = FALSE /\ starts = 0
      /\ policyKind \in Kinds /\ perRole \in PolicyLimits /\ fallback \in PolicyDefaults[policyKind]
  BY DEF PolicyInit, File!FileInit
<1>2. NoPolicies \in StoredMaps(policyKind)
  BY DEF NoPolicies, StoredMaps
<1>3. MaxPolicyStarts \in Nat
  BY PolicyAssumption
<1>4. authors \in [DOMAIN policyWriters -> PolicyTenants]
  BY <1>1
<1>5. PolicyShapes
  <2>1. /\ policyDisk = [file |-> policyDisk.file, tmp |-> policyDisk.tmp]
        /\ policyDisk.file \in Readings /\ policyDisk.tmp \in Readings
    BY <1>1 DEF Readings
  <2>2. starts \in 0..MaxPolicyStarts
    BY <1>1, <1>3
  <2>3. crossed \in BOOLEAN
    BY <1>1
  <2>4. told \in StoredMaps(policyKind)
    BY <1>1, <1>2
  <2> QED
    BY <1>1, <1>4, <2>1, <2>2, <2>3, <2>4 DEF PolicyShapes
<1>6. Stored = told
  BY <1>1 DEF Stored, File!Legible
<1> QED
  BY <1>1, <1>5, <1>6 DEF PolicyInv, ToldIsStored

\* A write that begins while none is under way changes its author's entry of what is
\* stored, which is what was told.
LEMMA StoresKeeps ==
  ASSUME PolicyInv, NEW t \in PolicyTenants, NEW entry,
         entry \in {Unset} \cup {<<p>> : p \in PolicyEdits[policyKind]}, Stores(t, entry)
  PROVE  PolicyInv'
<1> DEFINE content == [Stored EXCEPT ![t] = entry]
<1>1. PICK new \in PolicySlots \ DOMAIN policyWriters :
        policyWriters' = [w \in DOMAIN policyWriters \cup {new} |->
                            IF w = new THEN [step |-> "open", fd |-> "none", content |-> content]
                            ELSE policyWriters[w]]
  BY DEF Stores, File!WriteJson
<1>2. /\ DOMAIN policyWriters' = DOMAIN policyWriters \cup {new}
      /\ policyWriters'[new] = [step |-> "open", fd |-> "none", content |-> content]
      /\ \A w \in DOMAIN policyWriters : policyWriters'[w] = policyWriters[w] /\ w # new
  BY <1>1
<1>3. /\ UNCHANGED <<policyDisk, policyKind, perRole, fallback, told, starts>>
      /\ authors' = [w \in DOMAIN policyWriters' |-> IF w \in DOMAIN authors THEN authors[w] ELSE t]
      /\ crossed' = (crossed \/ policyWriters # [w \in {} |-> 0])
  BY DEF Stores, File!WriteJson
<1>4. Stored \in StoredMaps(policyKind) /\ content \in StoredMaps(policyKind)
  BY StoredShape DEF PolicyInv, StoredMaps
<1>5. /\ DOMAIN authors = DOMAIN policyWriters
      /\ authors' \in [DOMAIN policyWriters' -> PolicyTenants]
      /\ authors'[new] = t
  BY <1>2, <1>3 DEF PolicyInv, PolicyShapes
<1> HIDE DEF content
<1>6. \A w \in DOMAIN policyWriters' : PolicyWriterOK(w)'
  BY <1>2, <1>3, <1>4 DEF PolicyInv, PolicyShapes, PolicyWriterOK
<1>7. PolicyShapes'
  BY <1>1, <1>2, <1>3, <1>5, <1>6 DEF PolicyInv, PolicyShapes, Readings
<1>8. ToldIsStored'
  <2> SUFFICES ASSUME ~crossed' PROVE ToldIsStored'
    BY DEF ToldIsStored
  <2>1. ~crossed /\ DOMAIN policyWriters = {}
    BY <1>3
  <2>2. Stored = told /\ Stored' = told'
    BY <1>3, <2>1 DEF PolicyInv, ToldIsStored, Stored
  <2>3. \A u \in PolicyTenants : u # t => content[u] = told[u]
    BY <1>4, <2>2 DEF content, StoredMaps
  <2>4. AboutToTell(new)'
    BY <1>2, <1>3, <1>5, <2>3 DEF AboutToTell
  <2> QED
    BY <1>2, <2>1, <2>2, <2>4 DEF ToldIsStored
<1> QED
  BY <1>7, <1>8 DEF PolicyInv

\* A step of a write changes the temporary file and itself; the only write under way
\* leaves there what it is to put in place.
LEMMA WriterStepKeeps ==
  ASSUME PolicyInv, NEW w \in DOMAIN policyWriters, PolicyWriterStep(w)
  PROVE  PolicyInv'
<1>1. /\ UNCHANGED <<policyKind, perRole, fallback, authors, told, crossed, starts>>
      /\ File!OpensTmp(w) \/ File!Writes(w)
  BY DEF PolicyWriterStep, policyHistory
<1>2. PolicyWriterOK(w) /\ policyDisk = [file |-> policyDisk.file, tmp |-> policyDisk.tmp]
  BY DEF PolicyInv, PolicyShapes
<1>3. /\ DOMAIN policyWriters' = DOMAIN policyWriters
      /\ \A v \in DOMAIN policyWriters \ {w} : policyWriters'[v] = policyWriters[v]
      /\ policyWriters'[w] = [step |-> policyWriters'[w].step, fd |-> policyWriters'[w].fd,
                              content |-> policyWriters[w].content]
      /\ policyWriters'[w].content = policyWriters[w].content
  BY <1>1, <1>2 DEF File!OpensTmp, File!Writes, PolicyWriterOK
<1>4. \A v \in DOMAIN policyWriters' : PolicyWriterOK(v)'
  BY <1>1, <1>2, <1>3 DEF PolicyInv, PolicyShapes, PolicyWriterOK
<1>5. /\ policyDisk' = [file |-> policyDisk'.file, tmp |-> policyDisk'.tmp]
      /\ policyDisk'.file \in Readings' /\ policyDisk'.tmp \in Readings'
  <2>1. CASE File!OpensTmp(w)
    BY <1>1, <1>2, <2>1 DEF File!OpensTmp, PolicyInv, PolicyShapes, Readings
  <2>2. CASE File!Writes(w)
    BY <1>1, <1>2, <2>2
    DEF File!Writes, File!Overlaid, PolicyInv, PolicyShapes, Readings, PolicyWriterOK
  <2> QED
    BY <1>1, <2>1, <2>2
<1>6. PolicyShapes'
  BY <1>1, <1>3, <1>4, <1>5 DEF PolicyInv, PolicyShapes
<1>7. ToldIsStored'
  <2> SUFFICES ASSUME ~crossed PROVE ToldIsStored'
    BY <1>1 DEF ToldIsStored
  <2>1. /\ \A v \in DOMAIN policyWriters : v = w
        /\ Stored = told /\ AboutToTell(w)
    BY DEF PolicyInv, ToldIsStored
  <2>2. policyDisk'.file = policyDisk.file /\ AboutToTell(w)'
    <3>1. CASE File!OpensTmp(w)
      <4>1. /\ policyWriters'[w] = [policyWriters[w] EXCEPT !.step = "write", !.fd = "tmp"]
            /\ policyDisk' = [policyDisk EXCEPT !.tmp = EmptyFile]
        BY <3>1 DEF File!OpensTmp
      <4>2. /\ policyWriters'[w].step = "write" /\ policyWriters'[w].fd = "tmp"
            /\ policyDisk'.tmp = EmptyFile /\ policyDisk'.file = policyDisk.file
        BY <1>2, <4>1 DEF PolicyWriterOK
      <4> QED
        BY <1>1, <1>3, <2>1, <4>2 DEF AboutToTell
    <3>2. CASE File!Writes(w)
      <4>1. policyWriters[w].fd = "tmp" /\ policyDisk.tmp = EmptyFile
        BY <2>1, <3>2 DEF File!Writes, AboutToTell
      <4>2. /\ policyWriters'[w] = [policyWriters[w] EXCEPT !.step = "rename"]
            /\ policyDisk' = [policyDisk EXCEPT !.tmp = policyWriters[w].content]
        BY <3>2, <4>1 DEF File!Writes, File!Overlaid
      <4>3. /\ policyWriters'[w].step = "rename"
            /\ policyDisk'.tmp = policyWriters[w].content /\ policyDisk'.file = policyDisk.file
        BY <1>2, <4>2 DEF PolicyWriterOK
      <4> QED
        BY <1>1, <1>3, <2>1, <4>3 DEF AboutToTell
    <3> QED
      BY <1>1, <3>1, <3>2
  <2>3. Stored' = told'
    BY <1>1, <2>1, <2>2 DEF Stored, File!Legible
  <2> QED
    BY <1>3, <2>1, <2>2, <2>3 DEF ToldIsStored
<1> QED
  BY <1>6, <1>7 DEF PolicyInv

\* With the rename the author is told what everybody can read now.
LEMMA RenamedKeeps ==
  ASSUME PolicyInv, NEW w \in DOMAIN policyWriters, PolicyRenamed(w)
  PROVE  PolicyInv'
<1> DEFINE content == policyWriters[w].content
<1>1. /\ UNCHANGED <<policyKind, perRole, fallback, crossed, starts>>
      /\ File!Renames(w)
      /\ told' = IF policyDisk.tmp = NoFile THEN told
                 ELSE [told EXCEPT ![authors[w]] = content[authors[w]]]
      /\ authors' = [v \in DOMAIN policyWriters' |-> authors[v]]
  BY DEF PolicyRenamed
<1>2. PolicyWriterOK(w) /\ authors[w] \in PolicyTenants
  BY DEF PolicyInv, PolicyShapes
<1>3. /\ DOMAIN policyWriters' = DOMAIN policyWriters \ {w}
      /\ \A v \in DOMAIN policyWriters' :
           policyWriters'[v] = [step |-> policyWriters[v].step, fd |-> policyWriters'[v].fd,
                                content |-> policyWriters[v].content]
  BY <1>1 DEF File!Renames, File!Others, PolicyInv, PolicyShapes, PolicyWriterOK
<1>4. \A v \in DOMAIN policyWriters' : PolicyWriterOK(v)'
  BY <1>1, <1>3 DEF PolicyInv, PolicyShapes, PolicyWriterOK
<1>5. /\ policyDisk' = [file |-> policyDisk'.file, tmp |-> policyDisk'.tmp]
      /\ policyDisk'.file \in Readings' /\ policyDisk'.tmp \in Readings'
  BY <1>1 DEF File!Renames, PolicyInv, PolicyShapes, Readings
<1>6. told' \in StoredMaps(policyKind)
  BY <1>1, <1>2 DEF PolicyInv, PolicyShapes, StoredMaps, PolicyWriterOK
<1>7. authors' \in [DOMAIN policyWriters' -> PolicyTenants]
  BY <1>1, <1>3 DEF PolicyInv, PolicyShapes
<1>8. PolicyShapes'
  BY <1>1, <1>3, <1>4, <1>5, <1>6, <1>7 DEF PolicyInv, PolicyShapes
<1>9. ToldIsStored'
  <2> SUFFICES ASSUME ~crossed PROVE ToldIsStored'
    BY <1>1 DEF ToldIsStored
  <2>1. /\ \A v \in DOMAIN policyWriters : v = w
        /\ AboutToTell(w)
    BY DEF PolicyInv, ToldIsStored
  <2>2. policyDisk.tmp = content /\ content \in StoredMaps(policyKind) /\ File!Legible(content)
    BY <1>1, <1>2, <2>1, StoredIsLegible
    DEF File!Renames, AboutToTell, PolicyWriterOK, PolicyInv, PolicyShapes
  <2>3. policyDisk'.file = content /\ policyDisk.tmp # NoFile
    BY <1>1, <2>2 DEF File!Renames, File!Legible
  <2>4. told' = content
    BY <1>1, <1>2, <2>1, <2>2, <2>3 DEF AboutToTell, PolicyInv, PolicyShapes, StoredMaps
  <2>5. Stored' = content
    BY <2>2, <2>3 DEF Stored, File!Legible
  <2> QED
    BY <1>3, <2>1, <2>4, <2>5 DEF ToldIsStored
<1> QED
  BY <1>8, <1>9 DEF PolicyInv

\* a restart keeps it,
LEMMA PolicyRestartKeeps ==
  ASSUME PolicyInv, PolicyRestart
  PROVE  PolicyInv'
<1>1. /\ UNCHANGED <<policyKind, told, crossed, policyDisk>>
      /\ policyWriters' = [w \in {} |-> NoFile] /\ authors' = [w \in {} |-> 0]
      /\ perRole' \in PolicyLimits /\ fallback' \in PolicyDefaults[policyKind]
      /\ starts < MaxPolicyStarts /\ starts' = starts + 1
  BY DEF PolicyRestart, File!WritersDie
<1>2. MaxPolicyStarts \in Nat
  BY PolicyAssumption
<1>3. DOMAIN policyWriters' = {} /\ authors' \in [DOMAIN policyWriters' -> PolicyTenants]
  BY <1>1
<1>4. starts' \in 0..MaxPolicyStarts
  BY <1>1, <1>2 DEF PolicyInv, PolicyShapes
<1>5. PolicyShapes'
  BY <1>1, <1>3, <1>4 DEF PolicyInv, PolicyShapes, Readings
<1> QED
  BY <1>1, <1>3, <1>5 DEF PolicyInv, ToldIsStored, Stored

\* and so does every step.
LEMMA PolicyNextKeeps ==
  ASSUME PolicyInv, [PolicyNext]_policyVars
  PROVE  PolicyInv'
<1>1. CASE \E t \in PolicyTenants, policy \in PolicyEdits[policyKind] :
             PutDeliveryPolicy(t, policy) \/ PutRemotePolicy(t, policy)
               \/ PutOperatorPolicy(t, policy)
  <2>1. PICK t \in PolicyTenants, policy \in PolicyEdits[policyKind] : Stores(t, <<policy>>)
    BY <1>1 DEF PutDeliveryPolicy, PutRemotePolicy, PutOperatorPolicy
  <2> QED
    BY <2>1, StoresKeeps
<1>2. CASE \E t \in PolicyTenants :
             DeleteDeliveryPolicy(t) \/ DeleteRemotePolicy(t) \/ DeleteOperatorPolicy(t)
  <2>1. PICK t \in PolicyTenants : Stores(t, Unset)
    BY <1>2 DEF DeleteDeliveryPolicy, DeleteRemotePolicy, DeleteOperatorPolicy, Removes
  <2> QED
    BY <2>1, StoresKeeps
<1>3. CASE \E w \in DOMAIN policyWriters : PolicyWriterStep(w) \/ PolicyRenamed(w)
  BY <1>3, WriterStepKeeps, RenamedKeeps
<1>4. CASE PolicyRestart
  BY <1>4, PolicyRestartKeeps
<1>5. CASE UNCHANGED policyVars
  BY <1>5
  DEF policyVars, policyFile, policyHistory, PolicyInv, PolicyShapes, PolicyWriterOK, Readings,
      ToldIsStored, AboutToTell, Stored, File!Legible
<1> QED
  BY <1>1, <1>2, <1>3, <1>4, <1>5 DEF PolicyNext

\* The shapes of the policies' variables, and of everything their files will ever hold.
THEOREM PolicyTypeCorrect == PolicySpec => []PolicyTypeOK
<1>1. ASSUME PolicyShapes PROVE PolicyTypeOK
  <2>1. \A c \in StoredMaps(policyKind) : \A t \in PolicyTenants :
          c[t] = Unset \/ c[t][1] \in PolicyEdits[policyKind]
    BY DEF StoredMaps
  <2>2. File!Contents \subseteq StoredMaps(policyKind)
    BY <1>1 DEF File!Contents, File!Legible, PolicyShapes, PolicyWriterOK, Readings
  <2> QED
    BY <1>1, <2>1, <2>2 DEF PolicyShapes, PolicyTypeOK
<1> QED
  BY <1>1, PolicyInitially, PolicyNextKeeps, PTL DEF PolicySpec, PolicyInv

\* Until two writes overlap, a tenant is governed by the policy it was last told it has,
\* or by the deployment's default once that policy is over a limit.
THEOREM ToldPoliciesGovern == PolicySpec => []ToldPolicyGoverns
<1>1. PolicyInv => ToldPolicyGoverns
  BY DEF PolicyInv, ToldIsStored, ToldPolicyGoverns, EffectivePolicy
<1> QED
  BY <1>1, PolicyInitially, PolicyNextKeeps, PTL DEF PolicySpec

-----------------------------------------------------------------------------
(* The rules of the policies. *)

\* A prefix, by its places.
LEMMA PrefixMeans ==
  ASSUME NEW s \in Seq(STRING), NEW t \in Seq(STRING)
  PROVE  IsPrefix(s, t) <=> Len(s) <= Len(t) /\ \A i \in 1 .. Len(s) : s[i] = t[i]
<1>1. PICK n \in Nat : n = Len(s)
  OBVIOUS
<1>2. CASE ~(n <= Len(t))
  BY <1>1, <1>2 DEF IsPrefix
<1>3. CASE n <= Len(t)
  <2>1. \A i \in 1 .. n : s[i] \in STRING /\ t[i] \in STRING
    BY <1>1, <1>3
  <2>2. ASSUME NEW r, \A i \in 1 .. n : r[i] \in STRING
        PROVE  /\ SubSeq(r, 1, n) \in Seq(STRING)
               /\ Len(SubSeq(r, 1, n)) = n
               /\ \A i \in 1 .. n : SubSeq(r, 1, n)[i] = r[i]
    <3>1. /\ SubSeq(r, 1, n) \in Seq(STRING)
          /\ Len(SubSeq(r, 1, n)) = IF 1 <= n THEN n - 1 + 1 ELSE 0
          /\ \A i \in 1 .. n - 1 + 1 : SubSeq(r, 1, n)[i] = r[1 + i - 1]
      BY <2>2, SeqFacts!SubSeqProperties
    <3>2. n - 1 + 1 = n /\ (IF 1 <= n THEN n ELSE 0) = n /\ \A i \in 1 .. n : 1 + i - 1 = i
      OBVIOUS
    <3> QED
      BY <3>1, <3>2
  <2>3. /\ SubSeq(s, 1, n) \in Seq(STRING) /\ SubSeq(t, 1, n) \in Seq(STRING)
        /\ Len(SubSeq(s, 1, n)) = n /\ Len(SubSeq(t, 1, n)) = n
    BY <2>1, <2>2
  <2>4. \A i \in 1 .. n : SubSeq(s, 1, n)[i] = s[i] /\ SubSeq(t, 1, n)[i] = t[i]
    BY <2>1, <2>2
  <2>5. SubSeq(s, 1, n) = SubSeq(t, 1, n) <=> \A i \in 1 .. n : s[i] = t[i]
    BY <2>3, <2>4, SeqFacts!SeqEqual
  <2> QED
    BY <1>1, <1>3, <2>5 DEF IsPrefix
<1> QED
  BY <1>2, <1>3

\* Prefixes compose,
LEMMA PrefixOfPrefix ==
  ASSUME NEW s \in Seq(STRING), NEW t \in Seq(STRING), NEW u \in Seq(STRING),
         IsPrefix(s, t), IsPrefix(t, u)
  PROVE  IsPrefix(s, u)
<1>1. Len(s) \in Nat /\ Len(t) \in Nat /\ Len(u) \in Nat
  OBVIOUS
<1> QED
  BY <1>1, PrefixMeans

\* strictly if one is strict,
LEMMA StrictPrefixOfPrefix ==
  ASSUME NEW s \in Seq(STRING), NEW t \in Seq(STRING), NEW u \in Seq(STRING),
         IsPrefix(s, t), IsStrictPrefix(t, u)
  PROVE  IsStrictPrefix(s, u)
<1>1. IsPrefix(t, u) /\ t # u
  BY DEF IsStrictPrefix
<1>2. IsPrefix(s, u)
  BY <1>1, PrefixOfPrefix
<1>3. ASSUME s = u PROVE FALSE
  <2>1. Len(t) \in Nat /\ Len(u) \in Nat
    OBVIOUS
  <2>2. Len(u) <= Len(t) /\ Len(t) <= Len(u) /\ \A i \in 1 .. Len(t) : t[i] = u[i]
    BY <1>1, <1>3, PrefixMeans
  <2>3. t = u
    BY <2>1, <2>2, SeqFacts!SeqEqual
  <2> QED
    BY <1>1, <2>3
<1> QED
  BY <1>2, <1>3 DEF IsStrictPrefix

\* and the empty path is one of every path.
LEMMA EmptyIsPrefix ==
  ASSUME NEW s \in Seq(STRING)
  PROVE  IsPrefix(<<>>, s)
<1> PICK e : e = <<>>
  OBVIOUS
<1>1. e \in Seq(STRING) /\ Len(e) = 0 /\ Len(s) \in Nat
  OBVIOUS
<1>2. IsPrefix(e, s) <=> Len(e) <= Len(s) /\ \A i \in 1 .. Len(e) : e[i] = s[i]
  BY <1>1, PrefixMeans
<1>3. Len(e) <= Len(s) /\ \A i \in 1 .. Len(e) : e[i] = s[i]
  BY <1>1
<1> QED
  BY <1>2, <1>3

\* What a narrower rule matches is matched by the rule it narrows.
LEMMA NarrowerMatches ==
  ASSUME NEW r \in TargetRule, NEW s \in TargetRule, Narrower(r, s),
         NEW target \in Targets, TargetMatches(target, r)
  PROVE  TargetMatches(target, s)
<1>1. /\ r.path \in Seq(STRING) /\ s.path \in Seq(STRING) /\ target.path \in Seq(STRING)
      /\ r.host.base \in Seq(STRING) /\ s.host.base \in Seq(STRING) /\ target.host \in Seq(STRING)
      /\ r.host \in HostRule /\ s.host \in HostRule
  BY PolicyAssumption DEF TargetRule, HostRule, Targets
<1>2. s.port \in {NoPort, target.port}
  BY DEF Narrower, TargetMatches
<1>3. PathMatches(target.path, s.path)
  BY <1>1, PrefixOfPrefix DEF Narrower, TargetMatches, PathMatches
<1>4. HostMatches(target.host, s.host)
  <2>1. HostMatches(target.host, r.host) /\ NarrowerHost(r.host, s.host)
    BY DEF Narrower, TargetMatches
  <2>2. CASE ~s.host.wild
    BY <2>1, <2>2 DEF NarrowerHost
  <2>3. CASE s.host.wild /\ r.host.wild
    BY <1>1, <2>1, <2>3, StrictPrefixOfPrefix DEF NarrowerHost, HostMatches
  <2>4. CASE s.host.wild /\ ~r.host.wild
    BY <2>1, <2>4 DEF NarrowerHost, HostMatches
  <2> QED
    BY <2>2, <2>3, <2>4
<1> QED
  BY <1>2, <1>3, <1>4 DEF TargetMatches

\* A policy in force has the shape of its kind.
PolicyLike(p) ==
  /\ p.mode \in Modes[policyKind]
  /\ \A r \in Roles[policyKind] : p.lists[r] \subseteq Entries[policyKind]
  /\ DOMAIN p.lists = Roles[policyKind]

\* The policy that governs a tenant is well formed, and valid unless it is the default.
LEMMA EffectiveShape ==
  ASSUME PolicyInv, NEW t \in PolicyTenants
  PROVE  /\ PolicyLike(EffectivePolicy(Stored[t]))
         /\ EffectivePolicy(Stored[t]) # fallback => ValidPolicy(EffectivePolicy(Stored[t]))
<1>1. Stored[t] = Unset \/ \E p \in PolicyEdits[policyKind] : Stored[t] = <<p>>
  BY StoredShape DEF PolicyInv, StoredMaps
<1>2. \A p \in PolicyDefaults[policyKind] \cup PolicyEdits[policyKind] : PolicyLike(p)
  BY PolicyAssumption DEF PolicyLike, PolicyInv, PolicyShapes
<1> QED
  BY <1>1, <1>2 DEF EffectivePolicy, PolicyInv, PolicyShapes

\* Delivery: a target made narrower reaches no more,
LEMMA DeliveryNests ==
  ASSUME NEW policy, policyKind = "delivery", PolicyLike(policy), policy.mode = "allowlist_only",
         NEW s \in policy.lists["allowed_targets"],
         NEW r \in {r \in TargetRule : Narrower(r, s)}
  PROVE  Reach(Listing((policy.lists["allowed_targets"] \ {s}) \cup {r}), {}) \subseteq Reach(policy, {})
<1> DEFINE rules == policy.lists["allowed_targets"]
           narrowed == Listing((rules \ {s}) \cup {r})
<1>1. rules \subseteq TargetRule
  BY DEF PolicyLike, Roles, Entries
<1>2. narrowed.mode = "allowlist_only" /\ narrowed.lists["allowed_targets"] = (rules \ {s}) \cup {r}
  BY DEF Listing
<1>3. ASSUME NEW target \in Targets, DeliveryAllowed(narrowed, {}, target)
      PROVE  DeliveryAllowed(policy, {}, target)
  <2>1. PICK rule \in (rules \ {s}) \cup {r} : TargetMatches(target, rule)
    BY <1>2, <1>3 DEF DeliveryAllowed
  <2>2. \E other \in rules : TargetMatches(target, other)
    BY <1>1, <2>1, NarrowerMatches
  <2> QED
    BY <2>2 DEF DeliveryAllowed
<1> QED
  BY <1>3 DEF Reach

\* remote fetches: listing targets for the hosts reaches what inheriting does, and what may
\* be ingested may be previewed,
LEMMA RemoteNests ==
  ASSUME NEW policy, policyKind = "remote", PolicyLike(policy), NEW hosts,
         hosts = policy.lists["allowed_hosts"]
  PROVE  /\ Reach(Inheriting, hosts)
              = Reach(Listing({[host |-> h, port |-> NoPort, path |-> <<>>] : h \in hosts}), {})
         /\ \A h \in Hosts : IngestAllowed(policy, h) =>
              /\ PreviewAllowed(policy)
              /\ policy.mode = "open" \/ h \in {target.host : target \in Reach(Inheriting, hosts)}
<1> DEFINE AsTarget(h) == [host |-> h, port |-> NoPort, path |-> <<>>]
           listed == Listing({AsTarget(h) : h \in hosts})
<1>1. /\ listed.mode = "allowlist_only"
      /\ listed.lists["allowed_targets"] = {AsTarget(h) : h \in hosts}
      /\ Inheriting.mode = "inherit_remote_policy"
  BY DEF Listing, Inheriting
<1>2. ASSUME NEW target \in Targets, NEW h \in hosts
      PROVE  TargetMatches(target, AsTarget(h)) <=> HostMatches(target.host, h)
  <2>1. target.path \in Seq(STRING)
    BY PolicyAssumption DEF Targets
  <2>2. AsTarget(h).port = NoPort /\ AsTarget(h).host = h /\ AsTarget(h).path = <<>>
    OBVIOUS
  <2> HIDE DEF AsTarget
  <2> QED
    BY <2>1, <2>2, EmptyIsPrefix DEF TargetMatches, PathMatches
<1>3. ASSUME NEW target \in Targets
      PROVE  /\ DeliveryAllowed(Inheriting, hosts, target) <=>
                  \E h \in hosts : HostMatches(target.host, h)
             /\ DeliveryAllowed(listed, {}, target) <=>
                  \E h \in hosts : TargetMatches(target, AsTarget(h))
  <2> HIDE DEF AsTarget, listed
  <2>1. DeliveryAllowed(Inheriting, hosts, target) <=> \E h \in hosts : HostMatches(target.host, h)
    BY <1>1 DEF DeliveryAllowed
  <2>2. DeliveryAllowed(listed, {}, target) <=>
          \E rule \in {AsTarget(h) : h \in hosts} : TargetMatches(target, rule)
    BY <1>1 DEF DeliveryAllowed
  <2> QED
    BY <2>1, <2>2
<1>4. Reach(Inheriting, hosts) = Reach(listed, {})
  BY <1>2, <1>3 DEF Reach
<1>5. ASSUME NEW h \in Hosts, IngestAllowed(policy, h)
      PROVE  /\ PreviewAllowed(policy)
             /\ policy.mode = "open" \/ h \in {target.host : target \in Reach(Inheriting, hosts)}
  <2>1. PreviewAllowed(policy)
    BY <1>5 DEF IngestAllowed, PreviewAllowed
  <2>2. CASE policy.mode # "open"
    <3>1. \E rule \in hosts : HostMatches(h, rule)
      BY <1>5, <2>2 DEF IngestAllowed
    <3>2. PICK port \in Ports, path \in Paths : TRUE
      BY PolicyAssumption
    <3>3. PICK target : target = [host |-> h, port |-> port, path |-> path]
      OBVIOUS
    <3>4. target \in Targets /\ target.host = h
      BY <3>3 DEF Targets
    <3>5. target \in Reach(Inheriting, hosts)
      BY <1>3, <3>1, <3>4 DEF Reach
    <3> QED
      BY <2>1, <3>4, <3>5
  <2> QED
    BY <2>1, <2>2
<1> QED
  BY <1>4, <1>5

\* operators: a policy that passed validation leaves no action to nobody.
LEMMA OperatorNests ==
  ASSUME NEW policy, policyKind = "operator", PolicyLike(policy), ValidPolicy(policy),
         NEW action \in Roles["operator"]
  PROVE  \E p \in Admins : Authorized(policy, action, p)
<1>1. CASE policy.mode = "open_admins"
  BY <1>1, PolicyAssumption DEF Authorized
<1>2. CASE policy.mode # "open_admins"
  <2>1. policy.mode = "roster_required"
    BY <1>2 DEF PolicyLike, Modes
  <2>2. policy.lists[action] # {} /\ policy.lists[action] \subseteq Admins
    BY <2>1 DEF PolicyLike, ValidPolicy, ValidOperator, EveryRole, Entries
  <2> QED
    BY <2>2 DEF Authorized
<1> QED
  BY <1>1, <1>2

\* A rule made narrower reaches no more, targets listed for hosts reach what inheriting
\* them does, and no tenant's own policy leaves an action to nobody: for all rules.
THEOREM RulesAlwaysNest == PolicySpec => []RulesNest
<1>1. ASSUME PolicyInv PROVE RulesNest
  <2>1. ASSUME NEW t \in PolicyTenants, NEW policy, policy = EffectivePolicy(Stored[t])
        PROVE  /\ PolicyLike(policy)
               /\ policy # fallback => ValidPolicy(policy)
    BY <1>1, <2>1, EffectiveShape
  <2> QED
    BY <2>1, DeliveryNests, RemoteNests, OperatorNests DEF RulesNest
<1> QED
  BY <1>1, PolicyInitially, PolicyNextKeeps, PTL DEF PolicySpec

-----------------------------------------------------------------------------
(* Induction over the places of a list, by the first one that fails. *)

\* A set of numbers that has any has a least one.
LEMMA LeastNumber ==
  ASSUME NEW n \in Nat, NEW S \in SUBSET (0..n), S # {}
  PROVE  \E m \in S : \A k \in S : m <= k
<1>1. IsFiniteSet(S) /\ S \in SUBSET Nat
  <2>1. IsFiniteSet(0..n)
    BY FS_Interval
  <2>2. IsFiniteSet(S)
    BY <2>1, FS_Subset
  <2> QED
    BY <2>2
<1>2. PICK s : s \in S
  OBVIOUS
<1>3. PICK size \in Nat : size = Cardinality(S)
  BY <1>1, FS_CardinalityType
<1>4. /\ Ascending(S) \in [1..size -> S]
      /\ \A r \in S : \E i \in 1..size : Ascending(S)[i] = r
      /\ \A i, j \in 1..size : i < j => Ascending(S)[i] < Ascending(S)[j]
  BY <1>1, <1>3, AscendingLists
<1>5. 1 \in 1..size
  BY <1>2, <1>3, <1>4
<1>6. \A k \in S : Ascending(S)[1] <= k
  <2> SUFFICES ASSUME NEW k \in S PROVE Ascending(S)[1] <= k
    OBVIOUS
  <2>1. PICK i \in 1..size : Ascending(S)[i] = k
    BY <1>4
  <2>2. CASE i = 1
    BY <1>1, <2>1, <2>2
  <2>3. CASE i # 1
    <3>1. 1 < i
      BY <2>3
    <3>2. Ascending(S)[1] < Ascending(S)[i] /\ Ascending(S)[1] \in Nat
      BY <1>1, <1>4, <1>5, <3>1
    <3> QED
      BY <1>1, <2>1, <3>2
  <2> QED
    BY <2>2, <2>3
<1> QED
  BY <1>4, <1>5, <1>6

\* What holds of 0, and of a number if it holds of the one before, holds up to n.
LEMMA UpTo ==
  ASSUME NEW n \in Nat, NEW S, 0 \in S, \A i \in 1..n : i - 1 \in S => i \in S
  PROVE  \A i \in 0..n : i \in S
<1> SUFFICES ASSUME (0..n) \ S # {} PROVE FALSE
  OBVIOUS
<1>1. PICK m \in (0..n) \ S : \A k \in (0..n) \ S : m <= k
  BY LeastNumber
<1>2. m # 0 /\ m \in 1..n /\ m - 1 \in 0..n /\ ~(m <= m - 1)
  BY <1>1
<1>3. m - 1 \in S
  BY <1>1, <1>2
<1> QED
  BY <1>1, <1>2, <1>3

\* n functions of X, and what they make of an element one after the other: names for what the
\* next two lemmas assume of Remembered and Ingested.
AreSteps(step, n, X) == step \in [1..n -> [X -> X]]
Iterated(step, n, X, from) ==
  \E f \in [0..n -> X] : f[0] = from /\ \A i \in 1..n : f[i] = step[i][f[i - 1]]

\* Steps that stay within a set can be taken one after the other.
LEMMA Iterates ==
  ASSUME NEW X, NEW from \in X, NEW n \in Nat, NEW step, AreSteps(step, n, X)
  PROVE  Iterated(step, n, X, from)
<1> USE DEF AreSteps, Iterated
<1> DEFINE Runs(k, f) == f \in [0..k -> X] /\ f[0] = from
                          /\ \A i \in 1..k : f[i] = step[i][f[i - 1]]
           S == {k \in 0..n : \E f : Runs(k, f)}
<1>1. 0 \in S
  <2>1. Runs(0, [i \in 0..0 |-> from])
    OBVIOUS
  <2> HIDE DEF Runs
  <2> QED
    BY <2>1
<1>2. ASSUME NEW k \in 1..n, k - 1 \in S
      PROVE  k \in S
  <2>1. PICK f : Runs(k - 1, f)
    BY <1>2
  <2>2. PICK h \in 0..n : h = k - 1
    OBVIOUS
  <2>3. f[h] \in X /\ step[k] \in [X -> X]
    BY <2>1, <2>2
  <2>4. step[k][f[h]] \in X
    BY <2>3
  <2> DEFINE g == [i \in 0..k |-> IF i = k THEN step[k][f[h]] ELSE f[i]]
  <2>5. g \in [0..k -> X] /\ g[0] = from
    BY <2>1, <2>2, <2>4
  <2>6. \A i \in 1..k : g[i] = step[i][g[i - 1]]
    <3> SUFFICES ASSUME NEW i \in 1..k PROVE g[i] = step[i][g[i - 1]]
      OBVIOUS
    <3>1. i - 1 \in 0..k /\ i - 1 # k /\ i \in 0..k
      OBVIOUS
    <3>2. g[i - 1] = f[i - 1]
      BY <3>1
    <3>3. CASE i = k
      BY <2>2, <3>1, <3>2, <3>3
    <3>4. CASE i # k
      <4>1. i \in 1..(k - 1)
        BY <3>4
      <4> QED
        BY <2>1, <3>2, <3>4, <4>1
    <3> QED
      BY <3>3, <3>4
  <2>7. \E m : Runs(k, m)
    BY <2>5, <2>6
  <2> QED
    BY <2>7
<1>3. n \in S
  <2> HIDE DEF S
  <2>1. \A i \in 1..n : i - 1 \in S => i \in S
    BY <1>2
  <2>2. \A i \in 0..n : i \in S
    BY <1>1, <2>1, UpTo
  <2> QED
    BY <2>2
<1> QED
  BY <1>3

-----------------------------------------------------------------------------
(***************************************************************************)
(* The memories keep the promise of MemoryContract: the outcomes of a      *)
(* call are those the contract lets it have of what it read, and a call    *)
(* that has read the file is the only one to write it.                     *)
(***************************************************************************)

\* What the file has, or a call will write: memories dated in the past, each with an id
\* of its own.
IsMemory(items) ==
  /\ items \in Seq(Memories)
  /\ \A i, j \in 1..Len(items) : items[i].id = items[j].id => i = j
  /\ \A i \in 1..Len(items) : items[i].updated <= memClock

\* A batch a caller sends.
MemBatch == Seq([id : ClientIds \cup {NoId}, fact : Facts])

\* A batch under way, of a tenant: what was there before it is there still or has been
\* stored anew, and what is new is the tenant's and dated now.
Between(t, before, items) ==
  /\ IsMemory(items)
  /\ \A m \in Items(items) : m \in Items(before) \/ (m.tenant = t /\ m.updated = memClock)
  /\ \A m \in Items(before) :
       \/ m \in Items(items)
       \/ /\ m.tenant = t
          /\ \E n \in Items(items) : n.id = m.id /\ n.tenant = t /\ n.updated = memClock

\* The parts of a memory.
LEMMA MemoryParts ==
  /\ \A m \in Memories : /\ m.id \in AnyId /\ m.tenant \in MemTenants /\ m.fact \in Facts
                         /\ m.updated \in 0..MaxMemTime /\ m.hits \in Nat
                         /\ m.updated \in Nat
  /\ \A id \in AnyId, t \in MemTenants, fact \in Facts, at \in 0..MaxMemTime, n \in Nat :
       [id |-> id, tenant |-> t, fact |-> fact, updated |-> at, hits |-> n] \in Memories
BY DEF Memories

\* The memories in a list are those at its places.
LEMMA ItemsFacts ==
  ASSUME NEW items \in Seq(Memories)
  PROVE  /\ Len(items) \in Nat
         /\ \A i \in 1..Len(items) : items[i] \in Memories /\ items[i] \in Items(items)
         /\ \A m \in Items(items) : m \in Memories /\ \E i \in 1..Len(items) : items[i] = m
BY DEF Items

\* The one memory with an id.
LEMMA ItemIsIt ==
  ASSUME NEW items, IsMemory(items), NEW i \in 1..Len(items)
  PROVE  items[i].id \in Ids(items) /\ Item(items, items[i].id) = items[i]
<1>1. \E j \in 1..Len(items) : items[j].id = items[i].id
  OBVIOUS
<1>2. \A j \in 1..Len(items) : items[j].id = items[i].id => j = i
  BY DEF IsMemory
<1>3. (CHOOSE j \in 1..Len(items) : items[j].id = items[i].id) = i
  BY <1>1, <1>2
<1> QED
  BY <1>3 DEF Ids, Item

\* The memory of an id is one of the list, and has that id.
LEMMA ItemOfId ==
  ASSUME NEW items, IsMemory(items), NEW id \in Ids(items)
  PROVE  Item(items, id) \in Memories /\ Item(items, id) \in Items(items) /\ Item(items, id).id = id
<1>1. PICK i \in 1..Len(items) : items[i].id = id
  BY DEF Ids
<1>2. Item(items, id) = items[i]
  BY <1>1, ItemIsIt
<1> QED
  BY <1>1, <1>2, ItemsFacts DEF IsMemory

\* Putting a memory among others: under its id, or at the end.
LEMMA PutFacts ==
  ASSUME NEW items, IsMemory(items), NEW m \in Memories, m.updated <= memClock
  PROVE  /\ IsMemory(Put(items, m))
         /\ \A n \in Items(Put(items, m)) : n = m \/ (n \in Items(items) /\ n.id # m.id)
         /\ m \in Items(Put(items, m))
         /\ \A n \in Items(items) : n.id # m.id => n \in Items(Put(items, m))
<1>1. PICK size \in Nat : size = Len(items) /\ items \in Seq(Memories)
  BY DEF IsMemory
<1>2. PICK after : after = Put(items, m)
  OBVIOUS
<1>3. CASE m.id \in Ids(items)
  <2>1. PICK k \in 1..size : items[k].id = m.id
    BY <1>1, <1>3 DEF Ids
  <2>2. after = [i \in 1..size |-> IF items[i].id = m.id THEN m ELSE items[i]]
    BY <1>1, <1>2, <1>3 DEF Put
  <2>3. after \in Seq(Memories) /\ Len(after) = size
    BY <1>1, <2>2
  <2>4. \A i \in 1..size : after[i].id = items[i].id
    BY <2>2
  <2>5. IsMemory(after)
    BY <1>1, <2>2, <2>3, <2>4 DEF IsMemory
  <2>6. \A n \in Items(after) : n = m \/ (n \in Items(items) /\ n.id # m.id)
    BY <1>1, <2>2, <2>3 DEF Items
  <2>7. after[k] = m /\ m \in Items(after)
    BY <2>1, <2>2, <2>3 DEF Items
  <2>8. \A n \in Items(items) : n.id # m.id => n \in Items(after)
    <3> SUFFICES ASSUME NEW i \in 1..size, items[i].id # m.id PROVE items[i] \in Items(after)
      BY <1>1 DEF Items
    <3>1. after[i] = items[i]
      BY <2>2
    <3> QED
      BY <2>3, <3>1 DEF Items
  <2> QED
    BY <1>2, <2>5, <2>6, <2>7, <2>8
<1>4. CASE m.id \notin Ids(items)
  <2>1. after = Append(items, m)
    BY <1>2, <1>4 DEF Put
  <2>2. /\ after \in Seq(Memories) /\ Len(after) = size + 1
        /\ \A i \in 1..size : after[i] = items[i]
        /\ after[size + 1] = m
    BY <1>1, <2>1
  <2>3. \A i \in 1..size : items[i].id # m.id
    BY <1>1, <1>4 DEF Ids
  <2>4. \A i \in 1..(size + 1) : i = size + 1 \/ i \in 1..size
    OBVIOUS
  <2>5. \A i, j \in 1..(size + 1) : after[i].id = after[j].id => i = j
    <3> SUFFICES ASSUME NEW i \in 1..(size + 1), NEW j \in 1..(size + 1),
                        after[i].id = after[j].id
                 PROVE  i = j
      OBVIOUS
    <3>1. CASE i \in 1..size /\ j \in 1..size
      BY <1>1, <2>2, <3>1 DEF IsMemory
    <3>2. CASE i = size + 1 \/ j = size + 1
      BY <2>2, <2>3, <2>4, <3>2
    <3> QED
      BY <2>4, <3>1, <3>2
  <2>6. IsMemory(after)
    BY <1>1, <2>2, <2>4, <2>5 DEF IsMemory
  <2>7. \A n \in Items(after) : n = m \/ (n \in Items(items) /\ n.id # m.id)
    <3> SUFFICES ASSUME NEW i \in 1..(size + 1)
                 PROVE  after[i] = m \/ (after[i] \in Items(items) /\ after[i].id # m.id)
      BY <2>2 DEF Items
    <3> QED
      BY <1>1, <2>2, <2>3, <2>4 DEF Items
  <2>8. size + 1 \in 1..Len(after) /\ after[size + 1] = m
    BY <2>2
  <2>9. m \in Items(after)
    BY <2>8 DEF Items
  <2>10. \A n \in Items(items) : n \in Items(after)
    <3> SUFFICES ASSUME NEW i \in 1..size PROVE items[i] \in Items(after)
      BY <1>1 DEF Items
    <3>1. i \in 1..Len(after) /\ after[i] = items[i]
      BY <2>2
    <3> QED
      BY <3>1 DEF Items
  <2> QED
    BY <1>2, <2>6, <2>7, <2>9, <2>10
<1> QED
  BY <1>3, <1>4

\* The id a memory of a batch is stored under.
LEMMA ProposedFacts ==
  ASSUME NEW call, call.number \in 1..MaxMemCalls, call.tenant \in MemTenants,
         call.batch \in MemBatch, NEW before, IsMemory(before), ~Foreign(call, before),
         NEW i \in 1..Len(call.batch)
  PROVE  /\ ProposedId(call, i, before) \in AnyId /\ call.batch[i].fact \in Facts
         /\ \A m \in Items(before) : m.id = ProposedId(call, i, before) => m.tenant = call.tenant
<1>1. call.batch[i] \in [id : ClientIds \cup {NoId}, fact : Facts] /\ i \in Nat
  <2>1. PICK B : B = [id : ClientIds \cup {NoId}, fact : Facts]
    OBVIOUS
  <2>2. call.batch \in Seq(B)
    BY <2>1 DEF MemBatch
  <2>3. Len(call.batch) \in Nat /\ call.batch[i] \in B
    BY <2>2, ListEntries
  <2> QED
    BY <2>1, <2>3
<1>2. PICK id : id = ProposedId(call, i, before)
  OBVIOUS
<1>3. id \in AnyId
  <2>1. CASE call.batch[i].id # NoId
    BY <1>1, <1>2, <2>1 DEF ProposedId, AnyId
  <2>2. CASE call.batch[i].id = NoId
    <3>1. PICK I : I = {j \in 1..Len(before) : /\ before[j].tenant = call.tenant
                                              /\ before[j].fact = call.batch[i].fact}
      OBVIOUS
    <3>2. I \in SUBSET (1..Len(before)) /\ before \in Seq(Memories)
      BY <3>1 DEF IsMemory
    <3>3. PICK same : same = Picked(before, I)
      OBVIOUS
    <3>4. same \in Seq(Memories)
      BY <3>2, <3>3, PickedFacts
    <3>5. id = IF same # <<>> THEN same[1].id ELSE FreshId(call.number, i)
      BY <1>2, <2>2, <3>1, <3>3 DEF ProposedId
    <3>6. CASE same # <<>>
      <4>1. same[1] \in Memories
        BY <3>4, <3>6
      <4> QED
        BY <3>5, <3>6, <4>1, MemoryParts
    <3>7. CASE same = <<>>
      BY <1>1, <3>5, <3>7 DEF FreshId, AnyId
    <3> QED
      BY <3>6, <3>7
  <2> QED
    BY <2>1, <2>2
<1>4. ASSUME NEW m \in Items(before), m.id = id
      PROVE  m.tenant = call.tenant
  <2>1. PICK j \in 1..Len(before) : before[j] = m
    BY <1>4 DEF Items
  <2>2. id \in Ids(before) /\ Item(before, id) = m
    BY <1>4, <2>1, ItemIsIt
  <2> QED
    BY <1>2, <2>2 DEF Foreign
<1> QED
  BY <1>1, <1>2, <1>3, <1>4

\* One memory of a batch is stored.
LEMMA MemorizedFacts ==
  ASSUME NEW call, call.number \in 1..MaxMemCalls, call.tenant \in MemTenants,
         call.batch \in MemBatch, NEW before, IsMemory(before), ~Foreign(call, before),
         memClock \in 0..MaxMemTime,
         NEW i \in 1..Len(call.batch), NEW items, Between(call.tenant, before, items)
  PROVE  Between(call.tenant, before, Memorized(call, before, items, i))
<1>1. PICK id : id = ProposedId(call, i, before)
  OBVIOUS
<1>2. /\ id \in AnyId /\ call.batch[i].fact \in Facts
      /\ \A m \in Items(before) : m.id = id => m.tenant = call.tenant
  BY <1>1, ProposedFacts
<1>3. PICK hits : hits = IF id \in Ids(items) THEN Item(items, id).hits ELSE 0
  OBVIOUS
<1>4. IsMemory(items)
  BY DEF Between
<1>5. hits \in Nat
  BY <1>3, <1>4, ItemOfId, MemoryParts
<1>6. PICK m : m = [id |-> id, tenant |-> call.tenant, fact |-> call.batch[i].fact,
                    updated |-> memClock, hits |-> hits]
  OBVIOUS
<1>7. m \in Memories /\ m.updated <= memClock /\ m.id = id /\ m.tenant = call.tenant
      /\ m.updated = memClock
  <2>1. m \in Memories
    BY <1>2, <1>5, <1>6, MemoryParts
  <2>2. m.id = id /\ m.tenant = call.tenant /\ m.updated = memClock
    BY <1>6
  <2> QED
    BY <2>1, <2>2
<1>8. PICK after : after = Put(items, m)
  OBVIOUS
<1>9. after = Memorized(call, before, items, i)
  BY <1>1, <1>3, <1>6, <1>8 DEF Memorized
<1>10. /\ IsMemory(after)
       /\ \A n \in Items(after) : n = m \/ (n \in Items(items) /\ n.id # m.id)
       /\ m \in Items(after)
       /\ \A n \in Items(items) : n.id # m.id => n \in Items(after)
  BY <1>4, <1>7, <1>8, PutFacts
<1>11. \A n \in Items(after) : n \in Items(before) \/ (n.tenant = call.tenant /\ n.updated = memClock)
  BY <1>7, <1>10 DEF Between
<1>12. ASSUME NEW n \in Items(before)
       PROVE  \/ n \in Items(after)
              \/ /\ n.tenant = call.tenant
                 /\ \E x \in Items(after) :
                      x.id = n.id /\ x.tenant = call.tenant /\ x.updated = memClock
  <2>1. CASE n.id = id
    BY <1>2, <1>7, <1>10, <2>1
  <2>2. CASE n.id # id
    BY <1>7, <1>10, <2>2 DEF Between
  <2> QED
    BY <2>1, <2>2
<1> QED
  BY <1>9, <1>10, <1>11, <1>12 DEF Between

\* The whole batch is: the loop of memorizeForTenant.
LEMMA RememberedFacts ==
  ASSUME NEW call, call.number \in 1..MaxMemCalls, call.tenant \in MemTenants,
         call.batch \in MemBatch, NEW before, IsMemory(before), ~Foreign(call, before),
         memClock \in 0..MaxMemTime
  PROVE  Between(call.tenant, before, Remembered(call, before))
<1>1. PICK n \in Nat : n = Len(call.batch)
  BY DEF MemBatch
<1> DEFINE X == {items \in Seq(Memories) : Between(call.tenant, before, items)}
           One(i, items) == Memorized(call, before, items, i)
<1>2. before \in X
  <2>1. \A m \in Items(before) : m \in Items(before)
    OBVIOUS
  <2>2. Between(call.tenant, before, before)
    BY <2>1 DEF Between
  <2> QED
    BY <2>2 DEF IsMemory
<1>3. \A i \in 1..n : \A items \in X : One(i, items) \in X
  <2> SUFFICES ASSUME NEW i \in 1..n, NEW items \in X PROVE One(i, items) \in X
    OBVIOUS
  <2>1. Between(call.tenant, before, items)
    OBVIOUS
  <2>2. Between(call.tenant, before, One(i, items))
    BY <1>1, <2>1, MemorizedFacts
  <2> HIDE DEF One
  <2> QED
    BY <2>2 DEF Between, IsMemory
<1> HIDE DEF X, One
<1>4. PICK step : step = [i \in 1..n |-> [items \in X |-> One(i, items)]]
  OBVIOUS
<1>a. step \in [1..n -> [X -> X]]
  BY <1>3, <1>4
<1>5. PICK f \in [0..n -> X] : f[0] = before /\ \A i \in 1..n : f[i] = step[i][f[i - 1]]
  <2>1. AreSteps(step, n, X)
    BY <1>a DEF AreSteps
  <2>2. Iterated(step, n, X, before)
    BY <1>2, <2>1, Iterates
  <2> QED
    BY <2>2 DEF Iterated
<1>6. \A i \in 1..n : f[i] = One(i, f[i - 1])
  <2> SUFFICES ASSUME NEW i \in 1..n PROVE f[i] = One(i, f[i - 1])
    OBVIOUS
  <2>1. i - 1 \in 0..n
    OBVIOUS
  <2>2. f[i - 1] \in X
    BY <2>1
  <2> QED
    BY <1>4, <1>5, <2>2
<1> DEFINE Loop(g) == g = [i \in 0..n |-> IF i = 0 THEN before ELSE One(i, g[i - 1])]
<1>7. Loop(f)
  <2>1. \A i \in 0..n : f[i] = IF i = 0 THEN before ELSE One(i, f[i - 1])
    BY <1>5, <1>6
  <2> QED
    BY <2>1
<1>8. PICK after : after = CHOOSE g : Loop(g)
  OBVIOUS
<1>9. Loop(after)
  <2> HIDE DEF Loop
  <2> QED
    BY <1>7, <1>8
<1>10. Remembered(call, before) = after[n]
  BY <1>1, <1>8 DEF Remembered, One
<1>11. \A i \in 0..n : after[i] \in X
  <2> DEFINE S == {i \in 0..n : after[i] \in X}
  <2>1. 0 \in S
    BY <1>2, <1>9
  <2>2. ASSUME NEW i \in 1..n, i - 1 \in S
        PROVE  i \in S
    <3>1. after[i] = One(i, after[i - 1])
      BY <1>9
    <3> QED
      BY <1>3, <2>2, <3>1
  <2> HIDE DEF S
  <2>3. \A i \in 0..n : i \in S
    BY <2>1, <2>2, UpTo
  <2> QED
    BY <2>3 DEF S
<1>12. after[n] \in X
  BY <1>11
<1> QED
  BY <1>10, <1>12 DEF X

\* A part of the memories of a list is a list of memories.
LEMMA PartIsMemory ==
  ASSUME NEW items, IsMemory(items), NEW I \in SUBSET (1..Len(items))
  PROVE  /\ IsMemory(Picked(items, I))
         /\ Items(Picked(items, I)) = {items[i] : i \in I}
<1>0. items \in Seq(Memories)
  BY DEF IsMemory
<1>1. PICK after : after = Picked(items, I)
  OBVIOUS
<1>a. PICK size \in Nat : size = Cardinality(I)
  BY <1>0, PickedFacts
<1>2. /\ after \in Seq(Memories) /\ Len(after) = size
      /\ \A n \in 1..size : \E i \in I : after[n] = items[i]
      /\ \A i \in I : \E n \in 1..size : after[n] = items[i]
      /\ \A m, n \in 1..size : m < n =>
           \E i, j \in I : i < j /\ after[m] = items[i] /\ after[n] = items[j]
  <2>1. /\ Picked(items, I) \in Seq(Memories) /\ Len(Picked(items, I)) = Cardinality(I)
        /\ \A n \in 1..Cardinality(I) : \E i \in I : Picked(items, I)[n] = items[i]
        /\ \A i \in I : \E n \in 1..Cardinality(I) : Picked(items, I)[n] = items[i]
        /\ \A m, n \in 1..Cardinality(I) : m < n =>
             \E i, j \in I :
               i < j /\ Picked(items, I)[m] = items[i] /\ Picked(items, I)[n] = items[j]
    BY <1>0, PickedFacts
  <2> QED
    BY <1>1, <1>a, <2>1
<1>3. \A m, n \in 1..size : m < n => after[m].id # after[n].id
  <2> SUFFICES ASSUME NEW m \in 1..size, NEW n \in 1..size, m < n
               PROVE  after[m].id # after[n].id
    OBVIOUS
  <2>1. PICK i \in I, j \in I : i < j /\ after[m] = items[i] /\ after[n] = items[j]
    BY <1>2
  <2>2. i \in 1..Len(items) /\ j \in 1..Len(items) /\ i # j
    <3>1. Len(items) \in Nat
      BY ListEntries DEF IsMemory
    <3> QED
      BY <2>1, <3>1
  <2> QED
    BY <2>1, <2>2 DEF IsMemory
<1>4. \A m, n \in 1..size : after[m].id = after[n].id => m = n
  <2> SUFFICES ASSUME NEW m \in 1..size, NEW n \in 1..size, m # n
               PROVE  after[m].id # after[n].id
    OBVIOUS
  <2>1. m < n \/ n < m
    OBVIOUS
  <2> QED
    BY <1>3, <2>1
<1>5. \A n \in 1..size : after[n].updated <= memClock
  <2> SUFFICES ASSUME NEW n \in 1..size PROVE after[n].updated <= memClock
    OBVIOUS
  <2>1. PICK i \in I : after[n] = items[i]
    BY <1>2
  <2>2. i \in 1..Len(items)
    OBVIOUS
  <2> QED
    BY <2>1, <2>2 DEF IsMemory
<1>6. IsMemory(after)
  BY <1>2, <1>4, <1>5 DEF IsMemory
<1>7. Items(after) = {items[i] : i \in I}
  <2>1. ASSUME NEW m \in Items(after)
        PROVE  \E i \in I : m = items[i]
    <3>1. PICK n \in 1..Len(after) : after[n] = m
      BY DEF Items
    <3>2. n \in 1..size
      BY <1>2
    <3> QED
      BY <1>2, <3>1, <3>2
  <2>2. ASSUME NEW i \in I
        PROVE  items[i] \in Items(after)
    <3>1. PICK n \in 1..size : after[n] = items[i]
      BY <1>2
    <3>2. n \in 1..Len(after)
      BY <1>2
    <3> QED
      BY <3>1, <3>2 DEF Items
  <2> QED
    BY <2>1, <2>2
<1> QED
  BY <1>1, <1>6, <1>7

\* What is trimmed: only a tenant's own, down to what is kept, and nothing that is newer
\* than anything that stays.
LEMMA TrimmedFacts ==
  ASSUME NEW items, IsMemory(items), NEW t, NEW after, after = Trimmed(items, t)
  PROVE  /\ IsMemory(after) /\ Items(after) \subseteq Items(items)
         /\ \A m \in Items(items) : m.tenant # t => m \in Items(after)
         /\ Cardinality(Promise!Of(t, Items(after))) <= KeptPerTenant
         /\ \A m \in Items(items) \ Items(after), n \in Promise!Of(t, Items(after)) :
              m.updated <= n.updated
<1>1. PICK size \in Nat : size = Len(items) /\ items \in Seq(Memories)
  BY DEF IsMemory
<1> DEFINE own      == {i \in 1..size : items[i].tenant = t}
           Above(i) == {j \in own : Precedes(items, j, i)}
           I        == {i \in 1..size : items[i].tenant # t \/ Cardinality(Above(i)) < KeptPerTenant}
<1>2. after = Picked(items, I)
  BY <1>1 DEF Trimmed
<1>3. IsMemory(after) /\ Items(after) = {items[i] : i \in I}
  <2>1. I \in SUBSET (1..Len(items))
    BY <1>1
  <2> HIDE DEF I
  <2> QED
    BY <1>2, <2>1, PartIsMemory
<1>4. Items(after) \subseteq Items(items)
  BY <1>1, <1>3 DEF Items
<1>5. \A m \in Items(items) : m.tenant # t => m \in Items(after)
  BY <1>1, <1>3 DEF Items
<1>6. \A i \in 1..size : items[i].updated \in Nat
  BY <1>1, MemoryParts
<1>7. ASSUME NEW i \in own
      PROVE  IsFiniteSet(Above(i)) /\ Cardinality(Above(i)) \in Nat
  <2>1. IsFiniteSet(1..size)
    BY FS_Interval
  <2>2. Above(i) \in SUBSET (1..size)
    OBVIOUS
  <2> HIDE DEF Above
  <2>3. IsFiniteSet(Above(i))
    BY <2>1, <2>2, FS_Subset
  <2> QED
    BY <2>3, FS_CardinalityType
<1>8. ASSUME NEW i \in own, NEW j \in own, Precedes(items, i, j)
      PROVE  Cardinality(Above(i)) < Cardinality(Above(j))
  <2>1. Above(i) \in SUBSET Above(j) /\ i \in Above(j) /\ i \notin Above(i)
    BY <1>6, <1>8 DEF Precedes
  <2> HIDE DEF Above
  <2>2. Cardinality(Above(i)) <= Cardinality(Above(j)) /\ Cardinality(Above(i)) # Cardinality(Above(j))
    BY <1>7, <2>1, FS_Subset
  <2> QED
    BY <1>7, <2>2
<1>9. \A i, j \in own : i # j => Precedes(items, i, j) \/ Precedes(items, j, i)
  BY <1>6 DEF Precedes
<1>10. Cardinality(Promise!Of(t, Items(after))) <= KeptPerTenant
  <2> DEFINE kept == Promise!Of(t, Items(after))
             place(m) == CHOOSE i \in 1..size : items[i] = m
  <2>1. PICK limit_ \in Nat \ {0} : limit_ = KeptPerTenant
    BY MemoryAssumption
  <2>2. \A m \in kept : place(m) \in own /\ place(m) \in I /\ items[place(m)] = m
    <3> SUFFICES ASSUME NEW m \in kept
                 PROVE  place(m) \in own /\ place(m) \in I /\ items[place(m)] = m
      OBVIOUS
    <3>1. PICK i \in I : items[i] = m /\ m.tenant = t
      BY <1>3 DEF Promise!Of
    <3>2. \A j \in 1..size : items[j] = m => j = i
      BY <1>1, <3>1 DEF IsMemory
    <3>3. place(m) = i
      BY <3>1, <3>2
    <3> QED
      BY <3>1, <3>3
  <2> HIDE DEF place
  <2> DEFINE rank == [m \in kept |-> Cardinality(Above(place(m)))]
  <2>3. \A m \in kept : rank[m] \in 0..(limit_ - 1)
    <3> SUFFICES ASSUME NEW m \in kept PROVE rank[m] \in 0..(limit_ - 1)
      OBVIOUS
    <3>1. Cardinality(Above(place(m))) < KeptPerTenant
      BY <2>2
    <3>2. Cardinality(Above(place(m))) \in Nat
      BY <1>7, <2>2
    <3> QED
      BY <2>1, <3>1, <3>2
  <2>4. \A m, n \in kept : rank[m] = rank[n] => m = n
    <3> SUFFICES ASSUME NEW m \in kept, NEW n \in kept, m # n PROVE rank[m] # rank[n]
      OBVIOUS
    <3>1. place(m) # place(n) /\ place(m) \in own /\ place(n) \in own
      BY <2>2
    <3> HIDE DEF own, Above
    <3>2. /\ Cardinality(Above(place(m))) < Cardinality(Above(place(n)))
             \/ Cardinality(Above(place(n))) < Cardinality(Above(place(m)))
          /\ Cardinality(Above(place(m))) \in Nat /\ Cardinality(Above(place(n))) \in Nat
      BY <1>7, <1>8, <1>9, <3>1
    <3> QED
      BY <3>2
  <2>5. rank \in [kept -> 0..(limit_ - 1)]
    <3> HIDE DEF kept
    <3> QED
      BY <2>3
  <2>6. IsFiniteSet(0..(limit_ - 1)) /\ Cardinality(0..(limit_ - 1)) = limit_
    <3>1. limit_ - 1 \in Nat
      OBVIOUS
    <3>2. IsFiniteSet(0..(limit_ - 1)) /\ Cardinality(0..(limit_ - 1))
            = IF 0 > limit_ - 1 THEN 0 ELSE limit_ - 1 - 0 + 1
      BY <3>1, FS_Interval
    <3> QED
      BY <3>2
  <2>7. Cardinality(kept) <= Cardinality(0..(limit_ - 1))
    <3> HIDE DEF kept, rank
    <3> QED
      BY <2>4, <2>5, <2>6, ToldApartByNumbers
  <2> QED
    BY <2>1, <2>6, <2>7
<1>11. ASSUME NEW m \in Items(items) \ Items(after), NEW n \in Promise!Of(t, Items(after))
       PROVE  m.updated <= n.updated
  <2>1. PICK i \in 1..size : items[i] = m
    BY <1>1 DEF Items
  <2>2. PICK j \in I : items[j] = n /\ n.tenant = t
    BY <1>3 DEF Promise!Of
  <2>3. i \in own /\ j \in own /\ ~(Cardinality(Above(i)) < KeptPerTenant)
        /\ Cardinality(Above(j)) < KeptPerTenant
    BY <1>3, <1>11, <2>1, <2>2
  <2>4. KeptPerTenant \in Nat
    BY MemoryAssumption
  <2>5. ~Precedes(items, i, j)
    <3> HIDE DEF own, Above
    <3> QED
      BY <1>7, <1>8, <2>3, <2>4
  <2>6. m.updated \in Nat /\ n.updated \in Nat
    BY <1>6, <2>1, <2>2
  <2> QED
    BY <2>1, <2>2, <2>5, <2>6 DEF Precedes
<1> QED
  BY <1>3, <1>4, <1>5, <1>10, <1>11

\* What the contract lets a call make of the memories there are, as a relation.
Remembers(t, before, after) ==
  LET old == Promise!Of(t, before)
      new == Promise!Of(t, after)
  IN  /\ before \ old = after \ new
      /\ Cardinality(new) <= KeptPerTenant
      /\ \A m \in new : Cardinality(Promise!WithId(m.id, after)) = 1
      /\ \A m \in new \ old :
           /\ \A n \in old : n.updated <= m.updated
           /\ \A n \in new \ old : n.updated = m.updated
      /\ \A m \in {m \in old : Promise!WithId(m.id, new) = {}} : \A n \in new : m.updated <= n.updated

\* one memory of the tenant goes,
Forgets(t, before, after) == \E m \in Promise!Of(t, before) : after = before \ {m}

\* memories of the tenant are dated anew,
Recalls(t, before, after) ==
  /\ before \ Promise!Of(t, before) = after \ Promise!Of(t, after)
  /\ \E hit \in SUBSET Promise!Of(t, before) :
       after = (before \ hit) \cup {[m EXCEPT !.hits = @ + 1] : m \in hit}

\* or nothing happens, or one of these does for some tenant.
FollowsPromise(before, after) ==
  \/ after = before
  \/ \E t \in MemTenants :
       Remembers(t, before, after) \/ Forgets(t, before, after) \/ Recalls(t, before, after)

\* Two memories of a list with one id are one memory.
LEMMA OneOfAnId ==
  ASSUME NEW items, IsMemory(items), NEW m \in Items(items), NEW n \in Items(items), m.id = n.id
  PROVE  m = n
<1>1. PICK i \in 1..Len(items) : items[i] = m
  BY DEF Items
<1>2. PICK j \in 1..Len(items) : items[j] = n
  BY DEF Items
<1> QED
  BY <1>1, <1>2 DEF IsMemory

\* Memories are dated with numbers, in the past.
LEMMA ItemsDated ==
  ASSUME NEW items, IsMemory(items), NEW m \in Items(items)
  PROVE  m \in Memories /\ m.updated \in Nat /\ m.updated <= memClock
<1>1. PICK i \in 1..Len(items) : items[i] = m
  BY DEF Items
<1>2. m \in Memories
  BY <1>1 DEF IsMemory
<1> QED
  BY <1>1, <1>2, MemoryParts DEF IsMemory

\* A batch that is neither too large nor names another tenant's memory.
LEMMA MemorizeFollows ==
  ASSUME NEW call, call.number \in 1..MaxMemCalls, call.tenant \in MemTenants,
         call.batch \in MemBatch, NEW before, IsMemory(before), ~Foreign(call, before),
         memClock \in 0..MaxMemTime,
         NEW after, after = Trimmed(Remembered(call, before), call.tenant)
  PROVE  IsMemory(after) /\ Remembers(call.tenant, Items(before), Items(after))
<1>1. PICK t \in MemTenants : t = call.tenant
  OBVIOUS
<1>2. PICK items : items = Remembered(call, before) /\ Between(t, before, items)
  BY <1>1, RememberedFacts
<1>3. IsMemory(items)
  BY <1>2 DEF Between
<1>4. /\ IsMemory(after) /\ Items(after) \subseteq Items(items)
      /\ \A m \in Items(items) : m.tenant # t => m \in Items(after)
      /\ Cardinality(Promise!Of(t, Items(after))) <= KeptPerTenant
      /\ \A m \in Items(items) \ Items(after), n \in Promise!Of(t, Items(after)) :
           m.updated <= n.updated
  BY <1>1, <1>2, <1>3, TrimmedFacts
<1> DEFINE old == Promise!Of(t, Items(before))
           new == Promise!Of(t, Items(after))
<1>5. Items(before) \ old = Items(after) \ new
  BY <1>2, <1>4 DEF Between, Promise!Of
<1>6. ASSUME NEW m \in new
      PROVE  Cardinality(Promise!WithId(m.id, Items(after))) = 1
  <2>1. m \in Items(after)
    BY DEF Promise!Of
  <2>2. Promise!WithId(m.id, Items(after)) = {m}
    BY <1>4, <2>1, OneOfAnId DEF Promise!WithId
  <2> QED
    BY <2>2, FS_Singleton
<1>7. \A m \in new \ old : m.updated = memClock
  BY <1>2, <1>4 DEF Between, Promise!Of
<1>8. ASSUME NEW m \in new \ old
      PROVE  /\ \A n \in old : n.updated <= m.updated
             /\ \A n \in new \ old : n.updated = m.updated
  <2>1. \A n \in old : n.updated <= memClock
    BY ItemsDated DEF Promise!Of
  <2> QED
    BY <1>7, <1>8, <2>1
<1>9. ASSUME NEW m \in old, Promise!WithId(m.id, new) = {}, NEW n \in new
      PROVE  m.updated <= n.updated
  <2>1. m \in Items(before) /\ m.tenant = t
    BY DEF Promise!Of
  <2>2. PICK y \in Items(items) : y.id = m.id /\ y.tenant = t /\ (y = m \/ y.updated = memClock)
    BY <1>2, <2>1 DEF Between
  <2>3. y \notin Items(after)
    BY <1>9, <2>2 DEF Promise!WithId, Promise!Of
  <2>4. y.updated <= n.updated
    BY <1>4, <2>2, <2>3
  <2>5. m.updated <= y.updated
    BY <2>1, <2>2, ItemsDated
  <2>6. m.updated \in Nat /\ y.updated \in Nat /\ n.updated \in Nat
    BY <1>3, <1>4, <2>1, <2>2, ItemsDated DEF Promise!Of
  <2> QED
    BY <2>4, <2>5, <2>6
<1>10. Remembers(t, Items(before), Items(after))
  BY <1>4, <1>5, <1>6, <1>8, <1>9 DEF Remembers
<1> QED
  BY <1>1, <1>4, <1>10

\* The memories a search may return are the tenant's.
LEMMA MatchesAreOwn ==
  ASSUME NEW before, IsMemory(before), NEW t, NEW hits \in MayMatch(before, t),
         NEW m \in Items(before), m.id \in hits
  PROVE  m.tenant = t
<1>1. PICK I : I = {i \in 1..Len(before) : before[i].tenant = t}
  OBVIOUS
<1>2. I \in SUBSET (1..Len(before))
  BY <1>1
<1>3. m.id \in Ids(Picked(before, I))
  BY <1>1 DEF MayMatch, TenantItems
<1>4. PICK n \in Items(Picked(before, I)) : n.id = m.id
  BY <1>3 DEF Ids, Items
<1>5. PICK i \in I : n = before[i]
  BY <1>2, <1>4, PartIsMemory
<1>6. n \in Items(before) /\ n.tenant = t
  BY <1>1, <1>5 DEF Items
<1> QED
  BY <1>4, <1>6, OneOfAnId

\* A search counts what it returns.
LEMMA SearchFollows ==
  ASSUME NEW before, IsMemory(before), NEW t, NEW hits \in MayMatch(before, t),
         NEW after, after = Retrieved(before, hits)
  PROVE  IsMemory(after) /\ Recalls(t, Items(before), Items(after))
<1>1. PICK size \in Nat : size = Len(before) /\ before \in Seq(Memories)
  BY DEF IsMemory
<1> DEFINE More(m) == [m EXCEPT !.hits = @ + 1]
<1>2. \A m \in Memories : /\ More(m) \in Memories /\ More(m).id = m.id
                          /\ More(m).tenant = m.tenant /\ More(m).updated = m.updated
  BY DEF Memories
<1> HIDE DEF More
<1>3. after = [i \in 1..size |-> IF before[i].id \in hits THEN More(before[i]) ELSE before[i]]
  BY <1>1 DEF Retrieved, More
<1>4. \A i \in 1..size : before[i] \in Memories
  BY <1>1
<1>5. after \in Seq(Memories) /\ Len(after) = size
  BY <1>2, <1>3, <1>4
<1>6. \A i \in 1..size : after[i].id = before[i].id /\ after[i].updated = before[i].updated
  BY <1>2, <1>3, <1>4
<1>7. IsMemory(after)
  BY <1>1, <1>5, <1>6 DEF IsMemory
<1> DEFINE hit == {m \in Items(before) : m.id \in hits}
<1>8. hit \in SUBSET Promise!Of(t, Items(before))
  BY MatchesAreOwn DEF Promise!Of
<1>9. \A m \in Items(before) : m \in Memories
  BY <1>1 DEF Items
<1>10. Items(after) = (Items(before) \ hit) \cup {More(m) : m \in hit}
  <2>1. ASSUME NEW i \in 1..size
        PROVE  after[i] \in (Items(before) \ hit) \cup {More(m) : m \in hit}
    <3>1. before[i] \in Items(before)
      BY <1>1 DEF Items
    <3> QED
      BY <1>3, <3>1
  <2>2. ASSUME NEW m \in Items(before) \ hit
        PROVE  m \in Items(after)
    <3>1. PICK i \in 1..size : before[i] = m
      BY <1>1 DEF Items
    <3>2. after[i] = m /\ i \in 1..Len(after)
      BY <1>3, <1>5, <2>2, <3>1
    <3> QED
      BY <3>2 DEF Items
  <2>3. ASSUME NEW m \in hit
        PROVE  More(m) \in Items(after)
    <3>1. PICK i \in 1..size : before[i] = m
      BY <1>1 DEF Items
    <3>2. after[i] = More(m) /\ i \in 1..Len(after)
      BY <1>3, <1>5, <2>3, <3>1
    <3> QED
      BY <3>2 DEF Items
  <2>4. \A m \in Items(after) : m \in (Items(before) \ hit) \cup {More(n) : n \in hit}
    BY <1>5, <2>1 DEF Items
  <2> HIDE DEF hit
  <2> QED
    BY <2>2, <2>3, <2>4
<1>11. Items(before) \ Promise!Of(t, Items(before)) = Items(after) \ Promise!Of(t, Items(after))
  <2>1. \A m \in hit : m.tenant = t /\ More(m).tenant = t
    BY <1>2, <1>8, <1>9 DEF Promise!Of
  <2> HIDE DEF hit
  <2> QED
    BY <1>10, <2>1 DEF Promise!Of
<1>12. \E h \in SUBSET Promise!Of(t, Items(before)) :
         Items(after) = (Items(before) \ h) \cup {[m EXCEPT !.hits = @ + 1] : m \in h}
  <2> HIDE DEF hit
  <2> QED
    BY <1>8, <1>10 DEF More
<1> QED
  BY <1>7, <1>11, <1>12 DEF Recalls

\* A deletion takes one memory of the tenant, or none.
LEMMA DeleteFollows ==
  ASSUME NEW before, IsMemory(before), NEW t \in MemTenants, NEW id, NEW after,
         after = Picked(before, {i \in 1..Len(before) : before[i].id # id \/ before[i].tenant # t})
  PROVE  IsMemory(after) /\ FollowsPromise(Items(before), Items(after))
<1>1. PICK I : I = {i \in 1..Len(before) : before[i].id # id \/ before[i].tenant # t}
  OBVIOUS
<1>2. I \in SUBSET (1..Len(before))
  BY <1>1
<1>3. IsMemory(after) /\ Items(after) = {before[i] : i \in I}
  BY <1>1, <1>2, PartIsMemory
<1>4. Items(after) = {m \in Items(before) : m.id # id \/ m.tenant # t}
  BY <1>1, <1>3 DEF Items
<1>5. CASE \E m \in Items(before) : m.id = id /\ m.tenant = t
  <2>1. PICK m \in Items(before) : m.id = id /\ m.tenant = t
    BY <1>5
  <2>2. \A n \in Items(before) : n # m => n.id # id
    BY <2>1, OneOfAnId
  <2>3. Items(after) = Items(before) \ {m}
    BY <1>4, <2>1, <2>2
  <2> QED
    BY <1>3, <2>1, <2>3 DEF FollowsPromise, Forgets, Promise!Of
<1>6. CASE ~\E m \in Items(before) : m.id = id /\ m.tenant = t
  <2>1. Items(after) = Items(before)
    BY <1>4, <1>6
  <2> QED
    BY <1>3, <2>1 DEF FollowsPromise
<1> QED
  BY <1>5, <1>6

-----------------------------------------------------------------------------
(* The memory file, its queue and the steps of a call. *)

\* The calls that wait.
MemCall ==
  [op : {"memorize"}, number : 1..MaxMemCalls, tenant : MemTenants, batch : MemBatch]
    \cup [op : {"search", "read"}, number : 1..MaxMemCalls, tenant : MemTenants]
    \cup [op : {"delete"}, number : 1..MaxMemCalls, tenant : MemTenants, id : AnyId]

\* A call that has read the file: until it truncates it the file is what it read, then
\* the file is blank, and what it will write follows what it read by the contract.
MemRunInv(n) ==
  /\ n \in 1..memCalls
  /\ memRuns[n] = [step |-> memRuns[n].step, before |-> memRuns[n].before,
                   after |-> memRuns[n].after]
  /\ IsMemory(memRuns[n].before) /\ IsMemory(memRuns[n].after)
  /\ FollowsPromise(Items(memRuns[n].before), Items(memRuns[n].after))
  /\ \/ memRuns[n].step = "open" /\ memFile.form # "blank" /\ memRuns[n].before = memFile.content
     \/ memRuns[n].step = "write" /\ memFile.form = "blank"

\* The file, what it says, and the call that writes it.
MemFileInv ==
  /\ memFile = [form |-> memFile.form, content |-> memFile.content]
  /\ memFile.form \in {"missing", "blank", "whole"} /\ IsMemory(memFile.content)
  /\ \A m, n \in DOMAIN memRuns : m = n
  /\ \A n \in DOMAIN memRuns : MemRunInv(n)

\* The queue, in the order of the calls.
MemQueueInv ==
  /\ memQueue \in Seq(MemCall) /\ Len(memQueue) <= memCalls
  /\ \A k \in 1..Len(memQueue) : memQueue[k].number <= memCalls

\* The counters.
MemCounts ==
  memCalls \in 0..MaxMemCalls /\ memClock \in 0..MaxMemTime /\ memCrashes \in 0..MaxMemCrashes

\* The inductive invariant of the memories.
MemInv == MemCounts /\ MemQueueInv /\ MemFileInv

\* The memories an observer finds.
MemSays == Items(MemStore!Says)

\* A step of the contract, or one that it does not see.
MemStep == Promise!ContractNext \/ UNCHANGED <<MemSays, MemStore!Torn>>

\* What has the shape of memories has it later.
LEMMA IsMemoryLater ==
  ASSUME memClock \in Nat, memClock' \in Nat, memClock <= memClock', NEW items, IsMemory(items)
  PROVE  IsMemory(items)'
<1>1. PICK size \in Nat : size = Len(items) /\ items \in Seq(Memories)
  BY DEF IsMemory
<1>2. ASSUME NEW i \in 1..size
      PROVE  items[i].updated <= memClock'
  <2>1. items[i] \in Memories
    BY <1>1
  <2>2. items[i].updated \in Nat
    BY <2>1, MemoryParts
  <2>3. items[i].updated <= memClock
    BY <1>1 DEF IsMemory
  <2> QED
    BY <2>2, <2>3
<1> QED
  BY <1>1, <1>2 DEF IsMemory

\* What the file says is what it has, or had before the write under way.
LEMMA SaysFacts ==
  ASSUME MemFileInv
  PROVE  /\ memFile.form # "blank" => MemStore!Says = memFile.content /\ ~MemStore!Torn
         /\ \A n \in DOMAIN memRuns : memRuns[n].step = "write" =>
              MemStore!Says = memRuns[n].before /\ ~MemStore!Torn
         /\ MemStore!Torn => MemStore!Says = <<>>
         /\ MemStore!Torn <=> memFile.form = "blank" /\ DOMAIN memRuns = {}
<1>1. memFile.form # "blank" => MemStore!Says = memFile.content /\ ~MemStore!Torn
  BY DEF MemStore!Says, MemStore!Torn
<1>2. ASSUME NEW n \in DOMAIN memRuns, memRuns[n].step = "write"
      PROVE  MemStore!Says = memRuns[n].before /\ ~MemStore!Torn
  <2>1. memFile.form = "blank"
    BY <1>2 DEF MemFileInv, MemRunInv
  <2>2. MemStore!Writing = {n}
    BY <1>2 DEF MemFileInv, MemStore!Writing
  <2> QED
    BY <2>1, <2>2 DEF MemStore!Says, MemStore!Torn
<1>3. MemStore!Torn => MemStore!Says = <<>>
  BY DEF MemStore!Says, MemStore!Torn
<1>4. MemStore!Torn <=> memFile.form = "blank" /\ DOMAIN memRuns = {}
  BY DEF MemFileInv, MemRunInv, MemStore!Torn, MemStore!Writing
<1> QED
  BY <1>1, <1>2, <1>3, <1>4

\* The contract counts as its implementation does.
LEMMA SameCount == \A S : Promise!Cardinality(S) = Cardinality(S)
BY DEF Promise!Cardinality, Cardinality

\* What follows by the contract is a step of it.
LEMMA FollowsIsStep ==
  ASSUME FollowsPromise(MemSays, MemSays'), ~MemStore!Torn, ~MemStore!Torn'
  PROVE  MemStep
<1>1. CASE MemSays' = MemSays
  <2>1. MemStore!Torn' = MemStore!Torn
    BY DEF MemStore!Torn
  <2> QED
    BY <1>1, <2>1 DEF MemStep
<1>2. ASSUME NEW t \in MemTenants, Remembers(t, MemSays, MemSays')
      PROVE  Promise!Remember(t)
  <2>1. PICK was, is : was = MemSays /\ is = MemSays' /\ Remembers(t, was, is)
    BY <1>2
  <2>2. Promise!Cardinality(Promise!Of(t, is)) = Cardinality(Promise!Of(t, is))
    BY SameCount
  <2>3. \A m : Promise!Cardinality(Promise!WithId(m.id, is)) = Cardinality(Promise!WithId(m.id, is))
    BY SameCount
  <2>4. was \ Promise!Of(t, was) = is \ Promise!Of(t, is)
    BY <2>1 DEF Remembers
  <2>5. Promise!Cardinality(Promise!Of(t, is)) <= KeptPerTenant
    BY <2>1, <2>2 DEF Remembers
  <2>6. \A m \in Promise!Of(t, is) : Promise!Cardinality(Promise!WithId(m.id, is)) = 1
    BY <2>1, <2>3 DEF Remembers
  <2>7. \A m \in Promise!Of(t, is) \ Promise!Of(t, was) :
          /\ \A n \in Promise!Of(t, was) : n.updated <= m.updated
          /\ \A n \in Promise!Of(t, is) \ Promise!Of(t, was) : n.updated = m.updated
    BY <2>1 DEF Remembers
  <2>8. \A m \in {m \in Promise!Of(t, was) : Promise!WithId(m.id, Promise!Of(t, is)) = {}} :
          \A n \in Promise!Of(t, is) : m.updated <= n.updated
    BY <2>1 DEF Remembers
  <2>9. was = Items(MemStore!Says) /\ is = Items(MemStore!Says)'
    BY <2>1 DEF MemSays
  <2> QED
    BY <2>4, <2>5, <2>6, <2>7, <2>8, <2>9 DEF Promise!Remember, Promise!OthersUntouched
<1>3. ASSUME NEW t \in MemTenants, Forgets(t, MemSays, MemSays')
      PROVE  Promise!Forget(t)
  BY <1>3 DEF Forgets, Promise!Forget, MemSays
<1>4. ASSUME NEW t \in MemTenants, Recalls(t, MemSays, MemSays')
      PROVE  Promise!Recall(t)
  BY <1>4 DEF Recalls, Promise!Recall, Promise!OthersUntouched, MemSays
<1> QED
  BY <1>1, <1>2, <1>3, <1>4 DEF FollowsPromise, MemStep, Promise!ContractNext

\* A step that leaves the file and its calls alone is not seen.
LEMMA QuietIsStep ==
  ASSUME UNCHANGED <<memFile, memRuns>>
  PROVE  MemStep
BY DEF MemStep, MemSays, MemStore!Says, MemStore!Torn, MemStore!Writing

\* What changes neither the file nor the call on it keeps its invariant.
LEMMA QuietFile ==
  ASSUME MemFileInv, UNCHANGED <<memFile, memRuns>>, MemCounts, memClock' \in Nat,
         memClock <= memClock', memCalls' \in Nat, memCalls <= memCalls'
  PROVE  MemFileInv'
<1>1. memClock \in Nat /\ memCalls \in Nat
  BY DEF MemCounts
<1>2. \A items : IsMemory(items) => IsMemory(items)'
  BY <1>1, IsMemoryLater
<1>3. IsMemory(memFile.content)'
  <2>1. PICK items : items = memFile.content /\ IsMemory(items)
    BY DEF MemFileInv
  <2>2. IsMemory(items)'
    BY <1>2, <2>1
  <2> QED
    BY <2>1, <2>2
<1>4. ASSUME NEW n \in DOMAIN memRuns
      PROVE  MemRunInv(n)'
  <2>1. MemRunInv(n)
    BY DEF MemFileInv
  <2>2. PICK old, new : /\ old = memRuns[n].before /\ new = memRuns[n].after
                        /\ IsMemory(old) /\ IsMemory(new)
    BY <2>1 DEF MemRunInv
  <2>3. IsMemory(old)' /\ IsMemory(new)'
    BY <1>2, <2>2
  <2>4. IsMemory(memRuns[n].before)' /\ IsMemory(memRuns[n].after)'
    BY <2>2, <2>3
  <2>5. n \in 1..memCalls'
    BY <1>1, <2>1 DEF MemRunInv
  <2> QED
    BY <2>1, <2>4, <2>5 DEF MemRunInv
<1> QED
  BY <1>3, <1>4 DEF MemFileInv

\* The parts of a call that waits.
LEMMA MemCallParts ==
  ASSUME NEW call \in MemCall
  PROVE  /\ call.number \in 1..MaxMemCalls /\ call.number \in Nat /\ call.tenant \in MemTenants
         /\ call.op \in {"memorize", "search", "read", "delete"}
         /\ call.op = "memorize" => call.batch \in MemBatch
         /\ call.op = "delete" => call.id \in AnyId
BY MemoryAssumption DEF MemCall

\* What a handler leaves to be written follows what it read.
LEMMA OutcomesFollow ==
  ASSUME NEW call \in MemCall, NEW items, IsMemory(items), memClock \in 0..MaxMemTime,
         NEW after \in Outcomes(call, items)
  PROVE  IsMemory(after) /\ FollowsPromise(Items(items), Items(after))
<1>1. call.op \in {"memorize", "search", "read", "delete"} /\ call.tenant \in MemTenants
  BY MemCallParts
<1>2. CASE call.op = "memorize"
  <2>1. ~Foreign(call, items) /\ after = Trimmed(Remembered(call, items), call.tenant)
    BY <1>2 DEF Outcomes
  <2>2. call.number \in 1..MaxMemCalls /\ call.batch \in MemBatch
    BY <1>2, MemCallParts
  <2>3. IsMemory(after) /\ Remembers(call.tenant, Items(items), Items(after))
    BY <1>1, <2>1, <2>2, MemorizeFollows
  <2> QED
    BY <1>1, <2>3 DEF FollowsPromise
<1>3. CASE call.op = "search"
  <2>1. PICK hits \in MayMatch(items, call.tenant) : after = Retrieved(items, hits)
    BY <1>3 DEF Outcomes
  <2>2. IsMemory(after) /\ Recalls(call.tenant, Items(items), Items(after))
    BY <2>1, SearchFollows
  <2> QED
    BY <1>1, <2>2 DEF FollowsPromise
<1>4. CASE call.op = "read"
  BY <1>4 DEF Outcomes
<1>5. CASE call.op = "delete"
  <2>1. after = Picked(items, {i \in 1..Len(items) :
                                 items[i].id # call.id \/ items[i].tenant # call.tenant})
    BY <1>5 DEF Outcomes
  <2> QED
    BY <1>1, <2>1, DeleteFollows
<1> QED
  BY <1>1, <1>2, <1>3, <1>4, <1>5

\* A call that waits for those before it.
LEMMA WaitsSafe ==
  ASSUME MemInv, NEW call \in MemCall, call.number = memCalls + 1, Waits(call)
  PROVE  MemInv' /\ MemStep
<1>1. /\ memCalls < MaxMemCalls /\ memCalls' = memCalls + 1 /\ memQueue' = Append(memQueue, call)
      /\ UNCHANGED <<memFile, memRuns, memClock, memCrashes>>
  BY DEF Waits, MemStore!Waits
<1>2. memCalls \in Nat /\ MaxMemCalls \in Nat /\ memClock \in Nat
  BY MemoryAssumption DEF MemInv, MemCounts
<1>3. MemFileInv'
  BY <1>1, <1>2, QuietFile DEF MemInv
<1>4. MemQueueInv'
  <2>1. PICK q \in Nat : q = Len(memQueue) /\ memQueue \in Seq(MemCall)
    BY DEF MemInv, MemQueueInv
  <2>2. /\ memQueue' \in Seq(MemCall) /\ Len(memQueue') = q + 1
        /\ \A k \in 1..q : memQueue'[k] = memQueue[k]
        /\ memQueue'[q + 1] = call
    BY <1>1, <2>1
  <2>3. ASSUME NEW k \in 1..(q + 1)
        PROVE  memQueue'[k].number <= memCalls'
    <3>1. CASE k = q + 1
      BY <1>1, <1>2, <2>2, <3>1
    <3>2. CASE k # q + 1
      <4>1. k \in 1..q
        BY <3>2
      <4>2. memQueue[k].number \in Nat
        <5>1. memQueue[k] \in MemCall
          BY <2>1, <4>1
        <5> QED
          BY <5>1, MemCallParts
      <4>3. memQueue[k].number <= memCalls
        BY <2>1, <4>1 DEF MemInv, MemQueueInv
      <4> QED
        BY <1>1, <1>2, <2>2, <4>1, <4>2, <4>3
    <3> QED
      BY <3>1, <3>2
  <2>4. q <= memCalls
    BY <2>1 DEF MemInv, MemQueueInv
  <2> QED
    BY <1>1, <1>2, <2>1, <2>2, <2>3, <2>4 DEF MemQueueInv
<1>5. MemCounts'
  BY <1>1, <1>2 DEF MemInv, MemCounts
<1> QED
  BY <1>1, <1>3, <1>4, <1>5, QuietIsStep DEF MemInv

\* The calls of the routes.
LEMMA PostItemsSafe ==
  ASSUME MemInv, NEW t \in MemTenants, NEW batch \in MemBatch, PostItems(t, batch)
  PROVE  MemInv' /\ MemStep
<1>1. PICK call : call = [op |-> "memorize", number |-> memCalls + 1, tenant |-> t, batch |-> batch]
  OBVIOUS
<1>2. memCalls + 1 \in 1..MaxMemCalls
  BY MemoryAssumption DEF MemInv, MemCounts, PostItems, Waits
<1>3. call \in MemCall /\ call.number = memCalls + 1
  BY <1>1, <1>2 DEF MemCall
<1> QED
  BY <1>1, <1>3, WaitsSafe DEF PostItems

\* a memory that the assistant captures,
LEMMA AutoCaptureSafe ==
  ASSUME MemInv, NEW t \in MemTenants, NEW fact \in Facts, AutoCapture(t, fact)
  PROVE  MemInv' /\ MemStep
<1>1. <<[id |-> NoId, fact |-> fact]>> \in MemBatch
  BY DEF MemBatch
<1> QED
  BY <1>1, PostItemsSafe DEF AutoCapture

\* a search and a list,
LEMMA PostSearchSafe ==
  ASSUME MemInv, NEW t \in MemTenants, PostSearch(t) \/ ListItems(t)
  PROVE  MemInv' /\ MemStep
<1>1. PICK op \in {"search", "read"} : Waits([op |-> op, number |-> memCalls + 1, tenant |-> t])
  BY DEF PostSearch, ListItems
<1>2. memCalls + 1 \in 1..MaxMemCalls
  BY <1>1, MemoryAssumption DEF MemInv, MemCounts, Waits
<1>3. PICK call : call = [op |-> op, number |-> memCalls + 1, tenant |-> t]
  OBVIOUS
<1>4. call \in MemCall /\ call.number = memCalls + 1
  BY <1>2, <1>3 DEF MemCall
<1> QED
  BY <1>1, <1>3, <1>4, WaitsSafe

\* and a deletion.
LEMMA DeleteItemSafe ==
  ASSUME MemInv, NEW t \in MemTenants, NEW id \in Ids(memFile.content), DeleteItem(t, id)
  PROVE  MemInv' /\ MemStep
<1>1. id \in AnyId
  <2>1. PICK items : items = memFile.content /\ IsMemory(items)
    BY DEF MemInv, MemFileInv
  <2>2. PICK i \in 1..Len(items) : id = items[i].id
    BY <2>1 DEF Ids
  <2>3. items[i] \in Memories
    BY <2>1 DEF IsMemory
  <2> QED
    BY <2>2, <2>3, MemoryParts
<1>2. PICK call : call = [op |-> "delete", number |-> memCalls + 1, tenant |-> t, id |-> id]
  OBVIOUS
<1>3. memCalls + 1 \in 1..MaxMemCalls
  BY MemoryAssumption DEF MemInv, MemCounts, DeleteItem, Waits
<1>4. call \in MemCall /\ call.number = memCalls + 1
  BY <1>1, <1>2, <1>3 DEF MemCall
<1> QED
  BY <1>2, <1>4, WaitsSafe DEF DeleteItem

\* A call that reads the file.
LEMMA BeginsCallSafe ==
  ASSUME MemInv, BeginsCall
  PROVE  MemInv' /\ MemStep
<1>1. PICK call : call = Head(memQueue)
  OBVIOUS
<1>2. PICK items : items = memFile.content
  OBVIOUS
<1>3. /\ memQueue # <<>> /\ DOMAIN memRuns = {} /\ memQueue' = Tail(memQueue)
      /\ UNCHANGED <<memFile, memCalls, memClock, memCrashes>>
      /\ \/ /\ MemStore!Readable
            /\ \E after \in Outcomes(call, items) :
                 memRuns' = [n \in DOMAIN memRuns \cup {call.number} |->
                               IF n = call.number
                                 THEN [step |-> "open", before |-> items, after |-> after]
                                 ELSE memRuns[n]]
         \/ UNCHANGED memRuns
  <2>1. MemStore!Begins(Outcomes(call, items)) /\ UNCHANGED <<memCalls, memClock, memCrashes>>
    BY <1>1, <1>2 DEF BeginsCall
  <2>2. PICK outcomes : outcomes = Outcomes(call, items)
    OBVIOUS
  <2>3. MemStore!Begins(outcomes)
    BY <2>1, <2>2
  <2>4. /\ memQueue # <<>> /\ DOMAIN memRuns = {} /\ memQueue' = Tail(memQueue)
        /\ memFile' = memFile
        /\ \/ /\ MemStore!Readable
              /\ \E after \in outcomes :
                   memRuns' = [n \in DOMAIN memRuns \cup {call.number} |->
                                 IF n = call.number
                                   THEN [step |-> "open", before |-> items, after |-> after]
                                   ELSE memRuns[n]]
           \/ memRuns' = memRuns
    BY <1>1, <1>2, <2>3 DEF MemStore!Begins, MemStore!LockFree
  <2> QED
    BY <2>1, <2>2, <2>4
<1>4. /\ memCalls \in Nat /\ memClock \in Nat /\ memClock \in 0..MaxMemTime /\ IsMemory(items)
  BY <1>2, MemoryAssumption DEF MemInv, MemCounts, MemFileInv
<1>5. MemCounts'
  BY <1>3 DEF MemInv, MemCounts
<1>6. call \in MemCall /\ call.number <= memCalls
  <2>1. memQueue \in Seq(MemCall) /\ 1 \in 1..Len(memQueue) /\ call = memQueue[1]
    BY <1>1, <1>3 DEF MemInv, MemQueueInv
  <2>2. memQueue[1] \in MemCall
    BY <2>1
  <2> QED
    BY <2>1, <2>2 DEF MemInv, MemQueueInv
<1>7. MemQueueInv'
  <2>1. PICK q \in Nat : q = Len(memQueue) /\ memQueue \in Seq(MemCall)
    BY DEF MemInv, MemQueueInv
  <2>2. /\ memQueue' \in Seq(MemCall) /\ Len(memQueue') = q - 1 /\ q - 1 \in Nat
        /\ \A k \in 1..(q - 1) : memQueue'[k] = memQueue[k + 1]
    BY <1>3, <2>1
  <2>3. \A k \in 1..(q - 1) : k + 1 \in 1..q
    BY <2>1
  <2>4. q <= memCalls /\ \A k \in 1..q : memQueue[k].number <= memCalls
    BY <2>1 DEF MemInv, MemQueueInv
  <2>5. q - 1 <= memCalls'
    BY <1>3, <1>4, <2>1, <2>4
  <2> QED
    BY <1>3, <2>2, <2>3, <2>4, <2>5 DEF MemQueueInv
<1>8. CASE UNCHANGED memRuns
  <2>1. MemFileInv'
    BY <1>3, <1>4, <1>8, QuietFile DEF MemInv
  <2> QED
    BY <1>3, <1>5, <1>7, <1>8, <2>1, QuietIsStep DEF MemInv
<1>9. CASE \E after \in Outcomes(call, items) :
             /\ MemStore!Readable
             /\ memRuns' = [n \in DOMAIN memRuns \cup {call.number} |->
                              IF n = call.number
                                THEN [step |-> "open", before |-> items, after |-> after]
                                ELSE memRuns[n]]
  <2>1. PICK after \in Outcomes(call, items) :
             /\ MemStore!Readable
             /\ memRuns' = [n \in DOMAIN memRuns \cup {call.number} |->
                              IF n = call.number
                                THEN [step |-> "open", before |-> items, after |-> after]
                                ELSE memRuns[n]]
    BY <1>9
  <2>2. PICK run : run = [step |-> "open", before |-> items, after |-> after]
    OBVIOUS
  <2>3. memRuns' = [n \in {call.number} |-> run]
    BY <1>3, <2>1, <2>2
  <2>4. IsMemory(after) /\ FollowsPromise(Items(items), Items(after))
    BY <1>4, <1>6, OutcomesFollow
  <2>5. IsMemory(after)' /\ IsMemory(items)'
    BY <1>3, <1>4, <2>4, IsMemoryLater
  <2>6. memFile.form # "blank" /\ memFile' = memFile
    BY <1>3, <2>1 DEF MemStore!Readable
  <2>7. call.number \in 1..memCalls'
    BY <1>3, <1>4, <1>6, MemCallParts
  <2>8. /\ DOMAIN memRuns' = {call.number} /\ memRuns'[call.number] = run
        /\ run.step = "open" /\ run.before = items /\ run.after = after
    BY <2>2, <2>3
  <2>9. MemRunInv(call.number)'
    BY <1>2, <2>2, <2>4, <2>5, <2>6, <2>7, <2>8 DEF MemRunInv
  <2>10. memFile.content' = items /\ IsMemory(memFile.content)'
    BY <1>2, <2>5, <2>6
  <2>11. MemFileInv'
    BY <2>6, <2>8, <2>9, <2>10 DEF MemInv, MemFileInv
  <2>12. MemStore!Says = items /\ MemStore!Says' = items /\ ~MemStore!Torn /\ ~MemStore!Torn'
    BY <1>2, <2>6 DEF MemStore!Says, MemStore!Torn
  <2>13. MemStep
    <3>1. MemSays' = MemSays
      BY <2>12 DEF MemSays
    <3>2. MemStore!Torn' = MemStore!Torn
      BY <2>12 DEF MemStore!Torn
    <3> QED
      BY <3>1, <3>2 DEF MemStep
  <2> QED
    BY <1>5, <1>7, <2>11, <2>13 DEF MemInv
<1> QED
  BY <1>3, <1>8, <1>9

\* The queue stays as it is, or empties.
LEMMA QuietQueue ==
  ASSUME MemInv, UNCHANGED <<memQueue, memCalls, memClock, memCrashes>>
  PROVE  MemQueueInv' /\ MemCounts'
BY DEF MemInv, MemQueueInv, MemCounts

\* A call truncates the file: what it read is what the file still says.
LEMMA TruncatesSafe ==
  ASSUME MemInv, NEW n \in DOMAIN memRuns, WritesMemory(n), memRuns[n].step = "open"
  PROVE  MemInv' /\ MemStep
<1>1. /\ memFile' = [form |-> "blank", content |-> <<>>]
      /\ memRuns' = [memRuns EXCEPT ![n].step = "write"]
      /\ UNCHANGED <<memQueue, memCalls, memClock, memCrashes>>
  BY DEF WritesMemory, MemStore!Truncates, MemStore!Writes
<1>2. MemRunInv(n) /\ DOMAIN memRuns = {n} /\ MemFileInv
  BY DEF MemInv, MemFileInv
<1>3. PICK was, is : /\ was = memRuns[n].before /\ is = memRuns[n].after
                     /\ IsMemory(was) /\ IsMemory(is) /\ FollowsPromise(Items(was), Items(is))
  BY <1>2 DEF MemRunInv
<1>4. memRuns[n] = [step |-> "open", before |-> was, after |-> is] /\ n \in 1..memCalls
  BY <1>2, <1>3 DEF MemRunInv
<1>5. memFile.form # "blank" /\ memFile.content = was
  BY <1>2, <1>3 DEF MemRunInv
<1>6. DOMAIN memRuns' = {n} /\ memRuns'[n] = [step |-> "write", before |-> was, after |-> is]
  BY <1>1, <1>2, <1>4
<1>7. memClock \in Nat /\ memClock' = memClock /\ memCalls' = memCalls
  BY <1>1 DEF MemInv, MemCounts
<1>8. IsMemory(was)' /\ IsMemory(is)' /\ IsMemory(<<>>)'
  <2>1. IsMemory(<<>>)
    BY DEF IsMemory
  <2>2. memClock <= memClock'
    BY <1>7
  <2> QED
    BY <1>3, <1>7, <2>1, <2>2, IsMemoryLater
<1>9. MemRunInv(n)'
  BY <1>1, <1>3, <1>4, <1>6, <1>7, <1>8 DEF MemRunInv
<1>10. MemFileInv'
  <2>1. memFile.content' = <<>> /\ IsMemory(memFile.content)'
    BY <1>1, <1>8
  <2> QED
    BY <1>1, <1>6, <1>9, <2>1 DEF MemFileInv
<1>11. MemStore!Says = was /\ ~MemStore!Torn
  BY <1>2, <1>5, SaysFacts
<1>12. MemStore!Says' = was /\ ~MemStore!Torn'
  <2>1. MemStore!Writing' = {n}
    BY <1>6 DEF MemStore!Writing
  <2>2. memFile'.form = "blank"
    BY <1>1
  <2> QED
    BY <1>6, <2>1, <2>2 DEF MemStore!Says, MemStore!Torn
<1>13. MemStep
  <2>1. MemSays' = MemSays
    BY <1>11, <1>12 DEF MemSays
  <2>2. MemStore!Torn' = MemStore!Torn
    BY <1>11, <1>12 DEF MemStore!Torn
  <2> QED
    BY <2>1, <2>2 DEF MemStep
<1> QED
  BY <1>1, <1>10, <1>13, QuietQueue DEF MemInv

\* A call writes the file: for a reader of the file this is where it happens.
LEMMA WritesSafe ==
  ASSUME MemInv, NEW n \in DOMAIN memRuns, WritesMemory(n), memRuns[n].step # "open"
  PROVE  MemInv' /\ MemStep
<1>1. /\ memRuns[n].step = "write"
      /\ memFile' = [form |-> "whole", content |-> memRuns[n].after]
      /\ memRuns' = [m \in DOMAIN memRuns \ {n} |-> memRuns[m]]
      /\ UNCHANGED <<memQueue, memCalls, memClock, memCrashes>>
  BY DEF WritesMemory, MemStore!Truncates, MemStore!Writes
<1>2. MemRunInv(n) /\ DOMAIN memRuns = {n} /\ MemFileInv
  BY DEF MemInv, MemFileInv
<1>3. PICK was, is : /\ was = memRuns[n].before /\ is = memRuns[n].after
                     /\ IsMemory(was) /\ IsMemory(is) /\ FollowsPromise(Items(was), Items(is))
  BY <1>2 DEF MemRunInv
<1>4. DOMAIN memRuns' = {} /\ memFile'.form = "whole" /\ memFile'.content = is
  BY <1>1, <1>2, <1>3
<1>5. IsMemory(is)'
  <2>1. memClock \in Nat /\ memClock' = memClock /\ memClock <= memClock'
    BY <1>1 DEF MemInv, MemCounts
  <2> QED
    BY <1>3, <2>1, IsMemoryLater
<1>6. MemFileInv'
  <2>1. memFile.content' = is /\ IsMemory(memFile.content)'
    BY <1>4, <1>5
  <2> QED
    BY <1>1, <1>4, <2>1 DEF MemFileInv
<1>7. MemStore!Says = was /\ ~MemStore!Torn
  BY <1>1, <1>2, <1>3, SaysFacts
<1>8. MemStore!Says' = is /\ ~MemStore!Torn'
  BY <1>4 DEF MemStore!Says, MemStore!Torn
<1>9. FollowsPromise(MemSays, MemSays')
  <2>1. MemSays = Items(was)
    BY <1>7 DEF MemSays
  <2>2. MemSays' = Items(is)
    BY <1>8 DEF MemSays
  <2> QED
    BY <1>3, <2>1, <2>2
<1> QED
  BY <1>1, <1>6, <1>7, <1>8, <1>9, FollowsIsStep, QuietQueue DEF MemInv

\* A process that dies between truncating the file and writing it loses it.
LEMMA MemoryDiesSafe ==
  ASSUME MemInv, MemoryDies
  PROVE  MemInv' /\ MemStep
<1>1. /\ memCrashes < MaxMemCrashes /\ memCrashes' = memCrashes + 1
      /\ memQueue' = <<>> /\ DOMAIN memRuns' = {}
      /\ UNCHANGED <<memFile, memCalls, memClock>>
  BY DEF MemoryDies, MemStore!Dies, MemStore!NoRuns
<1>2. memCalls \in Nat /\ memClock \in Nat
  BY DEF MemInv, MemCounts
<1>3. MemCounts' /\ MemQueueInv'
  <2>1. memQueue' \in Seq(MemCall) /\ Len(memQueue') = 0
    BY <1>1
  <2> QED
    BY <1>1, <1>2, <2>1, MemoryAssumption DEF MemInv, MemCounts, MemQueueInv
<1>4. MemFileInv'
  <2>1. PICK items : items = memFile.content /\ IsMemory(items)
    BY DEF MemInv, MemFileInv
  <2>2. IsMemory(items)'
    BY <1>1, <1>2, <2>1, IsMemoryLater
  <2>3. memFile.content' = items /\ IsMemory(memFile.content)'
    BY <1>1, <2>1, <2>2
  <2> QED
    BY <1>1, <2>3 DEF MemInv, MemFileInv
<1>5. CASE memFile.form # "blank"
  <2>1. MemStore!Says = memFile.content /\ ~MemStore!Torn
    BY <1>5 DEF MemStore!Says, MemStore!Torn
  <2>2. MemStore!Says' = memFile.content /\ ~MemStore!Torn'
    BY <1>1, <1>5 DEF MemStore!Says, MemStore!Torn
  <2>3. MemSays' = MemSays
    BY <2>1, <2>2 DEF MemSays
  <2>4. MemStore!Torn' = MemStore!Torn
    BY <2>1, <2>2 DEF MemStore!Torn
  <2> QED
    BY <1>3, <1>4, <2>3, <2>4 DEF MemStep, MemInv
<1>6. CASE memFile.form = "blank"
  <2>1. MemStore!Writing' = {}
    BY <1>1 DEF MemStore!Writing
  <2>2. MemStore!Torn' /\ MemStore!Says' = <<>>
    BY <1>1, <1>6, <2>1 DEF MemStore!Says, MemStore!Torn
  <2>3. Items(MemStore!Says)' = {}
    BY <2>2 DEF Items
  <2>4. Promise!Lose
    BY <2>2, <2>3 DEF Promise!Lose
  <2> QED
    BY <1>3, <1>4, <2>4 DEF MemStep, Promise!ContractNext, MemInv
<1> QED
  BY <1>5, <1>6

\* Time passes.
LEMMA MemTickSafe ==
  ASSUME MemInv, MemTick
  PROVE  MemInv' /\ MemStep
<1>1. /\ memClock < MaxMemTime /\ memClock' = memClock + 1
      /\ UNCHANGED <<memFile, memQueue, memRuns, memCalls, memCrashes>>
  BY DEF MemTick
<1>2. memCalls \in Nat /\ memClock \in Nat
  BY DEF MemInv, MemCounts
<1>3. MemFileInv'
  BY <1>1, <1>2, QuietFile DEF MemInv
<1>4. MemCounts'
  BY <1>1, <1>2, MemoryAssumption DEF MemInv, MemCounts
<1> QED
  BY <1>1, <1>3, <1>4, QuietIsStep DEF MemInv, MemQueueInv

\* The service starts without a file.
LEMMA MemInitSafe == MemInit => MemInv /\ Promise!ContractInit
<1> SUFFICES ASSUME MemInit PROVE MemInv /\ Promise!ContractInit
  OBVIOUS
<1>1. /\ memFile = [form |-> "missing", content |-> <<>>] /\ memQueue = <<>>
      /\ DOMAIN memRuns = {} /\ memCalls = 0 /\ memClock = 0 /\ memCrashes = 0
  BY DEF MemInit, MemStore!Init, MemStore!NoRuns
<1>2. MemCounts
  BY <1>1, MemoryAssumption DEF MemCounts
<1>3. MemQueueInv
  BY <1>1 DEF MemQueueInv
<1>4. MemFileInv
  <2>1. IsMemory(<<>>)
    BY DEF IsMemory
  <2> QED
    BY <1>1, <2>1 DEF MemFileInv
<1>5. MemStore!Says = <<>> /\ ~MemStore!Torn
  BY <1>1 DEF MemStore!Says, MemStore!Torn
<1>6. Items(MemStore!Says) = {}
  BY <1>5 DEF Items
<1> QED
  BY <1>2, <1>3, <1>4, <1>5, <1>6 DEF MemInv, Promise!ContractInit

\* Every step of the memory service is a step of the contract or none.
LEMMA MemNextSafe ==
  ASSUME MemInv, [MemNext]_memVars
  PROVE  MemInv' /\ MemStep
<1>1. CASE UNCHANGED memVars
  <2>1. UNCHANGED <<memFile, memQueue, memRuns, memCalls, memClock, memCrashes>>
    BY <1>1 DEF memVars
  <2>2. MemFileInv'
    <3>1. memClock \in Nat /\ memCalls \in Nat /\ memClock <= memClock /\ memCalls <= memCalls
      BY DEF MemInv, MemCounts
    <3>2. memClock' \in Nat /\ memCalls' \in Nat /\ memClock <= memClock' /\ memCalls <= memCalls'
      BY <2>1, <3>1
    <3> QED
      BY <2>1, <3>2, QuietFile DEF MemInv
  <2> QED
    BY <2>1, <2>2, QuietIsStep, QuietQueue DEF MemInv
<1>2. ASSUME NEW t \in MemTenants, NEW batch \in Batches, PostItems(t, batch)
      PROVE  MemInv' /\ MemStep
  <2>1. batch \in MemBatch
    BY MemoryAssumption DEF MemBatch
  <2> QED
    BY <1>2, <2>1, PostItemsSafe
<1>3. ASSUME NEW t \in MemTenants, PostSearch(t) \/ ListItems(t)
      PROVE  MemInv' /\ MemStep
  BY <1>3, PostSearchSafe
<1>4. ASSUME NEW t \in MemTenants, NEW fact \in Facts, AutoCapture(t, fact)
      PROVE  MemInv' /\ MemStep
  BY <1>4, AutoCaptureSafe
<1>5. ASSUME NEW t \in MemTenants, NEW id \in Ids(memFile.content), DeleteItem(t, id)
      PROVE  MemInv' /\ MemStep
  BY <1>5, DeleteItemSafe
<1>6. CASE BeginsCall
  BY <1>6, BeginsCallSafe
<1>7. ASSUME NEW n \in DOMAIN memRuns, WritesMemory(n)
      PROVE  MemInv' /\ MemStep
  BY <1>7, TruncatesSafe, WritesSafe
<1>8. CASE MemoryDies
  BY <1>8, MemoryDiesSafe
<1>9. CASE MemTick
  BY <1>9, MemTickSafe
<1> QED
  BY <1>1, <1>2, <1>3, <1>4, <1>5, <1>6, <1>7, <1>8, <1>9 DEF MemNext

\* The memories keep their shapes, whatever calls are made and wherever the process dies.
LEMMA MemInvHolds == MemSpec => []MemInv
<1>1. MemInit => MemInv
  BY MemInitSafe
<1>2. MemInv /\ [MemNext]_memVars => MemInv'
  BY MemNextSafe
<1> QED
  BY <1>1, <1>2, PTL DEF MemSpec

\* Calls that read, change and rewrite one file over several awaits have the effect of
\* one step each, on one tenant's memories; only the oldest make room.
THEOREM MemoryKeepsPromise == MemSpec => KeepsThePromise
<1>1. MemInit => Promise!ContractInit
  BY MemInitSafe
<1>2. MemInv /\ [MemNext]_memVars => [Promise!ContractNext]_<<Items(MemStore!Says), MemStore!Torn>>
  BY MemNextSafe DEF MemStep, MemSays
<1> QED
  BY <1>1, <1>2, MemInvHolds, PTL DEF MemSpec, KeepsThePromise, Promise!ContractSpec

\* The shapes of the variables follow from it.
THEOREM MemoryTypes == MemSpec => []MemTypeOK
<1>1. MemInv => MemTypeOK
  <2> SUFFICES ASSUME MemInv PROVE MemTypeOK
    OBVIOUS
  <2>1. ASSUME NEW n \in DOMAIN memRuns
        PROVE  /\ n \in 1..memCalls /\ memRuns[n].step \in {"open", "write"}
               /\ memRuns[n].before \in Seq(Memories) /\ memRuns[n].after \in Seq(Memories)
    BY DEF MemInv, MemFileInv, MemRunInv, IsMemory
  <2>2. MemStore!ShapesOK(memCalls)
    BY <2>1 DEF MemInv, MemFileInv, MemQueueInv, MemStore!ShapesOK
  <2>3. memFile.content \in Seq(Memories)
    BY DEF MemInv, MemFileInv, IsMemory
  <2>4. MemStore!Contents \subseteq Seq(Memories)
    BY <2>1, <2>3 DEF MemStore!Contents
  <2> QED
    BY <2>2, <2>4 DEF MemInv, MemCounts, MemTypeOK
<1> QED
  BY <1>1, MemInvHolds, PTL

-----------------------------------------------------------------------------
(***************************************************************************)
(* The knowledge: the chunks of a document are its own and its tenant's,   *)
(* in the file and midway through a call, for chunks of different calls    *)
(* have different ids.                                                     *)
(***************************************************************************)

\* A batch of documents.
RagBatch == Seq([id : DocumentIds \cup {NoDocumentId}, chunks : Nat])

\* The numbers of the calls whose chunks a store has or its documents list.
Uses(held) ==
  {c.id[1] : c \in held.chunks}
    \cup UNION {{x[1] : x \in held.documents[id].chunks} : id \in DOMAIN held.documents}

\* A store in which a chunk that a document lists is the document's and its tenant's.
ListsItsOwn(held) ==
  /\ held = [documents |-> held.documents, chunks |-> held.chunks]
  /\ held.documents = [id \in DOMAIN held.documents |-> held.documents[id]]
  /\ IsKnowledge(held)
  /\ \A id \in DOMAIN held.documents, c \in held.chunks :
       c.id \in held.documents[id].chunks =>
         c.document = id /\ c.tenant = held.documents[id].tenant

\* What the chunks of one of a call's documents are.
LEMMA CutFacts ==
  ASSUME NEW call, call.number \in Nat, call.tenant \in RagTenants, call.batch \in RagBatch,
         NEW i \in 1..Len(call.batch)
  PROVE  /\ DocumentId(call, i) \in AnyDocumentId
         /\ \A c \in Cut(call, i) :
              /\ c \in [id : Seq(Nat), document : AnyDocumentId, tenant : RagTenants]
              /\ c.id \in Seq(Nat) /\ c.id[1] = call.number /\ c.id[2] = i
              /\ c.document = DocumentId(call, i) /\ c.tenant = call.tenant
         /\ \A c \in Cut(call, i), d \in Cut(call, i) : c.id = d.id => c = d
<1>1. i \in Nat /\ call.batch[i] \in [id : DocumentIds \cup {NoDocumentId}, chunks : Nat]
  <2>1. PICK B : B = [id : DocumentIds \cup {NoDocumentId}, chunks : Nat]
    OBVIOUS
  <2>2. call.batch \in Seq(B)
    BY <2>1 DEF RagBatch
  <2>3. Len(call.batch) \in Nat /\ call.batch[i] \in B
    BY <2>2, ListEntries
  <2> QED
    BY <2>1, <2>3
<1>2. PICK id : id = DocumentId(call, i)
  OBVIOUS
<1>3. id \in AnyDocumentId
  <2>1. CASE call.batch[i].id = NoDocumentId
    <3>1. id = <<call.number, i>>
      BY <1>2, <2>1 DEF DocumentId
    <3>2. <<call.number, i>> \in Seq(Nat)
      BY <1>1
    <3> QED
      BY <3>1, <3>2 DEF AnyDocumentId
  <2>2. CASE call.batch[i].id # NoDocumentId
    <3>1. id = call.batch[i].id
      BY <1>2, <2>2 DEF DocumentId
    <3> QED
      BY <1>1, <2>2, <3>1 DEF AnyDocumentId
  <2> QED
    BY <2>1, <2>2
<1>4. ASSUME NEW k \in Nat
      PROVE  /\ <<call.number, i, k>> \in Seq(Nat)
             /\ <<call.number, i, k>>[1] = call.number /\ <<call.number, i, k>>[2] = i
  BY <1>1
<1>5. \A c \in Cut(call, i) : \E k \in Nat :
        c = [id |-> <<call.number, i, k>>, document |-> id, tenant |-> call.tenant]
  BY <1>1, <1>2 DEF Cut
<1>6. ASSUME NEW c \in Cut(call, i)
      PROVE  /\ c \in [id : Seq(Nat), document : AnyDocumentId, tenant : RagTenants]
             /\ c.id \in Seq(Nat) /\ c.id[1] = call.number /\ c.id[2] = i
             /\ c.document = id /\ c.tenant = call.tenant
             /\ c = [id |-> c.id, document |-> id, tenant |-> call.tenant]
  <2>1. PICK k \in Nat :
          c = [id |-> <<call.number, i, k>>, document |-> id, tenant |-> call.tenant]
    BY <1>5
  <2>2. PICK x : x = <<call.number, i, k>> /\ x \in Seq(Nat) /\ x[1] = call.number /\ x[2] = i
    BY <1>4
  <2>3. c = [id |-> x, document |-> id, tenant |-> call.tenant]
    BY <2>1, <2>2
  <2> QED
    BY <1>3, <2>2, <2>3
<1>7. ASSUME NEW c \in Cut(call, i), NEW d \in Cut(call, i), c.id = d.id
      PROVE  c = d
  <2>1. c = [id |-> c.id, document |-> id, tenant |-> call.tenant]
    BY <1>6
  <2>2. d = [id |-> d.id, document |-> id, tenant |-> call.tenant]
    BY <1>6
  <2> QED
    BY <1>7, <2>1, <2>2
<1> QED
  BY <1>2, <1>3, <1>6, <1>7

\* A batch under way: what came since it began are its chunks, listed by documents of its
\* tenant; what went was listed by one; a document is what it was or one of the batch's.
Amid(call, old, held) ==
  /\ held = [documents |-> held.documents, chunks |-> held.chunks]
  /\ held.documents = [id \in DOMAIN held.documents |-> held.documents[id]]
  /\ \A c \in held.chunks : c \in old.chunks \/ \E i \in 1..Len(call.batch) : c \in Cut(call, i)
  /\ \A c \in held.chunks \ old.chunks :
       Owned(held, c.document, call.tenant) /\ c.id \in held.documents[c.document].chunks
  /\ \A c \in old.chunks \ held.chunks :
       /\ c.tenant = call.tenant
       /\ Owned(old, c.document, call.tenant) /\ c.id \in old.documents[c.document].chunks
  /\ \A id \in DOMAIN held.documents :
       \/ Has(old, id) /\ held.documents[id] = old.documents[id]
       \/ \E i \in 1..Len(call.batch) :
            /\ DocumentId(call, i) = id
            /\ held.documents[id] = [tenant |-> call.tenant, chunks |-> {c.id : c \in Cut(call, i)}]
  /\ \A id \in DOMAIN old.documents : Has(held, id)

\* One document of a batch is stored.
LEMMA IngestFacts ==
  ASSUME NEW call, call.number \in Nat, call.tenant \in RagTenants, call.batch \in RagBatch,
         NEW old, ListsItsOwn(old), call.number \notin Uses(old),
         NEW held, Amid(call, old, held), NEW i \in 1..Len(call.batch)
  PROVE  Amid(call, old, Ingest(call, held, i))
<1>1. PICK t, id, cut, gone :
        /\ t = call.tenant /\ id = DocumentId(call, i) /\ cut = Cut(call, i)
        /\ gone = Replaced(held, id, t)
  OBVIOUS
<1>2. PICK document : document = [tenant |-> t, chunks |-> {c.id : c \in cut}]
  OBVIOUS
<1>3. PICK docs : docs = IF cut = {} THEN held.documents ELSE WithDocument(held, id, document)
  OBVIOUS
<1>4. PICK new : new = [documents |-> docs, chunks |-> (held.chunks \ gone) \cup cut]
  OBVIOUS
<1>5. new = Ingest(call, held, i)
  BY <1>1, <1>2, <1>3, <1>4 DEF Ingest
<1>6. new.documents = docs /\ new.chunks = (held.chunks \ gone) \cup cut
  BY <1>4
<1>7. /\ docs = [j \in DOMAIN docs |-> docs[j]]
      /\ DOMAIN held.documents \subseteq DOMAIN docs
      /\ \A j \in DOMAIN docs : \/ j = id /\ cut # {} /\ docs[j] = document
                                \/ j \in DOMAIN held.documents /\ docs[j] = held.documents[j]
      /\ \A j \in DOMAIN held.documents : j = id \/ docs[j] = held.documents[j]
      /\ cut # {} => id \in DOMAIN docs /\ docs[id] = document
  <2>1. CASE cut = {}
    BY <1>3, <2>1 DEF Amid
  <2>2. CASE cut # {}
    BY <1>3, <2>2 DEF WithDocument
  <2> QED
    BY <2>1, <2>2
<1>8. \A c \in cut : /\ c.document = id /\ c.tenant = t /\ c.id[1] = call.number
                     /\ c.id \in document.chunks
  BY <1>1, <1>2, CutFacts
<1>9. document.tenant = t
  BY <1>2
<1>10. \A c \in gone : c \in held.chunks /\ Owned(held, id, t) /\ c.id \in held.documents[id].chunks
  BY <1>1 DEF Replaced, Listed
<1>11. \A c \in new.chunks : c \in old.chunks \/ \E k \in 1..Len(call.batch) : c \in Cut(call, k)
  BY <1>1, <1>6 DEF Amid
<1>12. ASSUME NEW c \in new.chunks \ old.chunks
       PROVE  Owned(new, c.document, t) /\ c.id \in new.documents[c.document].chunks
  <2>1. CASE c \in cut
    BY <1>6, <1>7, <1>8, <1>9, <2>1 DEF Owned, Has
  <2>2. CASE c \notin cut
    <3>1. c \in held.chunks /\ c \notin gone
      BY <1>6, <1>12, <2>2
    <3>2. Owned(held, c.document, t) /\ c.id \in held.documents[c.document].chunks
      BY <1>1, <1>12, <3>1 DEF Amid
    <3>3. c.document # id
      BY <1>1, <3>1, <3>2 DEF Replaced, Listed
    <3> QED
      BY <1>6, <1>7, <3>2, <3>3 DEF Owned, Has
  <2> QED
    BY <2>1, <2>2
<1>13. ASSUME NEW c \in old.chunks \ new.chunks
       PROVE  c.tenant = t /\ Owned(old, c.document, t) /\ c.id \in old.documents[c.document].chunks
  <2>1. CASE c \notin held.chunks
    BY <1>1, <1>13, <2>1 DEF Amid
  <2>2. CASE c \in held.chunks
    <3>1. Owned(held, id, t) /\ c.id \in held.documents[id].chunks
      BY <1>6, <1>10, <1>13, <2>2
    <3>2. c.id[1] # call.number
      BY <1>13 DEF Uses
    <3>3. Has(old, id) /\ held.documents[id] = old.documents[id]
      <4>1. SUFFICES ASSUME NEW k \in 1..Len(call.batch),
                            held.documents[id] =
                              [tenant |-> call.tenant, chunks |-> {d.id : d \in Cut(call, k)}]
                     PROVE  FALSE
        BY <3>1 DEF Amid, Owned, Has
      <4>2. PICK d \in Cut(call, k) : d.id = c.id
        BY <3>1, <4>1
      <4> QED
        BY <3>2, <4>2, CutFacts
    <3>4. c.document = id /\ c.tenant = old.documents[id].tenant
      BY <1>13, <3>1, <3>3 DEF ListsItsOwn, Has
    <3> QED
      BY <3>1, <3>3, <3>4 DEF Owned
  <2> QED
    BY <2>1, <2>2
<1>14. ASSUME NEW j \in DOMAIN new.documents
       PROVE  \/ Has(old, j) /\ new.documents[j] = old.documents[j]
              \/ \E k \in 1..Len(call.batch) :
                   /\ DocumentId(call, k) = j
                   /\ new.documents[j] =
                        [tenant |-> call.tenant, chunks |-> {c.id : c \in Cut(call, k)}]
  <2>1. CASE j = id /\ cut # {} /\ docs[j] = document
    <3>1. /\ DocumentId(call, i) = j
          /\ new.documents[j] = [tenant |-> call.tenant, chunks |-> {c.id : c \in Cut(call, i)}]
      BY <1>1, <1>2, <1>6, <2>1
    <3> QED
      BY <3>1
  <2>2. CASE j \in DOMAIN held.documents /\ docs[j] = held.documents[j]
    BY <1>6, <2>2 DEF Amid
  <2> QED
    BY <1>6, <1>7, <2>1, <2>2
<1>15. \A j \in DOMAIN old.documents : Has(new, j)
  BY <1>6, <1>7 DEF Amid, Has
<1>16. /\ new = [documents |-> new.documents, chunks |-> new.chunks]
       /\ new.documents = [j \in DOMAIN new.documents |-> new.documents[j]]
  BY <1>4, <1>6, <1>7
<1>17. Amid(call, old, new)
  BY <1>1, <1>11, <1>12, <1>13, <1>14, <1>15, <1>16 DEF Amid
<1> QED
  BY <1>5, <1>17

\* What a document and a chunk of a store are.
LEMMA StoreParts ==
  ASSUME NEW held, IsKnowledge(held)
  PROVE  /\ \A id \in DOMAIN held.documents :
              /\ id \in AnyDocumentId /\ held.documents[id].tenant \in RagTenants
              /\ held.documents[id].chunks \subseteq Seq(Nat)
         /\ \A c \in held.chunks :
              /\ c \in [id : Seq(Nat), document : AnyDocumentId, tenant : RagTenants]
              /\ c.id \in Seq(Nat) /\ c.tenant \in RagTenants
BY DEF IsKnowledge

\* A batch, whole or in part, changes only its tenant's knowledge.
LEMMA AmidFacts ==
  ASSUME NEW call, call.number \in Nat, call.tenant \in RagTenants, call.batch \in RagBatch,
         NEW old, ListsItsOwn(old), call.number \notin Uses(old),
         NEW held, Amid(call, old, held)
  PROVE  /\ ListsItsOwn(held) /\ ChangesOnly(call.tenant, old, held)
         /\ Uses(held) \subseteq Uses(old) \cup {call.number}
<1>1. PICK t \in RagTenants : t = call.tenant
  OBVIOUS
<1>2. \A k \in 1..Len(call.batch) : \A c \in Cut(call, k) :
        /\ c \in [id : Seq(Nat), document : AnyDocumentId, tenant : RagTenants]
        /\ c.id \in Seq(Nat) /\ c.id[1] = call.number /\ c.id[2] = k
        /\ c.document = DocumentId(call, k) /\ c.tenant = t
  BY <1>1, CutFacts
<1>3. \A c \in old.chunks : c.id[1] # call.number
  BY DEF Uses
<1>4. \A id \in DOMAIN old.documents : \A x \in old.documents[id].chunks : x[1] # call.number
  BY DEF Uses
<1>5. IsKnowledge(old)
  BY DEF ListsItsOwn
<1>6. \A c \in held.chunks :
        /\ c \in old.chunks \/ \E k \in 1..Len(call.batch) : c \in Cut(call, k)
        /\ c \in old.chunks \/ (c.tenant = t /\ c.id[1] = call.number)
        /\ c \in [id : Seq(Nat), document : AnyDocumentId, tenant : RagTenants]
  BY <1>2, <1>5, StoreParts DEF Amid
<1>7. ASSUME NEW id \in DOMAIN held.documents
      PROVE  \/ Has(old, id) /\ held.documents[id] = old.documents[id]
             \/ \E k \in 1..Len(call.batch) :
                  /\ DocumentId(call, k) = id /\ held.documents[id].tenant = t
                  /\ held.documents[id].chunks = {c.id : c \in Cut(call, k)}
  BY <1>1 DEF Amid
<1>8. ASSUME NEW id \in DOMAIN held.documents
      PROVE  /\ id \in AnyDocumentId /\ held.documents[id].tenant \in RagTenants
             /\ held.documents[id].chunks \subseteq Seq(Nat)
             /\ \A x \in held.documents[id].chunks :
                  x[1] = call.number \/ (Has(old, id) /\ x \in old.documents[id].chunks)
  <2>1. CASE Has(old, id) /\ held.documents[id] = old.documents[id]
    BY <1>5, <2>1, StoreParts DEF Has
  <2>2. CASE \E k \in 1..Len(call.batch) :
               /\ DocumentId(call, k) = id /\ held.documents[id].tenant = t
               /\ held.documents[id].chunks = {c.id : c \in Cut(call, k)}
    <3>1. PICK k \in 1..Len(call.batch) :
               /\ DocumentId(call, k) = id /\ held.documents[id].tenant = t
               /\ held.documents[id].chunks = {c.id : c \in Cut(call, k)}
      BY <2>2
    <3>2. id \in AnyDocumentId
      BY <3>1, CutFacts
    <3> QED
      BY <1>2, <3>1, <3>2
  <2> QED
    BY <1>7, <2>1, <2>2
<1>9. IsKnowledge(held)
  BY <1>6, <1>8 DEF IsKnowledge
<1>10. ASSUME NEW id \in DOMAIN held.documents, NEW c \in held.chunks,
              c.id \in held.documents[id].chunks
       PROVE  c.document = id /\ c.tenant = held.documents[id].tenant
  <2>1. CASE Has(old, id) /\ held.documents[id] = old.documents[id]
    <3>1. c.id[1] # call.number
      BY <1>4, <1>10, <2>1 DEF Has
    <3>2. c \in old.chunks
      BY <1>6, <3>1
    <3> QED
      BY <1>10, <2>1, <3>2 DEF ListsItsOwn, Has
  <2>2. CASE \E k \in 1..Len(call.batch) :
               /\ DocumentId(call, k) = id /\ held.documents[id].tenant = t
               /\ held.documents[id].chunks = {d.id : d \in Cut(call, k)}
    <3>1. PICK k \in 1..Len(call.batch) :
               /\ DocumentId(call, k) = id /\ held.documents[id].tenant = t
               /\ held.documents[id].chunks = {d.id : d \in Cut(call, k)}
      BY <2>2
    <3>2. PICK d \in Cut(call, k) : d.id = c.id
      BY <1>10, <3>1
    <3>3. c.id[1] = call.number /\ c.id[2] = k
      BY <1>2, <3>2
    <3>4. PICK j \in 1..Len(call.batch) : c \in Cut(call, j)
      BY <1>3, <1>6, <3>3
    <3>5. j = k
      BY <1>2, <3>3, <3>4
    <3> QED
      BY <1>2, <3>1, <3>4, <3>5
  <2> QED
    BY <1>7, <2>1, <2>2
<1>11. ListsItsOwn(held)
  BY <1>9, <1>10 DEF ListsItsOwn, Amid
<1>12. ChangesOnly(t, old, held)
  <2>1. Theirs(old, t) = Theirs(held, t)
    BY <1>1, <1>6 DEF Theirs, Mine, Amid
  <2>2. \A c \in Mine(old, t) \ Mine(held, t) :
          Owned(old, c.document, t) /\ c.id \in old.documents[c.document].chunks
    BY <1>1 DEF Mine, Amid
  <2>3. \A c \in Mine(held, t) \ Mine(old, t) :
          Owned(held, c.document, t) /\ c.id \in held.documents[c.document].chunks
    BY <1>1 DEF Mine, Amid
  <2>4. \A id \in DOMAIN old.documents :
          \/ Has(held, id) /\ held.documents[id] = old.documents[id]
          \/ Owned(held, id, t)
    <3> SUFFICES ASSUME NEW id \in DOMAIN old.documents
                 PROVE  \/ Has(held, id) /\ held.documents[id] = old.documents[id]
                        \/ Owned(held, id, t)
      OBVIOUS
    <3>1. Has(held, id)
      BY DEF Amid
    <3>2. id \in DOMAIN held.documents
      BY <3>1 DEF Has
    <3> QED
      BY <1>7, <3>1, <3>2 DEF Owned
  <2> QED
    BY <2>1, <2>2, <2>3, <2>4 DEF ChangesOnly
<1>13. Uses(held) \subseteq Uses(old) \cup {call.number}
  BY <1>6, <1>8 DEF Uses, Has
<1> QED
  BY <1>1, <1>11, <1>12, <1>13

\* The stores that can come of a batch.
Possible(call, old) ==
  LET places == 1..Len(call.batch)
      ids    == DOMAIN old.documents \cup {DocumentId(call, i) : i \in places}
      kept   == {old.documents[id] : id \in DOMAIN old.documents}
      sent   == {[tenant |-> call.tenant, chunks |-> {c.id : c \in Cut(call, i)}] : i \in places}
      chunks == old.chunks \cup UNION {Cut(call, i) : i \in places}
  IN  [documents : UNION {[I -> kept \cup sent] : I \in SUBSET ids}, chunks : SUBSET chunks]

\* What a call can leave midway is one of the outcomes the module enumerates.
LEMMA AmidIsPossible ==
  ASSUME NEW call, NEW old, NEW held, Amid(call, old, held)
  PROVE  held \in Possible(call, old)
<1> DEFINE places == 1..Len(call.batch)
           ids    == DOMAIN old.documents \cup {DocumentId(call, i) : i \in places}
           kept   == {old.documents[id] : id \in DOMAIN old.documents}
           sent   == {[tenant |-> call.tenant, chunks |-> {c.id : c \in Cut(call, i)}] : i \in places}
           chunks == old.chunks \cup UNION {Cut(call, i) : i \in places}
           docs   == UNION {[I -> kept \cup sent] : I \in SUBSET ids}
<1>1. held.chunks \in SUBSET chunks
  BY DEF Amid
<1>2. ASSUME NEW id \in DOMAIN held.documents
      PROVE  id \in ids /\ held.documents[id] \in kept \cup sent
  BY DEF Amid, Has
<1>3. held.documents \in docs
  <2> DEFINE I == DOMAIN held.documents
  <2>1. I \in SUBSET ids /\ held.documents \in [I -> kept \cup sent]
    BY <1>2 DEF Amid
  <2> HIDE DEF I, ids, kept, sent
  <2> QED
    BY <2>1
<1>4. held = [documents |-> held.documents, chunks |-> held.chunks]
  BY DEF Amid
<1>5. held \in [documents : docs, chunks : SUBSET chunks]
  <2> HIDE DEF docs, chunks
  <2> QED
    BY <1>1, <1>3, <1>4
<1> QED
  BY <1>5 DEF Possible

\* The whole batch: the loop of ingestDocumentsForTenant.
LEMMA IngestedFacts ==
  ASSUME NEW call, call.number \in Nat, call.tenant \in RagTenants, call.batch \in RagBatch,
         NEW old, ListsItsOwn(old), call.number \notin Uses(old)
  PROVE  Amid(call, old, Ingested(call, old))
<1>1. PICK n \in Nat : n = Len(call.batch)
  BY DEF RagBatch
<1> DEFINE X == {held \in Possible(call, old) : Amid(call, old, held)}
           One(i, held) == Ingest(call, held, i)
<1>2. old \in X
  <2>1. Amid(call, old, old)
    <3>1. \A id \in DOMAIN old.documents : Has(old, id)
      BY DEF Has
    <3> QED
      BY <3>1 DEF Amid, ListsItsOwn
  <2> QED
    BY <2>1, AmidIsPossible
<1>3. \A i \in 1..n : \A held \in X : One(i, held) \in X
  <2> SUFFICES ASSUME NEW i \in 1..n, NEW held \in X PROVE One(i, held) \in X
    OBVIOUS
  <2>1. Amid(call, old, held)
    OBVIOUS
  <2>2. Amid(call, old, One(i, held))
    BY <1>1, <2>1, IngestFacts
  <2> HIDE DEF One
  <2> QED
    BY <2>2, AmidIsPossible
<1> HIDE DEF X, One
<1>4. PICK step : step = [i \in 1..n |-> [held \in X |-> One(i, held)]]
  OBVIOUS
<1>5. step \in [1..n -> [X -> X]]
  BY <1>3, <1>4
<1>6. PICK f \in [0..n -> X] : f[0] = old /\ \A i \in 1..n : f[i] = step[i][f[i - 1]]
  <2>1. AreSteps(step, n, X)
    BY <1>5 DEF AreSteps
  <2>2. Iterated(step, n, X, old)
    BY <1>2, <2>1, Iterates
  <2> QED
    BY <2>2 DEF Iterated
<1>7. \A i \in 1..n : f[i] = One(i, f[i - 1])
  <2> SUFFICES ASSUME NEW i \in 1..n PROVE f[i] = One(i, f[i - 1])
    OBVIOUS
  <2>1. i - 1 \in 0..n
    OBVIOUS
  <2>2. f[i - 1] \in X
    BY <2>1
  <2> QED
    BY <1>4, <1>6, <2>2
<1> DEFINE Loop(g) == g = [i \in 0..n |-> IF i = 0 THEN old ELSE One(i, g[i - 1])]
<1>8. Loop(f)
  <2>1. \A i \in 0..n : f[i] = IF i = 0 THEN old ELSE One(i, f[i - 1])
    BY <1>6, <1>7
  <2> QED
    BY <2>1
<1>9. PICK after : after = CHOOSE g : Loop(g)
  OBVIOUS
<1>10. Loop(after)
  <2> HIDE DEF Loop
  <2> QED
    BY <1>8, <1>9
<1>11. Ingested(call, old) = after[n]
  BY <1>1, <1>9 DEF Ingested, One
<1>12. \A i \in 0..n : after[i] \in X
  <2> DEFINE S == {i \in 0..n : after[i] \in X}
  <2>1. 0 \in S
    BY <1>2, <1>10
  <2>2. ASSUME NEW i \in 1..n, i - 1 \in S
        PROVE  i \in S
    <3>1. after[i] = One(i, after[i - 1])
      BY <1>10
    <3> QED
      BY <1>3, <2>2, <3>1
  <2> HIDE DEF S
  <2>3. \A i \in 0..n : i \in S
    BY <2>1, <2>2, UpTo
  <2> QED
    BY <2>3 DEF S
<1>13. after[n] \in X
  BY <1>12
<1> QED
  BY <1>11, <1>13 DEF X

\* A deletion takes a document of the tenant with the chunks it lists, or nothing.
LEMMA DeletedFacts ==
  ASSUME NEW call, call.tenant \in RagTenants, NEW old, ListsItsOwn(old)
  PROVE  /\ ListsItsOwn(Deleted(call, old)) /\ ChangesOnly(call.tenant, old, Deleted(call, old))
         /\ Uses(Deleted(call, old)) \subseteq Uses(old)
<1>1. PICK t, id, new : t = call.tenant /\ id = call.id /\ new = Deleted(call, old)
  OBVIOUS
<1>2. CASE ~Owned(old, id, t)
  <2>1. new = old
    BY <1>1, <1>2 DEF Deleted
  <2>2. ChangesOnly(t, old, old)
    BY DEF ChangesOnly, Has
  <2> QED
    BY <1>1, <2>1, <2>2
<1>3. CASE Owned(old, id, t)
  <2>1. PICK docs : docs = [j \in DOMAIN old.documents \ {id} |-> old.documents[j]]
    OBVIOUS
  <2>2. PICK left : left = old.chunks \ Listed(old, id)
    OBVIOUS
  <2>3. new = [documents |-> docs, chunks |-> left]
    BY <1>1, <1>3, <2>1, <2>2 DEF Deleted
  <2>4. /\ new.documents = docs /\ new.chunks = left
        /\ new = [documents |-> new.documents, chunks |-> new.chunks]
    BY <2>3
  <2>5. /\ DOMAIN docs = DOMAIN old.documents \ {id}
        /\ \A j \in DOMAIN docs : docs[j] = old.documents[j]
        /\ docs = [j \in DOMAIN docs |-> docs[j]]
    BY <2>1
  <2>6. left \subseteq old.chunks
    BY <2>2
  <2>7. IsKnowledge(new)
    BY <2>4, <2>5, <2>6 DEF ListsItsOwn, IsKnowledge
  <2>8. ListsItsOwn(new)
    BY <2>4, <2>5, <2>6, <2>7 DEF ListsItsOwn
  <2>9. Uses(new) \subseteq Uses(old)
    BY <2>4, <2>5, <2>6 DEF Uses
  <2>10. \A c \in old.chunks \ left :
           /\ c.tenant = t /\ Owned(old, c.document, t)
           /\ c.id \in old.documents[c.document].chunks
    BY <1>3, <2>2 DEF ListsItsOwn, Listed, Owned, Has
  <2>11. ChangesOnly(t, old, new)
    <3>1. Theirs(old, t) = Theirs(new, t)
      BY <2>4, <2>6, <2>10 DEF Theirs, Mine
    <3>2. \A c \in Mine(old, t) \ Mine(new, t) :
            Owned(old, c.document, t) /\ c.id \in old.documents[c.document].chunks
      BY <2>4, <2>10 DEF Mine
    <3>3. Mine(new, t) \ Mine(old, t) = {}
      BY <2>4, <2>6 DEF Mine
    <3>4. \A j \in DOMAIN old.documents :
            \/ Has(new, j) /\ new.documents[j] = old.documents[j]
            \/ ~Has(new, j) /\ Owned(old, j, t)
      BY <1>3, <2>4, <2>5 DEF Has
    <3> QED
      BY <3>1, <3>2, <3>3, <3>4 DEF ChangesOnly
  <2> QED
    BY <1>1, <2>8, <2>9, <2>11
<1> QED
  BY <1>1, <1>2, <1>3

-----------------------------------------------------------------------------
(* The fetches, the queue, the file and the steps of a call. *)

\* The calls that wait.
RagCall ==
  [op : {"ingest"}, number : Nat, tenant : RagTenants, batch : RagBatch]
    \cup [op : {"read"}, number : Nat, tenant : RagTenants]
    \cup [op : {"delete"}, number : Nat, tenant : RagTenants, id : AnyDocumentId]

\* The numbers of those that wait.
QueueNumbers == {ragQueue[k].number : k \in 1..Len(ragQueue)}

\* The calls that have no chunk yet.
Pending == QueueNumbers \cup DOMAIN fetches

\* What the file has, or a call will write: the chunks are of calls that have begun.
Spent(held) ==
  ListsItsOwn(held) /\ Uses(held) \subseteq 1..ragCalls /\ Uses(held) \cap Pending = {}

\* A call that has read the file: until it truncates it the file is what it read, then
\* the file is blank, and what it will write changes one tenant's knowledge.
RagRunInv(n) ==
  /\ n \in 1..ragCalls
  /\ ragRuns[n] = [step |-> ragRuns[n].step, before |-> ragRuns[n].before,
                   after |-> ragRuns[n].after]
  /\ Spent(ragRuns[n].before) /\ Spent(ragRuns[n].after)
  /\ \E t \in RagTenants : ChangesOnly(t, ragRuns[n].before, ragRuns[n].after)
  /\ \/ ragRuns[n].step = "open" /\ ragFile.form # "blank" /\ ragRuns[n].before = ragFile.content
     \/ ragRuns[n].step = "write" /\ ragFile.form = "blank"

\* The file, and the call that writes it.
RagFileInv ==
  /\ ragFile = [form |-> ragFile.form, content |-> ragFile.content]
  /\ ragFile.form \in {"missing", "blank", "whole"} /\ Spent(ragFile.content)
  /\ \A m, n \in DOMAIN ragRuns : m = n
  /\ \A n \in DOMAIN ragRuns : RagRunInv(n)

\* Calls that wait and fetches have numbers of their own.
RagQueueInv ==
  /\ ragQueue \in Seq(RagCall)
  /\ \A j, k \in 1..Len(ragQueue) : ragQueue[j].number = ragQueue[k].number => j = k
  /\ QueueNumbers \subseteq 1..ragCalls /\ QueueNumbers \cap DOMAIN fetches = {}
  /\ Len(ragQueue) + Cardinality(DOMAIN fetches) <= ragCalls

\* The fetches under way.
FetchingInv ==
  /\ DOMAIN fetches \subseteq 1..ragCalls
  /\ \A n \in DOMAIN fetches : fetches[n].tenant \in RagTenants /\ fetches[n].ingest \in BOOLEAN
  /\ FetchesInv

\* The counters.
RagCounts == ragCalls \in 0..MaxRagCalls /\ ragCrashes \in 0..MaxRagCrashes

\* The inductive invariant of the knowledge.
RagInv == RagCounts /\ FetchingInv /\ RagQueueInv /\ RagFileInv

\* A step that one tenant's call accounts for, as far as the file can be read.
RagStep ==
  \/ RagStore!Says' = RagStore!Says
  \/ /\ ~RagStore!Torn /\ ~RagStore!Torn'
     /\ \E t \in RagTenants : ChangesOnly(t, RagStore!Says, RagStore!Says')
  \/ RagStore!Torn'

\* What a call that waits is.
LEMMA RagCallParts ==
  ASSUME NEW call \in RagCall
  PROVE  /\ call.number \in Nat /\ call.tenant \in RagTenants
         /\ call.op \in {"ingest", "read", "delete"}
         /\ call.op = "ingest" => call.batch \in RagBatch
BY DEF RagCall

\* How many fetches there are.
LEMMA FetchCount ==
  ASSUME RagCounts, FetchingInv
  PROVE  /\ ragCalls \in Nat /\ IsFiniteSet(DOMAIN fetches) /\ Cardinality(DOMAIN fetches) \in Nat
<1>1. ragCalls \in Nat
  BY KnowledgeAssumption DEF RagCounts
<1>2. IsFiniteSet(1..ragCalls)
  BY <1>1, FS_Interval
<1>3. IsFiniteSet(DOMAIN fetches)
  BY <1>2, FS_Subset DEF FetchingInv
<1> QED
  BY <1>1, <1>3, FS_CardinalityType

\* What is spent stays so while no call gets a number that was used.
LEMMA SpentLater ==
  ASSUME ragCalls \in Nat, ragCalls' \in Nat, ragCalls <= ragCalls',
         \A p \in Pending' : p \in Pending \/ p \notin 1..ragCalls,
         NEW held, Spent(held)
  PROVE  Spent(held)'
<1>1. (1..ragCalls) \subseteq 1..ragCalls'
  OBVIOUS
<1>2. PICK used : used = Uses(held)
  OBVIOUS
<1>3. used \subseteq 1..ragCalls' /\ used \cap Pending' = {}
  BY <1>1, <1>2 DEF Spent
<1>4. ListsItsOwn(held)
  BY DEF Spent
<1> QED
  BY <1>2, <1>3, <1>4 DEF Spent

\* Steps that leave the file and the calls that write it alone.
LEMMA QuietRagFile ==
  ASSUME RagFileInv, UNCHANGED <<ragFile, ragRuns>>, ragCalls \in Nat, ragCalls' \in Nat,
         ragCalls <= ragCalls', \A p \in Pending' : p \in Pending \/ p \notin 1..ragCalls
  PROVE  RagFileInv' /\ RagStep
<1>1. \A held : Spent(held) => Spent(held)'
  BY SpentLater
<1>2. Spent(ragFile.content)'
  <2>1. PICK held : held = ragFile.content /\ Spent(held)
    BY DEF RagFileInv
  <2>2. Spent(held)'
    BY <1>1, <2>1
  <2> QED
    BY <2>1, <2>2
<1>3. ASSUME NEW n \in DOMAIN ragRuns
      PROVE  RagRunInv(n)'
  <2>1. RagRunInv(n)
    BY DEF RagFileInv
  <2>2. PICK old, new : /\ old = ragRuns[n].before /\ new = ragRuns[n].after
                        /\ Spent(old) /\ Spent(new)
    BY <2>1 DEF RagRunInv
  <2>3. Spent(old)' /\ Spent(new)'
    BY <1>1, <2>2
  <2>4. Spent(ragRuns[n].before)' /\ Spent(ragRuns[n].after)'
    BY <2>2, <2>3
  <2>5. n \in 1..ragCalls'
    BY <2>1 DEF RagRunInv
  <2>6. PICK t \in RagTenants : ChangesOnly(t, old, new)
    BY <2>1, <2>2 DEF RagRunInv
  <2>7. /\ ragRuns'[n].before = old /\ ragRuns'[n].after = new
        /\ ragRuns' = ragRuns /\ ragFile' = ragFile
    BY <2>2
  <2>8. \E u \in RagTenants : ChangesOnly(u, ragRuns'[n].before, ragRuns'[n].after)
    BY <2>6, <2>7
  <2> QED
    BY <2>1, <2>4, <2>5, <2>7, <2>8 DEF RagRunInv
<1>4. RagFileInv'
  BY <1>2, <1>3 DEF RagFileInv
<1>5. RagStore!Says' = RagStore!Says
  BY DEF RagStore!Says, RagStore!Writing
<1> QED
  BY <1>4, <1>5 DEF RagStep

\* A call joins the queue, with a number that no other has.
LEMMA JoinsQueue ==
  ASSUME RagInv, NEW call \in RagCall, ragQueue' = Append(ragQueue, call),
         ragCalls' \in Nat, ragCalls <= ragCalls',
         call.number \in 1..ragCalls', call.number \notin QueueNumbers,
         call.number \notin DOMAIN fetches', DOMAIN fetches' \subseteq DOMAIN fetches,
         Len(ragQueue) + 1 + Cardinality(DOMAIN fetches') <= ragCalls'
  PROVE  RagQueueInv' /\ QueueNumbers' = QueueNumbers \cup {call.number}
<1>1. PICK q \in Nat : q = Len(ragQueue) /\ ragQueue \in Seq(RagCall)
  BY DEF RagInv, RagQueueInv
<1>2. /\ ragQueue' \in Seq(RagCall) /\ Len(ragQueue') = q + 1
      /\ \A k \in 1..q : ragQueue'[k] = ragQueue[k]
      /\ ragQueue'[q + 1] = call
  BY <1>1
<1>3. \A k \in 1..(q + 1) : k = q + 1 \/ k \in 1..q
  OBVIOUS
<1>4. QueueNumbers = {ragQueue[k].number : k \in 1..q}
  BY <1>1 DEF QueueNumbers
<1>5. QueueNumbers' = {ragQueue'[k].number : k \in 1..(q + 1)}
  BY <1>2 DEF QueueNumbers
<1>6. QueueNumbers' = QueueNumbers \cup {call.number}
  <2>1. q + 1 \in 1..(q + 1) /\ \A k \in 1..q : k \in 1..(q + 1)
    OBVIOUS
  <2> QED
    BY <1>2, <1>3, <1>4, <1>5, <2>1
<1>7. ASSUME NEW j \in 1..(q + 1), NEW k \in 1..(q + 1), ragQueue'[j].number = ragQueue'[k].number
      PROVE  j = k
  <2>1. \A m \in 1..q : ragQueue[m].number # call.number
    BY <1>4
  <2>2. CASE j \in 1..q /\ k \in 1..q
    BY <1>1, <1>2, <1>7, <2>2 DEF RagInv, RagQueueInv
  <2>3. CASE j = q + 1 \/ k = q + 1
    BY <1>2, <1>3, <1>7, <2>1, <2>3
  <2> QED
    BY <1>3, <2>2, <2>3
<1>8. QueueNumbers' \subseteq 1..ragCalls'
  <2>1. QueueNumbers \subseteq 1..ragCalls /\ ragCalls \in Nat
    BY KnowledgeAssumption DEF RagInv, RagQueueInv, RagCounts
  <2>2. (1..ragCalls) \subseteq 1..ragCalls'
    BY <2>1
  <2> QED
    BY <1>6, <2>1, <2>2
<1>9. QueueNumbers' \cap DOMAIN fetches' = {}
  BY <1>6 DEF RagInv, RagQueueInv
<1> QED
  BY <1>1, <1>2, <1>6, <1>7, <1>8, <1>9 DEF RagQueueInv

\* A request for the store waits for those before it.
LEMMA RagWaitsSafe ==
  ASSUME RagInv, NEW call \in RagCall, call.number = ragCalls + 1, RagWaits(call)
  PROVE  RagInv' /\ RagStep
<1>1. /\ ragCalls < MaxRagCalls /\ ragCalls' = ragCalls + 1 /\ ragQueue' = Append(ragQueue, call)
      /\ UNCHANGED <<ragFile, ragRuns, fetches, ragCrashes>>
  BY DEF RagWaits, RagStore!Waits
<1>2. ragCalls \in Nat /\ Cardinality(DOMAIN fetches) \in Nat
  BY FetchCount DEF RagInv
<1>3. ragCalls + 1 \notin 1..ragCalls /\ (1..ragCalls) \subseteq 1..(ragCalls + 1)
  BY <1>2
<1>4. RagQueueInv' /\ QueueNumbers' = QueueNumbers \cup {call.number}
  <2>1. Len(ragQueue) \in Nat /\ Len(ragQueue) + Cardinality(DOMAIN fetches) <= ragCalls
    BY DEF RagInv, RagQueueInv
  <2>2. Len(ragQueue) + 1 + Cardinality(DOMAIN fetches') <= ragCalls'
    BY <1>1, <1>2, <2>1
  <2>3. call.number \in 1..ragCalls' /\ call.number \notin QueueNumbers
        /\ call.number \notin DOMAIN fetches'
    BY <1>1, <1>2, <1>3 DEF RagInv, RagQueueInv, FetchingInv
  <2> QED
    BY <1>1, <1>2, <2>2, <2>3, JoinsQueue
<1>5. \A p \in Pending' : p \in Pending \/ p \notin 1..ragCalls
  BY <1>1, <1>3, <1>4 DEF Pending
<1>6. RagFileInv' /\ RagStep
  BY <1>1, <1>2, <1>5, QuietRagFile DEF RagInv
<1>7. RagCounts'
  BY <1>1, <1>2, KnowledgeAssumption DEF RagInv, RagCounts
<1>8. FetchingInv'
  BY <1>1, <1>3 DEF RagInv, FetchingInv, FetchesInv
<1> QED
  BY <1>4, <1>6, <1>7, <1>8 DEF RagInv

\* The calls of the routes.
LEMMA RagRoutesSafe ==
  ASSUME RagInv, NEW t \in RagTenants,
         \/ \E batch \in RagBatches : PostDocuments(t, batch)
         \/ SearchTenantKnowledge(t) \/ ListTenantDocuments(t)
         \/ \E id \in DOMAIN ragFile.content.documents : DeleteTenantDocument(t, id)
  PROVE  RagInv' /\ RagStep
<1>1. ragCalls + 1 \in Nat
  BY FetchCount DEF RagInv
<1>2. ASSUME NEW batch \in RagBatches, PostDocuments(t, batch)
      PROVE  RagInv' /\ RagStep
  <2>1. PICK call : call = [op |-> "ingest", number |-> ragCalls + 1, tenant |-> t, batch |-> batch]
    OBVIOUS
  <2>2. batch \in RagBatch
    BY KnowledgeAssumption DEF RagBatch
  <2>3. call \in RagCall /\ call.number = ragCalls + 1
    BY <1>1, <2>1, <2>2 DEF RagCall
  <2> QED
    BY <1>2, <2>1, <2>3, RagWaitsSafe DEF PostDocuments
<1>3. CASE SearchTenantKnowledge(t) \/ ListTenantDocuments(t)
  <2>1. PICK call : call = [op |-> "read", number |-> ragCalls + 1, tenant |-> t]
    OBVIOUS
  <2>2. call \in RagCall /\ call.number = ragCalls + 1
    BY <1>1, <2>1 DEF RagCall
  <2>3. RagWaits(call)
    BY <1>3, <2>1 DEF SearchTenantKnowledge, ListTenantDocuments
  <2> QED
    BY <2>2, <2>3, RagWaitsSafe
<1>4. ASSUME NEW id \in DOMAIN ragFile.content.documents, DeleteTenantDocument(t, id)
      PROVE  RagInv' /\ RagStep
  <2>1. PICK call : call = [op |-> "delete", number |-> ragCalls + 1, tenant |-> t, id |-> id]
    OBVIOUS
  <2>2. id \in AnyDocumentId
    BY StoreParts DEF RagInv, RagFileInv, Spent, ListsItsOwn
  <2>3. call \in RagCall /\ call.number = ragCalls + 1
    BY <1>1, <2>1, <2>2 DEF RagCall
  <2> QED
    BY <1>4, <2>1, <2>3, RagWaitsSafe DEF DeleteTenantDocument
<1> QED
  BY <1>2, <1>3, <1>4

\* What a fetch does before its text arrives concerns no other part.
LEMMA FetchesMove ==
  ASSUME RagInv, UNCHANGED <<ragFile, ragQueue, ragRuns, ragCrashes>>,
         ragCalls' \in 0..MaxRagCalls, ragCalls <= ragCalls', FetchingInv',
         \A n \in DOMAIN fetches' : n \in DOMAIN fetches \/ n = ragCalls + 1,
         Len(ragQueue) + Cardinality(DOMAIN fetches') <= ragCalls'
  PROVE  RagInv' /\ RagStep
<1>1. ragCalls \in Nat /\ ragCalls' \in Nat /\ ragCalls + 1 \notin 1..ragCalls
      /\ (1..ragCalls) \subseteq 1..ragCalls'
  <2>1. ragCalls \in Nat /\ ragCalls' \in Nat
    BY FetchCount, KnowledgeAssumption DEF RagInv
  <2> QED
    BY <2>1
<1>2. QueueNumbers' = QueueNumbers /\ QueueNumbers \subseteq 1..ragCalls
  BY DEF QueueNumbers, RagInv, RagQueueInv
<1>3. \A p \in Pending' : p \in Pending \/ p \notin 1..ragCalls
  BY <1>1, <1>2 DEF Pending
<1>4. RagFileInv' /\ RagStep
  BY <1>1, <1>3, QuietRagFile DEF RagInv
<1>5. RagQueueInv'
  BY <1>1, <1>2 DEF RagInv, RagQueueInv
<1> QED
  BY <1>4, <1>5 DEF RagInv, RagCounts

\* A fetch begins, or is not allowed to.
LEMMA FetchBeginsSafe ==
  ASSUME RagInv, NEW t \in RagTenants, NEW ingest \in BOOLEAN, NEW url \in Urls,
         FetchBegins(t, ingest, url)
  PROVE  RagInv' /\ RagStep
<1>1. /\ ragCalls < MaxRagCalls /\ ragCalls' = ragCalls + 1
      /\ UNCHANGED <<ragFile, ragQueue, ragRuns, ragCrashes>>
      /\ \/ fetches' = [n \in DOMAIN fetches \cup {ragCalls + 1} |->
                          IF n = ragCalls + 1
                            THEN [tenant |-> t, ingest |-> ingest, step |-> "resolve", hops |-> <<url>>]
                            ELSE fetches[n]]
         \/ fetches' = fetches
  BY DEF FetchBegins
<1>2. /\ ragCalls \in Nat /\ MaxRagCalls \in Nat
      /\ IsFiniteSet(DOMAIN fetches) /\ Cardinality(DOMAIN fetches) \in Nat
  BY FetchCount, KnowledgeAssumption DEF RagInv
<1>3. ragCalls' \in 0..MaxRagCalls /\ ragCalls <= ragCalls' /\ ragCalls + 1 \in 1..(ragCalls + 1)
      /\ (1..ragCalls) \subseteq 1..(ragCalls + 1) /\ ragCalls + 1 \notin 1..ragCalls
  BY <1>1, <1>2
<1>4. FetchesInv'
  BY BeginsKeeps DEF RagInv, FetchingInv
<1>5. /\ FetchingInv'
      /\ \A n \in DOMAIN fetches' : n \in DOMAIN fetches \/ n = ragCalls + 1
  BY <1>1, <1>3, <1>4 DEF RagInv, FetchingInv
<1>6. Len(ragQueue) + Cardinality(DOMAIN fetches') <= ragCalls'
  <2>1. Cardinality(DOMAIN fetches \cup {ragCalls + 1}) = Cardinality(DOMAIN fetches) + 1
    BY <1>2, <1>3, FS_AddElement DEF RagInv, FetchingInv
  <2>2. \/ Cardinality(DOMAIN fetches') = Cardinality(DOMAIN fetches) + 1
        \/ Cardinality(DOMAIN fetches') = Cardinality(DOMAIN fetches)
    BY <1>1, <2>1
  <2>3. Len(ragQueue) \in Nat /\ Len(ragQueue) + Cardinality(DOMAIN fetches) <= ragCalls
    BY DEF RagInv, RagQueueInv
  <2> QED
    BY <1>1, <1>2, <2>2, <2>3
<1> QED
  BY <1>1, <1>3, <1>5, <1>6, FetchesMove

\* A hop of a fetch is resolved, or answered with a redirect.
LEMMA HopsSafe ==
  ASSUME RagInv, NEW n \in DOMAIN fetches, HopResolves(n) \/ Redirects(n)
  PROVE  RagInv' /\ RagStep
<1>1. UNCHANGED <<ragFile, ragQueue, ragRuns, ragCalls, ragCrashes>>
  BY DEF HopResolves, Redirects
<1>2. FetchesInv'
  BY ResolvesKeeps, RedirectsKeeps DEF RagInv, FetchingInv
<1>3. FetchInv(fetches[n])
  BY DEF RagInv, FetchingInv, FetchesInv
<1>4. /\ DOMAIN fetches' = DOMAIN fetches
      /\ \A m \in DOMAIN fetches :
           fetches'[m].tenant = fetches[m].tenant /\ fetches'[m].ingest = fetches[m].ingest
  <2> DEFINE f == fetches[n]
  <2>1. f = [tenant |-> f.tenant, ingest |-> f.ingest, step |-> f.step, hops |-> f.hops]
    BY <1>3 DEF FetchInv
  <2>2. CASE HopResolves(n)
    BY <2>1, <2>2 DEF HopResolves
  <2>3. CASE Redirects(n)
    <3>1. PICK next \in Urls :
            fetches' = [fetches EXCEPT ![n].step = "resolve", ![n].hops = Append(@, next)]
      BY <2>3 DEF Redirects
    <3>2. DOMAIN fetches' = DOMAIN fetches /\ \A m \in DOMAIN fetches \ {n} : fetches'[m] = fetches[m]
      BY <3>1
    <3>3. PICK new : new = [tenant |-> f.tenant, ingest |-> f.ingest, step |-> "resolve",
                            hops |-> Append(f.hops, next)]
      OBVIOUS
    <3>4. fetches'[n] = new
      <4>1. fetches'[n] = [f EXCEPT !.step = "resolve", !.hops = Append(f.hops, next)]
        BY <3>1
      <4> QED
        BY <2>1, <3>3, <4>1
    <3> QED
      BY <3>2, <3>3, <3>4
  <2> QED
    BY <2>2, <2>3
<1>5. FetchingInv'
  BY <1>1, <1>2, <1>4 DEF RagInv, FetchingInv
<1>6. ragCalls \in Nat /\ ragCalls' = ragCalls /\ ragCalls <= ragCalls' /\ ragCalls' \in 0..MaxRagCalls
  BY <1>1, FetchCount DEF RagInv, RagCounts
<1>7. Len(ragQueue) + Cardinality(DOMAIN fetches') <= ragCalls'
  BY <1>1, <1>4 DEF RagInv, RagQueueInv
<1> QED
  BY <1>1, <1>4, <1>5, <1>6, <1>7, FetchesMove

\* A fetch is over.
LEMMA OthersFacts ==
  ASSUME RagInv, NEW n \in DOMAIN fetches, fetches' = Others(n), ragCalls' = ragCalls
  PROVE  /\ FetchingInv' /\ DOMAIN fetches' = DOMAIN fetches \ {n}
         /\ Cardinality(DOMAIN fetches') = Cardinality(DOMAIN fetches) - 1
         /\ Cardinality(DOMAIN fetches) \in Nat /\ ragCalls \in Nat
<1>1. /\ DOMAIN fetches' = DOMAIN fetches \ {n}
      /\ \A m \in DOMAIN fetches' : fetches'[m] = fetches[m]
  BY DEF Others
<1>2. /\ ragCalls \in Nat
      /\ IsFiniteSet(DOMAIN fetches) /\ Cardinality(DOMAIN fetches) \in Nat
  BY FetchCount DEF RagInv
<1>3. Cardinality(DOMAIN fetches') = Cardinality(DOMAIN fetches) - 1
  BY <1>1, <1>2, FS_RemoveElement
<1>4. FetchingInv'
  BY <1>1 DEF RagInv, FetchingInv, FetchesInv
<1> QED
  BY <1>1, <1>2, <1>3, <1>4

\* a fetch that ends without a text,
LEMMA EndsSafe ==
  ASSUME RagInv, NEW n \in DOMAIN fetches, Ends(n)
  PROVE  RagInv' /\ RagStep
<1>1. fetches' = Others(n) /\ UNCHANGED <<ragFile, ragQueue, ragRuns, ragCalls, ragCrashes>>
  BY DEF Ends
<1>2. /\ FetchingInv' /\ DOMAIN fetches' = DOMAIN fetches \ {n}
      /\ Cardinality(DOMAIN fetches') = Cardinality(DOMAIN fetches) - 1
      /\ Cardinality(DOMAIN fetches) \in Nat /\ ragCalls \in Nat
  BY <1>1, OthersFacts
<1>3. Len(ragQueue) + Cardinality(DOMAIN fetches') <= ragCalls'
  <2>1. Len(ragQueue) \in Nat /\ Len(ragQueue) + Cardinality(DOMAIN fetches) <= ragCalls
    BY DEF RagInv, RagQueueInv
  <2> QED
    BY <1>1, <1>2, <2>1
<1>4. ragCalls' \in 0..MaxRagCalls /\ ragCalls <= ragCalls'
  BY <1>1, <1>2 DEF RagInv, RagCounts
<1> QED
  BY <1>1, <1>2, <1>3, <1>4, FetchesMove

\* A text that has arrived waits to be ingested under the number of its fetch.
LEMMA ArrivesSafe ==
  ASSUME RagInv, NEW n \in DOMAIN fetches, Arrives(n)
  PROVE  RagInv' /\ RagStep
<1>1. PICK chunks \in 0..1 :
        RagStore!Waits([op |-> "ingest", number |-> n, tenant |-> fetches[n].tenant,
                        batch |-> <<[id |-> NoDocumentId, chunks |-> chunks]>>])
  BY DEF Arrives
<1>2. PICK call : call = [op |-> "ingest", number |-> n, tenant |-> fetches[n].tenant,
                          batch |-> <<[id |-> NoDocumentId, chunks |-> chunks]>>]
  OBVIOUS
<1>3. /\ fetches' = Others(n) /\ ragQueue' = Append(ragQueue, call)
      /\ UNCHANGED <<ragFile, ragRuns, ragCalls, ragCrashes>>
  BY <1>1, <1>2 DEF Arrives, RagStore!Waits
<1>4. /\ FetchingInv' /\ DOMAIN fetches' = DOMAIN fetches \ {n}
      /\ Cardinality(DOMAIN fetches') = Cardinality(DOMAIN fetches) - 1
      /\ Cardinality(DOMAIN fetches) \in Nat /\ ragCalls \in Nat
  BY <1>3, OthersFacts
<1>5. n \in 1..ragCalls /\ n \in Nat /\ fetches[n].tenant \in RagTenants
  <2>1. n \in 1..ragCalls /\ fetches[n].tenant \in RagTenants
    BY DEF RagInv, FetchingInv
  <2> QED
    BY <1>4, <2>1
<1>6. call \in RagCall /\ call.number = n
  <2>1. <<[id |-> NoDocumentId, chunks |-> chunks]>> \in RagBatch
    BY DEF RagBatch
  <2> QED
    BY <1>2, <1>5, <2>1 DEF RagCall
<1>7. RagQueueInv' /\ QueueNumbers' = QueueNumbers \cup {call.number}
  <2>1. Len(ragQueue) \in Nat /\ Len(ragQueue) + Cardinality(DOMAIN fetches) <= ragCalls
        /\ n \notin QueueNumbers
    BY DEF RagInv, RagQueueInv
  <2>2. Len(ragQueue) + 1 + Cardinality(DOMAIN fetches') <= ragCalls'
    BY <1>3, <1>4, <2>1
  <2>3. ragCalls' \in Nat /\ ragCalls <= ragCalls' /\ ragCalls' = ragCalls
    BY <1>3, <1>4
  <2>4. /\ call.number \in 1..ragCalls' /\ call.number \notin QueueNumbers
        /\ call.number \notin DOMAIN fetches' /\ DOMAIN fetches' \subseteq DOMAIN fetches
    BY <1>4, <1>5, <1>6, <2>1, <2>3
  <2> QED
    BY <1>3, <1>6, <2>2, <2>3, <2>4, JoinsQueue
<1>8. \A p \in Pending' : p \in Pending \/ p \notin 1..ragCalls
  BY <1>4, <1>6, <1>7 DEF Pending
<1>9. RagFileInv' /\ RagStep
  <2>1. ragCalls' \in Nat /\ ragCalls <= ragCalls'
    BY <1>3, <1>4
  <2> QED
    BY <1>3, <1>4, <1>8, <2>1, QuietRagFile DEF RagInv
<1> QED
  BY <1>3, <1>4, <1>7, <1>9 DEF RagInv, RagCounts

\* What a handler leaves to be written changes its tenant's knowledge only.
LEMMA EffectsAreOwn ==
  ASSUME NEW call \in RagCall, NEW held, ListsItsOwn(held), call.number \notin Uses(held),
         NEW after \in RagEffects(call, held)
  PROVE  /\ ListsItsOwn(after) /\ Uses(after) \subseteq Uses(held) \cup {call.number}
         /\ \E t \in RagTenants : ChangesOnly(t, held, after)
<1>1. /\ call.number \in Nat /\ call.tenant \in RagTenants
      /\ call.op \in {"ingest", "read", "delete"}
      /\ call.op = "ingest" => call.batch \in RagBatch
  BY RagCallParts
<1>2. CASE call.op = "ingest"
  <2>1. after = Ingested(call, held) /\ call.batch \in RagBatch
    BY <1>1, <1>2 DEF RagEffects
  <2>2. Amid(call, held, after)
    BY <1>1, <2>1, IngestedFacts
  <2> QED
    BY <1>1, <2>1, <2>2, AmidFacts
<1>3. CASE call.op = "delete"
  <2>1. after = Deleted(call, held)
    BY <1>3 DEF RagEffects
  <2> QED
    BY <1>1, <2>1, DeletedFacts
<1>4. CASE call.op = "read"
  BY <1>4 DEF RagEffects
<1> QED
  BY <1>1, <1>2, <1>3, <1>4

\* A call leaves the queue.
LEMMA LeavesQueue ==
  ASSUME RagInv, ragQueue # <<>>, ragQueue' = Tail(ragQueue), UNCHANGED <<ragCalls, fetches>>
  PROVE  /\ RagQueueInv' /\ Head(ragQueue) \in RagCall
         /\ Head(ragQueue).number \in Pending \ Pending' /\ Head(ragQueue).number \in 1..ragCalls
         /\ Pending' \subseteq Pending
<1>1. PICK q \in Nat : q = Len(ragQueue) /\ ragQueue \in Seq(RagCall) /\ q >= 1
  BY DEF RagInv, RagQueueInv
<1>2. /\ ragQueue' \in Seq(RagCall) /\ Len(ragQueue') = q - 1 /\ q - 1 \in Nat
      /\ \A k \in 1..(q - 1) : ragQueue'[k] = ragQueue[k + 1]
      /\ Head(ragQueue) = ragQueue[1] /\ ragQueue[1] \in RagCall
  BY <1>1
<1>3. 1 \in 1..q /\ \A k \in 1..(q - 1) : k + 1 \in 1..q /\ k + 1 # 1 /\ k \in Nat
  BY <1>1
<1>4. QueueNumbers = {ragQueue[k].number : k \in 1..q}
  BY <1>1 DEF QueueNumbers
<1>5. QueueNumbers' = {ragQueue'[k].number : k \in 1..(q - 1)}
  BY <1>2 DEF QueueNumbers
<1>6. QueueNumbers' \subseteq QueueNumbers /\ ragQueue[1].number \in QueueNumbers
  BY <1>2, <1>3, <1>4, <1>5
<1>7. ragQueue[1].number \notin QueueNumbers'
  BY <1>1, <1>2, <1>3, <1>5 DEF RagInv, RagQueueInv
<1>8. ASSUME NEW j \in 1..(q - 1), NEW k \in 1..(q - 1), ragQueue'[j].number = ragQueue'[k].number
      PROVE  j = k
  <2>1. j + 1 = k + 1
    BY <1>1, <1>2, <1>3, <1>8 DEF RagInv, RagQueueInv
  <2> QED
    BY <2>1
<1>9. Len(ragQueue') + Cardinality(DOMAIN fetches') <= ragCalls'
  <2>1. ragCalls \in Nat /\ Cardinality(DOMAIN fetches) \in Nat
    BY FetchCount DEF RagInv
  <2>2. q + Cardinality(DOMAIN fetches) <= ragCalls
    BY <1>1 DEF RagInv, RagQueueInv
  <2>3. q - 1 + Cardinality(DOMAIN fetches) <= ragCalls
    BY <1>1, <2>1, <2>2
  <2> QED
    BY <1>2, <2>3
<1>10. RagQueueInv'
  BY <1>2, <1>6, <1>8, <1>9 DEF RagInv, RagQueueInv
<1>11. ragQueue[1].number \notin DOMAIN fetches' /\ ragQueue[1].number \in 1..ragCalls
  BY <1>6 DEF RagInv, RagQueueInv
<1> QED
  BY <1>2, <1>6, <1>7, <1>10, <1>11 DEF Pending

\* What the file says is what it has, or had before the write under way.
LEMMA RagSaysFacts ==
  ASSUME RagFileInv
  PROVE  /\ ragFile.form # "blank" => RagStore!Says = ragFile.content /\ ~RagStore!Torn
         /\ \A n \in DOMAIN ragRuns : ragRuns[n].step = "write" =>
              RagStore!Says = ragRuns[n].before /\ ~RagStore!Torn
<1>1. ragFile.form # "blank" => RagStore!Says = ragFile.content /\ ~RagStore!Torn
  BY DEF RagStore!Says, RagStore!Torn
<1>2. ASSUME NEW n \in DOMAIN ragRuns, ragRuns[n].step = "write"
      PROVE  RagStore!Says = ragRuns[n].before /\ ~RagStore!Torn
  <2>1. ragFile.form = "blank"
    BY <1>2 DEF RagFileInv, RagRunInv
  <2>2. RagStore!Writing = {n}
    BY <1>2 DEF RagFileInv, RagStore!Writing
  <2> QED
    BY <2>1, <2>2 DEF RagStore!Says, RagStore!Torn
<1> QED
  BY <1>1, <1>2

\* A call reads the file.
LEMMA BeginsRagCallSafe ==
  ASSUME RagInv, BeginsRagCall
  PROVE  RagInv' /\ RagStep
<1>1. PICK call : call = Head(ragQueue)
  OBVIOUS
<1>2. PICK held : held = ragFile.content
  OBVIOUS
<1>3. /\ ragQueue # <<>> /\ DOMAIN ragRuns = {} /\ ragQueue' = Tail(ragQueue)
      /\ UNCHANGED <<ragFile, ragCalls, fetches, ragCrashes>>
      /\ \/ /\ RagStore!Readable
            /\ \E after \in RagEffects(call, held) :
                 ragRuns' = [n \in DOMAIN ragRuns \cup {call.number} |->
                               IF n = call.number
                                 THEN [step |-> "open", before |-> held, after |-> after]
                                 ELSE ragRuns[n]]
         \/ UNCHANGED ragRuns
  <2>1. RagStore!Begins(RagEffects(call, held)) /\ UNCHANGED <<ragCalls, fetches, ragCrashes>>
    BY <1>1, <1>2 DEF BeginsRagCall
  <2>2. PICK outcomes : outcomes = RagEffects(call, held)
    OBVIOUS
  <2>3. RagStore!Begins(outcomes)
    BY <2>1, <2>2
  <2>4. /\ ragQueue # <<>> /\ DOMAIN ragRuns = {} /\ ragQueue' = Tail(ragQueue)
        /\ ragFile' = ragFile
        /\ \/ /\ RagStore!Readable
              /\ \E after \in outcomes :
                   ragRuns' = [n \in DOMAIN ragRuns \cup {call.number} |->
                                 IF n = call.number
                                   THEN [step |-> "open", before |-> held, after |-> after]
                                   ELSE ragRuns[n]]
           \/ ragRuns' = ragRuns
    BY <1>1, <1>2, <2>3 DEF RagStore!Begins, RagStore!LockFree
  <2> QED
    BY <2>1, <2>2, <2>4
<1>4. /\ RagQueueInv' /\ call \in RagCall
      /\ call.number \in Pending \ Pending' /\ call.number \in 1..ragCalls
      /\ Pending' \subseteq Pending
  BY <1>1, <1>3, LeavesQueue
<1>5. ragCalls \in Nat /\ ragCalls' \in Nat /\ ragCalls <= ragCalls' /\ Spent(held)
  BY <1>2, <1>3, FetchCount DEF RagInv, RagFileInv
<1>6. RagCounts' /\ FetchingInv'
  BY <1>3 DEF RagInv, RagCounts, FetchingInv, FetchesInv
<1>7. CASE UNCHANGED ragRuns
  <2>1. RagFileInv' /\ RagStep
    BY <1>3, <1>4, <1>5, <1>7, QuietRagFile DEF RagInv
  <2> QED
    BY <1>4, <1>6, <2>1 DEF RagInv
<1>8. ASSUME NEW after \in RagEffects(call, held), RagStore!Readable,
             ragRuns' = [n \in DOMAIN ragRuns \cup {call.number} |->
                           IF n = call.number
                             THEN [step |-> "open", before |-> held, after |-> after]
                             ELSE ragRuns[n]]
      PROVE  RagInv' /\ RagStep
  <2>1. PICK run : run = [step |-> "open", before |-> held, after |-> after]
    OBVIOUS
  <2>2. ragRuns' = [n \in {call.number} |-> run]
    BY <1>3, <1>8, <2>1
  <2>3. call.number \notin Uses(held) /\ ListsItsOwn(held)
    BY <1>4, <1>5 DEF Spent
  <2>4. /\ ListsItsOwn(after) /\ Uses(after) \subseteq Uses(held) \cup {call.number}
        /\ \E t \in RagTenants : ChangesOnly(t, held, after)
    BY <1>4, <2>3, EffectsAreOwn
  <2>5. Spent(held)'
    BY <1>4, <1>5, SpentLater
  <2>6. Spent(after)'
    <3>1. PICK used : used = Uses(after)
      OBVIOUS
    <3>2. used \subseteq 1..ragCalls'
      BY <1>3, <1>4, <1>5, <2>4, <3>1 DEF Spent
    <3>3. used \cap Pending' = {}
      BY <1>4, <1>5, <2>4, <3>1 DEF Spent
    <3> QED
      BY <2>4, <3>1, <3>2, <3>3 DEF Spent
  <2>7. ragFile.form # "blank" /\ ragFile' = ragFile
    BY <1>3, <1>8 DEF RagStore!Readable
  <2>8. /\ DOMAIN ragRuns' = {call.number} /\ ragRuns'[call.number] = run
        /\ run.step = "open" /\ run.before = held /\ run.after = after
    BY <2>1, <2>2
  <2>9. call.number \in 1..ragCalls'
    BY <1>3, <1>4
  <2>10. RagRunInv(call.number)'
    BY <1>2, <2>1, <2>4, <2>5, <2>6, <2>7, <2>8, <2>9 DEF RagRunInv
  <2>11. ragFile.content' = held /\ Spent(ragFile.content)'
    BY <1>2, <2>5, <2>7
  <2>12. RagFileInv'
    BY <2>7, <2>8, <2>10, <2>11 DEF RagInv, RagFileInv
  <2>13. RagStore!Says = held /\ RagStore!Says' = held
    BY <1>2, <2>7 DEF RagStore!Says
  <2> QED
    BY <1>4, <1>6, <2>12, <2>13 DEF RagInv, RagStep
<1> QED
  BY <1>3, <1>7, <1>8

\* Writing concerns no other part.
LEMMA QuietParts ==
  ASSUME RagInv, UNCHANGED <<ragQueue, ragCalls, fetches, ragCrashes>>
  PROVE  /\ RagCounts' /\ FetchingInv' /\ RagQueueInv' /\ Pending' = Pending
         /\ \A held : Spent(held) => Spent(held)'
<1>1. /\ RagCounts' /\ FetchingInv'
  BY DEF RagInv, RagCounts, FetchingInv, FetchesInv
<1>2. QueueNumbers' = QueueNumbers
  BY DEF QueueNumbers
<1>3. RagQueueInv' /\ Pending' = Pending
  BY <1>2 DEF RagInv, RagQueueInv, Pending
<1>4. ragCalls \in Nat /\ ragCalls' \in Nat /\ ragCalls <= ragCalls'
  BY FetchCount DEF RagInv
<1> QED
  BY <1>1, <1>3, <1>4, SpentLater

\* A call truncates the file: what it read is what the file still says.
LEMMA TruncatesRagSafe ==
  ASSUME RagInv, NEW n \in DOMAIN ragRuns, WritesRag(n), ragRuns[n].step = "open"
  PROVE  RagInv' /\ RagStep
<1>1. /\ ragFile' = [form |-> "blank", content |-> NoDocuments]
      /\ ragRuns' = [ragRuns EXCEPT ![n].step = "write"]
      /\ UNCHANGED <<ragQueue, ragCalls, fetches, ragCrashes>>
  BY DEF WritesRag, RagStore!Truncates, RagStore!Writes
<1>2. RagRunInv(n) /\ DOMAIN ragRuns = {n} /\ RagFileInv
  BY DEF RagInv, RagFileInv
<1>3. PICK was, is : /\ was = ragRuns[n].before /\ is = ragRuns[n].after
                     /\ Spent(was) /\ Spent(is)
                     /\ \E t \in RagTenants : ChangesOnly(t, was, is)
  BY <1>2 DEF RagRunInv
<1>4. ragRuns[n] = [step |-> "open", before |-> was, after |-> is] /\ n \in 1..ragCalls
  BY <1>2, <1>3 DEF RagRunInv
<1>5. ragFile.form # "blank" /\ ragFile.content = was
  BY <1>2, <1>3 DEF RagRunInv
<1>6. DOMAIN ragRuns' = {n} /\ ragRuns'[n] = [step |-> "write", before |-> was, after |-> is]
  BY <1>1, <1>2, <1>4
<1>7. Spent(NoDocuments)
  <2>1. /\ NoDocuments.documents = [id \in {} |-> 0] /\ NoDocuments.chunks = {}
        /\ NoDocuments = [documents |-> NoDocuments.documents, chunks |-> NoDocuments.chunks]
    BY DEF NoDocuments
  <2>2. DOMAIN NoDocuments.documents = {} /\
        NoDocuments.documents = [id \in DOMAIN NoDocuments.documents |-> NoDocuments.documents[id]]
    BY <2>1
  <2>3. ListsItsOwn(NoDocuments)
    BY <2>1, <2>2 DEF ListsItsOwn, IsKnowledge
  <2>4. Uses(NoDocuments) = {}
    BY <2>1, <2>2 DEF Uses
  <2> QED
    BY <2>3, <2>4 DEF Spent
<1>8. /\ RagCounts' /\ FetchingInv' /\ RagQueueInv'
      /\ Spent(was)' /\ Spent(is)' /\ Spent(NoDocuments)'
  BY <1>1, <1>3, <1>7, QuietParts
<1>9. RagRunInv(n)'
  BY <1>1, <1>3, <1>4, <1>6, <1>8 DEF RagRunInv
<1>10. RagFileInv'
  <2>1. ragFile.content' = NoDocuments /\ Spent(ragFile.content)'
    BY <1>1, <1>8
  <2> QED
    BY <1>1, <1>6, <1>9, <2>1 DEF RagFileInv
<1>11. RagStore!Says = was
  BY <1>2, <1>5, RagSaysFacts
<1>12. RagStore!Says' = was
  <2>1. RagStore!Writing' = {n}
    BY <1>6 DEF RagStore!Writing
  <2>2. ragFile'.form = "blank"
    BY <1>1
  <2> QED
    BY <1>6, <2>1, <2>2 DEF RagStore!Says
<1> QED
  BY <1>8, <1>10, <1>11, <1>12 DEF RagInv, RagStep

\* A call writes the file: for a reader of the file this is where it happens.
LEMMA WritesRagSafe ==
  ASSUME RagInv, NEW n \in DOMAIN ragRuns, WritesRag(n), ragRuns[n].step # "open"
  PROVE  RagInv' /\ RagStep
<1>1. /\ ragRuns[n].step = "write"
      /\ ragFile' = [form |-> "whole", content |-> ragRuns[n].after]
      /\ ragRuns' = [m \in DOMAIN ragRuns \ {n} |-> ragRuns[m]]
      /\ UNCHANGED <<ragQueue, ragCalls, fetches, ragCrashes>>
  BY DEF WritesRag, RagStore!Truncates, RagStore!Writes
<1>2. RagRunInv(n) /\ DOMAIN ragRuns = {n} /\ RagFileInv
  BY DEF RagInv, RagFileInv
<1>3. PICK was, is : /\ was = ragRuns[n].before /\ is = ragRuns[n].after
                     /\ Spent(was) /\ Spent(is)
                     /\ \E t \in RagTenants : ChangesOnly(t, was, is)
  BY <1>2 DEF RagRunInv
<1>4. DOMAIN ragRuns' = {} /\ ragFile'.form = "whole" /\ ragFile'.content = is
  BY <1>1, <1>2, <1>3
<1>5. /\ RagCounts' /\ FetchingInv' /\ RagQueueInv' /\ Spent(is)'
  BY <1>1, <1>3, QuietParts
<1>6. RagFileInv'
  <2>1. ragFile.content' = is /\ Spent(ragFile.content)'
    BY <1>4, <1>5
  <2> QED
    BY <1>1, <1>4, <2>1 DEF RagFileInv
<1>7. RagStore!Says = was /\ ~RagStore!Torn
  BY <1>1, <1>2, <1>3, RagSaysFacts
<1>8. RagStore!Says' = is /\ ~RagStore!Torn'
  BY <1>4 DEF RagStore!Says, RagStore!Torn
<1>9. RagStep
  <2>1. PICK t \in RagTenants : ChangesOnly(t, was, is)
    BY <1>3
  <2>2. ChangesOnly(t, RagStore!Says, RagStore!Says')
    BY <1>7, <1>8, <2>1
  <2> QED
    BY <1>7, <1>8, <2>2 DEF RagStep
<1> QED
  BY <1>5, <1>6, <1>9 DEF RagInv

\* A process that dies between truncating the file and writing it leaves it torn.
LEMMA RagDiesSafe ==
  ASSUME RagInv, RagDies
  PROVE  RagInv' /\ RagStep
<1>1. /\ ragCrashes < MaxRagCrashes /\ ragCrashes' = ragCrashes + 1
      /\ ragQueue' = <<>> /\ DOMAIN ragRuns' = {} /\ DOMAIN fetches' = {}
      /\ UNCHANGED <<ragFile, ragCalls>>
  BY DEF RagDies, RagStore!Dies, RagStore!NoRuns
<1>2. ragCalls \in Nat
  BY FetchCount DEF RagInv
<1>3. QueueNumbers' = {} /\ Pending' = {}
  BY <1>1 DEF QueueNumbers, Pending
<1>4. RagCounts' /\ FetchingInv' /\ RagQueueInv'
  <2>1. RagCounts'
    BY <1>1, KnowledgeAssumption DEF RagInv, RagCounts
  <2>2. FetchingInv'
    BY <1>1 DEF FetchingInv, FetchesInv
  <2>3. ragQueue' \in Seq(RagCall) /\ Len(ragQueue') = 0
    BY <1>1
  <2>4. Cardinality(DOMAIN fetches') = 0
    BY <1>1, FS_EmptySet
  <2> QED
    BY <1>1, <1>2, <1>3, <2>1, <2>2, <2>3, <2>4 DEF RagQueueInv
<1>5. RagFileInv'
  <2>1. PICK held : held = ragFile.content /\ Spent(held)
    BY DEF RagInv, RagFileInv
  <2>2. Spent(held)'
    <3>1. ragCalls' \in Nat /\ ragCalls <= ragCalls'
      BY <1>1, <1>2
    <3> QED
      BY <1>2, <1>3, <2>1, <3>1, SpentLater
  <2>3. ragFile.content' = held /\ Spent(ragFile.content)'
    BY <1>1, <2>1, <2>2
  <2> QED
    BY <1>1, <2>3 DEF RagInv, RagFileInv
<1>6. CASE ragFile.form # "blank"
  <2>1. RagStore!Says = ragFile.content /\ RagStore!Says' = ragFile.content
    BY <1>1, <1>6 DEF RagStore!Says
  <2> QED
    BY <1>4, <1>5, <2>1 DEF RagInv, RagStep
<1>7. CASE ragFile.form = "blank"
  <2>1. RagStore!Writing' = {}
    BY <1>1 DEF RagStore!Writing
  <2>2. RagStore!Torn'
    BY <1>1, <1>7, <2>1 DEF RagStore!Torn
  <2> QED
    BY <1>4, <1>5, <2>2 DEF RagInv, RagStep
<1> QED
  BY <1>6, <1>7

\* The service starts without a file.
LEMMA RagInitSafe == RagInit => RagInv
<1> SUFFICES ASSUME RagInit PROVE RagInv
  OBVIOUS
<1>1. /\ ragFile = [form |-> "missing", content |-> NoDocuments] /\ ragQueue = <<>>
      /\ DOMAIN ragRuns = {} /\ ragCalls = 0 /\ DOMAIN fetches = {} /\ ragCrashes = 0
  BY DEF RagInit, RagStore!Init, RagStore!NoRuns
<1>2. RagCounts
  BY <1>1, KnowledgeAssumption DEF RagCounts
<1>3. FetchingInv
  BY <1>1 DEF FetchingInv, FetchesInv
<1>4. QueueNumbers = {} /\ Len(ragQueue) = 0 /\ ragQueue \in Seq(RagCall)
  BY <1>1 DEF QueueNumbers
<1>5. RagQueueInv
  <2>1. Cardinality(DOMAIN fetches) = 0
    BY <1>1, FS_EmptySet
  <2> QED
    BY <1>1, <1>4, <2>1 DEF RagQueueInv
<1>6. Spent(NoDocuments)
  <2>1. /\ NoDocuments.documents = [id \in {} |-> 0] /\ NoDocuments.chunks = {}
        /\ NoDocuments = [documents |-> NoDocuments.documents, chunks |-> NoDocuments.chunks]
    BY DEF NoDocuments
  <2>2. DOMAIN NoDocuments.documents = {} /\
        NoDocuments.documents = [id \in DOMAIN NoDocuments.documents |-> NoDocuments.documents[id]]
    BY <2>1
  <2>3. ListsItsOwn(NoDocuments)
    BY <2>1, <2>2 DEF ListsItsOwn, IsKnowledge
  <2>4. Uses(NoDocuments) = {}
    BY <2>1, <2>2 DEF Uses
  <2> QED
    BY <2>3, <2>4 DEF Spent
<1>7. RagFileInv
  BY <1>1, <1>6 DEF RagFileInv
<1> QED
  BY <1>2, <1>3, <1>5, <1>7 DEF RagInv

\* Every step is one that one tenant's call accounts for.
LEMMA RagNextSafe ==
  ASSUME RagInv, [RagNext]_ragVars
  PROVE  RagInv' /\ RagStep
<1>1. CASE UNCHANGED ragVars
  <2>1. UNCHANGED <<ragFile, ragQueue, ragRuns, ragCalls, fetches, ragCrashes>>
    BY <1>1 DEF ragVars
  <2>2. RagCounts' /\ FetchingInv' /\ RagQueueInv' /\ Pending' = Pending
    BY <2>1, QuietParts
  <2>3. RagFileInv' /\ RagStep
    <3>1. ragCalls \in Nat /\ ragCalls' \in Nat /\ ragCalls <= ragCalls'
      BY <2>1, FetchCount DEF RagInv
    <3> QED
      BY <2>1, <2>2, <3>1, QuietRagFile DEF RagInv
  <2> QED
    BY <2>2, <2>3 DEF RagInv
<1>2. ASSUME NEW t \in RagTenants,
             \/ \E batch \in RagBatches : PostDocuments(t, batch)
             \/ SearchTenantKnowledge(t) \/ ListTenantDocuments(t)
             \/ \E id \in DOMAIN ragFile.content.documents : DeleteTenantDocument(t, id)
      PROVE  RagInv' /\ RagStep
  BY <1>2, RagRoutesSafe
<1>3. ASSUME NEW t \in RagTenants, NEW url \in Urls, PreviewUrl(t, url) \/ IngestUrl(t, url)
      PROVE  RagInv' /\ RagStep
  BY <1>3, FetchBeginsSafe DEF PreviewUrl, IngestUrl
<1>4. ASSUME NEW n \in DOMAIN fetches, HopResolves(n) \/ Redirects(n)
      PROVE  RagInv' /\ RagStep
  BY <1>4, HopsSafe
<1>5. ASSUME NEW n \in DOMAIN fetches, HopRefused(n) \/ RequestFails(n) \/ Shown(n)
      PROVE  RagInv' /\ RagStep
  BY <1>5, EndsSafe DEF HopRefused, RequestFails, Shown
<1>6. ASSUME NEW n \in DOMAIN fetches, Arrives(n)
      PROVE  RagInv' /\ RagStep
  BY <1>6, ArrivesSafe
<1>7. CASE BeginsRagCall
  BY <1>7, BeginsRagCallSafe
<1>8. ASSUME NEW n \in DOMAIN ragRuns, WritesRag(n)
      PROVE  RagInv' /\ RagStep
  BY <1>8, TruncatesRagSafe, WritesRagSafe
<1>9. CASE RagDies
  BY <1>9, RagDiesSafe
<1> QED
  BY <1>1, <1>2, <1>3, <1>4, <1>5, <1>6, <1>7, <1>8, <1>9 DEF RagNext

\* The knowledge keeps its shape, whatever calls are made and wherever the process dies.
LEMMA RagInvHolds == RagSpec => []RagInv
<1> QED
  BY RagInitSafe, RagNextSafe, PTL DEF RagSpec

\* Whatever calls interleave and wherever the process dies, what the file says changes for
\* one tenant at a time, as that tenant's own call would change it.
THEOREM KnowledgeStaysApart == RagSpec => KnowledgeIsApart
<1>1. RagInv /\ [RagNext]_ragVars =>
        [LET old == RagStore!Says
             new == RagStore!Says'
         IN  ~RagStore!Torn /\ ~RagStore!Torn' => \E t \in RagTenants : ChangesOnly(t, old, new)
        ]_RagStore!Says
  BY RagNextSafe DEF RagStep
<1> QED
  BY <1>1, RagInvHolds, PTL DEF RagSpec, KnowledgeIsApart

\* The shapes of the variables follow from it.
THEOREM RagTypes == RagSpec => []RagTypeOK
<1>1. RagInv => RagTypeOK
  <2> SUFFICES ASSUME RagInv PROVE RagTypeOK
    OBVIOUS
  <2>1. ASSUME NEW n \in DOMAIN ragRuns
        PROVE  /\ n \in 1..ragCalls /\ ragRuns[n].step \in {"open", "write"}
               /\ IsKnowledge(ragRuns[n].before) /\ IsKnowledge(ragRuns[n].after)
    BY DEF RagInv, RagFileInv, RagRunInv, Spent, ListsItsOwn
  <2>2. Len(ragQueue) <= ragCalls
    <3>1. Len(ragQueue) \in Nat /\ Len(ragQueue) + Cardinality(DOMAIN fetches) <= ragCalls
      BY DEF RagInv, RagQueueInv
    <3> QED
      BY <3>1, FetchCount DEF RagInv
  <2>3. RagStore!ShapesOK(ragCalls)
    BY <2>1, <2>2 DEF RagInv, RagFileInv, RagStore!ShapesOK
  <2>4. IsKnowledge(ragFile.content)
    BY DEF RagInv, RagFileInv, Spent, ListsItsOwn
  <2>5. \A c \in RagStore!Contents : IsKnowledge(c)
    BY <2>1, <2>4 DEF RagStore!Contents
  <2>6. ASSUME NEW n \in DOMAIN fetches
        PROVE  /\ n \in 1..ragCalls /\ fetches[n].tenant \in RagTenants
               /\ fetches[n].ingest \in BOOLEAN /\ fetches[n].step \in {"resolve", "request"}
               /\ fetches[n].hops \in Seq(Urls) \ {<<>>}
    BY DEF RagInv, FetchingInv, FetchesInv, FetchInv
  <2> QED
    BY <2>3, <2>5, <2>6 DEF RagInv, RagCounts, RagTypeOK
<1> QED
  BY <1>1, RagInvHolds, PTL

-----------------------------------------------------------------------------
(* The components side by side, as TLC runs them. *)

\* A step of the services is a step of each component or leaves it alone.
LEMMA EachComponentSteps ==
  ASSUME [ServicesNext]_<<subject, sessionVars, limitVars, auditVars, modelVars, keyVars,
                          policyVars, memVars, ragVars>>
  PROVE  /\ [SessionNext]_sessionVars /\ [LimitNext]_limitVars
         /\ [AuditNext]_auditVars /\ [ModelNext]_modelVars
         /\ [KeyNext]_keyVars /\ [PolicyNext]_policyVars
         /\ [MemNext]_memVars /\ [RagNext]_ragVars
<1>1. CASE ServicesNext
  BY <1>1 DEF ServicesNext
<1>2. CASE UNCHANGED <<subject, sessionVars, limitVars, auditVars, modelVars, keyVars,
                       policyVars, memVars, ragVars>>
  BY <1>2
<1> QED
  BY <1>1, <1>2

\* Each component of the composition moves by its own specification: its steps are those of
\* ServicesSpec with it as the subject, and the others leave it alone.
LEMMA ServicesAreComponents ==
  ServicesSpec => /\ SessionSpec /\ LimitSpec /\ AuditSpec /\ ModelSpec
                  /\ KeySpec /\ PolicySpec /\ MemSpec /\ RagSpec
<1>1. ServicesInit => /\ SessionInit /\ LimitInit /\ AuditInit /\ ModelInit
                      /\ KeyInit /\ PolicyInit /\ MemInit /\ RagInit
  BY DEF ServicesInit
<1> QED
  BY <1>1, EachComponentSteps, PTL
  DEF ServicesSpec, SessionSpec, LimitSpec, AuditSpec, ModelSpec, KeySpec, PolicySpec, MemSpec,
      RagSpec

\* The components' variables keep their shapes, whichever component moves.
THEOREM ServiceTypesHold == ServicesSpec => []ServiceTypesOK
<1>1. ASSUME SessionTypeOK, LimitTypeOK, AuditTypeOK, ModelTypeOK, KeyTypeOK, PolicyTypeOK,
             MemTypeOK, RagTypeOK, subject \in Subjects
      PROVE  ServiceTypesOK
  <2> USE <1>1
  <2>1. CASE subject = "sessions"
    BY <2>1 DEF ServiceTypesOK
  <2>2. CASE subject = "limits"
    BY <2>2 DEF ServiceTypesOK
  <2>3. CASE subject = "audit"
    BY <2>3 DEF ServiceTypesOK
  <2>4. CASE subject = "model"
    BY <2>4 DEF ServiceTypesOK
  <2>5. CASE subject = "keys"
    BY <2>5 DEF ServiceTypesOK
  <2>6. CASE subject = "policies"
    BY <2>6 DEF ServiceTypesOK
  <2>7. CASE subject = "memory"
    BY <2>7 DEF ServiceTypesOK
  <2>8. CASE subject = "knowledge"
    BY <2>8 DEF ServiceTypesOK
  <2> QED
    BY <2>1, <2>2, <2>3, <2>4, <2>5, <2>6, <2>7, <2>8 DEF Subjects
<1>2. ServicesSpec => [](subject \in Subjects)
  <2>1. ServicesInit => subject \in Subjects
    BY DEF ServicesInit
  <2>2. subject \in Subjects
          /\ [ServicesNext]_<<subject, sessionVars, limitVars, auditVars, modelVars, keyVars,
                             policyVars, memVars, ragVars>>
          => (subject \in Subjects)'
    BY DEF ServicesNext
  <2> QED
    BY <2>1, <2>2, PTL DEF ServicesSpec
<1> QED
  BY <1>1, <1>2, ServicesAreComponents, SessionTypeCorrect, LimitsTypeCorrect, AuditTypeCorrect,
     ModelTypes, KeyTypes, PolicyTypeCorrect, MemoryTypes, RagTypes, PTL

\* In all three kinds of file a tenant has what it was told it has, until writes meet.
THEOREM AnswersStayKept == ServicesSpec => []AnswersAreKept
<1>1. AnsweredIsStored /\ KeysAreAsAnswered /\ ToldPolicyGoverns => AnswersAreKept
  BY DEF AnswersAreKept
<1> QED
  BY <1>1, ServicesAreComponents, AnsweredStaysStored, KeysStayAsAnswered, ToldPoliciesGovern, PTL

\* Narrowing a rule narrows what it reaches, in the run's setting too.
THEOREM PolicyRulesStayNested == ServicesSpec => []PolicyRulesNest
<1>1. RulesNest => PolicyRulesNest
  BY DEF PolicyRulesNest
<1> QED
  BY <1>1, ServicesAreComponents, RulesAlwaysNest, PTL

\* The models a request gets, and what previews say, in the run's setting too.
THEOREM ModelsStayResolved == ServicesSpec => []ModelsResolveWithinBoth
<1>1. ResolvesWithinBoth => ModelsResolveWithinBoth
  BY DEF ModelsResolveWithinBoth
<1> QED
  BY <1>1, ServicesAreComponents, ModelsStayWithinBoth, PTL

\* An update does what its preview says, in the composition.
THEOREM ServicesPreviewsComeTrue == ServicesSpec => []ModelPreviewForetells
<1>1. PreviewForetells => ModelPreviewForetells
  BY DEF ModelPreviewForetells
<1> QED
  BY <1>1, ServicesAreComponents, PreviewsComeTrue, PTL
=============================================================================
