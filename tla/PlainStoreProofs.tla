---------------------------- MODULE PlainStoreProofs ----------------------------
(***************************************************************************)
(* Lemmas about the file of PlainStore, which the model policies and the   *)
(* tenants' keys share: until a call writes over something it has not      *)
(* read, the file holds what was answered.                                 *)
(*                                                                         *)
(* That does not follow from itself: what a call will write was computed   *)
(* before the file was truncated.  The invariant follows a call through    *)
(* its steps.  While nothing stale was written, one call at most is        *)
(* between truncating and writing, none of the others holds the current    *)
(* edition then, and what it is about to write is what was answered with   *)
(* its own tenant's entry changed.  The last section proves the shapes of  *)
(* the variables, for any entries and requests.                            *)
(***************************************************************************)
EXTENDS PlainStore, TLAPS

Forms == {"missing", "blank", "garbled", "whole"}
Steps == {"access", "create", "fill", "read", "decide", "open", "write"}

IsMap(m) == m = [t \in StoreTenants |-> m[t]]

IsCall(u) ==
  /\ u = [step |-> u.step, request |-> u.request, read |-> u.read, map |-> u.map]
  /\ u.step \in Steps
  /\ u.read \in 0 .. edition
  /\ IsMap(u.map)
  /\ u.request.tenant \in StoreTenants

\* What the call will write is what was answered but for its own tenant.
Prepared(u) ==
  \A t \in StoreTenants : t # u.request.tenant => u.map[t] = answered[t]

Halfway(c) == updates[c].step \in {"fill", "write"}

CallInv(c) ==
  /\ IsCall(updates[c])
  /\ ~stale =>
       /\ Halfway(c) => plain.form = "blank"
       /\ updates[c].step = "fill" => answered = NoEntries
       /\ updates[c].step \in {"decide", "open"} /\ updates[c].read = edition =>
            plain.form = "whole"
       /\ updates[c].step = "decide" /\ updates[c].read = edition => updates[c].map = answered
       /\ updates[c].step = "open" /\ updates[c].read = edition => Prepared(updates[c])
       /\ updates[c].step = "write" => Prepared(updates[c])

KeptInv ==
  /\ edition \in Nat
  /\ stale \in BOOLEAN
  /\ IsMap(answered)
  /\ plain = Holding(plain.form, plain.map)
  /\ plain.form \in Forms
  /\ IsMap(plain.map)
  /\ ~stale =>
       /\ plain.form = "missing" => answered = NoEntries
       /\ plain.form = "whole" => plain.map = answered
       /\ \A c, d \in DOMAIN updates : Halfway(c) /\ Halfway(d) => c = d

StoreInv == KeptInv /\ \A c \in DOMAIN updates : CallInv(c)

\* The inductive invariant of a file written in place holds at the start,
LEMMA StoreInitially ==
  PlainInit => StoreInv
<1> SUFFICES ASSUME PlainInit PROVE StoreInv
  OBVIOUS
<1>1. /\ plain = [form |-> "missing", map |-> NoEntries]
      /\ edition = 0 /\ answered = NoEntries /\ stale = FALSE
      /\ DOMAIN updates = {}
  BY DEF PlainInit, Holding
<1>2. IsMap(NoEntries)
  BY DEF IsMap, NoEntries
<1>3. plain.form = "missing" /\ plain.map = NoEntries /\ plain = Holding(plain.form, plain.map)
  BY <1>1 DEF Holding
<1> QED
  BY <1>1, <1>2, <1>3 DEF StoreInv, KeptInv, Forms

-----------------------------------------------------------------------------
(* Each step of a call. *)

\* a new call keeps it,
LEMMA AsksKeeps ==
  ASSUME StoreInv, NEW c, NEW request, request.tenant \in StoreTenants, Asks(c, request)
  PROVE  StoreInv'
<1> DEFINE new == [step |-> "access", request |-> request, read |-> 0, map |-> NoEntries]
<1>1. /\ c \notin DOMAIN updates
      /\ DOMAIN updates' = DOMAIN updates \cup {c}
      /\ updates'[c] = new
      /\ \A d \in DOMAIN updates : updates'[d] = updates[d]
      /\ UNCHANGED <<plain, edition, answered, stale>>
  BY DEF Asks, Joined
<1>2. CallInv(c)'
  BY <1>1 DEF StoreInv, KeptInv, CallInv, Halfway, IsCall, IsMap, NoEntries, Steps
<1>3. \A d \in DOMAIN updates : CallInv(d)'
  BY <1>1 DEF StoreInv, CallInv, Halfway, IsCall, Prepared, NoEntries
<1>4. KeptInv'
  BY <1>1 DEF StoreInv, KeptInv, Halfway, NoEntries
<1> QED
  BY <1>1, <1>2, <1>3, <1>4 DEF StoreInv

\* a call that looks whether the file is there,
LEMMA AccessesKeeps ==
  ASSUME StoreInv, NEW c, Accesses(c)
  PROVE  StoreInv'
<1>1. /\ c \in DOMAIN updates
      /\ DOMAIN updates' = DOMAIN updates
      /\ updates'[c] = [updates[c] EXCEPT !.step = updates'[c].step]
      /\ updates'[c].step \in {"create", "read"}
      /\ \A d \in DOMAIN updates \ {c} : updates'[d] = updates[d]
      /\ UNCHANGED <<plain, edition, answered, stale>>
  BY DEF Accesses, Reached, Goes, StoreInv, CallInv, IsCall
<1>2. CallInv(c)'
  BY <1>1 DEF StoreInv, KeptInv, CallInv, Halfway, IsCall, Steps
<1>3. \A d \in DOMAIN updates \ {c} : CallInv(d)'
  BY <1>1 DEF StoreInv, CallInv, Halfway, IsCall, Prepared, NoEntries
<1>4. KeptInv'
  BY <1>1 DEF StoreInv, KeptInv, Halfway, NoEntries
<1> QED
  BY <1>1, <1>2, <1>3, <1>4 DEF StoreInv

\* Whoever truncates knowing what it truncates leaves no call that holds the edition
\* the file has now.
LEMMA TruncatesKeeps ==
  ASSUME StoreInv, NEW c \in DOMAIN updates, NEW knows \in BOOLEAN, NEW next \in {"fill", "write"},
         Truncates(c, knows, next),
         knows /\ ~stale => plain.form \in {"missing", "whole"},
         knows /\ ~stale /\ next = "fill" => answered = NoEntries,
         knows /\ ~stale /\ next = "write" => Prepared(updates[c])
  PROVE  StoreInv'
<1>1. /\ DOMAIN updates' = DOMAIN updates
      /\ updates'[c] = [updates[c] EXCEPT !.step = next]
      /\ \A d \in DOMAIN updates \ {c} : updates'[d] = updates[d]
      /\ plain' = Holding("blank", NoEntries)
      /\ edition' = edition + 1
      /\ stale' = (stale \/ ~knows)
      /\ answered' = answered
  BY DEF Truncates, Goes
<1>2. edition \in Nat /\ stale \in BOOLEAN
  BY DEF StoreInv, KeptInv
<1>3. /\ updates'[c].step = next
      /\ updates'[c].map = updates[c].map
      /\ updates'[c].request = updates[c].request
      /\ IsCall(updates[c])' 
  BY <1>1, <1>2 DEF StoreInv, CallInv, IsCall, Steps
<1>4. CallInv(c)'
  BY <1>1, <1>2, <1>3 DEF StoreInv, CallInv, Halfway, Prepared, NoEntries, Holding
<1>5. ASSUME NEW d \in DOMAIN updates \ {c}
      PROVE  CallInv(d)' /\ (~stale' => ~Halfway(d)')
  <2>1. IsCall(updates[d])' /\ updates'[d].read # edition'
    BY <1>1, <1>2, <1>5 DEF StoreInv, CallInv, IsCall
  <2>2. ~stale' => ~Halfway(d)
    BY <1>1, <1>2, <1>5 DEF StoreInv, CallInv
  <2> QED
    BY <1>1, <1>5, <2>1, <2>2 DEF CallInv, Halfway
<1>6. KeptInv'
  BY <1>1, <1>2, <1>5 DEF StoreInv, KeptInv, IsMap, NoEntries, Holding, Forms
<1> QED
  BY <1>1, <1>4, <1>5, <1>6 DEF StoreInv

\* one that makes it,
LEMMA CreatesKeeps ==
  ASSUME StoreInv, NEW c, Creates(c)
  PROVE  StoreInv'
<1>1. /\ c \in DOMAIN updates
      /\ Truncates(c, plain.form = "missing", "fill")
  BY DEF Creates, Reached
<1>2. ~stale /\ plain.form = "missing" => answered = NoEntries
  BY DEF StoreInv, KeptInv
<1> QED
  BY <1>1, <1>2, TruncatesKeeps

\* one that truncates it,
LEMMA BeginsWriteKeeps ==
  ASSUME StoreInv, NEW c, BeginsWrite(c)
  PROVE  StoreInv'
<1>1. /\ c \in DOMAIN updates
      /\ updates[c].step = "open"
      /\ Truncates(c, updates[c].read = edition, "write")
  BY DEF BeginsWrite, Reached
<1>2. ~stale /\ updates[c].read = edition => plain.form = "whole" /\ Prepared(updates[c])
  BY <1>1 DEF StoreInv, CallInv
<1> QED
  BY <1>1, <1>2, TruncatesKeeps

\* A write goes over a blank file unless something stale has been written.
LEMMA LaidOverBlank ==
  ASSUME NEW map, IsMap(map), StoreInv, plain' \in LaidOver(map)
  PROVE  /\ plain' = Holding(plain'.form, plain'.map)
         /\ plain'.form \in Forms
         /\ IsMap(plain'.map)
         /\ plain.form = "blank" => plain' = Whole(map)
BY DEF LaidOver, Whole, Holding, Forms, IsMap, NoEntries

\* one that fills it and is answered,
LEMMA FillsKeeps ==
  ASSUME StoreInv, NEW c, Fills(c)
  PROVE  StoreInv'
<1>1. /\ c \in DOMAIN updates
      /\ updates[c].step = "fill"
      /\ DOMAIN updates' = DOMAIN updates
      /\ updates'[c] = [updates[c] EXCEPT !.step = "read"]
      /\ \A d \in DOMAIN updates \ {c} : updates'[d] = updates[d]
      /\ UNCHANGED <<edition, answered, stale>>
      /\ plain' \in LaidOver(NoEntries)
  BY DEF Fills, Reached, Goes
<1>2. IsMap(NoEntries)
  BY DEF IsMap, NoEntries
<1>3. ~stale => plain.form = "blank" /\ answered = NoEntries
  BY <1>1 DEF StoreInv, CallInv, Halfway
<1>4. ~stale => plain' = Whole(answered)
  BY <1>1, <1>2, <1>3, LaidOverBlank
<1>5. updates'[c].step = "read" /\ IsCall(updates[c])'
  BY <1>1 DEF StoreInv, CallInv, IsCall, Steps
<1>6. CallInv(c)'
  BY <1>5 DEF CallInv, Halfway
<1>7. ASSUME NEW d \in DOMAIN updates \ {c}
      PROVE  CallInv(d)'
  <2>1. IsCall(updates[d])' /\ (~stale => ~Halfway(d) /\ ~Halfway(d)')
    BY <1>1, <1>7 DEF StoreInv, KeptInv, CallInv, IsCall, Halfway
  <2>2. ~stale => plain'.form = "whole"
    BY <1>4 DEF Whole, Holding
  <2> QED
    BY <1>1, <2>1, <2>2 DEF StoreInv, CallInv, Halfway, Prepared
<1>8. KeptInv'
  <2>1. ~stale => plain'.form = "whole" /\ plain'.map = answered
    BY <1>4 DEF Whole, Holding
  <2>2. ~stale => \A d \in DOMAIN updates : ~Halfway(d)'
    BY <1>1, <1>5 DEF StoreInv, KeptInv, Halfway
  <2> QED
    BY <1>1, <1>2, <2>1, <2>2, LaidOverBlank DEF StoreInv, KeptInv
<1> QED
  BY <1>1, <1>6, <1>7, <1>8 DEF StoreInv

\* A call that ends, without a write, takes nothing with it.
LEMMA FinishedKeeps ==
  ASSUME StoreInv, NEW C, updates' = [d \in DOMAIN updates \ C |-> updates[d]],
         UNCHANGED <<plain, edition, answered, stale>>
  PROVE  StoreInv'
<1>1. \A d \in DOMAIN updates' : d \in DOMAIN updates /\ updates'[d] = updates[d]
  OBVIOUS
<1>2. \A d \in DOMAIN updates' : CallInv(d)'
  BY <1>1 DEF StoreInv, CallInv, Halfway, IsCall, Prepared, NoEntries
<1>3. KeptInv'
  BY <1>1 DEF StoreInv, KeptInv, Halfway, NoEntries
<1> QED
  BY <1>2, <1>3 DEF StoreInv

\* one that reads it,
LEMMA ReadsKeeps ==
  ASSUME StoreInv, NEW c, ReadsFile(c)
  PROVE  StoreInv'
<1>1. CASE plain.form # "whole"
  BY <1>1, FinishedKeeps DEF ReadsFile, Finished
<1>2. CASE plain.form = "whole"
  <2>1. /\ c \in DOMAIN updates
        /\ DOMAIN updates' = DOMAIN updates
        /\ updates'[c] = [updates[c] EXCEPT !.step = "decide", !.read = edition,
                                            !.map = plain.map]
        /\ \A d \in DOMAIN updates \ {c} : updates'[d] = updates[d]
        /\ UNCHANGED <<plain, edition, answered, stale>>
    BY <1>2 DEF ReadsFile, Reached
  <2>2. /\ updates'[c].step = "decide" /\ updates'[c].map = plain.map
        /\ updates'[c].read = edition /\ updates'[c].request = updates[c].request
        /\ updates'[c] = [step |-> updates'[c].step, request |-> updates'[c].request,
                          read |-> updates'[c].read, map |-> updates'[c].map]
        /\ IsCall(updates[c])'
    <3>1. edition \in 0 .. edition /\ IsMap(plain.map) /\ IsCall(updates[c])
      BY <2>1 DEF StoreInv, KeptInv, CallInv
    <3>2. updates'[c] = [step |-> "decide", request |-> updates[c].request,
                         read |-> edition, map |-> plain.map]
      BY <2>1, <3>1 DEF IsCall
    <3> QED
      BY <2>1, <3>1, <3>2 DEF IsCall, IsMap, Steps
  <2>3. CallInv(c)'
    BY <1>2, <2>1, <2>2 DEF StoreInv, KeptInv, CallInv, Halfway
  <2>4. \A d \in DOMAIN updates \ {c} : CallInv(d)'
    BY <2>1 DEF StoreInv, CallInv, Halfway, IsCall, Prepared, NoEntries
  <2>5. KeptInv'
    BY <2>1, <2>2 DEF StoreInv, KeptInv, Halfway, NoEntries
  <2> QED
    BY <2>1, <2>3, <2>4, <2>5 DEF StoreInv
<1> QED
  BY <1>1, <1>2

\* What a call changes is what it read, which is what was answered.
LEMMA PutsKeeps ==
  ASSUME StoreInv, NEW c, NEW entry, Puts(c, entry)
  PROVE  StoreInv'
<1> DEFINE tenant == updates[c].request.tenant
<1>1. /\ c \in DOMAIN updates
      /\ updates[c].step = "decide"
      /\ IsCall(updates[c])
      /\ DOMAIN updates' = DOMAIN updates
      /\ \A d \in DOMAIN updates \ {c} : updates'[d] = updates[d]
      /\ UNCHANGED <<plain, edition, answered, stale>>
  BY DEF Puts, Reached, StoreInv, CallInv
<1>2. updates'[c] = [updates[c] EXCEPT !.step = "open",
                                       !.map = [updates[c].map EXCEPT ![tenant] = entry]]
  BY <1>1 DEF Puts, Reached, IsCall
<1>3. /\ updates'[c].step = "open"
      /\ updates'[c].map = [updates[c].map EXCEPT ![tenant] = entry]
      /\ updates'[c].read = updates[c].read
      /\ updates'[c].request = updates[c].request
      /\ updates'[c] = [step |-> updates'[c].step, request |-> updates'[c].request,
                        read |-> updates'[c].read, map |-> updates'[c].map]
  BY <1>1, <1>2 DEF IsCall
<1>4. IsMap([updates[c].map EXCEPT ![tenant] = entry])
  BY <1>1 DEF IsCall, IsMap
<1>5. IsCall(updates[c])'
  BY <1>1, <1>3, <1>4 DEF IsCall, Steps, IsMap
<1>6. CallInv(c)'
  BY <1>1, <1>3, <1>5 DEF StoreInv, KeptInv, CallInv, Halfway, Prepared, IsCall, IsMap
<1>7. \A d \in DOMAIN updates \ {c} : CallInv(d)'
  BY <1>1 DEF StoreInv, CallInv, Halfway, IsCall, Prepared, NoEntries
<1>8. KeptInv'
  BY <1>1, <1>3 DEF StoreInv, KeptInv, Halfway, NoEntries
<1> QED
  BY <1>1, <1>6, <1>7, <1>8 DEF StoreInv

\* What is written is what is answered, and nobody else is under way to the file.
LEMMA EndsKeeps ==
  ASSUME StoreInv, NEW c, EndsWrite(c)
  PROVE  StoreInv'
<1> DEFINE tenant == updates[c].request.tenant
           map == updates[c].map
<1>1. /\ c \in DOMAIN updates
      /\ updates[c].step = "write"
      /\ IsCall(updates[c]) /\ IsMap(map) /\ tenant \in StoreTenants
      /\ DOMAIN updates' = DOMAIN updates \ {c}
      /\ \A d \in DOMAIN updates \ {c} : updates'[d] = updates[d]
      /\ UNCHANGED <<edition, stale>>
      /\ plain' \in LaidOver(map)
      /\ answered' = [answered EXCEPT ![tenant] = map[tenant]]
  BY DEF EndsWrite, Reached, Finished, StoreInv, CallInv, IsCall
<1>2. IsMap(answered) /\ IsMap(answered')
  BY <1>1 DEF StoreInv, KeptInv, IsMap
<1>3. ~stale => plain.form = "blank" /\ map = answered'
  BY <1>1, <1>2 DEF StoreInv, CallInv, Halfway, Prepared, IsMap
<1>4. ~stale => plain'.form = "whole" /\ plain'.map = answered'
  BY <1>1, <1>3, LaidOverBlank DEF Whole, Holding
<1>5. ASSUME NEW d \in DOMAIN updates \ {c}
      PROVE  IsCall(updates[d])' /\ (~stale => ~Halfway(d)' /\ CallInv(d)')
  <2>1. IsCall(updates[d])' /\ (~stale => ~Halfway(d) /\ ~Halfway(d)')
    BY <1>1, <1>5 DEF StoreInv, KeptInv, CallInv, IsCall, Halfway
  <2>2. ~stale => ~(updates[d].step \in {"decide", "open"} /\ updates[d].read = edition)
    BY <1>1, <1>3, <1>5 DEF StoreInv, CallInv
  <2> QED
    BY <1>1, <1>5, <2>1, <2>2 DEF CallInv, Halfway
<1>6. \A d \in DOMAIN updates \ {c} : CallInv(d)'
  BY <1>1, <1>5 DEF CallInv
<1>7. KeptInv'
  BY <1>1, <1>2, <1>4, <1>5, LaidOverBlank DEF StoreInv, KeptInv
<1> QED
  BY <1>1, <1>6, <1>7 DEF StoreInv

\* The steps every store has: those of a call, and the end of all calls.
LEMMA StoreStepKeeps ==
  ASSUME StoreInv, StoreStep
  PROVE  StoreInv'
BY AccessesKeeps, CreatesKeeps, FillsKeeps, ReadsKeeps, BeginsWriteKeeps, EndsKeeps DEF StoreStep

\* one that changes nothing,
LEMMA RefusesKeeps ==
  ASSUME StoreInv, NEW c, Refuses(c)
  PROVE  StoreInv'
BY FinishedKeeps DEF Refuses, Finished

\* the end of the process,
LEMMA DeathKeeps ==
  ASSUME StoreInv, UpdatesDie
  PROVE  StoreInv'
<1>1. updates' = [d \in DOMAIN updates \ DOMAIN updates |-> updates[d]]
  BY DEF UpdatesDie
<1> QED
  BY <1>1, FinishedKeeps DEF UpdatesDie

\* and a step of something else.
LEMMA StutterKeeps ==
  ASSUME StoreInv, UNCHANGED storeVars
  PROVE  StoreInv'
BY DEF storeVars, StoreInv, KeptInv, CallInv, IsCall, IsMap, Halfway, Prepared, NoEntries, Holding

\* What the tenants were last answered is in the file: what the invariant is for.
LEMMA InvImpliesStored ==
  StoreInv => AnsweredIsStored
BY DEF StoreInv, KeptInv, AnsweredIsStored

-----------------------------------------------------------------------------
(* The shapes of the variables, whatever entries and requests the owner has. *)

\* The calls there are, of those entries and requests, whatever edition each has read.
Calls(entries, requests) ==
  [step : Steps, request : requests, read : Nat, map : [StoreTenants -> entries]]

\* The shapes, call by call.
LEMMA TypesByCall ==
  ASSUME NEW entries, NEW requests, MaxEditions \in Nat
  PROVE  StoreTypeOK(entries, requests) <=>
           /\ plain \in Files(entries) /\ edition \in 0..MaxEditions
           /\ updates = [c \in DOMAIN updates |-> updates[c]]
           /\ \A c \in DOMAIN updates :
                updates[c] \in Calls(entries, requests) /\ updates[c].read <= edition
           /\ answered \in [StoreTenants -> entries] /\ stale \in BOOLEAN
<1> DEFINE Here == [step : Steps, request : requests, read : 0..edition,
                    map : [StoreTenants -> entries]]
<1>1. ASSUME edition \in 0..MaxEditions, NEW u
      PROVE  u \in Here <=> u \in Calls(entries, requests) /\ u.read <= edition
  BY <1>1 DEF Calls
<1>2. StoreTypeOK(entries, requests) <=>
        /\ plain \in Files(entries) /\ edition \in 0..MaxEditions
        /\ updates \in [DOMAIN updates -> Here]
        /\ answered \in [StoreTenants -> entries] /\ stale \in BOOLEAN
  BY DEF StoreTypeOK, Steps
<1> HIDE DEF Here
<1>3. updates \in [DOMAIN updates -> Here] <=>
        /\ updates = [c \in DOMAIN updates |-> updates[c]]
        /\ \A c \in DOMAIN updates : updates[c] \in Here
  OBVIOUS
<1> QED
  BY <1>1, <1>2, <1>3

\* A call moves on, or all others are as they were.
LEMMA OneCallTypes ==
  ASSUME NEW entries, NEW requests, MaxEditions \in Nat, StoreTypeOK(entries, requests),
         plain' \in Files(entries), edition' \in 0..MaxEditions, edition <= edition',
         answered' \in [StoreTenants -> entries], stale' \in BOOLEAN,
         updates' = [c \in DOMAIN updates' |-> updates'[c]],
         \A c \in DOMAIN updates' :
           \/ c \in DOMAIN updates /\ updates'[c] = updates[c]
           \/ updates'[c] \in Calls(entries, requests) /\ updates'[c].read <= edition'
  PROVE  StoreTypeOK(entries, requests)'
<1>1. /\ \A c \in DOMAIN updates :
           updates[c] \in Calls(entries, requests) /\ updates[c].read <= edition
      /\ edition \in Nat /\ edition' \in Nat
  BY TypesByCall
<1>2. ASSUME NEW c \in DOMAIN updates'
      PROVE  updates'[c] \in Calls(entries, requests) /\ updates'[c].read <= edition'
  <2>1. CASE c \in DOMAIN updates /\ updates'[c] = updates[c]
    <3>1. updates[c].read \in Nat /\ updates[c].read <= edition
      BY <1>1, <2>1 DEF Calls
    <3> QED
      BY <1>1, <2>1, <3>1
  <2> QED
    BY <2>1
<1>3. updates' \in [DOMAIN updates' ->
        [step : Steps, request : requests, read : 0..edition', map : [StoreTenants -> entries]]]
  <2> DEFINE Here == [step : Steps, request : requests, read : 0..edition',
                      map : [StoreTenants -> entries]]
  <2>1. \A c \in DOMAIN updates' : updates'[c] \in Here
    BY <1>1, <1>2 DEF Calls
  <2> HIDE DEF Here
  <2>2. updates' \in [DOMAIN updates' -> Here]
    BY <2>1
  <2> QED
    BY <2>2 DEF Here
<1> QED
  BY <1>3 DEF StoreTypeOK, Steps, Files

\* A file that is not there yet holds no entry,
LEMMA TypesInitially ==
  ASSUME NEW entries, NEW requests, MaxEditions \in Nat, NoEntry \in entries, PlainInit
  PROVE  StoreTypeOK(entries, requests)
<1>1. NoEntries \in [StoreTenants -> entries]
  BY DEF NoEntries
<1>2. /\ plain = [form |-> "missing", map |-> NoEntries] /\ edition = 0 /\ answered = NoEntries
      /\ stale = FALSE /\ updates = [c \in {} |-> 0] /\ DOMAIN updates = {}
  BY DEF PlainInit, Holding
<1>3. plain \in Files(entries)
  BY <1>1, <1>2 DEF Files
<1>4. /\ updates = [c \in DOMAIN updates |-> updates[c]]
      /\ \A c \in DOMAIN updates :
           updates[c] \in Calls(entries, requests) /\ updates[c].read <= edition
  BY <1>2
<1>5. edition \in 0..MaxEditions
  BY <1>2
<1>6. stale \in BOOLEAN /\ answered \in [StoreTenants -> entries]
  BY <1>1, <1>2, Zenon
<1> QED
  BY <1>3, <1>4, <1>5, <1>6, TypesByCall

\* The steps that change only the calls under way.
LEMMA QuietTypes ==
  ASSUME NEW entries, NEW requests, MaxEditions \in Nat, StoreTypeOK(entries, requests),
         UNCHANGED <<plain, edition, answered, stale>>,
         updates' = [c \in DOMAIN updates' |-> updates'[c]],
         \A c \in DOMAIN updates' :
           \/ c \in DOMAIN updates /\ updates'[c] = updates[c]
           \/ updates'[c] \in Calls(entries, requests) /\ updates'[c].read <= edition
  PROVE  StoreTypeOK(entries, requests)'
<1>1. /\ plain' \in Files(entries) /\ edition' \in 0..MaxEditions /\ edition <= edition'
      /\ answered' \in [StoreTenants -> entries] /\ stale' \in BOOLEAN /\ edition' = edition
  BY TypesByCall
<1> QED
  BY <1>1, OneCallTypes

\* a call that is asked for or answered,
LEMMA AsksTypes ==
  ASSUME NEW entries, NEW requests, MaxEditions \in Nat, StoreTypeOK(entries, requests),
         NoEntry \in entries, NEW c, NEW request \in requests, Asks(c, request)
  PROVE  StoreTypeOK(entries, requests)'
<1>1. PICK new : new = [step |-> "access", request |-> request, read |-> 0, map |-> NoEntries]
  OBVIOUS
<1>2. /\ updates' = [d \in DOMAIN updates \cup {c} |-> IF d = c THEN new ELSE updates[d]]
      /\ UNCHANGED <<plain, edition, answered, stale>>
  BY <1>1 DEF Asks, Joined
<1>3. new \in Calls(entries, requests) /\ new.read = 0
  <2>1. NoEntries \in [StoreTenants -> entries]
    BY DEF NoEntries
  <2> QED
    BY <1>1, <2>1 DEF Calls, Steps
<1>4. 0 <= edition
  BY TypesByCall
<1> QED
  BY <1>2, <1>3, <1>4, QuietTypes

\* nor does a call that ends, or all of them with the process, or nothing at all.
LEMMA FinishedTypes ==
  ASSUME NEW entries, NEW requests, MaxEditions \in Nat, StoreTypeOK(entries, requests),
         \/ UpdatesDie \/ UNCHANGED storeVars
         \/ \E c : updates' = Finished(c) /\ UNCHANGED <<plain, edition, answered, stale>>
  PROVE  StoreTypeOK(entries, requests)'
<1>1. updates = [c \in DOMAIN updates |-> updates[c]]
  BY TypesByCall
<1>2. /\ updates' = [c \in DOMAIN updates' |-> updates'[c]]
      /\ \A c \in DOMAIN updates' : c \in DOMAIN updates /\ updates'[c] = updates[c]
      /\ UNCHANGED <<plain, edition, answered, stale>>
  BY <1>1 DEF UpdatesDie, storeVars, Finished
<1> QED
  BY <1>2, QuietTypes

\* A step of one call that keeps its request.
LEMMA MovesTypes ==
  ASSUME NEW entries, NEW requests, MaxEditions \in Nat, StoreTypeOK(entries, requests),
         NEW c \in DOMAIN updates, NEW step \in Steps, Goes(c, step),
         plain' \in Files(entries), edition' \in 0..MaxEditions, edition <= edition',
         answered' \in [StoreTenants -> entries], stale' \in BOOLEAN
  PROVE  StoreTypeOK(entries, requests)'
<1>1. /\ updates = [d \in DOMAIN updates |-> updates[d]] /\ edition \in Nat /\ edition' \in Nat
      /\ updates[c] \in Calls(entries, requests) /\ updates[c].read <= edition
  BY TypesByCall
<1>2. PICK new : new = [updates[c] EXCEPT !.step = step]
  OBVIOUS
<1>3. /\ updates' = [d \in DOMAIN updates' |-> updates'[d]] /\ updates'[c] = new
      /\ \A d \in DOMAIN updates' : d \in DOMAIN updates /\ (d = c \/ updates'[d] = updates[d])
  BY <1>1, <1>2 DEF Goes
<1>4. new \in Calls(entries, requests) /\ new.read <= edition'
  <2>1. new \in Calls(entries, requests) /\ new.read = updates[c].read /\ new.read \in Nat
    BY <1>1, <1>2 DEF Calls
  <2> QED
    BY <1>1, <2>1
<1> QED
  BY <1>3, <1>4, OneCallTypes

\* a new entry,
LEMMA PutsTypes ==
  ASSUME NEW entries, NEW requests, MaxEditions \in Nat, StoreTypeOK(entries, requests),
         NEW c, NEW entry \in entries, Puts(c, entry)
  PROVE  StoreTypeOK(entries, requests)'
<1>1. /\ updates = [d \in DOMAIN updates |-> updates[d]] /\ c \in DOMAIN updates
      /\ updates[c] \in Calls(entries, requests) /\ updates[c].read <= edition
  BY TypesByCall DEF Puts, Reached
<1>2. PICK map : map = [updates[c].map EXCEPT ![updates[c].request.tenant] = entry]
  OBVIOUS
<1>3. PICK new : new = [updates[c] EXCEPT !.step = "open", !.map = map]
  OBVIOUS
<1>4. map \in [StoreTenants -> entries]
  BY <1>1, <1>2 DEF Calls
<1>5. new \in Calls(entries, requests) /\ new.read = updates[c].read
  BY <1>1, <1>3, <1>4 DEF Calls, Steps
<1>6. /\ updates' = [d \in DOMAIN updates' |-> updates'[d]] /\ updates'[c] = new
      /\ \A d \in DOMAIN updates' : d \in DOMAIN updates /\ (d = c \/ updates'[d] = updates[d])
      /\ UNCHANGED <<plain, edition, answered, stale>>
  BY <1>1, <1>2, <1>3 DEF Puts, Calls
<1> QED
  BY <1>1, <1>5, <1>6, QuietTypes

\* What is laid over a file is a file.
LEMMA LaidOverTypes ==
  ASSUME NEW entries, NEW map \in [StoreTenants -> entries], NoEntry \in entries
  PROVE  \A file \in LaidOver(map) : file \in Files(entries)
BY DEF LaidOver, Whole, Holding, Files, NoEntries

\* and every step of the file.
LEMMA StoreStepTypes ==
  ASSUME NEW entries, NEW requests, MaxEditions \in Nat, StoreTypeOK(entries, requests),
         NoEntry \in entries, StoreStep
  PROVE  StoreTypeOK(entries, requests)'
<1>1. PICK c \in DOMAIN updates :
        Accesses(c) \/ Creates(c) \/ Fills(c) \/ ReadsFile(c) \/ BeginsWrite(c) \/ EndsWrite(c)
  BY DEF StoreStep
<1>2. /\ updates[c] \in Calls(entries, requests) /\ updates[c].read <= edition
      /\ plain \in Files(entries) /\ edition \in 0..MaxEditions /\ edition \in Nat
      /\ answered \in [StoreTenants -> entries] /\ stale \in BOOLEAN
      /\ NoEntries \in [StoreTenants -> entries]
  BY TypesByCall DEF NoEntries
<1>3. CASE Accesses(c)
  <2>1. PICK step \in Steps : Goes(c, step)
    BY <1>3 DEF Accesses, Steps
  <2>2. UNCHANGED <<plain, edition, answered, stale>>
    BY <1>3 DEF Accesses
  <2>3. edition <= edition'
    BY <1>2, <2>2
  <2> QED
    BY <1>2, <2>1, <2>2, <2>3, MovesTypes
<1>4. ASSUME NEW knows \in BOOLEAN, NEW next \in {"fill", "write"}, Truncates(c, knows, next)
      PROVE  StoreTypeOK(entries, requests)'
  <2>1. plain' \in Files(entries)
    BY <1>2, <1>4 DEF Truncates, Holding, Files
  <2>2. edition' \in 0..MaxEditions /\ edition <= edition' /\ answered' = answered /\ stale' \in BOOLEAN
    BY <1>2, <1>4 DEF Truncates
  <2>3. Goes(c, next) /\ next \in Steps
    BY <1>4 DEF Truncates, Steps
  <2> QED
    BY <1>2, <2>1, <2>2, <2>3, MovesTypes
<1>5. CASE Creates(c)
  BY <1>4, <1>5 DEF Creates
<1>6. CASE BeginsWrite(c)
  BY <1>4, <1>6 DEF BeginsWrite
<1>7. CASE Fills(c)
  <2>1. plain' \in Files(entries)
    BY <1>2, <1>7, LaidOverTypes DEF Fills
  <2>2. Goes(c, "read") /\ "read" \in Steps /\ UNCHANGED <<edition, answered, stale>>
    BY <1>7 DEF Fills, Steps
  <2>3. edition <= edition'
    BY <1>2, <2>2
  <2> QED
    BY <1>2, <2>1, <2>2, <2>3, MovesTypes
<1>8. CASE ReadsFile(c) /\ plain.form = "whole"
  <2>1. /\ updates = [d \in DOMAIN updates |-> updates[d]]
        /\ updates' = [updates EXCEPT ![c].step = "decide", ![c].read = edition, ![c].map = plain.map]
        /\ UNCHANGED <<plain, edition, answered, stale>>
    BY <1>8, TypesByCall DEF ReadsFile
  <2>2. PICK new : new = [step |-> "decide", request |-> updates[c].request, read |-> edition,
                          map |-> plain.map]
    OBVIOUS
  <2>3. plain.map \in [StoreTenants -> entries]
    BY <1>2 DEF Files
  <2>4. new \in Calls(entries, requests) /\ new.read = edition /\ new.read <= edition
    BY <1>2, <2>2, <2>3 DEF Calls, Steps
  <2>5. /\ updates' = [d \in DOMAIN updates' |-> updates'[d]] /\ updates'[c] = new
        /\ \A d \in DOMAIN updates' : d \in DOMAIN updates /\ (d = c \/ updates'[d] = updates[d])
    <3>1. updates'[c] = [updates[c] EXCEPT !.step = "decide", !.read = edition, !.map = plain.map]
      BY <2>1
    <3>2. updates[c] = [step |-> updates[c].step, request |-> updates[c].request,
                        read |-> updates[c].read, map |-> updates[c].map]
      BY <1>2 DEF Calls
    <3>3. updates'[c] = [step |-> "decide", request |-> updates[c].request,
                         read |-> edition, map |-> plain.map]
      BY <3>1, <3>2
    <3>4. \A d \in DOMAIN updates \ {c} : updates'[d] = updates[d]
      BY <2>1
    <3>5. DOMAIN updates' = DOMAIN updates /\ updates' = [d \in DOMAIN updates' |-> updates'[d]]
      BY <2>1
    <3> QED
      BY <2>2, <3>3, <3>4, <3>5
  <2> QED
    BY <2>1, <2>4, <2>5, QuietTypes
<1>9. CASE ReadsFile(c) /\ plain.form # "whole"
  BY <1>9, FinishedTypes DEF ReadsFile
<1>10. CASE EndsWrite(c)
  <2>1. PICK t, map : t = updates[c].request.tenant /\ map = updates[c].map
    OBVIOUS
  <2>2. map \in [StoreTenants -> entries]
    BY <1>2, <2>1 DEF Calls
  <2>3. plain' \in Files(entries)
    BY <1>2, <1>10, <2>1, <2>2, LaidOverTypes DEF EndsWrite
  <2>4. answered' = [answered EXCEPT ![t] = map[t]]
    BY <1>10, <2>1 DEF EndsWrite
  <2>5. answered' \in [StoreTenants -> entries]
    <3>1. CASE t \in StoreTenants
      BY <1>2, <2>2, <2>4, <3>1
    <3>2. CASE t \notin StoreTenants
      BY <1>2, <2>4, <3>2
    <3> QED
      BY <3>1, <3>2
  <2>6. /\ updates' = [d \in DOMAIN updates' |-> updates'[d]]
        /\ \A d \in DOMAIN updates' : d \in DOMAIN updates /\ updates'[d] = updates[d]
        /\ UNCHANGED <<edition, stale>>
    BY <1>10 DEF EndsWrite, Finished
  <2>7. edition <= edition' /\ edition' \in 0..MaxEditions
    BY <1>2, <2>6
  <2> QED
    BY <1>2, <2>3, <2>5, <2>6, <2>7, OneCallTypes
<1> QED
  BY <1>1, <1>3, <1>5, <1>6, <1>7, <1>8, <1>9, <1>10 DEF ReadsFile
=============================================================================
