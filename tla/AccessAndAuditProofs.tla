------------------------- MODULE AccessAndAuditProofs -------------------------
(***************************************************************************)
(* Proofs about who gets in and what is kept of it: the sessions of the UI *)
(* and the limiters before them, for any tenants, caps, lifetimes and      *)
(* numbers of restarts, and the audit log, for any limits, numbers of      *)
(* events and steps of the clock.                                          *)
(*                                                                         *)
(* The invariant of the sessions says of the store, of what is being       *)
(* written and of what the file holds that each session has a token issued *)
(* before and its queues hold exactly the sessions, oldest first, within   *)
(* the caps.  It rests on lemmas about Ascending and Picked, in which the  *)
(* queues are written.  The invariant of the audit log says that the list  *)
(* is the end of a chain, which the hash of its last event spells.         *)
(***************************************************************************)
EXTENDS UiSessions, RequestLimits, AuditLog, FiniteSetTheorems, TLAPS

-----------------------------------------------------------------------------
(* Parts of sequences. *)

\* A set whose elements can be told apart by numbers of a finite set is no larger than that.
LEMMA ToldApartByNumbers ==
  ASSUME NEW S, NEW T, IsFiniteSet(T), NEW f \in [S -> T], \A s, t \in S : f[s] = f[t] => s = t
  PROVE  Cardinality(S) <= Cardinality(T)
<1>1. f \in Injection(S, T)
  BY DEF Injection, IsInjective
<1> QED
  BY <1>1, FS_Injection

Rank(S, s) == Cardinality({r \in S : r <= s})

\* The place of a number among those of a finite set: from 1 to its size, growing with it.
LEMMA RankGrows ==
  ASSUME NEW S \in SUBSET Nat, IsFiniteSet(S), NEW s \in S
  PROVE  /\ Rank(S, s) \in 1..Cardinality(S)
         /\ \A t \in S : s < t => Rank(S, s) < Rank(S, t)
<1> DEFINE Upto(x) == {r \in S : r <= x}
<1>1. ASSUME NEW x \in S
      PROVE  IsFiniteSet(Upto(x)) /\ Cardinality(Upto(x)) \in Nat
             /\ Cardinality(Upto(x)) <= Cardinality(S)
  <2>1. Upto(x) \in SUBSET S
    OBVIOUS
  <2> HIDE DEF Upto
  <2> QED
    BY <2>1, FS_Subset, FS_CardinalityType
<1>2. Cardinality(Upto(s)) # 0
  <2>1. Upto(s) # {}
    OBVIOUS
  <2> HIDE DEF Upto
  <2> QED
    BY <1>1, <2>1, FS_EmptySet
<1>3. ASSUME NEW t \in S, s < t
      PROVE  Cardinality(Upto(s)) < Cardinality(Upto(t))
  <2>1. Upto(s) \in SUBSET Upto(t) /\ t \in Upto(t) /\ t \notin Upto(s)
    <3>1. s \in Nat /\ t \in Nat /\ s < t /\ \A r \in S : r \in Nat
      BY <1>3
    <3>2. \A r \in S : r <= s => r <= t
      BY <3>1
    <3>3. t <= t /\ ~(t <= s)
      BY <3>1
    <3> QED
      BY <3>2, <3>3
  <2> HIDE DEF Upto
  <2>2. /\ Cardinality(Upto(s)) <= Cardinality(Upto(t))
        /\ Cardinality(Upto(s)) # Cardinality(Upto(t))
    BY <1>1, <2>1, FS_Subset
  <2> QED
    BY <1>1, <2>2
<1>4. Cardinality(S) \in Nat
  BY FS_CardinalityType
<1> QED
  BY <1>1, <1>2, <1>3, <1>4 DEF Rank

\* Ascending lists a set: every number once, in order.
LEMMA AscendingLists ==
  ASSUME NEW S \in SUBSET Nat, IsFiniteSet(S)
  PROVE  /\ Cardinality(S) \in Nat
         /\ Ascending(S) \in [1..Cardinality(S) -> S]
         /\ \A s \in S : \E n \in 1..Cardinality(S) : Ascending(S)[n] = s
         /\ \A m, n \in 1..Cardinality(S) : m < n => Ascending(S)[m] < Ascending(S)[n]
<1> DEFINE size == Cardinality(S)
           rank == [s \in S |-> Rank(S, s)]
<1>1. size \in Nat /\ IsFiniteSet(1..size) /\ Cardinality(1..size) = size
  <2>1. size \in Nat
    BY FS_CardinalityType
  <2> HIDE DEF size
  <2> QED
    BY <2>1, FS_Interval
<1>2. rank \in [S -> 1..size]
  BY RankGrows
<1>3. \A s, t \in S : s # t => rank[s] # rank[t]
  <2> SUFFICES ASSUME NEW s \in S, NEW t \in S, s < t PROVE rank[s] # rank[t]
    OBVIOUS
  <2> QED
    BY <1>1, RankGrows
<1>4. \A n \in 1..size : \E s \in S : rank[s] = n
  <2>1. rank \in Injection(S, 1..size)
    BY <1>2, <1>3 DEF Injection, IsInjective
  <2>2. rank \in Surjection(S, 1..size)
    BY <1>1, <2>1, FS_Injection
  <2> QED
    BY <2>2 DEF Surjection
<1>5. ASSUME NEW n \in 1..size
      PROVE  Ascending(S)[n] \in S /\ rank[Ascending(S)[n]] = n
  <2>1. Ascending(S)[n] = CHOOSE s \in S : Rank(S, s) = n
    BY DEF Ascending, Rank
  <2>2. \E s \in S : Rank(S, s) = n
    BY <1>4
  <2> QED
    BY <2>1, <2>2
<1>6. Ascending(S) \in [1..size -> S]
  BY <1>5 DEF Ascending
<1>7. \A s \in S : \E n \in 1..size : Ascending(S)[n] = s
  BY <1>2, <1>3, <1>5
<1>8. ASSUME NEW m \in 1..size, NEW n \in 1..size, m < n
      PROVE  Ascending(S)[m] < Ascending(S)[n]
  <2>1. PICK s \in S, t \in S : s = Ascending(S)[m] /\ t = Ascending(S)[n]
    BY <1>5
  <2>2. rank[s] = m /\ rank[t] = n
    BY <1>5, <2>1
  <2>3. Rank(S, s) < Rank(S, t)
    BY <1>8, <2>2
  <2>4. ~(t < s) /\ s # t /\ s \in Nat /\ t \in Nat
    <3>1. Rank(S, s) \in Nat /\ Rank(S, t) \in Nat
      BY <1>1, <2>2
    <3> QED
      BY <2>3, <3>1, RankGrows
  <2> QED
    BY <2>1, <2>4
<1> QED
  BY <1>1, <1>6, <1>7, <1>8

\* What is picked from a sequence, in its order.
LEMMA PickedFacts ==
  ASSUME NEW T, NEW seq \in Seq(T), NEW I \in SUBSET (1..Len(seq))
  PROVE  /\ IsFiniteSet(I) /\ Cardinality(I) \in Nat /\ Cardinality(I) <= Len(seq)
         /\ Picked(seq, I) \in Seq(T) /\ Len(Picked(seq, I)) = Cardinality(I)
         /\ \A n \in 1..Cardinality(I) : \E i \in I : Picked(seq, I)[n] = seq[i]
         /\ \A i \in I : \E n \in 1..Cardinality(I) : Picked(seq, I)[n] = seq[i]
         /\ \A m, n \in 1..Cardinality(I) : m < n =>
              \E i, j \in I : i < j /\ Picked(seq, I)[m] = seq[i] /\ Picked(seq, I)[n] = seq[j]
<1>1. PICK size \in Nat : size = Len(seq)
  OBVIOUS
<1>2. /\ IsFiniteSet(I) /\ Cardinality(I) \in Nat /\ Cardinality(I) <= size
      /\ I \in SUBSET Nat
  <2>0. IsFiniteSet(1..size) /\ Cardinality(1..size) = IF 1 > size THEN 0 ELSE size - 1 + 1
    BY FS_Interval
  <2>1. IsFiniteSet(1..size) /\ Cardinality(1..size) = size /\ I \in SUBSET (1..size)
    BY <1>1, <2>0
  <2>2. IsFiniteSet(I) /\ Cardinality(I) <= size
    BY <2>1, FS_Subset
  <2>3. Cardinality(I) \in Nat
    BY <2>2, FS_CardinalityType
  <2>4. I \in SUBSET Nat
    BY <2>1
  <2> QED
    BY <2>2, <2>3, <2>4
<1>3. /\ Ascending(I) \in [1..Cardinality(I) -> I]
      /\ \A s \in I : \E n \in 1..Cardinality(I) : Ascending(I)[n] = s
      /\ \A m, n \in 1..Cardinality(I) : m < n => Ascending(I)[m] < Ascending(I)[n]
  BY <1>2, AscendingLists
<1>4. PICK c \in Nat : c = Cardinality(I)
  BY <1>2
<1>5. Picked(seq, I) = [n \in 1..c |-> seq[Ascending(I)[n]]]
  BY <1>4 DEF Picked
<1>6. \A n \in 1..c : seq[Ascending(I)[n]] \in T
  <2> TAKE n \in 1..c
  <2>1. Ascending(I)[n] \in 1..Len(seq)
    BY <1>3, <1>4
  <2> QED
    BY <2>1
<1>7. Picked(seq, I) \in Seq(T) /\ Len(Picked(seq, I)) = c
  BY <1>4, <1>5, <1>6
<1>8. \A n \in 1..c : \E i \in I : Picked(seq, I)[n] = seq[i]
  BY <1>3, <1>4, <1>5
<1>9. \A i \in I : \E n \in 1..c : Picked(seq, I)[n] = seq[i]
  BY <1>3, <1>4, <1>5
<1>10. \A m, n \in 1..c : m < n =>
         \E i, j \in I : i < j /\ Picked(seq, I)[m] = seq[i] /\ Picked(seq, I)[n] = seq[j]
  <2> TAKE m, n \in 1..c
  <2> HAVE m < n
  <2>1. Ascending(I)[m] \in I /\ Ascending(I)[n] \in I /\ Ascending(I)[m] < Ascending(I)[n]
    BY <1>3, <1>4
  <2> QED
    BY <1>5, <2>1
<1>11. c = Cardinality(I) /\ c <= Len(seq)
  BY <1>1, <1>2, <1>4
<1> QED
  BY <1>2, <1>7, <1>8, <1>9, <1>10, <1>11

-----------------------------------------------------------------------------
(* The queues of the sessions. *)

\* Of the tokens there are finitely many, and they are numbers.
LEMMA TokensFinite ==
  ASSUME NEW S \in SUBSET Tokens
  PROVE  IsFiniteSet(S) /\ Cardinality(S) \in Nat /\ S \in SUBSET Nat
<1>1. MaxSessions \in Nat
  BY SessionAssumption
<1>2. IsFiniteSet(1..MaxSessions)
  BY <1>1, FS_Interval
<1>3. IsFiniteSet(S)
  BY <1>2, FS_Subset DEF Tokens
<1> QED
  BY <1>3, FS_CardinalityType DEF Tokens

\* A queue of a set is as long as the set.
LEMMA QueueSize ==
  ASSUME NEW queue \in Seq(Tokens), NEW S, IsQueueOf(queue, S)
  PROVE  IsFiniteSet(S) /\ Cardinality(S) = Len(queue)
<1>1. PICK n \in Nat : n = Len(queue) /\ DOMAIN queue = 1..n
  OBVIOUS
<1>2. queue \in [1..n -> S] /\ \A s \in S : \E i \in 1..n : queue[i] = s
  BY <1>1 DEF IsQueueOf
<1>3. \A i, j \in 1..n : i # j => queue[i] # queue[j]
  <2>1. \A i \in 1..n : queue[i] \in Nat
    <3>1. \A i \in 1..n : queue[i] \in Tokens
      BY <1>1
    <3> QED
      BY <3>1, SessionAssumption DEF Tokens
  <2> QED
    BY <1>1, <2>1 DEF IsQueueOf
<1>4. queue \in Bijection(1..n, S)
  BY <1>2, <1>3 DEF Bijection, Injection, Surjection, IsInjective
<1>5. IsFiniteSet(1..n) /\ Cardinality(1..n) = n
  <2>1. IsFiniteSet(1..n) /\ Cardinality(1..n) = IF 1 > n THEN 0 ELSE n - 1 + 1
    BY FS_Interval
  <2> QED
    BY <2>1
<1>6. ExistsBijection(1..n, S)
  BY <1>4 DEF ExistsBijection
<1> QED
  BY <1>1, <1>5, <1>6, FS_Bijection

\* Sessions that leave a queue leave the others in order, as when UiSessionStore filters
\* one.
LEMMA WithoutKeepsQueue ==
  ASSUME NEW queue \in Seq(Tokens), NEW S, IsQueueOf(queue, S), NEW X
  PROVE  /\ Without(queue, X) \in Seq(Tokens)
         /\ IsQueueOf(Without(queue, X), S \ X)
         /\ Len(Without(queue, X)) <= Len(queue)
<1>1. PICK n \in Nat : n = Len(queue)
  OBVIOUS
<1>2. PICK I : I = {i \in 1..n : queue[i] \notin X}
  OBVIOUS
<1>3. PICK rest : rest = Without(queue, X) /\ rest = Picked(queue, I)
  BY <1>1, <1>2 DEF Without
<1>4. I \in SUBSET (1..Len(queue))
  BY <1>1, <1>2
<1>5. /\ rest \in Seq(Tokens) /\ Len(rest) = Cardinality(I) /\ Len(rest) <= n
      /\ \A m \in 1..Len(rest) : \E i \in I : rest[m] = queue[i]
      /\ \A i \in I : \E m \in 1..Len(rest) : rest[m] = queue[i]
      /\ \A l, m \in 1..Len(rest) : l < m =>
           \E i, j \in I : i < j /\ rest[l] = queue[i] /\ rest[m] = queue[j]
  <2>1. PICK c : c = Cardinality(I)
    OBVIOUS
  <2>2. /\ c <= n /\ rest \in Seq(Tokens) /\ Len(rest) = c
        /\ \A m \in 1..c : \E i \in I : rest[m] = queue[i]
        /\ \A i \in I : \E m \in 1..c : rest[m] = queue[i]
        /\ \A l, m \in 1..c : l < m =>
             \E i, j \in I : i < j /\ rest[l] = queue[i] /\ rest[m] = queue[j]
    <3>1. /\ Cardinality(I) <= Len(queue)
          /\ Picked(queue, I) \in Seq(Tokens) /\ Len(Picked(queue, I)) = Cardinality(I)
          /\ \A m \in 1..Cardinality(I) : \E i \in I : Picked(queue, I)[m] = queue[i]
          /\ \A i \in I : \E m \in 1..Cardinality(I) : Picked(queue, I)[m] = queue[i]
          /\ \A l, m \in 1..Cardinality(I) : l < m =>
               \E i, j \in I : i < j /\ Picked(queue, I)[l] = queue[i]
                              /\ Picked(queue, I)[m] = queue[j]
      BY <1>4, PickedFacts
    <3> QED
      BY <1>1, <1>3, <2>1, <3>1
  <2> QED
    BY <2>1, <2>2
<1>6. {rest[m] : m \in 1..Len(rest)} = S \ X
  <2>0. {queue[i] : i \in 1..n} = S
    BY <1>1 DEF IsQueueOf
  <2>1. \A s : s \in S <=> \E i \in 1..n : queue[i] = s
    BY <2>0
  <2>2. \A s : s \in S \ X <=> \E i \in I : queue[i] = s
    BY <1>2, <2>1
  <2>3. \A s : s \in S \ X <=> \E m \in 1..Len(rest) : rest[m] = s
    BY <1>5, <2>2
  <2> QED
    BY <2>3
<1>7. ASSUME NEW l \in 1..Len(rest), NEW m \in 1..Len(rest), l < m
      PROVE  rest[l] < rest[m]
  <2>1. PICK i \in I, j \in I : i < j /\ rest[l] = queue[i] /\ rest[m] = queue[j]
    BY <1>5, <1>7
  <2>2. i \in 1..Len(queue) /\ j \in 1..Len(queue)
    BY <1>4
  <2>3. queue[i] < queue[j]
    BY <2>1, <2>2 DEF IsQueueOf
  <2> QED
    BY <2>1, <2>3
<1> QED
  BY <1>1, <1>3, <1>5, <1>6, <1>7 DEF IsQueueOf

\* What is left of a queue when its excess is gone is within the cap.
LEMMA WithoutExcess ==
  ASSUME NEW queue \in Seq(Tokens), NEW S, IsQueueOf(queue, S), NEW cap \in Nat
  PROVE  Len(Without(queue, Excess(queue, cap))) <= cap
<1>1. PICK n \in Nat : n = Len(queue)
  OBVIOUS
<1>2. PICK I : I = {i \in 1..n : queue[i] \notin Excess(queue, cap)}
  OBVIOUS
<1>3. PICK rest : rest = Without(queue, Excess(queue, cap)) /\ rest = Picked(queue, I)
  BY <1>1, <1>2 DEF Without
<1>4. I \in SUBSET (1..Len(queue))
  BY <1>1, <1>2
<1>5. Len(rest) = Cardinality(I) /\ Cardinality(I) <= n /\ Cardinality(I) \in Nat
  BY <1>1, <1>3, <1>4, PickedFacts
<1>6. CASE n <= cap
  BY <1>3, <1>5, <1>6
<1>7. CASE n > cap
  <2>1. I \in SUBSET ((n - cap + 1)..n)
    BY <1>1, <1>2, <1>7 DEF Excess
  <2>2. /\ IsFiniteSet((n - cap + 1)..n)
        /\ Cardinality((n - cap + 1)..n) = IF n - cap + 1 > n THEN 0 ELSE n - (n - cap + 1) + 1
    BY FS_Interval
  <2>3. Cardinality((n - cap + 1)..n) = cap
    BY <1>7, <2>2
  <2>4. Cardinality(I) <= cap
    BY <2>1, <2>2, <2>3, FS_Subset
  <2> QED
    BY <1>3, <1>5, <2>4
<1> QED
  BY <1>6, <1>7

\* A token later than all of a queue goes to its end.
LEMMA AppendKeepsQueue ==
  ASSUME NEW queue \in Seq(Tokens), NEW S, IsQueueOf(queue, S),
         NEW s \in Tokens, \A r \in S : r < s
  PROVE  /\ Append(queue, s) \in Seq(Tokens)
         /\ IsQueueOf(Append(queue, s), S \cup {s})
<1>1. PICK n \in Nat : n = Len(queue)
  OBVIOUS
<1>2. PICK longer : longer = Append(queue, s)
  OBVIOUS
<1>3. /\ longer \in Seq(Tokens) /\ Len(longer) = n + 1
      /\ longer[n + 1] = s /\ \A i \in 1..n : longer[i] = queue[i]
  BY <1>1, <1>2
<1>4. \A i \in 1..n : queue[i] \in S
  BY <1>1 DEF IsQueueOf
<1>5. {longer[i] : i \in 1..(n + 1)} = S \cup {s}
  <2>1. \A r : r \in S <=> \E i \in 1..n : queue[i] = r
    BY <1>1 DEF IsQueueOf
  <2>2. \A i : i \in 1..(n + 1) <=> i \in 1..n \/ i = n + 1
    BY <1>1
  <2> QED
    BY <1>3, <2>1, <2>2
<1>6. \A i, j \in 1..(n + 1) : i < j => longer[i] < longer[j]
  <2> SUFFICES ASSUME NEW i \in 1..(n + 1), NEW j \in 1..(n + 1), i < j
               PROVE  longer[i] < longer[j]
    OBVIOUS
  <2>1. CASE j = n + 1
    BY <1>3, <1>4, <2>1
  <2>2. CASE j \in 1..n
    BY <1>1, <1>3, <2>2 DEF IsQueueOf
  <2> QED
    BY <2>1, <2>2
<1> QED
  BY <1>2, <1>3, <1>5, <1>6 DEF IsQueueOf

\* Sorting a set of sessions by creation makes their queue: what a restart builds.
LEMMA AscendingIsQueue ==
  ASSUME NEW S \in SUBSET Tokens
  PROVE  /\ Ascending(S) \in Seq(Tokens) /\ IsQueueOf(Ascending(S), S)
         /\ Len(Ascending(S)) = Cardinality(S)
<1>1. IsFiniteSet(S) /\ S \in SUBSET Nat
  BY TokensFinite
<1>2. PICK queue, n : queue = Ascending(S) /\ n = Cardinality(S)
  OBVIOUS
<1>3. /\ n \in Nat /\ queue \in [1..n -> S]
      /\ \A s \in S : \E m \in 1..n : queue[m] = s
      /\ \A l, m \in 1..n : l < m => queue[l] < queue[m]
  BY <1>1, <1>2, AscendingLists
<1>4. queue \in Seq(Tokens) /\ Len(queue) = n
  BY <1>3
<1>5. {queue[m] : m \in 1..n} = S
  BY <1>3
<1> QED
  BY <1>2, <1>3, <1>4, <1>5 DEF IsQueueOf

-----------------------------------------------------------------------------
(* The store's operations. *)

Of(st, t) == {s \in DOMAIN st.live : st.live[s].tenant = t}

\* A store of sessions numbered up to n whose queues match them.
QueuesMatch(st) ==
  /\ st.global \in Seq(Tokens) /\ IsQueueOf(st.global, DOMAIN st.live)
  /\ DOMAIN st.tenant = SessionTenants /\ st.tenant = [t \in SessionTenants |-> st.tenant[t]]
  /\ \A t \in SessionTenants :
       st.tenant[t] \in Seq(Tokens) /\ IsQueueOf(st.tenant[t], Of(st, t))

IsStore(st, n) ==
  /\ st = [live |-> st.live, global |-> st.global, tenant |-> st.tenant]
  /\ IsSnapshot(st.live) /\ \A s \in DOMAIN st.live : s <= n
  /\ QueuesMatch(st)

Capped(st) ==
  Len(st.global) <= GlobalCap /\ \A t \in SessionTenants : Len(st.tenant[t]) <= TenantCap

\* No queue of a is longer than in b.
NoLonger(x, y) ==
  /\ Len(x.global) <= Len(y.global)
  /\ \A t \in SessionTenants : Len(x.tenant[t]) <= Len(y.tenant[t])

\* Revoking takes sessions out of the map and of both queues, and does nothing else.
LEMMA RevokedFacts ==
  ASSUME NEW n, NEW st, IsStore(st, n), NEW X
  PROVE  /\ IsStore(Revoked(st, X), n) /\ NoLonger(Revoked(st, X), st)
         /\ DOMAIN Revoked(st, X).live = DOMAIN st.live \ X
         /\ \A s \in DOMAIN st.live \ X : Revoked(st, X).live[s] = st.live[s]
         /\ Capped(st) => Capped(Revoked(st, X))
<1>1. PICK rest : rest = Revoked(st, X)
  OBVIOUS
<1>2. /\ rest = [live |-> rest.live, global |-> rest.global, tenant |-> rest.tenant]
      /\ DOMAIN rest.live = DOMAIN st.live \ X
      /\ rest.live = [s \in DOMAIN st.live \ X |-> st.live[s]]
      /\ rest.global = Without(st.global, X)
      /\ DOMAIN rest.tenant = SessionTenants
      /\ rest.tenant = [t \in SessionTenants |-> rest.tenant[t]]
      /\ \A t \in SessionTenants : rest.tenant[t] = Without(st.tenant[t], X)
  BY <1>1 DEF Revoked
<1>3. \A s \in DOMAIN st.live \ X : rest.live[s] = st.live[s]
  BY <1>2
<1>4. IsSnapshot(rest.live) /\ \A s \in DOMAIN rest.live : s <= n
  BY <1>2, <1>3 DEF IsStore, IsSnapshot
<1>5. /\ rest.global \in Seq(Tokens) /\ IsQueueOf(rest.global, DOMAIN rest.live)
      /\ Len(rest.global) <= Len(st.global)
  <2>1. st.global \in Seq(Tokens) /\ IsQueueOf(st.global, DOMAIN st.live)
    BY DEF IsStore, QueuesMatch
  <2>2. /\ Without(st.global, X) \in Seq(Tokens)
        /\ IsQueueOf(Without(st.global, X), DOMAIN st.live \ X)
        /\ Len(Without(st.global, X)) <= Len(st.global)
    BY <2>1, WithoutKeepsQueue
  <2> QED
    BY <1>2, <2>2
<1>6. ASSUME NEW t \in SessionTenants
      PROVE  /\ rest.tenant[t] \in Seq(Tokens) /\ IsQueueOf(rest.tenant[t], Of(rest, t))
             /\ Len(rest.tenant[t]) <= Len(st.tenant[t])
  <2>1. Of(rest, t) = Of(st, t) \ X
    BY <1>2, <1>3 DEF Of
  <2>2. st.tenant[t] \in Seq(Tokens) /\ IsQueueOf(st.tenant[t], Of(st, t))
    BY DEF IsStore, QueuesMatch
  <2>3. /\ Without(st.tenant[t], X) \in Seq(Tokens)
        /\ IsQueueOf(Without(st.tenant[t], X), Of(st, t) \ X)
        /\ Len(Without(st.tenant[t], X)) <= Len(st.tenant[t])
    BY <2>2, WithoutKeepsQueue
  <2> QED
    BY <1>2, <2>1, <2>3
<1>7. IsStore(rest, n) /\ NoLonger(rest, st)
  BY <1>2, <1>4, <1>5, <1>6 DEF IsStore, QueuesMatch, NoLonger
<1>8. ASSUME Capped(st) PROVE Capped(rest)
  <2>1. ASSUME NEW x, IsStore(x, n)
        PROVE  Len(x.global) \in Nat /\ \A t \in SessionTenants : Len(x.tenant[t]) \in Nat
    <3>1. x.global \in Seq(Tokens) /\ \A t \in SessionTenants : x.tenant[t] \in Seq(Tokens)
      BY <2>1 DEF IsStore, QueuesMatch
    <3> QED
      BY <3>1
  <2>2. TenantCap \in Nat /\ GlobalCap \in Nat
    BY SessionAssumption
  <2>3. Len(rest.global) <= GlobalCap
    BY <1>7, <1>8, <2>1, <2>2 DEF Capped, NoLonger
  <2>4. ASSUME NEW t \in SessionTenants PROVE Len(rest.tenant[t]) <= TenantCap
    BY <1>7, <1>8, <2>1, <2>2 DEF Capped, NoLonger
  <2> QED
    BY <2>3, <2>4 DEF Capped
<1> QED
  BY <1>1, <1>2, <1>3, <1>7, <1>8

\* Evicting over a cap keeps the store well formed and brings the queue within that cap.
LEMMA CappedFacts ==
  ASSUME NEW n, NEW st, IsStore(st, n)
  PROVE  /\ \A t \in SessionTenants :
              IsStore(TenantCapped(st, t), n) /\ Len(TenantCapped(st, t).tenant[t]) <= TenantCap
         /\ IsStore(GlobalCapped(st), n) /\ Len(GlobalCapped(st).global) <= GlobalCap
<1>1. TenantCap \in Nat /\ GlobalCap \in Nat
  BY SessionAssumption
<1>2. ASSUME NEW t \in SessionTenants
      PROVE  /\ IsStore(TenantCapped(st, t), n)
             /\ Len(TenantCapped(st, t).tenant[t]) <= TenantCap
  <2>1. TenantCapped(st, t).tenant[t] = Without(st.tenant[t], Excess(st.tenant[t], TenantCap))
    BY DEF TenantCapped, Revoked
  <2>2. Len(TenantCapped(st, t).tenant[t]) <= TenantCap
    BY <1>1, <2>1, WithoutExcess DEF IsStore, QueuesMatch
  <2> QED
    BY <2>2, RevokedFacts DEF TenantCapped
<1>3. GlobalCapped(st).global = Without(st.global, Excess(st.global, GlobalCap))
  BY DEF GlobalCapped, Revoked
<1>4. Len(GlobalCapped(st).global) <= GlobalCap
  BY <1>1, <1>3, WithoutExcess DEF IsStore, QueuesMatch
<1> QED
  BY <1>2, <1>4, RevokedFacts DEF GlobalCapped

\* A session with a number of its own goes to the end of its queues.
LEMMA RegisteredFacts ==
  ASSUME NEW n \in Nat, n + 1 \in Tokens, NEW st, IsStore(st, n), NEW session \in Session
  PROVE  LET new == Registered(st, n + 1, session)
         IN  /\ IsStore(new, n + 1)
             /\ DOMAIN new.live = DOMAIN st.live \cup {n + 1}
             /\ \A s \in DOMAIN st.live : new.live[s] = st.live[s]
             /\ new.live[n + 1] = session
             /\ \A t \in SessionTenants : t # session.tenant => new.tenant[t] = st.tenant[t]
<1>1. PICK k : k = n + 1
  OBVIOUS
<1>2. PICK new : new = Registered(st, k, session)
  OBVIOUS
<1>3. k \in Tokens /\ \A s \in DOMAIN st.live : s < k
  <2>1. \A s \in DOMAIN st.live : s \in Nat /\ s <= n
    BY TokensFinite DEF IsStore, IsSnapshot
  <2> QED
    BY <1>1, <2>1
<1>4. session.tenant \in SessionTenants
  BY DEF Session
<1>5. /\ new = [live |-> new.live, global |-> new.global, tenant |-> new.tenant]
      /\ DOMAIN new.live = DOMAIN st.live \cup {k}
      /\ \A s \in DOMAIN st.live : s # k /\ new.live[s] = st.live[s]
      /\ new.live[k] = session
      /\ new.live = [s \in DOMAIN st.live \cup {k} |-> new.live[s]]
      /\ new.global = Append(st.global, k)
      /\ DOMAIN new.tenant = SessionTenants
      /\ new.tenant = [t \in SessionTenants |-> new.tenant[t]]
      /\ new.tenant[session.tenant] = Append(st.tenant[session.tenant], k)
      /\ \A t \in SessionTenants : t # session.tenant => new.tenant[t] = st.tenant[t]
  <2>1. \A s \in DOMAIN st.live : s # k
    <3>1. \A s \in DOMAIN st.live : s \in Nat /\ s < k
      BY <1>3, TokensFinite DEF IsStore, IsSnapshot
    <3> QED
      BY <3>1
  <2>2. /\ DOMAIN st.tenant = SessionTenants
        /\ st.tenant = [t \in SessionTenants |-> st.tenant[t]]
    BY DEF IsStore, QueuesMatch
  <2> QED
    BY <1>2, <1>4, <2>1, <2>2 DEF Registered
<1>6. IsSnapshot(new.live) /\ \A s \in DOMAIN new.live : s <= k
  <2>1. \A s \in DOMAIN new.live : new.live[s] \in Session
    BY <1>5 DEF IsStore, IsSnapshot
  <2>2. DOMAIN new.live \subseteq Tokens
    BY <1>3, <1>5 DEF IsStore, IsSnapshot
  <2>3. new.live \in [DOMAIN new.live -> Session]
    BY <1>5, <2>1
  <2>4. \A s \in DOMAIN new.live : s <= k
    <3>1. \A s \in DOMAIN st.live : s \in Nat /\ s < k
      BY <1>3, TokensFinite DEF IsStore, IsSnapshot
    <3> QED
      BY <1>1, <1>5, <3>1
  <2> QED
    BY <2>2, <2>3, <2>4 DEF IsSnapshot
<1>7. new.global \in Seq(Tokens) /\ IsQueueOf(new.global, DOMAIN new.live)
  BY <1>3, <1>5, AppendKeepsQueue DEF IsStore, QueuesMatch
<1>8. ASSUME NEW t \in SessionTenants
      PROVE  new.tenant[t] \in Seq(Tokens) /\ IsQueueOf(new.tenant[t], Of(new, t))
  <2>1. CASE t = session.tenant
    <3>1. Of(new, t) = Of(st, t) \cup {k}
      BY <1>5, <2>1 DEF Of
    <3>2. \A s \in Of(st, t) : s < k
      BY <1>3 DEF Of
    <3>3. st.tenant[t] \in Seq(Tokens) /\ IsQueueOf(st.tenant[t], Of(st, t))
      BY DEF IsStore, QueuesMatch
    <3>4. /\ Append(st.tenant[t], k) \in Seq(Tokens)
          /\ IsQueueOf(Append(st.tenant[t], k), Of(st, t) \cup {k})
      BY <1>3, <3>2, <3>3, AppendKeepsQueue
    <3> QED
      BY <1>5, <2>1, <3>1, <3>4
  <2>2. CASE t # session.tenant
    <3>1. Of(new, t) = Of(st, t)
      BY <1>5, <2>2 DEF Of
    <3>2. st.tenant[t] \in Seq(Tokens) /\ IsQueueOf(st.tenant[t], Of(st, t))
      BY DEF IsStore, QueuesMatch
    <3> QED
      BY <1>5, <2>2, <3>1, <3>2
  <2> QED
    BY <2>1, <2>2
<1>9. IsStore(new, k)
  BY <1>5, <1>6, <1>7, <1>8 DEF IsStore, QueuesMatch
<1> QED
  BY <1>1, <1>2, <1>5, <1>9

\* What issue does to the store: the cap of the tenant and then the global one.
LEMMA IssuedFacts ==
  ASSUME NEW st, IsStore(st, issuedTokens), Capped(st), NEW t \in SessionTenants,
         issuedTokens \in Nat, CanIssue, clock \in Nat
  PROVE  IsStore(Issued(st, t), issuedTokens + 1) /\ Capped(Issued(st, t))
<1> PICK n \in Nat : n = issuedTokens
  OBVIOUS
<1> PICK session : session = [tenant |-> t, expires |-> clock + SessionTtl, seen |-> clock]
  OBVIOUS
<1>1. session \in Session /\ session.tenant = t
  BY SessionAssumption DEF Session
<1>2. n + 1 \in Tokens
  BY SessionAssumption DEF CanIssue, Tokens
<1> PICK kept : kept = Revoked(st, Expired(st))
  OBVIOUS
<1> PICK added : added = Registered(kept, n + 1, session)
  OBVIOUS
<1> PICK c : c = TenantCapped(added, t)
  OBVIOUS
<1> PICK d : d = GlobalCapped(c)
  OBVIOUS
<1>3. d = Issued(st, t)
  BY DEF Issued
<1>4. IsStore(kept, n) /\ NoLonger(kept, st)
  BY RevokedFacts
<1>5. IsStore(added, n + 1) /\ \A u \in SessionTenants : u # t => added.tenant[u] = kept.tenant[u]
  BY <1>1, <1>2, <1>4, RegisteredFacts
<1>6. IsStore(c, n + 1) /\ NoLonger(c, added) /\ Len(c.tenant[t]) <= TenantCap
  BY <1>5, CappedFacts, RevokedFacts DEF TenantCapped
<1>7. IsStore(d, n + 1) /\ NoLonger(d, c) /\ Len(d.global) <= GlobalCap
  BY <1>6, CappedFacts, RevokedFacts DEF GlobalCapped
<1>8. ASSUME NEW u \in SessionTenants PROVE Len(d.tenant[u]) <= TenantCap
  <2>0. ASSUME NEW x, IsStore(x, n) \/ IsStore(x, n + 1) PROVE Len(x.tenant[u]) \in Nat
    <3>1. x.tenant[u] \in Seq(Tokens)
      BY <2>0 DEF IsStore, QueuesMatch
    <3> QED
      BY <3>1
  <2>1. /\ Len(d.tenant[u]) \in Nat /\ Len(c.tenant[u]) \in Nat /\ Len(added.tenant[u]) \in Nat
        /\ Len(kept.tenant[u]) \in Nat /\ Len(st.tenant[u]) \in Nat
    BY <1>4, <1>5, <1>6, <1>7, <2>0
  <2>2. Len(d.tenant[u]) <= Len(c.tenant[u]) /\ Len(c.tenant[u]) <= Len(added.tenant[u])
    BY <1>6, <1>7 DEF NoLonger
  <2>3. Len(kept.tenant[u]) <= Len(st.tenant[u]) /\ Len(st.tenant[u]) <= TenantCap
    BY <1>4 DEF NoLonger, Capped
  <2>4. TenantCap \in Nat
    BY SessionAssumption
  <2>5. CASE u = t
    <3>1. Len(c.tenant[u]) <= TenantCap
      BY <1>6, <2>5
    <3> QED
      BY <2>1, <2>2, <2>4, <3>1
  <2>6. CASE u # t
    <3>1. Len(added.tenant[u]) = Len(kept.tenant[u])
      BY <1>5, <2>6
    <3>2. Len(added.tenant[u]) <= TenantCap
      BY <2>1, <2>3, <2>4, <3>1
    <3> QED
      BY <2>1, <2>2, <2>4, <3>2
  <2> QED
    BY <2>5, <2>6
<1> QED
  BY <1>3, <1>7, <1>8 DEF Capped

-----------------------------------------------------------------------------
(* The sessions' invariant. *)

\* A snapshot that hydrateFromDisk can take for the store.
Kept(f) ==
  /\ IsSnapshot(f) /\ \A s \in DOMAIN f : s <= issuedTokens
  /\ Cardinality(DOMAIN f) <= GlobalCap
  /\ \A t \in SessionTenants : Cardinality({s \in DOMAIN f : f[s].tenant = t}) <= TenantCap

Restores(f) == \A s \in DOMAIN f \cup Live :
  IF s \in Live THEN s \in DOMAIN f /\ f[s] = store.live[s] ELSE clock >= f[s].expires

\* What the file will hold when the write under way has ended.
Arriving == IF writing = <<>> THEN saved ELSE writing[1]

SessionBounds ==
  /\ issuedTokens \in 0..MaxSessions /\ saveTimer \in BOOLEAN /\ waiting \in 0..MaxWaiting
  /\ admitted \in SUBSET Admission /\ closed \in SUBSET Tokens
  /\ clock \in 0..MaxSessionTime /\ restarts \in 0..MaxRestarts

SessionInv ==
  /\ SessionBounds
  /\ IsStore(store, issuedTokens) /\ Capped(store)
  /\ Kept(saved) /\ (writing # <<>> => Len(writing) = 1 /\ Kept(writing[1]))
  /\ ~saveTimer /\ waiting = 0 => Restores(Arriving)

\* The store a process starts with.
LEMMA EmptyIsStore ==
  IsStore(EmptyStore, 0) /\ Capped(EmptyStore)
<1>1. EmptyStore = [live |-> EmptyStore.live, global |-> EmptyStore.global, tenant |-> EmptyStore.tenant]
  BY DEF EmptyStore
<1>2. EmptyStore.live = NoSessions /\ DOMAIN NoSessions = {}
  BY DEF EmptyStore, NoSessions
<1>3. EmptyStore.global = <<>> /\ EmptyStore.tenant = [t \in SessionTenants |-> <<>>]
  BY DEF EmptyStore
<1>4. \A t : Of(EmptyStore, t) = {}
  BY <1>2 DEF Of
<1>5. <<>> \in Seq(Tokens) /\ IsQueueOf(<<>>, {})
  <2>1. PICK e : e = <<>>
    OBVIOUS
  <2>2. e \in Seq(Tokens) /\ Len(e) = 0 /\ 1..0 = {}
    BY <2>1
  <2>3. IsQueueOf(e, {})
    BY <2>2 DEF IsQueueOf
  <2> QED
    BY <2>1, <2>2, <2>3
<1>6. IsSnapshot(NoSessions)
  <2>1. NoSessions \in [{} -> Session]
    BY DEF NoSessions
  <2> QED
    BY <1>2, <2>1 DEF IsSnapshot
<1>7. PICK e : e = <<>> /\ Len(e) = 0
  OBVIOUS
<1>8. QueuesMatch(EmptyStore)
  BY <1>2, <1>3, <1>4, <1>5, <1>7 DEF QueuesMatch
<1>9. IsStore(EmptyStore, 0)
  BY <1>1, <1>2, <1>6, <1>8 DEF IsStore
<1>10. TenantCap \in Nat /\ GlobalCap \in Nat
  BY SessionAssumption
<1>11. Capped(EmptyStore)
  BY <1>3, <1>7, <1>10 DEF Capped
<1> QED
  BY <1>9, <1>11

\* The map of a capped store can be written out, and its queues built anew from it.
LEMMA StoreIsKept ==
  ASSUME IsStore(store, issuedTokens), Capped(store)
  PROVE  Kept(store.live)
<1>1. Cardinality(Live) <= GlobalCap
  BY QueueSize DEF IsStore, QueuesMatch, Capped, Live
<1>2. ASSUME NEW t \in SessionTenants
      PROVE  Cardinality({s \in DOMAIN store.live : store.live[s].tenant = t}) <= TenantCap
  BY QueueSize DEF IsStore, QueuesMatch, Capped, Of
<1> QED
  BY <1>1, <1>2 DEF Kept, IsStore, Live

\* The inductive invariant of the sessions holds at the start,
LEMMA SessionInitially ==
  SessionInit => SessionInv
<1> SUFFICES ASSUME SessionInit PROVE SessionInv
  OBVIOUS
<1>1. IsStore(store, issuedTokens) /\ Capped(store)
  BY EmptyIsStore DEF SessionInit
<1>2. /\ saved = store.live /\ store.live = NoSessions /\ writing = <<>>
      /\ issuedTokens = 0 /\ saveTimer = FALSE /\ waiting = 0 /\ admitted = {}
      /\ closed = {} /\ clock = 0 /\ restarts = 0
  BY DEF SessionInit, EmptyStore
<1>3. Kept(saved)
  BY <1>1, <1>2, StoreIsKept
<1>4. SessionBounds
  <2>1. {MaxSessions, MaxSessionTime, MaxWaiting, MaxRestarts} \subseteq Nat
    BY SessionAssumption
  <2>2. issuedTokens \in 0..MaxSessions /\ waiting \in 0..MaxWaiting
    BY <1>2, <2>1
  <2>3. clock \in 0..MaxSessionTime /\ restarts \in 0..MaxRestarts
    BY <1>2, <2>1
  <2>4. saveTimer \in BOOLEAN
    BY <1>2
  <2> QED
    BY <1>2, <2>2, <2>3, <2>4 DEF SessionBounds
<1>5. Restores(Arriving)
  BY <1>2 DEF Restores, Arriving, Live
<1> QED
  BY <1>1, <1>2, <1>3, <1>4, <1>5 DEF SessionInv

\* What a file of sessions has: finitely many well formed sessions.
LEMMA SnapshotFacts ==
  ASSUME NEW f, IsSnapshot(f)
  PROVE  /\ IsFiniteSet(DOMAIN f)
         /\ \A s \in DOMAIN f : /\ s \in Tokens /\ s \in Nat
                                /\ f[s] \in Session /\ f[s].expires \in Nat
                                /\ f[s].tenant \in SessionTenants
BY TokensFinite DEF IsSnapshot, Session

\* What a restart reads back is a store.
LEMMA HydratedFacts ==
  ASSUME NEW f, Kept(f), clock \in Nat
  PROVE  IsStore(Hydrated(f), issuedTokens) /\ Capped(Hydrated(f))
<1> PICK new : new = Hydrated(f)
  OBVIOUS
<1> PICK kept : kept = {s \in DOMAIN f : f[s].expires > clock}
  OBVIOUS
<1>1. /\ new = [live |-> new.live, global |-> new.global, tenant |-> new.tenant]
      /\ new.live = [s \in kept |-> f[s]]
      /\ new.global = Ascending(kept)
      /\ DOMAIN new.tenant = SessionTenants
      /\ new.tenant = [t \in SessionTenants |-> new.tenant[t]]
      /\ \A t \in SessionTenants : new.tenant[t] = Ascending({s \in kept : f[s].tenant = t})
  BY DEF Hydrated
<1>2. DOMAIN new.live = kept /\ \A s \in kept : new.live[s] = f[s]
  BY <1>1
<1>3. kept \in SUBSET Tokens /\ kept \subseteq DOMAIN f
  BY SnapshotFacts DEF Kept
<1>4. IsSnapshot(new.live) /\ \A s \in DOMAIN new.live : s <= issuedTokens
  BY <1>1, <1>2, <1>3, SnapshotFacts DEF Kept, IsSnapshot
<1>5. /\ new.global \in Seq(Tokens) /\ IsQueueOf(new.global, DOMAIN new.live)
      /\ Len(new.global) <= GlobalCap
  <2>1. /\ Ascending(kept) \in Seq(Tokens) /\ IsQueueOf(Ascending(kept), kept)
        /\ Len(Ascending(kept)) = Cardinality(kept)
    BY <1>3, AscendingIsQueue
  <2>2. Cardinality(kept) <= GlobalCap
    <3>1. IsFiniteSet(DOMAIN f)
      BY SnapshotFacts DEF Kept
    <3>2. Cardinality(kept) <= Cardinality(DOMAIN f) /\ IsFiniteSet(kept)
      BY <1>3, <3>1, FS_Subset
    <3>3. Cardinality(kept) \in Nat /\ Cardinality(DOMAIN f) \in Nat /\ GlobalCap \in Nat
      BY <3>1, <3>2, FS_CardinalityType, SessionAssumption
    <3> QED
      BY <3>2, <3>3 DEF Kept
  <2> QED
    BY <1>1, <1>2, <2>1, <2>2
<1>6. ASSUME NEW t \in SessionTenants
      PROVE  /\ new.tenant[t] \in Seq(Tokens) /\ IsQueueOf(new.tenant[t], Of(new, t))
             /\ Len(new.tenant[t]) <= TenantCap
  <2> PICK own : own = {s \in kept : f[s].tenant = t}
    OBVIOUS
  <2> PICK all : all = {s \in DOMAIN f : f[s].tenant = t}
    OBVIOUS
  <2>1. own = Of(new, t) /\ own \in SUBSET Tokens /\ new.tenant[t] = Ascending(own)
    BY <1>1, <1>2, <1>3 DEF Of
  <2>2. /\ Ascending(own) \in Seq(Tokens) /\ IsQueueOf(Ascending(own), own)
        /\ Len(Ascending(own)) = Cardinality(own)
    BY <2>1, AscendingIsQueue
  <2>3. Cardinality(own) <= TenantCap
    <3>1. IsFiniteSet(all) /\ own \in SUBSET all
      <4>1. IsFiniteSet(DOMAIN f) /\ all \in SUBSET (DOMAIN f)
        BY SnapshotFacts DEF Kept
      <4>2. IsFiniteSet(all)
        BY <4>1, FS_Subset
      <4> QED
        BY <1>3, <4>2
    <3>2. Cardinality(own) <= Cardinality(all) /\ IsFiniteSet(own)
      BY <3>1, FS_Subset
    <3>3. Cardinality(own) \in Nat /\ Cardinality(all) \in Nat /\ TenantCap \in Nat
      BY <3>1, <3>2, FS_CardinalityType, SessionAssumption
    <3>4. Cardinality(all) <= TenantCap
      BY DEF Kept
    <3> QED
      BY <3>2, <3>3, <3>4
  <2> QED
    BY <2>1, <2>2, <2>3
<1> QED
  BY <1>1, <1>4, <1>5, <1>6 DEF IsStore, QueuesMatch, Capped

\* A handler leaves a store, and arms the timer if it has changed it.
LEMMA HandlerKeeps ==
  ASSUME SessionInv, SessionBounds', IsStore(store', issuedTokens'), Capped(store'),
         issuedTokens' \in {issuedTokens, issuedTokens + 1}, clock' = clock, UNCHANGED diskVars,
         store' # store \/ saveTimer => saveTimer'
  PROVE  SessionInv'
<1>1. /\ issuedTokens \in Nat /\ issuedTokens' \in Nat
      /\ writing' = writing /\ saved' = saved /\ waiting' = waiting
  BY SessionAssumption DEF SessionInv, SessionBounds, diskVars
<1>2. ASSUME NEW f, Kept(f) PROVE Kept(f)'
  <2>1. \A s \in DOMAIN f : s \in Nat /\ s <= issuedTokens
    BY <1>2, SnapshotFacts DEF Kept
  <2>2. \A s \in DOMAIN f : s <= issuedTokens'
    BY <1>1, <2>1
  <2> QED
    BY <1>2, <2>2 DEF Kept
<1>3. Kept(saved)' /\ (writing' # <<>> => Len(writing') = 1 /\ Kept(writing[1])')
  <2>1. PICK f : f = saved
    OBVIOUS
  <2>2. PICK g : g = writing[1]
    OBVIOUS
  <2>3. Kept(f) /\ (writing # <<>> => Len(writing) = 1 /\ Kept(g))
    BY <2>1, <2>2 DEF SessionInv
  <2>4. Kept(f)' /\ (writing # <<>> => Kept(g)')
    BY <1>2, <2>3
  <2>5. saved' = f /\ writing'[1] = g
    BY <1>1, <2>1, <2>2
  <2> QED
    BY <1>1, <2>3, <2>4, <2>5 DEF Kept
<1>4. ASSUME ~saveTimer' /\ waiting' = 0 PROVE Restores(Arriving)'
  <2>1. store' = store /\ ~saveTimer /\ waiting = 0
    BY <1>1, <1>4
  <2>2. Restores(Arriving)
    BY <2>1 DEF SessionInv
  <2> QED
    BY <1>1, <2>1, <2>2 DEF Restores, Arriving, Live
<1> QED
  BY <1>3, <1>4 DEF SessionInv

\* A login, with the evictions it makes, keeps the invariant,
LEMMA LoginKeeps ==
  ASSUME SessionInv, NEW t \in SessionTenants, Login(t)
  PROVE  SessionInv'
<1>1. /\ store' = Issued(store, t) /\ saveTimer' = (saveTimer \/ Issued(store, t) # store)
      /\ issuedTokens' = issuedTokens + 1 /\ CanIssue
      /\ UNCHANGED <<admitted, closed, clock, restarts>> /\ UNCHANGED diskVars
  BY DEF Login, Issue, Keep
<1>2. issuedTokens \in Nat /\ clock \in Nat
  BY SessionAssumption DEF SessionInv, SessionBounds
<1>3. IsStore(store', issuedTokens') /\ Capped(store')
  BY <1>1, <1>2, IssuedFacts DEF SessionInv
<1>4. saveTimer' \in BOOLEAN
  BY <1>1
<1>5. SessionBounds'
  BY <1>1, <1>2, <1>4, SessionAssumption DEF SessionInv, SessionBounds, CanIssue, diskVars
<1>6. store' # store \/ saveTimer => saveTimer'
  BY <1>1
<1> QED
  BY <1>1, <1>3, <1>5, <1>6, HandlerKeeps

\* Revoking within an admitted request or one with a session.
LEMMA RevokingKeeps ==
  ASSUME SessionInv, NEW X, Keep(Revoked(store, X)), closed' \in SUBSET Tokens,
         admitted' \in SUBSET Admission, UNCHANGED <<issuedTokens, clock, restarts>>,
         UNCHANGED diskVars
  PROVE  SessionInv'
<1>1. store' = Revoked(store, X) /\ saveTimer' = (saveTimer \/ Revoked(store, X) # store)
  BY DEF Keep
<1>2. IsStore(store, issuedTokens) /\ Capped(store)
  BY DEF SessionInv
<1>3. IsStore(store', issuedTokens') /\ NoLonger(store', store)
  BY <1>1, <1>2, RevokedFacts
<1>4. Capped(store')
  BY <1>1, <1>2, RevokedFacts
<1>5. saveTimer' \in BOOLEAN
  BY <1>1
<1>6. SessionBounds'
  BY <1>5 DEF SessionInv, SessionBounds, diskVars
<1>7. store' # store \/ saveTimer => saveTimer'
  BY <1>1
<1> QED
  BY <1>3, <1>4, <1>6, <1>7, HandlerKeeps

\* and so does a refresh, that ends one session and issues another,
LEMMA RefreshKeeps ==
  ASSUME SessionInv, NEW s \in Live, NEW sameTenant \in BOOLEAN, Refresh(s, sameTenant)
  PROVE  SessionInv'
<1> PICK st : st = Revoked(store, {s})
  OBVIOUS
<1> PICK t : t = store.live[s].tenant
  OBVIOUS
<1> PICK new : new = Issued(st, t)
  OBVIOUS
<1> PICK after : after = IF sameTenant THEN new ELSE Revoked(new, {issuedTokens + 1})
  OBVIOUS
<1>1. /\ store' = after /\ saveTimer' = (saveTimer \/ after # store) /\ CanIssue
      /\ closed' = closed \cup (IF sameTenant THEN {s} ELSE {s, issuedTokens + 1})
      /\ issuedTokens' = issuedTokens + 1
      /\ UNCHANGED <<admitted, clock, restarts>> /\ UNCHANGED diskVars
  BY DEF Refresh, Keep, Rotated
<1>2. issuedTokens \in Nat /\ clock \in Nat
  BY SessionAssumption DEF SessionInv, SessionBounds
<1>3. IsStore(store, issuedTokens) /\ Capped(store)
  BY DEF SessionInv
<1>4. s \in Tokens /\ t \in SessionTenants /\ issuedTokens + 1 \in Tokens
  BY <1>1, <1>2, <1>3, SnapshotFacts, SessionAssumption DEF IsStore, Live, CanIssue, Tokens
<1>6. IsStore(st, issuedTokens) /\ Capped(st)
  BY <1>3, RevokedFacts
<1>7. IsStore(new, issuedTokens + 1) /\ Capped(new)
  BY <1>1, <1>2, <1>4, <1>6, IssuedFacts
<1>8. IsStore(after, issuedTokens + 1) /\ Capped(after)
  BY <1>7, RevokedFacts
<1>9. saveTimer' \in BOOLEAN
  BY <1>1
<1>10. closed' \in SUBSET Tokens
  BY <1>1, <1>4 DEF SessionInv, SessionBounds
<1>11. SessionBounds'
  BY <1>1, <1>2, <1>9, <1>10, SessionAssumption DEF SessionInv, SessionBounds, CanIssue, diskVars
<1>12. store' # store \/ saveTimer => saveTimer'
  BY <1>1
<1> QED
  BY <1>1, <1>8, <1>11, <1>12, HandlerKeeps

\* a request that touches its session or finds it expired,
LEMMA AuthenticateKeeps ==
  ASSUME SessionInv, NEW s \in Live, NEW isAdmin \in BOOLEAN, Authenticate(s, isAdmin)
  PROVE  SessionInv'
<1>1. /\ store' = Touched(s) /\ saveTimer' = TRUE
      /\ UNCHANGED <<issuedTokens, closed, clock, restarts>> /\ UNCHANGED diskVars
      /\ \/ UNCHANGED admitted
         \/ admitted' = admitted \cup {[tenant |-> store.live[s].tenant, current |-> s]}
  BY DEF Authenticate
<1>2. IsStore(store, issuedTokens) /\ Capped(store) /\ clock \in Nat
  BY SessionAssumption DEF SessionInv, SessionBounds
<1>3. s \in Tokens /\ store.live[s] \in Session /\ store.live[s].tenant \in SessionTenants
  BY <1>2, SnapshotFacts DEF IsStore, Live
<1>4. PICK next : next = [store.live[s] EXCEPT !.seen = clock]
  OBVIOUS
<1>5. next \in Session /\ next.tenant = store.live[s].tenant
  BY <1>2, <1>3, <1>4 DEF Session
<1>6. PICK new : new = Touched(s)
  OBVIOUS
<1>7. /\ new = [live |-> new.live, global |-> new.global, tenant |-> new.tenant]
      /\ new.live = [store.live EXCEPT ![s] = next]
      /\ new.global = store.global /\ new.tenant = store.tenant
  BY <1>2, <1>4, <1>6 DEF Touched, IsStore
<1>8. /\ DOMAIN new.live = DOMAIN store.live
      /\ \A x \in DOMAIN store.live : /\ new.live[x] \in Session
                                     /\ new.live[x].tenant = store.live[x].tenant
  <2>1. \A x \in DOMAIN store.live : store.live[x] \in Session
    BY <1>2, SnapshotFacts DEF IsStore
  <2> QED
    BY <1>5, <1>7, <2>1
<1>9. IsSnapshot(new.live)
  <2>1. new.live \in [DOMAIN new.live -> Session]
    BY <1>7, <1>8
  <2> QED
    BY <1>2, <1>8, <2>1 DEF IsStore, IsSnapshot
<1>10. \A t : Of(new, t) = Of(store, t)
  BY <1>8 DEF Of
<1>11. IsStore(new, issuedTokens) /\ Capped(new)
  BY <1>2, <1>7, <1>8, <1>9, <1>10 DEF IsStore, QueuesMatch, Capped
<1>12. admitted' \in SUBSET Admission
  BY <1>1, <1>3 DEF SessionInv, SessionBounds, Admission
<1>13. SessionBounds'
  BY <1>1, <1>12 DEF SessionInv, SessionBounds, diskVars
<1> QED
  BY <1>1, <1>6, <1>11, <1>13, HandlerKeeps

\* all a user can do,
LEMMA AsUserKeeps ==
  ASSUME SessionInv, AsUser
  PROVE  SessionInv'
<1> PICK s \in Live : \/ \E sameAgent \in BOOLEAN : Inspect(s, sameAgent)
                      \/ \E sameTenant \in BOOLEAN : Refresh(s, sameTenant)
                      \/ Logout(s)
                      \/ \E isAdmin \in BOOLEAN : Authenticate(s, isAdmin)
  BY DEF AsUser
<1>0. s \in Tokens /\ admitted \in SUBSET Admission /\ closed \in SUBSET Tokens
  BY SnapshotFacts DEF SessionInv, IsStore, Live, SessionBounds
<1>1. CASE \E sameAgent \in BOOLEAN : Inspect(s, sameAgent)
  BY <1>0, <1>1, RevokingKeeps DEF Inspect
<1>2. CASE \E sameTenant \in BOOLEAN : Refresh(s, sameTenant)
  BY <1>2, RefreshKeeps
<1>3. CASE Logout(s)
  <2>1. closed' \in SUBSET Tokens /\ admitted' \in SUBSET Admission
    BY <1>0, <1>3 DEF Logout
  <2> QED
    BY <1>3, <2>1, RevokingKeeps DEF Logout
<1>4. CASE \E isAdmin \in BOOLEAN : Authenticate(s, isAdmin)
  BY <1>4, AuthenticateKeeps
<1> QED
  BY <1>1, <1>2, <1>3, <1>4

\* listing and revoking by an administrator,
LEMMA AsAdministratorKeeps ==
  ASSUME SessionInv, AsAdministrator
  PROVE  SessionInv'
<1>0. admitted \in SUBSET Admission /\ closed \in SUBSET Tokens
  BY DEF SessionInv, SessionBounds
<1>1. CASE \E t \in SessionTenants : AuthenticateKey(t)
  <2> PICK t \in SessionTenants : AuthenticateKey(t)
    BY <1>1
  <2>1. /\ admitted' = admitted \cup {[tenant |-> t, current |-> 0]}
        /\ UNCHANGED <<store, issuedTokens, saveTimer, closed, clock, restarts>>
        /\ UNCHANGED diskVars
    BY DEF AuthenticateKey
  <2>2. SessionBounds'
    BY <2>1 DEF SessionInv, SessionBounds, diskVars, Admission
  <2>3. IsStore(store', issuedTokens') /\ Capped(store')
    BY <2>1 DEF SessionInv
  <2> QED
    BY <2>1, <2>2, <2>3, HandlerKeeps
<1>2. CASE \E by \in admitted :
             \/ ListSessions(by)
             \/ \E s \in Tokens : RevokeSession(by, s)
             \/ \E exceptCurrent \in BOOLEAN : RevokeAll(by, exceptCurrent)
  <2> PICK by \in admitted : \/ ListSessions(by)
                             \/ \E s \in Tokens : RevokeSession(by, s)
                             \/ \E exceptCurrent \in BOOLEAN : RevokeAll(by, exceptCurrent)
    BY <1>2
  <2>0. Handles(by) => admitted' \in SUBSET Admission /\ UNCHANGED <<issuedTokens, clock, restarts>>
    BY <1>0 DEF Handles
  <2>1. CASE ListSessions(by)
    <3>1. closed' \in SUBSET Tokens
      BY <1>0, <2>1 DEF ListSessions
    <3> QED
      BY <2>0, <2>1, <3>1, RevokingKeeps DEF ListSessions, PrunedForList
  <2>2. CASE \E s \in Tokens : RevokeSession(by, s)
    <3> PICK s \in Tokens : RevokeSession(by, s)
      BY <2>2
    <3>1. Handles(by) /\ UNCHANGED diskVars
      BY DEF RevokeSession
    <3>2. CASE Keep(Revoked(store, {s})) /\ closed' = closed \cup {s}
      <4>1. closed' \in SUBSET Tokens
        BY <1>0, <3>2
      <4> QED
        BY <2>0, <3>1, <3>2, <4>1, RevokingKeeps
    <3>3. CASE UNCHANGED <<store, saveTimer, closed>>
      <4>1. SessionBounds'
        BY <2>0, <3>1, <3>3 DEF SessionInv, SessionBounds, diskVars
      <4>2. IsStore(store', issuedTokens') /\ Capped(store')
        BY <2>0, <3>1, <3>3 DEF SessionInv
      <4> QED
        BY <2>0, <3>1, <3>3, <4>1, <4>2, HandlerKeeps
    <3> QED
      BY <3>2, <3>3 DEF RevokeSession
  <2>3. CASE \E exceptCurrent \in BOOLEAN : RevokeAll(by, exceptCurrent)
    <3> PICK exceptCurrent \in BOOLEAN : RevokeAll(by, exceptCurrent)
      BY <2>3
    <3> PICK going : going = AllOf(by.tenant, IF exceptCurrent THEN {by.current} ELSE {})
      OBVIOUS
    <3>1. Handles(by) /\ UNCHANGED diskVars /\ Keep(Revoked(store, going))
          /\ closed' = closed \cup going
      BY DEF RevokeAll
    <3>2. going \subseteq Tokens
      <4>1. by.tenant \in SessionTenants
        BY <1>0 DEF Admission
      <4>2. store.tenant[by.tenant] \in Seq(Tokens)
        BY <4>1 DEF SessionInv, IsStore, QueuesMatch
      <4> QED
        BY <4>2 DEF AllOf
    <3>3. closed' \in SUBSET Tokens
      BY <1>0, <3>1, <3>2
    <3> QED
      BY <2>0, <3>1, <3>3, RevokingKeeps
  <2> QED
    BY <2>1, <2>2, <2>3
<1> QED
  BY <1>1, <1>2 DEF AsAdministrator

\* the steps of the debounced write,
LEMMA SessionFileKeeps ==
  ASSUME SessionInv, TimerFires \/ WriteBegins \/ WriteEnds
  PROVE  SessionInv'
<1>1. /\ UNCHANGED <<store, issuedTokens, admitted, closed, clock, restarts>>
      /\ SessionBounds'
  <2>0. MaxWaiting \in Nat /\ waiting \in 0..MaxWaiting
    BY SessionAssumption DEF SessionInv, SessionBounds
  <2>1. waiting' \in 0..MaxWaiting
    BY <2>0 DEF TimerFires, WriteBegins, WriteEnds
  <2>2. saveTimer' \in BOOLEAN
    BY DEF TimerFires, WriteBegins, WriteEnds, SessionInv, SessionBounds
  <2>3. UNCHANGED <<store, issuedTokens, admitted, closed, clock, restarts>>
    BY DEF TimerFires, WriteBegins, WriteEnds
  <2> QED
    BY <2>1, <2>2, <2>3 DEF SessionInv, SessionBounds
<1>2. Kept(store.live)
  BY StoreIsKept DEF SessionInv
<1>3. /\ IsStore(store, issuedTokens)' /\ Capped(store)'
      /\ \A f : Kept(f) => Kept(f)'
  BY <1>1 DEF SessionInv, Kept
<1>4. CASE TimerFires
  <2>1. UNCHANGED <<writing, saved>> /\ waiting' = waiting + 1 /\ waiting \in Nat
    BY <1>4, SessionAssumption DEF TimerFires, SessionInv, SessionBounds
  <2>2. waiting' # 0
    BY <2>1
  <2> QED
    BY <1>1, <1>3, <2>1, <2>2 DEF SessionInv, Kept
<1>5. CASE WriteBegins
  <2>1. /\ UNCHANGED <<saved, saveTimer>> /\ writing' = <<store.live>>
    BY <1>5 DEF WriteBegins
  <2>2. Len(writing') = 1 /\ writing'[1] = store.live /\ writing' # <<>>
    BY <2>1
  <2>3. Kept(saved)' /\ Kept(writing[1])'
    BY <1>1, <1>2, <2>1, <2>2 DEF SessionInv, Kept
  <2>4. Restores(Arriving)'
    BY <1>1, <2>2 DEF Restores, Arriving, Live
  <2> QED
    BY <1>1, <1>3, <2>2, <2>3, <2>4 DEF SessionInv
<1>6. CASE WriteEnds
  <2>1. /\ UNCHANGED <<waiting, saveTimer>> /\ writing # <<>>
        /\ saved' = writing[1] /\ writing' = <<>>
    BY <1>6 DEF WriteEnds
  <2>2. Kept(saved)'
    BY <1>1, <2>1 DEF SessionInv, Kept
  <2>3. Restores(Arriving) => Restores(Arriving)'
    BY <1>1, <2>1 DEF Restores, Arriving, Live
  <2> QED
    BY <1>1, <1>3, <2>1, <2>2, <2>3 DEF SessionInv
<1> QED
  BY <1>4, <1>5, <1>6

\* a restart, which sanitizes, prunes and caps what the file has,
LEMMA SessionRestartKeeps ==
  ASSUME SessionInv, Restart
  PROVE  SessionInv'
<1>1. /\ store' = Hydrated(saved) /\ saveTimer' = FALSE /\ waiting' = 0 /\ writing' = <<>>
      /\ admitted' = {} /\ restarts < MaxRestarts /\ restarts' = restarts + 1
      /\ UNCHANGED <<issuedTokens, saved, closed, clock>>
  BY DEF Restart
<1>2. {MaxWaiting, MaxRestarts} \subseteq Nat /\ clock \in Nat /\ Kept(saved)
  BY SessionAssumption DEF SessionInv, SessionBounds
<1>3. waiting' \in 0..MaxWaiting /\ restarts' \in 0..MaxRestarts
  BY <1>1, <1>2 DEF SessionInv, SessionBounds
<1>4. saveTimer' \in BOOLEAN
  BY <1>1
<1>5. SessionBounds'
  BY <1>1, <1>3, <1>4 DEF SessionInv, SessionBounds
<1>6. IsStore(store', issuedTokens') /\ Capped(store')
  BY <1>1, <1>2, HydratedFacts
<1>7. Kept(saved)'
  BY <1>1, <1>2 DEF Kept
<1>8. Restores(Arriving)'
  <2>1. store'.live = [s \in {s \in DOMAIN saved : saved[s].expires > clock} |-> saved[s]]
    BY <1>1 DEF Hydrated
  <2>2. \A s \in DOMAIN saved : saved[s].expires \in Nat
    BY <1>2, SnapshotFacts DEF Kept
  <2> QED
    BY <1>1, <1>2, <2>1, <2>2 DEF Restores, Arriving, Live
<1> QED
  BY <1>1, <1>5, <1>6, <1>7, <1>8 DEF SessionInv

\* and the clock.
LEMMA SessionTickKeeps ==
  ASSUME SessionInv, SessionTick
  PROVE  SessionInv'
<1>1. /\ clock < MaxSessionTime /\ clock' = clock + 1
      /\ UNCHANGED <<store, issuedTokens, saveTimer, admitted, closed, restarts>>
      /\ UNCHANGED <<waiting, writing, saved>>
  BY DEF SessionTick, diskVars
<1>2. MaxSessionTime \in Nat /\ clock \in Nat
  BY SessionAssumption DEF SessionInv, SessionBounds
<1>3. SessionBounds'
  BY <1>1, <1>2 DEF SessionInv, SessionBounds
<1>4. Kept(Arriving)
  BY DEF SessionInv, Arriving
<1>5. \A s \in DOMAIN Arriving : Arriving[s].expires \in Nat
  BY <1>4, SnapshotFacts DEF Kept
<1>6. Restores(Arriving) => Restores(Arriving)'
  <2>1. PICK f : f = Arriving
    OBVIOUS
  <2>2. Arriving' = f
    BY <1>1, <2>1 DEF Arriving
  <2>3. Restores(f) => Restores(f)'
    BY <1>1, <1>2, <1>5, <2>1 DEF Restores, Live
  <2> QED
    BY <2>1, <2>2, <2>3 DEF Restores
<1> QED
  BY <1>1, <1>3, <1>6 DEF SessionInv, Kept

\* Every step keeps the invariant of the sessions.
LEMMA SessionNextKeeps ==
  ASSUME SessionInv, [SessionNext]_sessionVars
  PROVE  SessionInv'
<1>1. CASE UNCHANGED sessionVars
  BY <1>1
  DEF sessionVars, SessionInv, SessionBounds, Kept, Restores, Arriving, Live
<1>2. CASE SessionNext
  BY <1>2, LoginKeeps, AsUserKeeps, AsAdministratorKeeps, SessionFileKeeps,
     SessionRestartKeeps, SessionTickKeeps DEF SessionNext
<1> QED
  BY <1>1, <1>2

\* The inductive invariant: the queues match the sessions and stay within the caps, every
\* snapshot on its way to the file restores to such a store, and one that is the last
\* says what is live.
THEOREM SessionInvariance == SessionSpec => []SessionInv
BY SessionInitially, SessionNextKeeps, PTL DEF SessionSpec

\* The shapes of the sessions' variables.
THEOREM SessionTypeCorrect == SessionSpec => []SessionTypeOK
<1>1. SessionInv => SessionTypeOK
  <2> SUFFICES ASSUME SessionInv PROVE SessionTypeOK
    OBVIOUS
  <2>1. store.tenant \in [SessionTenants -> Seq(Tokens)]
    BY DEF SessionInv, IsStore, QueuesMatch
  <2> QED
    BY <2>1 DEF SessionInv, SessionBounds, SessionTypeOK, Kept, IsStore, QueuesMatch
<1> QED
  BY <1>1, SessionInvariance, PTL

\* The two queues hold exactly the live sessions, each once and oldest first, within the
\* caps, for any caps, tenants and lifetimes.
THEOREM QueuesAlwaysMatch == SessionSpec => []QueuesMatchSessions
<1>1. SessionInv => QueuesMatchSessions
  BY DEF SessionInv, IsStore, QueuesMatch, Capped, QueuesMatchSessions, Live, Of
<1> QED
  BY <1>1, SessionInvariance, PTL

\* When no write is due the file restores the very sessions that are live.
THEOREM SettledFilesRestore == SessionSpec => []SettledFileRestores
<1>1. SessionInv => SettledFileRestores
  BY DEF SessionInv, SettledFileRestores, NothingDue, Restores, Arriving
<1> QED
  BY <1>1, SessionInvariance, PTL

-----------------------------------------------------------------------------
(* Whom a login evicts. *)

\* The excess of a queue is its oldest tokens, and none if the queue fits.
LEMMA ExcessFacts ==
  ASSUME NEW queue \in Seq(Tokens), NEW S, IsQueueOf(queue, S), NEW cap \in Nat \ {0}
  PROVE  /\ Excess(queue, cap) \subseteq S
         /\ \A s \in Excess(queue, cap), r \in S : r < s => r \in Excess(queue, cap)
         /\ \A s \in S : (\A r \in S : r <= s) => s \notin Excess(queue, cap)
         /\ Excess(queue, cap) = {} <=> Cardinality(S) <= cap
<1> PICK n \in Nat : n = Len(queue)
  OBVIOUS
<1> PICK gone : gone = Excess(queue, cap)
  OBVIOUS
<1>1. Cardinality(S) = n
  BY QueueSize
<1>2. /\ \A s : s \in S <=> \E i \in 1..n : queue[i] = s
      /\ \A i, j \in 1..n : i < j => queue[i] < queue[j]
  <2>1. {queue[i] : i \in 1..n} = S
    BY DEF IsQueueOf
  <2> QED
    BY <2>1 DEF IsQueueOf
<1>3. \A i \in 1..n : queue[i] \in Nat
  <2>1. \A i \in 1..n : queue[i] \in Tokens
    OBVIOUS
  <2> QED
    BY <2>1, TokensFinite
<1>4. CASE n <= cap
  <2>1. gone = {}
    BY <1>4 DEF Excess
  <2> QED
    BY <1>1, <1>4, <2>1
<1>5. CASE n > cap
  <2>1. \A s : s \in gone <=> \E i \in 1..(n - cap) : queue[i] = s
    BY <1>5 DEF Excess
  <2>2. gone \subseteq S
    BY <1>2, <1>5, <2>1
  <2>3. ASSUME NEW s \in gone, NEW r \in S, r < s PROVE r \in gone
    <3>1. PICK i \in 1..(n - cap) : queue[i] = s
      BY <2>1
    <3>2. PICK j \in 1..n : queue[j] = r
      BY <1>2
    <3>3. ~(i < j) /\ i # j
      <4>1. i \in 1..n /\ queue[i] \in Nat /\ queue[j] \in Nat
        BY <1>3, <1>5, <3>1
      <4> QED
        BY <1>2, <2>3, <3>1, <3>2, <4>1
    <3>4. j \in 1..(n - cap)
      BY <1>5, <3>3
    <3> QED
      BY <2>1, <3>2, <3>4
  <2>4. ASSUME NEW s \in gone, \A r \in S : r <= s PROVE FALSE
    <3>1. PICK i \in 1..(n - cap) : queue[i] = s
      BY <2>1
    <3>2. n \in 1..n /\ i \in 1..n /\ i < n
      BY <1>5
    <3>3. queue[n] \in S /\ s < queue[n] /\ queue[n] \in Nat /\ s \in Nat
      BY <1>2, <1>3, <3>1, <3>2
    <3> QED
      BY <2>4, <3>3
  <2>5. queue[1] \in gone /\ ~(Cardinality(S) <= cap)
    <3>1. 1 \in 1..(n - cap)
      BY <1>5
    <3> QED
      BY <1>1, <1>5, <2>1, <3>1
  <2> QED
    BY <2>2, <2>3, <2>4, <2>5
<1> QED
  BY <1>4, <1>5

\* What issue evicts besides what has expired, of the sessions live and the tenant's own:
\* the oldest of the tenant, if it is at its cap, or else the oldest of all, if there is
\* no room.
Evicts(live, own, after, new, forTenant, forAll) ==
  /\ after = (live \cup {new}) \ (forTenant \cup forAll)
  /\ forTenant \subseteq own /\ forAll \subseteq live \ forTenant
  /\ \A s \in forTenant, r \in own : r < s => r \in forTenant
  /\ \A s \in forAll, r \in live \ forTenant : r < s => r \in forAll
  /\ Cardinality(own) >= TenantCap => forAll = {}
  /\ Cardinality(own) < TenantCap => forTenant = {}
  /\ Cardinality(live) < GlobalCap => forAll = {}

\* What issuing a session takes away: first the oldest of its tenant until that one has
\* room, then the oldest of all.
LEMMA IssuedEvicts ==
  ASSUME NEW st, IsStore(st, issuedTokens), Capped(st), NEW t \in SessionTenants,
         issuedTokens \in Nat, CanIssue, clock \in Nat,
         NEW live, live = DOMAIN st.live \ Expired(st),
         NEW own, own = {s \in live : st.live[s].tenant = t}
  PROVE  \E forTenant, forAll :
           Evicts(live, own, DOMAIN Issued(st, t).live, issuedTokens + 1, forTenant, forAll)
<1> PICK k : k = issuedTokens + 1
  OBVIOUS
<1> PICK session : session = [tenant |-> t, expires |-> clock + SessionTtl, seen |-> clock]
  OBVIOUS
<1>1. session \in Session /\ session.tenant = t
  BY SessionAssumption DEF Session
<1>2. k \in Tokens /\ k \in Nat /\ TenantCap \in Nat \ {0} /\ GlobalCap \in Nat \ {0}
  BY SessionAssumption DEF CanIssue, Tokens
<1> PICK kept : kept = Revoked(st, Expired(st))
  OBVIOUS
<1> PICK added : added = Registered(kept, k, session)
  OBVIOUS
<1> PICK c : c = TenantCapped(added, t)
  OBVIOUS
<1> PICK d : d = GlobalCapped(c)
  OBVIOUS
<1> PICK forTenant : forTenant = Excess(added.tenant[t], TenantCap)
  OBVIOUS
<1> PICK forAll : forAll = Excess(c.global, GlobalCap)
  OBVIOUS
<1>3. d = Issued(st, t)
  BY DEF Issued
<1>4. /\ IsStore(kept, issuedTokens) /\ DOMAIN kept.live = live
      /\ \A s \in live : kept.live[s] = st.live[s]
  BY RevokedFacts
<1>5. /\ IsStore(added, k) /\ DOMAIN added.live = live \cup {k} /\ added.live[k] = session
      /\ \A s \in live : added.live[s] = kept.live[s]
  <2>1. LET new == Registered(kept, issuedTokens + 1, session)
        IN  /\ IsStore(new, issuedTokens + 1)
            /\ DOMAIN new.live = DOMAIN kept.live \cup {issuedTokens + 1}
            /\ \A s \in DOMAIN kept.live : new.live[s] = kept.live[s]
            /\ new.live[issuedTokens + 1] = session
    BY <1>1, <1>2, <1>4, RegisteredFacts
  <2> QED
    BY <1>4, <2>1
<1>6. IsStore(c, k) /\ DOMAIN c.live = (live \cup {k}) \ forTenant
  BY <1>5, RevokedFacts DEF TenantCapped
<1>7. DOMAIN d.live = ((live \cup {k}) \ forTenant) \ forAll
  BY <1>6, RevokedFacts DEF GlobalCapped
<1>8. live \in SUBSET Tokens /\ \A s \in live : s \in Nat /\ s < k
  <2>1. \A s \in live : s \in Tokens /\ s \in Nat /\ s <= issuedTokens
    BY <1>4, SnapshotFacts DEF IsStore
  <2> QED
    BY <2>1
<1>9. Of(added, t) = own \cup {k} /\ own \subseteq live /\ k \notin live
  BY <1>1, <1>4, <1>5, <1>8 DEF Of
<1>10. added.tenant[t] \in Seq(Tokens) /\ IsQueueOf(added.tenant[t], own \cup {k})
  <2>1. added.tenant[t] \in Seq(Tokens) /\ IsQueueOf(added.tenant[t], Of(added, t))
    BY <1>5 DEF IsStore, QueuesMatch
  <2> QED
    BY <1>9, <2>1
<1>11. c.global \in Seq(Tokens) /\ IsQueueOf(c.global, (live \cup {k}) \ forTenant)
  BY <1>6 DEF IsStore, QueuesMatch
<1>12. /\ forTenant \subseteq own \cup {k}
       /\ \A s \in forTenant, r \in own \cup {k} : r < s => r \in forTenant
       /\ (\A r \in own \cup {k} : r <= k) => k \notin forTenant
       /\ forTenant = {} <=> Cardinality(own \cup {k}) <= TenantCap
  BY <1>2, <1>10, ExcessFacts
<1>13. \A r \in live \cup {k} : r <= k
  <2>1. \A r \in live : r \in Nat /\ r < k
    BY <1>8
  <2> QED
    BY <1>2, <2>1
<1>14. forTenant \subseteq own
  BY <1>9, <1>12, <1>13
<1>15. /\ forAll \subseteq (live \cup {k}) \ forTenant
       /\ \A s \in forAll, r \in (live \cup {k}) \ forTenant : r < s => r \in forAll
       /\ (\A r \in (live \cup {k}) \ forTenant : r <= k) => k \notin forAll
       /\ forAll = {} <=> Cardinality((live \cup {k}) \ forTenant) <= GlobalCap
  <2>1. k \in (live \cup {k}) \ forTenant
    BY <1>9, <1>14
  <2> QED
    BY <1>2, <1>11, <2>1, ExcessFacts
<1>16. forAll \subseteq live \ forTenant
  BY <1>13, <1>15
<1>17. /\ IsFiniteSet(own) /\ IsFiniteSet(live) /\ Cardinality(own) \in Nat /\ Cardinality(live) \in Nat
       /\ Cardinality(own \cup {k}) = Cardinality(own) + 1
       /\ Cardinality(live \cup {k}) = Cardinality(live) + 1 /\ IsFiniteSet(live \cup {k})
       /\ Cardinality(live) <= GlobalCap
  <2>1. IsFiniteSet(live) /\ Cardinality(live) \in Nat /\ own \in SUBSET live
    BY <1>8, <1>9, TokensFinite
  <2>2. IsFiniteSet(own) /\ Cardinality(own) \in Nat
    BY <2>1, FS_Subset, FS_CardinalityType
  <2>3. /\ Cardinality(live \cup {k}) = Cardinality(live) + 1 /\ IsFiniteSet(live \cup {k})
        /\ Cardinality(own \cup {k}) = Cardinality(own) + 1
    <3>1. k \notin live /\ k \notin own
      BY <1>9
    <3>2. ASSUME NEW S, IsFiniteSet(S), k \notin S
          PROVE  Cardinality(S \cup {k}) = Cardinality(S) + 1 /\ IsFiniteSet(S \cup {k})
      BY <3>2, FS_AddElement
    <3> QED
      BY <2>1, <2>2, <3>1, <3>2
  <2>4. Cardinality(live) <= GlobalCap
    <3>1. /\ st.global \in Seq(Tokens) /\ IsQueueOf(st.global, DOMAIN st.live)
          /\ Len(st.global) <= GlobalCap
      BY DEF IsStore, QueuesMatch, Capped
    <3>2. IsFiniteSet(DOMAIN st.live) /\ Cardinality(DOMAIN st.live) <= GlobalCap
      BY <3>1, QueueSize
    <3>3. Cardinality(live) <= Cardinality(DOMAIN st.live)
      BY <3>2, FS_Subset
    <3>4. Cardinality(DOMAIN st.live) \in Nat
      BY <3>2, FS_CardinalityType
    <3> QED
      BY <1>2, <2>1, <3>2, <3>3, <3>4
  <2> QED
    BY <2>1, <2>2, <2>3, <2>4
<1>18. ASSUME Cardinality(own) >= TenantCap PROVE forAll = {}
  <2>1. ~(Cardinality(own \cup {k}) <= TenantCap)
    BY <1>2, <1>17, <1>18
  <2>2. PICK e : e \in forTenant
    BY <1>12, <2>1
  <2>3. e \in live \cup {k} /\ (live \cup {k}) \ forTenant \subseteq (live \cup {k}) \ {e}
    BY <1>9, <1>14, <2>2
  <2>4. /\ IsFiniteSet((live \cup {k}) \ {e})
        /\ Cardinality((live \cup {k}) \ {e}) = Cardinality(live) + 1 - 1
    <3>1. PICK S : S = live \cup {k}
      OBVIOUS
    <3>2. IsFiniteSet(S \ {e}) /\ Cardinality(S \ {e}) = Cardinality(S) - 1
      <4>1. IsFiniteSet(S) /\ e \in S
        BY <1>17, <2>3, <3>1
      <4> QED
        BY <4>1, FS_RemoveElement
    <3> QED
      BY <1>17, <3>1, <3>2
  <2>5. /\ Cardinality((live \cup {k}) \ forTenant) <= Cardinality((live \cup {k}) \ {e})
        /\ Cardinality((live \cup {k}) \ forTenant) \in Nat
    BY <2>3, <2>4, FS_Subset, FS_CardinalityType
  <2>6. Cardinality((live \cup {k}) \ forTenant) <= GlobalCap
    BY <1>2, <1>17, <2>4, <2>5
  <2> QED
    BY <1>15, <2>6
<1>19. ASSUME Cardinality(own) < TenantCap PROVE forTenant = {}
  <2>1. Cardinality(own \cup {k}) <= TenantCap
    BY <1>2, <1>17, <1>19
  <2> QED
    BY <1>12, <2>1
<1>20. ASSUME Cardinality(live) < GlobalCap PROVE forAll = {}
  <2>1. /\ Cardinality((live \cup {k}) \ forTenant) <= Cardinality(live \cup {k})
        /\ Cardinality((live \cup {k}) \ forTenant) \in Nat
    BY <1>17, FS_Subset, FS_CardinalityType
  <2>2. Cardinality((live \cup {k}) \ forTenant) <= GlobalCap
    BY <1>2, <1>17, <1>20, <2>1
  <2> QED
    BY <1>15, <2>2
<1>21. DOMAIN Issued(st, t).live = (live \cup {k}) \ (forTenant \cup forAll)
  BY <1>3, <1>7
<1>22. /\ \A s \in forTenant, r \in own : r < s => r \in forTenant
       /\ \A s \in forAll, r \in live \ forTenant : r < s => r \in forAll
  BY <1>12, <1>15
<1>23. Evicts(live, own, DOMAIN Issued(st, t).live, k, forTenant, forAll)
  BY <1>14, <1>16, <1>18, <1>19, <1>20, <1>21, <1>22 DEF Evicts
<1> QED
  BY <1>23

\* What a step ends that had not expired, and what a tenant has of that.
Gone == Live \ (Expired(store) \cup Live')
Own(t) == {s \in Live \ Expired(store) : store.live[s].tenant = t}

\* The sessions a login ends were the oldest of their tenants; if the tenant was at its cap,
\* only its own.
LEMMA LoginEvicts ==
  ASSUME SessionInv, NEW t \in SessionTenants, Login(t)
  PROVE  /\ \A u \in SessionTenants : \A s, older \in Own(u) :
              s \in Gone /\ older < s => older \in Gone
         /\ Cardinality(Own(t)) >= TenantCap => Gone \subseteq Own(t)
<1> PICK live : live = Live \ Expired(store)
  OBVIOUS
<1> PICK gone : gone = Gone
  OBVIOUS
<1>0. gone = Live \ (Expired(store) \cup Live')
  BY DEF Gone
<1> PICK own : own = {s \in live : store.live[s].tenant = t}
  OBVIOUS
<1>1. /\ store' = Issued(store, t) /\ CanIssue /\ IsStore(store, issuedTokens) /\ Capped(store)
      /\ issuedTokens \in Nat /\ clock \in Nat
  BY SessionAssumption DEF Login, Issue, Keep, SessionInv, SessionBounds
<1>2. live = DOMAIN store.live \ Expired(store)
  BY DEF Live
<1>3. PICK forTenant, forAll : Evicts(live, own, Live', issuedTokens + 1, forTenant, forAll)
  <2>1. PICK next : next = Issued(store, t)
    OBVIOUS
  <2>2. \E forTenant, forAll :
          Evicts(live, own, DOMAIN next.live, issuedTokens + 1, forTenant, forAll)
    BY <1>1, <1>2, <2>1, IssuedEvicts
  <2>3. Live' = DOMAIN next.live
    BY <1>1, <2>1 DEF Live
  <2> QED
    BY <2>2, <2>3
<1>4. issuedTokens + 1 \notin live
  <2>1. \A s \in live : s \in Nat /\ s <= issuedTokens
    BY <1>1, <1>2, SnapshotFacts DEF IsStore
  <2> QED
    BY <1>1, <2>1
<1>5. gone = forTenant \cup forAll
  BY <1>0, <1>3, <1>4 DEF Evicts
<1>6. ASSUME NEW u \in SessionTenants, NEW s \in Own(u), NEW older \in Own(u),
             s \in gone, older < s
      PROVE  older \in gone
  <2>0. /\ s \in live /\ store.live[s].tenant = u
        /\ older \in live /\ store.live[older].tenant = u
    BY DEF Own
  <2>1. CASE s \in forTenant
    <3>1. older \in own
      BY <1>3, <2>0, <2>1 DEF Evicts
    <3> QED
      BY <1>3, <1>5, <1>6, <2>1, <3>1 DEF Evicts
  <2>2. CASE s \in forAll
    BY <1>3, <1>5, <1>6, <2>0, <2>2 DEF Evicts
  <2> QED
    BY <1>5, <1>6, <2>1, <2>2
<1>7. Cardinality(own) >= TenantCap => gone \subseteq own
  BY <1>3, <1>5 DEF Evicts
<1> QED
  BY <1>6, <1>7 DEF Own

\* A refresh ends the session it replaces: there is room for the new one then.
LEMMA RefreshEvicts ==
  ASSUME SessionInv, NEW s \in Live, NEW sameTenant \in BOOLEAN, Refresh(s, sameTenant)
  PROVE  Gone = {s}
<1> PICK st : st = Revoked(store, {s})
  OBVIOUS
<1> PICK t : t = store.live[s].tenant
  OBVIOUS
<1> PICK new : new = Issued(st, t)
  OBVIOUS
<1> PICK live : live = DOMAIN st.live \ Expired(st)
  OBVIOUS
<1> PICK own : own = {x \in live : st.live[x].tenant = t}
  OBVIOUS
<1>1. /\ store' = (IF sameTenant THEN new ELSE Revoked(new, {issuedTokens + 1})) /\ CanIssue
      /\ s \notin Expired(store)
  BY DEF Refresh, Keep, Rotated, Resolves, Ended
<1>2. /\ IsStore(store, issuedTokens) /\ Capped(store)
      /\ issuedTokens \in Nat /\ clock \in Nat /\ GlobalCap \in Nat /\ TenantCap \in Nat
  BY SessionAssumption DEF SessionInv, SessionBounds
<1>3. s \in DOMAIN store.live /\ t \in SessionTenants
  BY <1>2, SnapshotFacts DEF IsStore, Live
<1>4. /\ IsStore(st, issuedTokens) /\ NoLonger(st, store)
      /\ DOMAIN st.live = DOMAIN store.live \ {s}
      /\ \A x \in DOMAIN store.live \ {s} : st.live[x] = store.live[x]
  BY <1>2, RevokedFacts
<1>5. Capped(st)
  BY <1>2, RevokedFacts
<1>6. live = (DOMAIN store.live \ {s}) \ Expired(store)
  BY <1>4 DEF Expired
<1>7. \A x \in DOMAIN store.live : x \in Nat /\ x <= issuedTokens
  BY <1>2, SnapshotFacts DEF IsStore
<1>8. ASSUME NEW S, NEW T \in SUBSET (S \ {s}), s \in S, NEW queue \in Seq(Tokens),
             IsQueueOf(queue, S), NEW cap \in Nat, Len(queue) <= cap
      PROVE  Cardinality(T) < cap
  <2>1. IsFiniteSet(S) /\ Cardinality(S) <= cap
    BY <1>8, QueueSize
  <2>2. IsFiniteSet(S \ {s}) /\ Cardinality(S \ {s}) = Cardinality(S) - 1
    BY <1>8, <2>1, FS_RemoveElement
  <2>3. Cardinality(T) <= Cardinality(S \ {s}) /\ Cardinality(T) \in Nat /\ Cardinality(S) \in Nat
    BY <2>1, <2>2, FS_Subset, FS_CardinalityType
  <2> QED
    BY <2>1, <2>2, <2>3
<1>9. Cardinality(live) < GlobalCap
  <2>1. /\ store.global \in Seq(Tokens) /\ IsQueueOf(store.global, DOMAIN store.live)
        /\ Len(store.global) <= GlobalCap
    BY <1>2 DEF IsStore, QueuesMatch, Capped
  <2>2. live \in SUBSET (DOMAIN store.live \ {s})
    BY <1>6
  <2> QED
    BY <1>2, <1>3, <1>8, <2>1, <2>2
<1>10. Cardinality(own) < TenantCap
  <2>1. /\ store.tenant[t] \in Seq(Tokens) /\ IsQueueOf(store.tenant[t], Of(store, t))
        /\ Len(store.tenant[t]) <= TenantCap
    BY <1>2, <1>3 DEF IsStore, QueuesMatch, Capped
  <2>2. own \in SUBSET (Of(store, t) \ {s}) /\ s \in Of(store, t)
    BY <1>3, <1>4, <1>6 DEF Of
  <2> QED
    BY <1>2, <1>8, <2>1, <2>2
<1>11. DOMAIN new.live = live \cup {issuedTokens + 1}
  <2>1. PICK forTenant, forAll :
          Evicts(live, own, DOMAIN new.live, issuedTokens + 1, forTenant, forAll)
    BY <1>1, <1>2, <1>3, <1>4, <1>5, IssuedEvicts
  <2> QED
    BY <1>9, <1>10, <2>1 DEF Evicts
<1>12. Live' = live \cup {issuedTokens + 1} \/ Live' = (live \cup {issuedTokens + 1}) \ {issuedTokens + 1}
  BY <1>1, <1>11 DEF Revoked, Live
<1>13. issuedTokens + 1 \notin DOMAIN store.live
  BY <1>2, <1>7
<1> QED
  BY <1>1, <1>3, <1>6, <1>12, <1>13 DEF Gone, Live

\* A login makes room with the oldest of its tenant before it ends another tenant's
\* session, and a refresh ends only the session it was sent with: for any caps.
THEOREM LoginsEvictTheOldest == SessionSpec => LoginEvictsOldest
<1>1. ASSUME SessionInv
      PROVE  /\ \A t \in SessionTenants : Login(t) =>
                  /\ \A u \in SessionTenants : \A s, older \in Own(u) :
                       s \in Gone /\ older < s => older \in Gone
                  /\ Cardinality(Own(t)) >= TenantCap => Gone \subseteq Own(t)
             /\ \A s \in Live, sameTenant \in BOOLEAN : Refresh(s, sameTenant) => Gone = {s}
  BY <1>1, LoginEvicts, RefreshEvicts
<1> QED
  BY <1>1, SessionInvariance, PTL DEF LoginEvictsOldest, Gone, Own

-----------------------------------------------------------------------------
(***************************************************************************)
(* The limiters.  That a span holds few times is said of any two entries   *)
(* that are so many apart; a span has no border then, and one entry more   *)
(* is compared with the one it must not meet.  Since a count knows only    *)
(* its own window, the invariant says when the entries before it were.     *)
(***************************************************************************)

\* Entries that are few or more apart are a span apart in time.
Spaced(times, few, span) ==
  \A i, j \in 1..Len(times) : i + few <= j => times[i] + span <= times[j]

\* All entries but the last back are a span before time.
Past(times, back, span, time) ==
  \A i \in 1..Len(times) : i + back <= Len(times) => times[i] + span <= time

\* The failures of the count are the last guesses, and the others were made before it;
\* if it has not begun with a block, only a count less than full precedes it closely.
CountFollows(n) ==
  /\ Past(guesses, n.failures, 0, n.first)
  /\ IF n.blockedUntil = 0
       THEN Past(guesses, n.failures + (MaxFailures - 1), GuessSpan, n.first)
       ELSE n.blockedUntil = n.first + BlockTime

Counted(w) == IF w.count <= RateLimit THEN w.count ELSE RateLimit

\* The same of the requests in a window.
WindowFollows(w) ==
  /\ Past(served, Counted(w), 0, w.start)
  /\ Past(served, Counted(w) + RateLimit, RateWindow, w.start)

LimitInv ==
  /\ LimitTypeOK
  /\ Past(guesses, 0, 0, limitClock) /\ Past(served, 0, 0, limitClock)
  /\ Spaced(guesses, 2 * MaxFailures - 1, GuessSpan)
  /\ Spaced(served, 2 * RateLimit, RateWindow)
  /\ IF attempts = NoCount THEN Past(guesses, MaxFailures - 1, GuessSpan, limitClock)
                           ELSE CountFollows(attempts)
  /\ IF window = NoCount THEN Past(served, RateLimit, RateWindow, limitClock)
                         ELSE WindowFollows(window)

\* Entries that are spaced come few at a time.
LEMMA SpacedAreFew ==
  ASSUME limitClock \in Nat, NEW times \in Seq(Nat), NEW few \in Nat, NEW span \in Nat,
         Spaced(times, few, span), NEW n \in Within(times, span)
  PROVE  n <= few
<1>a. PICK t \in 0..limitClock :
        n = Cardinality({i \in 1..Len(times) : times[i] \in t..(t + span - 1)})
  BY DEF Within
<1>b. PICK S : S = {i \in 1..Len(times) : times[i] \in t..(t + span - 1)}
  OBVIOUS
<1>1. S \in SUBSET (1..Len(times)) /\ S \in SUBSET Nat /\ n = Cardinality(S)
  BY <1>a, <1>b
<1>2. IsFiniteSet(S)
  <2>1. Len(times) \in Nat /\ IsFiniteSet(1..Len(times))
    BY FS_Interval
  <2> QED
    BY <1>1, <2>1, FS_Subset
<1>3. \A i, j \in S : j < i + few
  <2>1. \A i, j \in S : i + few <= j => times[i] + span <= times[j]
    BY <1>1 DEF Spaced
  <2>2. \A i \in S : times[i] \in Nat /\ t <= times[i] /\ times[i] < t + span
    BY <1>b
  <2>3. ASSUME NEW i \in S, NEW j \in S
        PROVE  j < i + few
    <3>1. i \in Nat /\ j \in Nat
      BY <1>1
    <3>2. /\ times[i] \in Nat /\ t <= times[i] /\ times[i] < t + span
          /\ times[j] \in Nat /\ t <= times[j] /\ times[j] < t + span
      BY <2>2
    <3>3. i + few <= j => times[i] + span <= times[j]
      BY <2>1
    <3>4. t \in Nat
      OBVIOUS
    <3>5. ~(i + few <= j)
      BY <3>2, <3>3, <3>4
    <3> QED
      BY <3>1, <3>5
  <2> QED
    BY <2>3
<1>4. n \in Nat
  BY <1>1, <1>2, FS_CardinalityType
<1>5. CASE n = 0
  BY <1>5
<1>6. CASE n # 0
  <2>a. PICK list : list = Ascending(S)
    OBVIOUS
  <2>1. /\ list \in [1..n -> S]
        /\ \A s \in S : \E k \in 1..n : list[k] = s
        /\ \A k, l \in 1..n : k < l => list[k] < list[l]
    BY <1>1, <1>2, <2>a, AscendingLists
  <2>2. 1 \in 1..n
    BY <1>4, <1>6
  <2>b. PICK m \in S : m = list[1]
    BY <2>1, <2>2
  <2>3. \A s \in S : m <= s
    <3>1. ASSUME NEW s \in S
          PROVE  m <= s
      <4>1. PICK k \in 1..n : list[k] = s
        BY <2>1
      <4>2. k = 1 \/ 1 < k
        BY <1>4
      <4>3. m = s \/ m < s
        BY <2>1, <2>2, <2>b, <4>1, <4>2
      <4> QED
        BY <1>1, <4>3
    <3> QED
      BY <3>1
  <2>4. m \in Nat /\ m < m + few
    BY <1>1, <1>3
  <2>5. PICK last \in Int : last = m + few - 1
    BY <2>4
  <2>6. S \in SUBSET (m..last)
    <3>1. \A s \in S : s \in Nat /\ m <= s /\ s < m + few
      BY <1>1, <1>3, <2>3
    <3>2. \A s \in S : s \in m..last
      BY <2>4, <2>5, <3>1
    <3> QED
      BY <3>2
  <2>7. IsFiniteSet(m..last) /\ Cardinality(m..last) = few
    <3>1. ~(m > last) /\ last - m + 1 = few
      BY <2>4, <2>5
    <3> QED
      BY <2>4, <3>1, FS_Interval
  <2>8. Cardinality(S) <= Cardinality(m..last)
    BY <2>6, <2>7, FS_Subset
  <2> QED
    BY <1>1, <2>7, <2>8
<1> QED
  BY <1>5, <1>6

\* One entry more, now.
LEMMA AppendSpaced ==
  ASSUME NEW times \in Seq(Nat), NEW few \in Nat \ {0}, NEW span \in Nat, NEW now \in Nat,
         Spaced(times, few, span), Past(times, few - 1, span, now)
  PROVE  Spaced(Append(times, now), few, span)
<1> PICK more : more = Append(times, now)
  OBVIOUS
<1>1. /\ Len(more) = Len(times) + 1 /\ more[Len(times) + 1] = now
      /\ \A i \in 1..Len(times) : more[i] = times[i] /\ times[i] \in Nat
  OBVIOUS
<1>2. ASSUME NEW i \in 1..Len(more), NEW j \in 1..Len(more), i + few <= j
      PROVE  more[i] + span <= more[j]
  <2>1. i \in 1..Len(times)
    BY <1>1, <1>2
  <2>2. CASE j \in 1..Len(times)
    BY <1>1, <1>2, <2>1, <2>2 DEF Spaced
  <2>3. CASE j = Len(times) + 1
    <3>1. i + (few - 1) <= Len(times)
      BY <1>2, <2>1, <2>3
    <3>2. times[i] + span <= now
      BY <2>1, <3>1 DEF Past
    <3> QED
      BY <1>1, <2>1, <2>3, <3>2
  <2> QED
    BY <1>1, <2>2, <2>3
<1> QED
  BY <1>2 DEF Spaced

\* A history that goes on has one more entry that may be close to a time, and none if it is
\* a span behind.
LEMMA AppendPast ==
  ASSUME NEW times \in Seq(Nat), NEW back \in Nat, NEW span \in Nat, NEW time \in Nat,
         NEW now \in Nat, Past(times, back, span, time)
  PROVE  /\ Past(Append(times, now), back + 1, span, time)
         /\ back = 0 /\ now + span <= time => Past(Append(times, now), 0, span, time)
<1> PICK more : more = Append(times, now)
  OBVIOUS
<1>1. /\ Len(more) = Len(times) + 1 /\ more[Len(times) + 1] = now
      /\ \A i \in 1..Len(times) : more[i] = times[i]
  OBVIOUS
<1>2. ASSUME NEW i \in 1..Len(more), i + (back + 1) <= Len(more)
      PROVE  more[i] + span <= time
  <2>1. i \in 1..Len(times) /\ i + back <= Len(times)
    BY <1>1, <1>2
  <2> QED
    BY <1>1, <2>1 DEF Past
<1>3. ASSUME back = 0, now + span <= time, NEW i \in 1..Len(more)
      PROVE  more[i] + span <= time
  BY <1>1, <1>3 DEF Past
<1> QED
  BY <1>2, <1>3 DEF Past

\* Less is said of fewer entries, a shorter span or a later time.
LEMMA WeakerPast ==
  ASSUME NEW times \in Seq(Nat), NEW back \in Nat, NEW span \in Nat, NEW time \in Nat,
         Past(times, back, span, time),
         NEW more \in Nat, NEW less \in Nat, NEW later \in Nat,
         back <= more, time + less <= later + span
  PROVE  Past(times, more, less, later)
<1>1. ASSUME NEW i \in 1..Len(times), i + more <= Len(times)
      PROVE  times[i] + less <= later
  <2>1. i + back <= Len(times) /\ times[i] \in Nat
    BY <1>1
  <2>2. times[i] + span <= time
    BY <2>1 DEF Past
  <2> QED
    BY <2>1, <2>2
<1> QED
  BY <1>1 DEF Past

\* An empty history has nothing close to any time, and its entries are apart.
LEMMA EmptyPast ==
  ASSUME NEW back, NEW span, NEW time, NEW few
  PROVE  Past(<<>>, back, span, time) /\ Spaced(<<>>, few, span)
BY DEF Past, Spaced

\* The limits and spans of the configuration are numbers.
LEMMA SpansAreNumbers ==
  /\ MaxFailures \in Nat \ {0} /\ LoginWindow \in Nat \ {0} /\ BlockTime \in Nat \ {0}
  /\ RateLimit \in Nat \ {0} /\ RateWindow \in Nat \ {0} /\ MaxLimitTime \in Nat
  /\ GuessSpan \in Nat /\ GuessSpan <= LoginWindow /\ GuessSpan <= BlockTime
  /\ 2 * MaxFailures - 1 \in Nat \ {0} /\ 2 * RateLimit \in Nat \ {0}
  /\ MaxFailures - 1 \in Nat
BY LimitAssumption DEF GuessSpan

\* The types of the counts and histories, taken apart.
LEMMA Records ==
  ASSUME LimitTypeOK
  PROVE  /\ limitClock \in Nat /\ guesses \in Seq(Nat) /\ served \in Seq(Nat)
         /\ attempts # NoCount =>
              /\ attempts.failures \in 0..(MaxFailures - 1) /\ attempts.first \in 0..limitClock
              /\ attempts.blockedUntil \in 0..(limitClock + BlockTime)
         /\ window # NoCount =>
              window.start \in 0..limitClock /\ window.count \in 1..(RateLimit + 1)
<1>1. limitClock \in Nat /\ guesses \in Seq(Nat) /\ served \in Seq(Nat)
  BY SpansAreNumbers DEF LimitTypeOK
<1> QED
  BY <1>1 DEF LimitTypeOK

\* The inductive invariant of the limiters holds at the start,
LEMMA LimitInitially ==
  LimitInit => LimitInv
<1> SUFFICES ASSUME LimitInit PROVE LimitInv
  OBVIOUS
<1>1. attempts = NoCount /\ window = NoCount /\ guesses = <<>> /\ served = <<>> /\ limitClock = 0
  BY DEF LimitInit
<1>2. LimitTypeOK
  BY <1>1, SpansAreNumbers DEF LimitTypeOK
<1> QED
  BY <1>1, <1>2, EmptyPast DEF LimitInv

\* What the count of the window under way knows of the guesses before.
LEMMA CountingFollows ==
  ASSUME LimitInv, ~Blocked
  PROVE  /\ Counting.failures \in 0..(MaxFailures - 1) /\ Counting.first \in 0..limitClock
         /\ Counting.blockedUntil \in 0..limitClock
         /\ Counting = [failures |-> Counting.failures, first |-> Counting.first,
                        blockedUntil |-> Counting.blockedUntil]
         /\ CountFollows(Counting)
         /\ Past(guesses, 2 * MaxFailures - 2, GuessSpan, limitClock)
<1>1. LimitTypeOK /\ limitClock \in Nat /\ guesses \in Seq(Nat)
  BY Records DEF LimitInv
<1>2. CASE attempts = NoCount \/ limitClock - attempts.first > LoginWindow
  <2>1. PICK n : n = [failures |-> 0, first |-> limitClock, blockedUntil |-> 0]
    OBVIOUS
  <2>2. Counting = n /\ n.failures = 0 /\ n.first = limitClock /\ n.blockedUntil = 0
    BY <1>2, <2>1 DEF Counting
  <2>3. Past(guesses, MaxFailures - 1, GuessSpan, limitClock)
    <3>1. CASE attempts = NoCount
      BY <3>1 DEF LimitInv
    <3>2. CASE attempts # NoCount
      <4>1. PICK f \in 0..(MaxFailures - 1), first \in 0..limitClock :
              f = attempts.failures /\ first = attempts.first /\ Past(guesses, f, 0, first)
        BY <1>1, <3>2, Records DEF LimitInv, CountFollows
      <4>2. first + GuessSpan <= limitClock + 0
        BY <1>1, <1>2, <3>2, <4>1, SpansAreNumbers
      <4>3. f \in Nat /\ first \in Nat /\ f <= MaxFailures - 1
        BY <4>1, SpansAreNumbers
      <4> QED
        BY <1>1, <4>1, <4>2, <4>3, SpansAreNumbers, WeakerPast
    <3> QED
      BY <3>1, <3>2
  <2>4. Past(guesses, 0, 0, limitClock)
    BY DEF LimitInv
  <2>5. 0 + (MaxFailures - 1) = MaxFailures - 1
    BY SpansAreNumbers
  <2>6. CountFollows(n)
    BY <2>2, <2>3, <2>4, <2>5 DEF CountFollows
  <2>7. Past(guesses, 2 * MaxFailures - 2, GuessSpan, limitClock)
    <3>1. /\ MaxFailures - 1 \in Nat /\ 2 * MaxFailures - 2 \in Nat
          /\ MaxFailures - 1 <= 2 * MaxFailures - 2
          /\ limitClock + GuessSpan <= limitClock + GuessSpan
      BY <1>1, SpansAreNumbers
    <3> QED
      BY <1>1, <2>3, <3>1, SpansAreNumbers, WeakerPast
  <2> QED
    BY <1>1, <2>1, <2>2, <2>6, <2>7, SpansAreNumbers
<1>3. CASE attempts # NoCount /\ ~(limitClock - attempts.first > LoginWindow)
  <2>1. Counting = attempts
    BY <1>3 DEF Counting
  <2>2. PICK f \in 0..(MaxFailures - 1), first \in 0..limitClock, until \in 0..(limitClock + BlockTime) :
          /\ f = attempts.failures /\ first = attempts.first /\ until = attempts.blockedUntil
          /\ Past(guesses, f, 0, first)
          /\ until = 0 => Past(guesses, f + (MaxFailures - 1), GuessSpan, first)
          /\ until # 0 => until = first + BlockTime
    BY <1>1, <1>3, Records DEF LimitInv, CountFollows
  <2>3. until <= limitClock
    BY <1>1, <1>3, <2>2, SpansAreNumbers DEF Blocked
  <2>4. Past(guesses, 2 * MaxFailures - 2, GuessSpan, limitClock)
    <3>1. f \in Nat /\ first \in Nat /\ f <= MaxFailures - 1 /\ 2 * MaxFailures - 2 \in Nat
      BY <2>2, SpansAreNumbers
    <3>2. CASE until = 0
      <4>1. PICK back \in Nat : back = f + (MaxFailures - 1) /\ back <= 2 * MaxFailures - 2
        BY <3>1, SpansAreNumbers
      <4>2. first + GuessSpan <= limitClock + GuessSpan
        BY <1>1, <2>2, SpansAreNumbers
      <4>3. Past(guesses, back, GuessSpan, first)
        BY <2>2, <3>2, <4>1
      <4> QED
        BY <1>1, <3>1, <4>1, <4>2, <4>3, SpansAreNumbers, WeakerPast
    <3>3. CASE until # 0
      <4>1. first + GuessSpan <= limitClock + 0
        BY <1>1, <2>2, <2>3, <3>3, SpansAreNumbers
      <4>2. f <= 2 * MaxFailures - 2
        BY <3>1, SpansAreNumbers
      <4> QED
        BY <1>1, <2>2, <3>1, <4>1, <4>2, SpansAreNumbers, WeakerPast
    <3> QED
      BY <3>2, <3>3
  <2>5. /\ attempts = [failures |-> attempts.failures, first |-> attempts.first,
                       blockedUntil |-> attempts.blockedUntil]
        /\ CountFollows(attempts)
    BY <1>1, <1>3 DEF LimitInv, LimitTypeOK
  <2> QED
    BY <1>1, <2>1, <2>2, <2>3, <2>4, <2>5, SpansAreNumbers
<1> QED
  BY <1>2, <1>3

\* a wrong guess keeps it, that opens a window, counts in it or blocks,
LEMMA LoginFailsKeeps ==
  ASSUME LimitInv, LoginFails
  PROVE  LimitInv'
<1> PICK c : c = Counting
  OBVIOUS
<1>1. LimitTypeOK /\ limitClock \in Nat /\ guesses \in Seq(Nat)
  BY Records DEF LimitInv
<1>2. /\ ~Blocked /\ attempts' = CountFailure(c) /\ guesses' = Append(guesses, limitClock)
      /\ UNCHANGED <<window, served, limitClock>>
  BY DEF LoginFails
<1>3. /\ c.failures \in 0..(MaxFailures - 1) /\ c.first \in 0..limitClock
      /\ c.blockedUntil \in 0..limitClock
      /\ c = [failures |-> c.failures, first |-> c.first, blockedUntil |-> c.blockedUntil]
      /\ CountFollows(c)
      /\ Past(guesses, 2 * MaxFailures - 2, GuessSpan, limitClock)
  BY <1>2, CountingFollows
<1>4. /\ Past(guesses, 0, 0, limitClock)
      /\ Spaced(guesses, 2 * MaxFailures - 1, GuessSpan)
  BY DEF LimitInv
<1>5. Past(guesses', 0, 0, limitClock)
  <2>1. limitClock + 0 <= limitClock
    BY <1>1
  <2> QED
    BY <1>1, <1>2, <1>4, <2>1, AppendPast
<1>6. Spaced(guesses', 2 * MaxFailures - 1, GuessSpan)
  <2>1. PICK few \in Nat \ {0} : few = 2 * MaxFailures - 1 /\ few - 1 = 2 * MaxFailures - 2
    BY SpansAreNumbers
  <2>2. Past(guesses, few - 1, GuessSpan, limitClock) /\ Spaced(guesses, few, GuessSpan)
    BY <1>3, <1>4, <2>1
  <2>3. Spaced(guesses', few, GuessSpan)
    BY <1>1, <1>2, <2>2, SpansAreNumbers, AppendSpaced
  <2> QED
    BY <2>1, <2>3
<1>7. PICK counts : counts = [failures : 0..(MaxFailures - 1), first : 0..limitClock,
                              blockedUntil : 0..(limitClock + BlockTime)]
  OBVIOUS
<1>8. attempts' \in counts /\ attempts' # NoCount /\ CountFollows(attempts)'
  <2>1. CASE c.failures + 1 >= MaxFailures
    <3>1. PICK n : n = [failures |-> 0, first |-> limitClock, blockedUntil |-> limitClock + BlockTime]
      OBVIOUS
    <3>2. attempts' = n /\ n \in counts /\ n # NoCount
      BY <1>1, <1>2, <1>7, <2>1, <3>1, SpansAreNumbers DEF CountFailure, NoCount
    <3>3. /\ n.failures = 0 /\ n.first = limitClock /\ n.blockedUntil = limitClock + BlockTime
          /\ n.blockedUntil # 0
      BY <1>1, <3>1, SpansAreNumbers
    <3> QED
      BY <1>5, <3>2, <3>3 DEF CountFollows
  <2>2. CASE ~(c.failures + 1 >= MaxFailures)
    <3>1. PICK n : n = [failures |-> c.failures + 1, first |-> c.first, blockedUntil |-> c.blockedUntil]
      OBVIOUS
    <3>2. [c EXCEPT !.failures = @ + 1] = n
      BY <1>3, <3>1
    <3>3. c.failures + 1 \in 0..(MaxFailures - 1) /\ c.blockedUntil \in 0..(limitClock + BlockTime)
      <4>1. PICK f \in 0..(MaxFailures - 1), until \in 0..limitClock :
              f = c.failures /\ until = c.blockedUntil
        BY <1>3
      <4>2. f + 1 \in 0..(MaxFailures - 1) /\ until \in 0..(limitClock + BlockTime)
        BY <1>1, <2>2, <4>1, SpansAreNumbers
      <4> QED
        BY <4>1, <4>2
    <3>4. attempts' = n /\ n \in counts /\ n # NoCount
      BY <1>2, <1>3, <1>7, <2>2, <3>1, <3>2, <3>3 DEF CountFailure, NoCount
    <3>5. PICK f \in Nat, first \in Nat : f = c.failures /\ first = c.first
      BY <1>1, <1>3, SpansAreNumbers
    <3>6. Past(guesses', f + 1, 0, first)
      <4>1. Past(guesses, f, 0, first)
        BY <1>3, <3>5 DEF CountFollows
      <4> QED
        BY <1>1, <1>2, <3>5, <4>1, AppendPast
    <3>7. CASE c.blockedUntil = 0
      <4>1. PICK back \in Nat : back = f + (MaxFailures - 1) /\ back + 1 = f + 1 + (MaxFailures - 1)
        BY <3>5, SpansAreNumbers
      <4>2. Past(guesses, back, GuessSpan, first)
        BY <1>3, <3>5, <3>7, <4>1 DEF CountFollows
      <4>3. Past(guesses', back + 1, GuessSpan, first)
        BY <1>1, <1>2, <3>5, <4>1, <4>2, SpansAreNumbers, AppendPast
      <4>4. Past(guesses', n.failures + (MaxFailures - 1), GuessSpan, n.first)
        BY <3>1, <3>5, <4>1, <4>3
      <4> QED
        BY <3>1, <3>4, <3>5, <3>6, <3>7, <4>4 DEF CountFollows
    <3>8. CASE c.blockedUntil # 0
      <4>1. n.blockedUntil = n.first + BlockTime
        BY <1>3, <3>1, <3>8 DEF CountFollows
      <4> QED
        BY <3>1, <3>4, <3>5, <3>6, <3>8, <4>1 DEF CountFollows
    <3> QED
      BY <3>4, <3>7, <3>8
  <2> QED
    BY <2>1, <2>2
<1>9. LimitTypeOK'
  <2>1. limitClock \in 0..MaxLimitTime /\ guesses \in Seq(0..MaxLimitTime)
    BY DEF LimitInv, LimitTypeOK
  <2>2. guesses' \in Seq(0..MaxLimitTime)
    BY <1>2, <2>1
  <2> QED
    BY <1>1, <1>2, <1>7, <1>8, <2>1, <2>2 DEF LimitTypeOK
<1>10. /\ Past(served, 0, 0, limitClock)' /\ Spaced(served, 2 * RateLimit, RateWindow)'
       /\ (IF window = NoCount THEN Past(served, RateLimit, RateWindow, limitClock)
                               ELSE WindowFollows(window))'
  BY <1>2 DEF LimitInv, WindowFollows
<1> QED
  BY <1>2, <1>5, <1>6, <1>8, <1>9, <1>10 DEF LimitInv

\* a right one, that clears the count,
LEMMA LoginSucceedsKeeps ==
  ASSUME LimitInv, LoginSucceeds
  PROVE  LimitInv'
<1>1. attempts' = NoCount /\ guesses' = <<>> /\ UNCHANGED <<window, served, limitClock>>
  BY DEF LoginSucceeds
<1>2. LimitTypeOK'
  BY <1>1 DEF LimitInv, LimitTypeOK
<1>3. /\ Past(guesses, 0, 0, limitClock)' /\ Spaced(guesses, 2 * MaxFailures - 1, GuessSpan)'
      /\ Past(guesses, MaxFailures - 1, GuessSpan, limitClock)'
  BY <1>1, EmptyPast
<1> QED
  BY <1>1, <1>2, <1>3 DEF LimitInv, WindowFollows

\* the collection of counts that say nothing any more,
LEMMA ForgetAttemptsKeeps ==
  ASSUME LimitInv, ForgetAttempts
  PROVE  LimitInv'
<1>1. /\ attempts # NoCount /\ limitClock - attempts.first > 2 * LoginWindow
      /\ attempts' = NoCount /\ UNCHANGED <<window, guesses, served, limitClock>>
  BY DEF ForgetAttempts
<1>2. LimitTypeOK'
  BY <1>1 DEF LimitInv, LimitTypeOK
<1>3. PICK f \in Nat, first \in Nat :
        /\ f = attempts.failures /\ first = attempts.first /\ f <= MaxFailures - 1
        /\ Past(guesses, f, 0, first)
  BY <1>1, Records, SpansAreNumbers DEF LimitInv, CountFollows
<1>4. limitClock \in Nat /\ guesses \in Seq(Nat)
  BY Records DEF LimitInv
<1>5. Past(guesses, MaxFailures - 1, GuessSpan, limitClock)
  <2>1. first + GuessSpan <= limitClock + 0
    BY <1>1, <1>3, <1>4, SpansAreNumbers
  <2> QED
    BY <1>3, <1>4, <2>1, SpansAreNumbers, WeakerPast
<1> QED
  BY <1>1, <1>2, <1>5 DEF LimitInv, WindowFollows

\* What the window under way knows of the requests served before.
LEMMA CurrentWindowFollows ==
  ASSUME LimitInv
  PROVE  /\ CurrentWindow.start \in 0..limitClock /\ CurrentWindow.count \in 0..(RateLimit + 1)
         /\ CurrentWindow = [start |-> CurrentWindow.start, count |-> CurrentWindow.count]
         /\ WindowFollows(CurrentWindow)
<1>1. LimitTypeOK /\ limitClock \in Nat /\ served \in Seq(Nat)
  BY Records DEF LimitInv
<1>2. CASE window = NoCount \/ limitClock - window.start >= RateWindow
  <2>1. PICK w : w = [start |-> limitClock, count |-> 0]
    OBVIOUS
  <2>2. CurrentWindow = w /\ w.start = limitClock /\ w.count = 0
    BY <1>2, <2>1 DEF CurrentWindow
  <2>3. Past(served, RateLimit, RateWindow, limitClock)
    <3>1. CASE window = NoCount
      BY <3>1 DEF LimitInv
    <3>2. CASE window # NoCount
      <4>1. PICK start \in 0..limitClock, count \in 1..(RateLimit + 1) :
              start = window.start /\ count = window.count
        BY <1>1, <3>2, Records
      <4>2. Counted(window) \in Nat /\ Counted(window) <= RateLimit
        BY <4>1, SpansAreNumbers DEF Counted
      <4>3. Past(served, Counted(window), 0, start)
        BY <3>2, <4>1 DEF LimitInv, WindowFollows
      <4>4. start \in Nat /\ start + RateWindow <= limitClock + 0
        BY <1>1, <1>2, <3>2, <4>1, SpansAreNumbers
      <4> QED
        BY <1>1, <4>2, <4>3, <4>4, SpansAreNumbers, WeakerPast
    <3> QED
      BY <3>1, <3>2
  <2>4. Counted(w) = 0 /\ 0 + RateLimit = RateLimit
    BY <2>2, SpansAreNumbers DEF Counted
  <2>5. Past(served, 0, 0, limitClock)
    BY DEF LimitInv
  <2>6. WindowFollows(w)
    BY <2>2, <2>3, <2>4, <2>5 DEF WindowFollows
  <2> QED
    BY <1>1, <2>1, <2>2, <2>6, SpansAreNumbers
<1>3. CASE window # NoCount /\ ~(limitClock - window.start >= RateWindow)
  <2>1. CurrentWindow = window
    BY <1>3 DEF CurrentWindow
  <2>2. window = [start |-> window.start, count |-> window.count]
        /\ window.start \in 0..limitClock /\ window.count \in 1..(RateLimit + 1)
        /\ WindowFollows(window)
    BY <1>1, <1>3 DEF LimitInv, LimitTypeOK
  <2> QED
    BY <2>1, <2>2, SpansAreNumbers
<1> QED
  BY <1>2, <1>3

\* a request, served or refused,
LEMMA RequestKeeps ==
  ASSUME LimitInv, Request
  PROVE  LimitInv'
<1>1. PICK w : w = CurrentWindow
  OBVIOUS
<1>2. LimitTypeOK /\ limitClock \in Nat /\ served \in Seq(Nat)
  BY Records DEF LimitInv
<1>3. PICK start \in 0..limitClock, count \in 0..(RateLimit + 1) :
        w = [start |-> start, count |-> count] /\ start = w.start /\ count = w.count
  BY <1>1, CurrentWindowFollows
<1>4. PICK n : n = [start |-> start, count |-> count + 1]
  OBVIOUS
<1>5. /\ window' = n /\ n.start = start /\ n.count = count + 1
      /\ served' = (IF count + 1 > RateLimit THEN served ELSE Append(served, limitClock))
      /\ count + 1 <= RateLimit + 1
      /\ UNCHANGED <<attempts, guesses, limitClock>>
  <2>1. [w EXCEPT !.count = @ + 1] = n
    BY <1>3, <1>4
  <2> QED
    BY <1>1, <1>4, <2>1 DEF Request
<1>6. start \in Nat /\ count \in Nat
  BY <1>2, <1>3, SpansAreNumbers
<1>7. /\ Past(served, Counted(w), 0, start)
      /\ Past(served, Counted(w) + RateLimit, RateWindow, start)
  BY <1>1, <1>3, CurrentWindowFollows DEF WindowFollows
<1>8. window' \in [start : 0..limitClock, count : 1..(RateLimit + 1)] /\ window' # NoCount
  <2>1. count + 1 \in 1..(RateLimit + 1)
    BY <1>5, <1>6, SpansAreNumbers
  <2> QED
    BY <1>3, <1>4, <1>5, <2>1 DEF NoCount
<1>9. /\ Past(served, 0, 0, limitClock)
      /\ Spaced(served, 2 * RateLimit, RateWindow)
      /\ limitClock \in 0..MaxLimitTime /\ served \in Seq(0..MaxLimitTime)
  BY DEF LimitInv, LimitTypeOK
<1>10. /\ served' \in Seq(0..MaxLimitTime) /\ Past(served', 0, 0, limitClock)
       /\ Spaced(served', 2 * RateLimit, RateWindow)
       /\ WindowFollows(n)'
  <2>1. CASE count + 1 > RateLimit
    <3>1. served' = served /\ Counted(n) = RateLimit /\ Counted(w) = RateLimit
      BY <1>3, <1>5, <1>6, <2>1, SpansAreNumbers DEF Counted
    <3> QED
      BY <1>5, <1>7, <1>9, <3>1 DEF WindowFollows
  <2>2. CASE ~(count + 1 > RateLimit)
    <3>1. /\ served' = Append(served, limitClock)
          /\ Counted(n) = count + 1 /\ Counted(w) = count
      BY <1>3, <1>5, <1>6, <2>2, SpansAreNumbers DEF Counted
    <3>2. served' \in Seq(0..MaxLimitTime)
      BY <1>9, <3>1
    <3>3. Past(served', 0, 0, limitClock)
      <4>1. limitClock + 0 <= limitClock
        BY <1>2
      <4> QED
        BY <1>2, <1>9, <3>1, <4>1, AppendPast
    <3>4. Past(served', count + 1, 0, start)
      BY <1>2, <1>6, <1>7, <3>1, AppendPast
    <3>5. PICK back \in Nat : back = count + RateLimit /\ back + 1 = count + 1 + RateLimit
      BY <1>6, SpansAreNumbers
    <3>6. Past(served', back + 1, RateWindow, start)
      BY <1>2, <1>6, <1>7, <3>1, <3>5, SpansAreNumbers, AppendPast
    <3>7. Spaced(served', 2 * RateLimit, RateWindow)
      <4>1. PICK few \in Nat \ {0} : few = 2 * RateLimit /\ few - 1 \in Nat /\ back <= few - 1
        BY <1>6, <2>2, <3>5, SpansAreNumbers
      <4>2. start + RateWindow <= limitClock + RateWindow
        BY <1>2, <1>3, SpansAreNumbers
      <4>3. Past(served, back, RateWindow, start)
        BY <1>7, <3>1, <3>5
      <4>4. Past(served, few - 1, RateWindow, limitClock)
        BY <1>2, <1>6, <4>1, <4>2, <4>3, SpansAreNumbers, WeakerPast
      <4> QED
        BY <1>2, <1>9, <3>1, <4>1, <4>4, SpansAreNumbers, AppendSpaced
    <3> QED
      BY <1>5, <3>1, <3>2, <3>3, <3>4, <3>5, <3>6, <3>7 DEF WindowFollows, Counted
  <2> QED
    BY <2>1, <2>2
<1>11. LimitTypeOK'
  BY <1>2, <1>5, <1>8, <1>10 DEF LimitTypeOK
<1>12. (IF attempts = NoCount THEN Past(guesses, MaxFailures - 1, GuessSpan, limitClock)
                              ELSE CountFollows(attempts))'
       /\ Past(guesses, 0, 0, limitClock)' /\ Spaced(guesses, 2 * MaxFailures - 1, GuessSpan)'
  BY <1>5 DEF LimitInv, CountFollows
<1>13. WindowFollows(window)'
  BY <1>5, <1>10 DEF WindowFollows, Counted
<1> QED
  BY <1>5, <1>8, <1>10, <1>11, <1>12, <1>13 DEF LimitInv

\* and the collection of windows that are over.
LEMMA ForgetWindowKeeps ==
  ASSUME LimitInv, ForgetWindow
  PROVE  LimitInv'
<1>1. /\ window # NoCount /\ limitClock - window.start >= 3 * RateWindow
      /\ window' = NoCount /\ UNCHANGED <<attempts, guesses, served, limitClock>>
  BY DEF ForgetWindow
<1>2. LimitTypeOK'
  BY <1>1 DEF LimitInv, LimitTypeOK
<1>3. limitClock - window.start >= RateWindow
  BY <1>1, Records, SpansAreNumbers DEF LimitInv
<1>4. Past(served, RateLimit, RateWindow, limitClock)
  <2>1. PICK w : w = CurrentWindow
    OBVIOUS
  <2>2. w = [start |-> limitClock, count |-> 0] /\ WindowFollows(w)
    BY <1>3, <2>1, CurrentWindowFollows DEF CurrentWindow
  <2>3. w.start = limitClock /\ Counted(w) + RateLimit = RateLimit
    BY <2>2, SpansAreNumbers DEF Counted
  <2> QED
    BY <2>2, <2>3 DEF WindowFollows
<1> QED
  BY <1>1, <1>2, <1>4 DEF LimitInv, CountFollows

\* Time that passes makes the past no shorter.
LEMMA LimitTickKeeps ==
  ASSUME LimitInv, LimitTick
  PROVE  LimitInv'
<1>1. /\ limitClock < MaxLimitTime /\ limitClock' = limitClock + 1
      /\ UNCHANGED <<attempts, window, guesses, served>>
  BY DEF LimitTick
<1>2. limitClock \in Nat /\ guesses \in Seq(Nat) /\ served \in Seq(Nat)
  BY Records DEF LimitInv
<1>3. ASSUME NEW times \in Seq(Nat), NEW back \in Nat, NEW span \in Nat,
             Past(times, back, span, limitClock)
      PROVE  Past(times, back, span, limitClock')
  <2>1. PICK now \in Nat, later \in Nat :
          now = limitClock /\ later = limitClock' /\ now + span <= later + span
    BY <1>1, <1>2
  <2>2. Past(times, back, span, later)
    <3>1. Past(times, back, span, now) /\ back <= back
      BY <1>3, <2>1
    <3> QED
      BY <2>1, <3>1, WeakerPast
  <2> QED
    BY <2>1, <2>2
<1>4. LimitTypeOK'
  <2>1. /\ limitClock' \in 0..MaxLimitTime
        /\ 0..limitClock \subseteq 0..limitClock'
        /\ 0..(limitClock + BlockTime) \subseteq 0..(limitClock' + BlockTime)
    BY <1>1, <1>2, SpansAreNumbers
  <2>2. attempts # NoCount =>
          attempts' \in [failures : 0..(MaxFailures - 1), first : 0..limitClock',
                         blockedUntil : 0..(limitClock' + BlockTime)]
    BY <1>1, <2>1 DEF LimitInv, LimitTypeOK
  <2>3. window # NoCount => window' \in [start : 0..limitClock', count : 1..(RateLimit + 1)]
    BY <1>1, <2>1 DEF LimitInv, LimitTypeOK
  <2> QED
    BY <1>1, <2>1, <2>2, <2>3 DEF LimitInv, LimitTypeOK
<1>5. Past(guesses, 0, 0, limitClock') /\ Past(served, 0, 0, limitClock')
  BY <1>2, <1>3 DEF LimitInv
<1>6. attempts = NoCount => Past(guesses, MaxFailures - 1, GuessSpan, limitClock')
  BY <1>2, <1>3, SpansAreNumbers DEF LimitInv
<1>7. window = NoCount => Past(served, RateLimit, RateWindow, limitClock')
  BY <1>2, <1>3, SpansAreNumbers DEF LimitInv
<1> QED
  BY <1>1, <1>4, <1>5, <1>6, <1>7 DEF LimitInv, CountFollows, WindowFollows

\* Every step keeps the invariant of the limiters.
LEMMA LimitNextKeeps ==
  ASSUME LimitInv, [LimitNext]_limitVars
  PROVE  LimitInv'
<1>1. CASE UNCHANGED limitVars
  BY <1>1 DEF LimitInv, LimitTypeOK, CountFollows, WindowFollows, limitVars
<1> QED
  BY <1>1, LoginFailsKeeps, LoginSucceedsKeeps, ForgetAttemptsKeeps, RequestKeeps,
     ForgetWindowKeeps, LimitTickKeeps DEF LimitNext

\* The counts, windows and histories of the limiters keep their shapes.
THEOREM LimitsTypeCorrect == LimitSpec => []LimitTypeOK
<1>1. LimitInv => LimitTypeOK
  BY DEF LimitInv
<1> QED
  BY <1>1, LimitInitially, LimitNextKeeps, PTL DEF LimitSpec

\* No span of a window holds more guesses than two counts less one, and none of a rate
\* window more requests served than twice the limit.
THEOREM LimitersAlwaysHold == LimitSpec => []LimitersHold
<1>1. ASSUME LimitInv
      PROVE  LimitersHold
  <2>1. limitClock \in Nat /\ guesses \in Seq(Nat) /\ served \in Seq(Nat)
    BY <1>1, Records DEF LimitInv
  <2>2. \A n \in Within(guesses, GuessSpan) : n <= 2 * MaxFailures - 1
    <3>1. PICK few \in Nat : few = 2 * MaxFailures - 1 /\ Spaced(guesses, few, GuessSpan)
      BY <1>1, SpansAreNumbers DEF LimitInv
    <3>2. \A n \in Within(guesses, GuessSpan) : n <= few
      BY <2>1, <3>1, SpansAreNumbers, SpacedAreFew
    <3> QED
      BY <3>1, <3>2
  <2>3. \A n \in Within(served, RateWindow) : n <= 2 * RateLimit
    <3>1. PICK few \in Nat : few = 2 * RateLimit /\ Spaced(served, few, RateWindow)
      BY <1>1, SpansAreNumbers DEF LimitInv
    <3>2. \A n \in Within(served, RateWindow) : n <= few
      BY <2>1, <3>1, SpansAreNumbers, SpacedAreFew
    <3> QED
      BY <3>1, <3>2
  <2> QED
    BY <2>2, <2>3 DEF LimitersHold, GuessRate, RequestRate
<1> QED
  BY <1>1, LimitInitially, LimitNextKeeps, PTL DEF LimitSpec

-----------------------------------------------------------------------------
(***************************************************************************)
(* The audit log.  Its hashes are the lists of events they cover, so what  *)
(* has to be known of a sorted list is where its entries come from, and    *)
(* that a list in the order of time stays as it is.                        *)
(***************************************************************************)

Ranks(size, E) ==
  /\ \A i, j \in 1..size : i # j => (<<i, j>> \in E <=> <<j, i>> \notin E)
  /\ \A i \in 1..size : <<i, i>> \notin E
  /\ \A i, j, k \in 1..size : <<i, j>> \in E /\ <<j, k>> \in E => <<i, k>> \in E

\* The places of a list, ranked by a strict total order, are taken once each.
LEMMA OrderedFacts ==
  ASSUME NEW size \in Nat, NEW E, Ranks(size, E)
  PROVE  \A n \in 1..size :
           \E i \in 1..size : Cardinality({j \in 1..size : <<j, i>> \in E}) + 1 = n
<1> DEFINE Before(i) == {j \in 1..size : <<j, i>> \in E}
           place == [i \in 1..size |-> Cardinality(Before(i)) + 1]
<1>1. IsFiniteSet(1..size) /\ Cardinality(1..size) = size
  <2>1. IsFiniteSet(1..size) /\ Cardinality(1..size) = IF 1 > size THEN 0 ELSE size - 1 + 1
    BY FS_Interval
  <2> QED
    BY <2>1
<1>2. ASSUME NEW i \in 1..size, NEW S \in SUBSET (1..size), Before(i) \in SUBSET S, i \in S
      PROVE  /\ Cardinality(Before(i)) \in Nat /\ Cardinality(S) \in Nat
             /\ Cardinality(Before(i)) < Cardinality(S)
  <2>1. i \notin Before(i)
    BY DEF Ranks
  <2> HIDE DEF Before
  <2>2. IsFiniteSet(S) /\ Cardinality(S) \in Nat
    BY <1>1, FS_Subset, FS_CardinalityType
  <2>3. IsFiniteSet(Before(i)) /\ Cardinality(Before(i)) \in Nat
        /\ Cardinality(Before(i)) <= Cardinality(S)
    BY <1>2, <2>2, FS_Subset, FS_CardinalityType
  <2>4. Cardinality(Before(i)) # Cardinality(S)
    BY <1>2, <2>1, <2>2, FS_Subset
  <2> QED
    BY <2>2, <2>3, <2>4
<1>3. place \in [1..size -> 1..size]
  <2>1. ASSUME NEW i \in 1..size
        PROVE  Cardinality(Before(i)) + 1 \in 1..size
    <3>1. Before(i) \in SUBSET (1..size)
      OBVIOUS
    <3> PICK all : all = 1..size
      OBVIOUS
    <3>2. Cardinality(Before(i)) \in Nat /\ Cardinality(Before(i)) < Cardinality(all)
      BY <1>2, <3>1
    <3> QED
      BY <1>1, <3>2
  <2> QED
    BY <2>1
<1>4. ASSUME NEW i \in 1..size, NEW j \in 1..size, <<i, j>> \in E
      PROVE  place[i] # place[j]
  <2>1. Before(i) \in SUBSET Before(j) /\ i \in Before(j) /\ Before(j) \in SUBSET (1..size)
    BY <1>4 DEF Ranks
  <2> PICK S : S = Before(j)
    OBVIOUS
  <2>2. Cardinality(Before(i)) \in Nat /\ Cardinality(S) \in Nat
        /\ Cardinality(Before(i)) < Cardinality(S)
    BY <1>2, <2>1
  <2> QED
    BY <2>2
<1>5. \A i, j \in 1..size : i # j => place[i] # place[j]
  <2> HIDE DEF place
  <2> QED
    BY <1>4 DEF Ranks
<1>6. place \in Injection(1..size, 1..size)
  BY <1>3, <1>5 DEF Injection, IsInjective
<1>7. place \in Surjection(1..size, 1..size)
  BY <1>1, <1>6, FS_Injection
<1> QED
  BY <1>7 DEF Surjection

\* Sorting keeps the events.
LEMMA ByTimeFacts ==
  ASSUME NEW T, NEW events \in Seq(T), \A i \in 1..Len(events) : events[i].time \in Nat
  PROVE  /\ ByTime(events) \in Seq(T) /\ Len(ByTime(events)) = Len(events)
         /\ \A n \in 1..Len(events) : \E i \in 1..Len(events) : ByTime(events)[n] = events[i]
<1>1. PICK size \in Nat : size = Len(events)
  OBVIOUS
<1>2. PICK E : E = {p \in (1..size) \X (1..size) :
                      \/ events[p[1]].time < events[p[2]].time
                      \/ events[p[1]].time = events[p[2]].time /\ p[1] < p[2]}
  OBVIOUS
<1>3. \A i, j \in 1..size : <<i, j>> \in E <=> \/ events[i].time < events[j].time
                                               \/ events[i].time = events[j].time /\ i < j
  BY <1>2
<1>4. \A i \in 1..size : events[i].time \in Nat
  BY <1>1
<1>5. Ranks(size, E)
  <2>1. PICK at : at = [i \in 1..size |-> events[i].time]
    OBVIOUS
  <2>2. \A i \in 1..size : at[i] \in Nat
    BY <1>4, <2>1
  <2>3. \A i, j \in 1..size : <<i, j>> \in E <=> at[i] < at[j] \/ (at[i] = at[j] /\ i < j)
    BY <1>3, <2>1
  <2>4. \A i, j \in 1..size : i # j => (<<i, j>> \in E <=> <<j, i>> \notin E)
    BY ONLY <1>1, <2>2, <2>3
  <2>5. \A i \in 1..size : <<i, i>> \notin E
    BY ONLY <1>1, <2>2, <2>3
  <2>6. \A i, j, k \in 1..size : <<i, j>> \in E /\ <<j, k>> \in E => <<i, k>> \in E
    BY ONLY <1>1, <2>2, <2>3
  <2> QED
    BY <2>4, <2>5, <2>6 DEF Ranks
<1> DEFINE Place(i) == Cardinality({j \in 1..size : <<j, i>> \in E}) + 1
           at == [n \in 1..size |-> CHOOSE i \in 1..size : Place(i) = n]
<1>6. \A n \in 1..size : \E i \in 1..size : Place(i) = n
  BY <1>5, OrderedFacts
<1>7. \A n \in 1..size : at[n] \in 1..size
  BY <1>6
<1>8. ByTime(events) = [n \in 1..size |-> events[at[n]]]
  BY <1>1, <1>2 DEF ByTime, Ordered
<1>9. \A n \in 1..size : events[at[n]] \in T
  <2> HIDE DEF at
  <2> QED
    BY <1>1, <1>7
<1> HIDE DEF at, Place
<1> QED
  BY <1>1, <1>7, <1>8, <1>9

\* What is in the order of time already stays as it is.
LEMMA ByTimeKeeps ==
  ASSUME NEW T, NEW events \in Seq(T), \A i \in 1..Len(events) : events[i].time \in Nat,
         \A i, j \in 1..Len(events) : i < j => events[i].time <= events[j].time
  PROVE  ByTime(events) = events
<1>1. PICK size \in Nat : size = Len(events)
  OBVIOUS
<1>2. PICK E : E = {p \in (1..size) \X (1..size) :
                      \/ events[p[1]].time < events[p[2]].time
                      \/ events[p[1]].time = events[p[2]].time /\ p[1] < p[2]}
  OBVIOUS
<1>3. \A i, j \in 1..size : <<i, j>> \in E <=> i < j
  <2>1. PICK at : at = [i \in 1..size |-> events[i].time]
    OBVIOUS
  <2>2. \A i, j \in 1..size : <<i, j>> \in E <=> at[i] < at[j] \/ (at[i] = at[j] /\ i < j)
    BY <1>2, <2>1
  <2>3. /\ \A i \in 1..size : at[i] \in Nat
        /\ \A i, j \in 1..size : i < j => at[i] <= at[j]
    BY <1>1, <2>1
  <2> TAKE i, j \in 1..size
  <2>4. at[i] \in Nat /\ at[j] \in Nat /\ (i < j => at[i] <= at[j]) /\ (j < i => at[j] <= at[i])
    BY <2>3
  <2>5. <<i, j>> \in E <=> at[i] < at[j] \/ (at[i] = at[j] /\ i < j)
    BY <2>2
  <2>6. i < j \/ i = j \/ j < i
    OBVIOUS
  <2> QED
    BY ONLY <2>4, <2>5, <2>6, i \in Int, j \in Int
<1> DEFINE Place(i) == Cardinality({j \in 1..size : <<j, i>> \in E}) + 1
<1>4. ASSUME NEW i \in 1..size
      PROVE  Place(i) = i
  <2>1. {j \in 1..size : <<j, i>> \in E} = 1..(i - 1)
    <3>1. \A j \in 1..size : <<j, i>> \in E <=> j \in 1..(i - 1)
      BY <1>1, <1>3
    <3>2. 1..(i - 1) \subseteq 1..size
      BY <1>1
    <3> QED
      BY <3>1, <3>2
  <2>2. Cardinality(1..(i - 1)) = i - 1
    <3>1. PICK last \in Nat : last = i - 1
      OBVIOUS
    <3>2. Cardinality(1..last) = IF 1 > last THEN 0 ELSE last - 1 + 1
      BY FS_Interval
    <3> QED
      BY <3>1, <3>2
  <2>3. (i - 1) + 1 = i
    OBVIOUS
  <2> QED
    BY <2>1, <2>2, <2>3
<1>5. ASSUME NEW n \in 1..size
      PROVE  (CHOOSE i \in 1..size : Place(i) = n) = n
  <2> HIDE DEF Place
  <2> QED
    BY <1>4
<1>6. ByTime(events) = [n \in 1..size |-> events[CHOOSE i \in 1..size : Place(i) = n]]
  BY <1>1, <1>2 DEF ByTime, Ordered
<1>7. ByTime(events) = [n \in 1..size |-> events[n]]
  <2> HIDE DEF Place
  <2> QED
    BY <1>5, <1>6
<1> QED
  BY <1>1, <1>7

Numbers == 1..MaxEvents
Logged  == [id : Numbers, time : 0..MaxAuditTime]
Chained == [id : Numbers, time : 0..MaxAuditTime, seq : Numbers,
            prev : Seq(Numbers), hash : Seq(Numbers)]

Upto(chain, n) == [k \in 1..n |-> chain[k]]
IdsOf(events)  == [k \in 1..Len(events) |-> events[k].id]

\* A chain is told by the hash of its end: that the log holds the end of a chain is that
\* its events are the last in it, each with the hash that covers the chain up to it.
Spells(list, chain) ==
  /\ chain \in Seq(Numbers) /\ Len(list) <= Len(chain)
  /\ \A i \in 1..Len(list) :
       LET n == Len(chain) - Len(list) + i
       IN  /\ list[i].id = chain[n] /\ list[i].seq = n
           /\ list[i].prev = Upto(chain, n - 1) /\ list[i].hash = Upto(chain, n)

\* What a chain is up to a place: that many entries of it, whatever follows.
LEMMA UptoFacts ==
  ASSUME NEW T, NEW chain \in Seq(T), NEW n \in 0..Len(chain)
  PROVE  /\ Upto(chain, n) \in Seq(T) /\ Len(Upto(chain, n)) = n
         /\ \A k \in 1..n : Upto(chain, n)[k] = chain[k]
         /\ n = Len(chain) => Upto(chain, n) = chain
         /\ n = 0 <=> Upto(chain, n) = <<>>
         /\ \A x : Upto(Append(chain, x), n) = Upto(chain, n)
<1>1. PICK some : some = Upto(chain, n)
  OBVIOUS
<1>2. some \in Seq(T) /\ Len(some) = n /\ \A k \in 1..n : some[k] = chain[k]
  BY <1>1 DEF Upto
<1>3. n = Len(chain) => some = chain
  BY <1>1 DEF Upto
<1>4. n = 0 <=> some = <<>>
  BY <1>2
<1>5. ASSUME NEW x
      PROVE  Upto(Append(chain, x), n) = some
  <2>1. \A k \in 1..n : Append(chain, x)[k] = chain[k]
    OBVIOUS
  <2> QED
    BY <1>1, <2>1 DEF Upto
<1> QED
  BY <1>1, <1>2, <1>3, <1>4, <1>5

\* The hash of an event adds the event to the hash before it.
LEMMA UptoGrows ==
  ASSUME NEW T, NEW chain \in Seq(T), NEW n \in 1..Len(chain)
  PROVE  Upto(chain, n) = Append(Upto(chain, n - 1), chain[n])
<1>1. PICK m \in 0..Len(chain) : m = n - 1
  OBVIOUS
<1>2. PICK long : long = Upto(chain, n)
  OBVIOUS
<1>3. PICK more : more = Append(Upto(chain, m), chain[n])
  OBVIOUS
<1>4. chain[n] \in T
  OBVIOUS
<1>5. long \in Seq(T) /\ Len(long) = n /\ \A k \in 1..n : long[k] = chain[k]
  BY <1>2, UptoFacts
<1>6. /\ Upto(chain, m) \in Seq(T) /\ Len(Upto(chain, m)) = m
      /\ \A k \in 1..m : Upto(chain, m)[k] = chain[k]
  BY UptoFacts
<1>7. /\ more \in Seq(T) /\ Len(more) = m + 1 /\ more[m + 1] = chain[n]
      /\ \A k \in 1..m : more[k] = chain[k]
  BY <1>3, <1>4, <1>6
<1>8. Len(more) = n /\ \A k \in 1..n : more[k] = chain[k]
  BY <1>1, <1>7
<1>9. long = [k \in 1..n |-> chain[k]] /\ more = [k \in 1..n |-> chain[k]]
  BY <1>5, <1>7, <1>8
<1> QED
  BY <1>1, <1>2, <1>3, <1>9

\* The last so many of a list.
LEMMA LatestFacts ==
  ASSUME NEW T, NEW list \in Seq(T), NEW n \in Nat
  PROVE  /\ Latest(n, list) \in Seq(T)
         /\ Len(Latest(n, list)) = IF Len(list) > n THEN n ELSE Len(list)
         /\ \A i \in 1..Len(Latest(n, list)) :
              /\ Len(list) - Len(Latest(n, list)) + i \in 1..Len(list)
              /\ Latest(n, list)[i] = list[Len(list) - Len(Latest(n, list)) + i]
<1>1. PICK size \in Nat : size = Len(list)
  OBVIOUS
<1>2. PICK last : last = Latest(n, list)
  OBVIOUS
<1>3. CASE size > n
  <2>1. PICK from \in 1..(size + 1) : from = size - n + 1
    BY <1>3
  <2>2. last = SubSeq(list, from, size)
    BY <1>1, <1>2, <1>3, <2>1 DEF Latest
  <2>3. \A k \in from..size : k \in 1..size /\ list[k] \in T
    BY <1>1, <2>1
  <2>4. /\ last \in Seq(T) /\ Len(last) = n
        /\ \A i \in 1..n : last[i] = list[from + i - 1]
    BY <1>1, <1>3, <2>1, <2>2, <2>3
  <2>5. \A i \in 1..n : from + i - 1 = size - n + i /\ size - n + i \in 1..size
    BY <1>3, <2>1
  <2> QED
    BY <1>1, <1>2, <1>3, <2>4, <2>5
<1>4. CASE ~(size > n)
  <2>1. last = list
    BY <1>1, <1>2, <1>4 DEF Latest
  <2> QED
    BY <1>1, <1>2, <1>4, <2>1
<1> QED
  BY <1>3, <1>4

\* What is cut off at the front takes nothing from the hashes of the rest.
LEMMA LatestSpells ==
  ASSUME NEW list \in Seq(Chained), NEW chain, Spells(list, chain), NEW n \in Nat
  PROVE  Spells(Latest(n, list), chain)
<1>1. PICK size \in Nat, length \in Nat : size = Len(list) /\ length = Len(chain) /\ size <= length
  BY DEF Spells
<1>a. PICK last : last = Latest(n, list)
  OBVIOUS
<1>2. PICK rest \in Nat :
        /\ rest = Len(last) /\ rest <= size
        /\ \A i \in 1..rest : size - rest + i \in 1..size /\ last[i] = list[size - rest + i]
  <2>1. /\ last \in Seq(Chained) /\ Len(last) = IF Len(list) > n THEN n ELSE Len(list)
        /\ \A i \in 1..Len(last) : /\ Len(list) - Len(last) + i \in 1..Len(list)
                                   /\ last[i] = list[Len(list) - Len(last) + i]
    BY <1>a, LatestFacts
  <2>2. Len(last) \in Nat /\ Len(last) <= size
    BY <1>1, <2>1
  <2> QED
    BY <1>1, <2>1, <2>2
<1>3. ASSUME NEW i \in 1..rest
      PROVE  LET m == length - rest + i
             IN  /\ last[i].id = chain[m] /\ last[i].seq = m
                 /\ last[i].prev = Upto(chain, m - 1) /\ last[i].hash = Upto(chain, m)
  <2>1. PICK j \in 1..size : j = size - rest + i /\ last[i] = list[j]
    BY <1>2
  <2>2. length - size + j = length - rest + i
    BY <2>1
  <2>3. LET m == length - size + j
        IN  /\ list[j].id = chain[m] /\ list[j].seq = m
            /\ list[j].prev = Upto(chain, m - 1) /\ list[j].hash = Upto(chain, m)
    BY <1>1 DEF Spells
  <2> QED
    BY <2>1, <2>2, <2>3
<1> QED
  BY <1>1, <1>a, <1>2, <1>3 DEF Spells

\* attachChain spells the list it sorted.
LEMMA AttachedFacts ==
  ASSUME NEW T, NEW events \in Seq(T), Len(events) <= MaxEvents,
         \A t \in T : t.id \in Numbers /\ t.time \in 0..MaxAuditTime
  PROVE  /\ AttachChain(events) \in Seq(Chained) /\ Len(AttachChain(events)) = Len(events)
         /\ Spells(AttachChain(events), IdsOf(ByTime(events)))
         /\ \A i \in 1..Len(events) :
              /\ AttachChain(events)[i].id = ByTime(events)[i].id
              /\ AttachChain(events)[i].time = ByTime(events)[i].time
         /\ \A i \in 1..Len(events) : \E j \in 1..Len(events) : ByTime(events)[i] = events[j]
<1>a. PICK sorted : sorted = ByTime(events)
  OBVIOUS
<1>b. PICK size \in Nat : size = Len(events)
  OBVIOUS
<1>1. /\ sorted \in Seq(T) /\ Len(sorted) = size
      /\ \A i \in 1..size : \E j \in 1..size : sorted[i] = events[j]
  <2>1. \A i \in 1..Len(events) : events[i].time \in Nat
    OBVIOUS
  <2>2. /\ sorted \in Seq(T) /\ Len(sorted) = Len(events)
        /\ \A n \in 1..Len(events) : \E i \in 1..Len(events) : sorted[n] = events[i]
    BY <1>a, <2>1, ByTimeFacts
  <2> QED
    BY <1>b, <2>2
<1>2. PICK chain : chain = IdsOf(sorted) /\ chain = [k \in 1..size |-> sorted[k].id]
  BY <1>1 DEF IdsOf
<1>3. \A i \in 1..size : sorted[i].id \in Numbers /\ sorted[i].time \in 0..MaxAuditTime
  BY <1>1
<1>4. chain \in Seq(Numbers) /\ Len(chain) = size
  BY <1>2, <1>3
<1>5. ASSUME NEW n \in 0..size
      PROVE  [k \in 1..n |-> sorted[k].id] = Upto(chain, n) /\ Upto(chain, n) \in Seq(Numbers)
  <2>1. \A k \in 1..n : k \in 1..size /\ chain[k] = sorted[k].id
    BY <1>2
  <2>2. [k \in 1..n |-> sorted[k].id] = Upto(chain, n)
    BY <2>1 DEF Upto
  <2> QED
    BY <1>4, <2>2, UptoFacts
<1>6. PICK list : list = AttachChain(events)
  OBVIOUS
<1>7. list = [i \in 1..size |->
                Linked(sorted[i], i, [k \in 1..(i - 1) |-> sorted[k].id])]
  BY <1>a, <1>b, <1>1, <1>6 DEF AttachChain
<1>8. ASSUME NEW i \in 1..size
      PROVE  /\ list[i] \in Chained
             /\ list[i].id = sorted[i].id /\ list[i].time = sorted[i].time
             /\ list[i].id = chain[i] /\ list[i].seq = i
             /\ list[i].prev = Upto(chain, i - 1) /\ list[i].hash = Upto(chain, i)
  <2>1. PICK m \in 0..size : m = i - 1
    OBVIOUS
  <2>2. PICK before : before = Upto(chain, m) /\ before \in Seq(Numbers)
                      /\ before = [k \in 1..(i - 1) |-> sorted[k].id]
    BY <1>5, <2>1
  <2>3. list[i] = Linked(sorted[i], i, before)
    BY <1>7, <2>2
  <2>4. sorted[i].id = chain[i] /\ sorted[i].id \in Numbers /\ sorted[i].time \in 0..MaxAuditTime
    BY <1>2, <1>3
  <2>5. Append(before, sorted[i].id) = Upto(chain, i) /\ Upto(chain, i) \in Seq(Numbers)
    <3>1. Upto(chain, i) = Append(Upto(chain, i - 1), chain[i])
      BY <1>4, UptoGrows
    <3> QED
      BY <1>5, <2>1, <2>2, <2>4, <3>1
  <2>6. i \in Numbers
    BY <1>b, AuditAssumption DEF Numbers
  <2>7. list[i] = [id |-> sorted[i].id, time |-> sorted[i].time, seq |-> i, prev |-> before,
                   hash |-> Upto(chain, i)]
    BY <2>3, <2>5 DEF Linked
  <2>8. list[i] \in Chained
    BY <2>2, <2>4, <2>5, <2>6, <2>7 DEF Chained
  <2>9. /\ list[i].id = sorted[i].id /\ list[i].time = sorted[i].time
        /\ list[i].seq = i /\ list[i].prev = before /\ list[i].hash = Upto(chain, i)
    BY <2>7
  <2> QED
    BY <2>1, <2>2, <2>4, <2>8, <2>9
<1>9. list \in Seq(Chained) /\ Len(list) = size
  <2>1. list = [i \in 1..size |-> list[i]]
    BY <1>7
  <2>2. \A i \in 1..size : list[i] \in Chained
    BY <1>8
  <2> QED
    BY <2>1, <2>2
<1>10. Spells(list, chain)
  <2>1. \A i \in 1..size : size - size + i = i
    OBVIOUS
  <2> QED
    BY <1>4, <1>8, <1>9, <2>1 DEF Spells
<1>11. Spells(list, IdsOf(sorted))
  BY <1>2, <1>10
<1>12. \A i \in 1..size : list[i].id = sorted[i].id /\ list[i].time = sorted[i].time
  BY <1>8
<1> QED
  BY <1>a, <1>b, <1>1, <1>6, <1>9, <1>11, <1>12

-----------------------------------------------------------------------------
ChainOf(list) == IF list = <<>> THEN <<>> ELSE list[Len(list)].hash

Rises(chain)  == \A m, n \in 1..Len(chain) : m < n => chain[m] < chain[n]
Timely(list)  == \A i, j \in 1..Len(list) : i < j => list[i].time <= list[j].time
InOrder(list) ==
  /\ Timely(list)
  /\ \A i \in 1..Len(list) : list[i].time <= auditClock

\* A file, written or under way, holds events of long ago: while the clock only goes
\* forward none of them was stamped anew, and if the chain in memory begins with the
\* file's first event it goes on where the file ends.
InFile(file) ==
  /\ file \in Seq(Logged) /\ Len(file) <= recorded
  /\ \A k \in 1..Len(file) : file[k].id <= recorded
  /\ setBacks = 0 =>
       /\ Rises(IdsOf(file)) /\ InOrder(file)
       /\ \A k \in 1..Len(file), i \in 1..Len(bucket) :
            file[k].id = bucket[i].id => file[k].time = bucket[i].time
       /\ file # <<>> /\ bucket # <<>> =>
            /\ file[1].id <= bucket[1].id
            /\ file[1].id = ChainOf(bucket)[1] =>
                 /\ Len(file) <= Len(ChainOf(bucket))
                 /\ \A k \in 1..Len(file) : file[k].id = ChainOf(bucket)[k]

AuditShapes ==
  /\ bucket \in Seq(Chained)
  /\ limit \in AuditLimits /\ recorded \in 0..MaxEvents
  /\ auditTimer \in BOOLEAN /\ auditWaiting \in 0..MaxAuditWaiting
  /\ trimmed \in BOOLEAN
  /\ auditClock \in 0..MaxAuditTime /\ setBacks \in 0..MaxSetBacks /\ reloads \in 0..MaxReloads

\* What the log says of its own past.
BucketChained ==
  /\ Spells(bucket, ChainOf(bucket))
  /\ trimmed <=> Len(ChainOf(bucket)) > Len(bucket)
  /\ Len(bucket) <= limit /\ Len(ChainOf(bucket)) <= recorded
  /\ \A n \in 1..Len(ChainOf(bucket)) : ChainOf(bucket)[n] <= recorded

BucketInOrder ==
  setBacks = 0 =>
    /\ Rises(ChainOf(bucket)) /\ InOrder(bucket)
    /\ reloads = 0 =>
         \A i \in 1..Len(bucket) : bucket[i].id = recorded - Len(bucket) + i

FilesOfThePast ==
  /\ InFile(auditSaved)
  /\ auditWriting # <<>> => Len(auditWriting) = 1 /\ InFile(auditWriting[1])

AuditInv == AuditShapes /\ BucketChained /\ BucketInOrder /\ FilesOfThePast

\* A list of a type has a length and entries of the type.
LEMMA ListEntries ==
  ASSUME NEW T, NEW list \in Seq(T)
  PROVE  Len(list) \in Nat /\ \A n \in 1..Len(list) : list[n] \in T
OBVIOUS

\* A list without entries is the empty list.
LEMMA EmptyList ==
  ASSUME NEW T, NEW list \in Seq(T), Len(list) = 0
  PROVE  list = <<>>
OBVIOUS

\* The chain of a list is the hash of its last event; each event is at its place in it.
LEMMA SpelledAt ==
  ASSUME NEW list \in Seq(Chained), NEW chain, Spells(list, chain)
  PROVE  /\ chain \in Seq(Numbers) /\ Len(list) <= Len(chain)
         /\ list # <<>> => ChainOf(list) = chain
         /\ \A i \in 1..Len(list) :
              LET n == Len(chain) - Len(list) + i
              IN  /\ n \in 1..Len(chain)
                  /\ list[i].id = chain[n] /\ list[i].seq = n
                  /\ list[i].prev = Upto(chain, n - 1) /\ list[i].hash = Upto(chain, n)
<1>1. PICK size \in Nat, length \in Nat : size = Len(list) /\ length = Len(chain) /\ size <= length
  BY DEF Spells
<1>2. chain \in Seq(Numbers)
  BY DEF Spells
<1>3. ASSUME NEW i \in 1..size
      PROVE  LET n == length - size + i
             IN  /\ n \in 1..length
                 /\ list[i].id = chain[n] /\ list[i].seq = n
                 /\ list[i].prev = Upto(chain, n - 1) /\ list[i].hash = Upto(chain, n)
  <2>1. LET n == length - size + i
        IN  /\ list[i].id = chain[n] /\ list[i].seq = n
            /\ list[i].prev = Upto(chain, n - 1) /\ list[i].hash = Upto(chain, n)
    BY <1>1 DEF Spells
  <2>2. length - size + i \in 1..length
    BY <1>1
  <2> QED
    BY <2>1, <2>2
<1>4. ASSUME list # <<>>
      PROVE  ChainOf(list) = chain
  <2>1. size \in 1..size /\ length - size + size = length
    BY <1>1, <1>4
  <2>2. list[size].hash = Upto(chain, length)
    BY <1>3, <2>1
  <2> QED
    BY <1>1, <1>2, <1>4, <2>2, UptoFacts DEF ChainOf
<1> QED
  BY <1>1, <1>2, <1>3, <1>4

\* One event of a list and its place in the chain.
LEMMA SpelledEntry ==
  ASSUME NEW list \in Seq(Chained), NEW chain, Spells(list, chain), NEW i \in 1..Len(list),
         NEW k, k = Len(chain) - Len(list) + i
  PROVE  /\ k \in 1..Len(chain)
         /\ list[i].id = chain[k] /\ list[i].seq = k
         /\ list[i].prev = Upto(chain, k - 1) /\ list[i].hash = Upto(chain, k)
BY SpelledAt

\* If the chain rises, the events of the list do.
LEMMA SpelledRise ==
  ASSUME NEW list \in Seq(Chained), NEW chain, Spells(list, chain), Rises(chain)
  PROVE  /\ \A i, j \in 1..Len(list) : i < j => list[i].id < list[j].id
         /\ Rises(IdsOf(list))
<1>1. PICK size \in Nat, length \in Nat : size = Len(list) /\ length = Len(chain) /\ size <= length
  BY DEF Spells
<1>2. \A i \in 1..size : length - size + i \in 1..length /\ list[i].id = chain[length - size + i]
  BY <1>1, SpelledAt
<1>3. ASSUME NEW i \in 1..size, NEW j \in 1..size, i < j
      PROVE  list[i].id < list[j].id
  <2>1. PICK m \in 1..length, n \in 1..length :
          /\ m = length - size + i /\ n = length - size + j
          /\ list[i].id = chain[m] /\ list[j].id = chain[n]
    BY <1>2
  <2>2. m < n
    BY <1>3, <2>1
  <2> QED
    BY <1>1, <2>1, <2>2 DEF Rises
<1>4. PICK ids : ids = IdsOf(list) /\ Len(ids) = size /\ \A i \in 1..size : ids[i] = list[i].id
  <2>1. PICK ids : ids = [k \in 1..size |-> list[k].id]
    OBVIOUS
  <2>2. ids = IdsOf(list)
    BY <1>1, <2>1 DEF IdsOf
  <2>3. Len(ids) = size /\ \A i \in 1..size : ids[i] = list[i].id
    BY <2>1
  <2> QED
    BY <2>2, <2>3
<1>5. Rises(ids)
  BY <1>3, <1>4 DEF Rises
<1> QED
  BY <1>1, <1>3, <1>4, <1>5

\* An event linked to the end goes on with the chain.
LEMMA LinkingSpells ==
  ASSUME AuditShapes, BucketChained, recorded < MaxEvents,
         NEW event, event = [id |-> recorded + 1, time |-> auditClock],
         NEW more, more = Append(bucket, Linking(event))
  PROVE  /\ more \in Seq(Chained) /\ Len(more) = Len(bucket) + 1
         /\ ChainOf(more) = Append(ChainOf(bucket), recorded + 1)
         /\ Spells(more, ChainOf(more))
         /\ \A i \in 1..Len(bucket) : more[i] = bucket[i]
         /\ more[Len(more)].id = recorded + 1 /\ more[Len(more)].time = auditClock
<1>1. PICK size \in Nat : size = Len(bucket) /\ bucket \in Seq(Chained)
  BY DEF AuditShapes
<1>2. PICK chain : chain = ChainOf(bucket) /\ Spells(bucket, chain)
  BY DEF BucketChained
<1>3. PICK length \in Nat :
        /\ length = Len(chain) /\ size <= length /\ length <= recorded /\ chain \in Seq(Numbers)
        /\ \A i \in 1..size :
             LET n == length - size + i
             IN  /\ n \in 1..length
                 /\ bucket[i].id = chain[n] /\ bucket[i].seq = n
                 /\ bucket[i].prev = Upto(chain, n - 1) /\ bucket[i].hash = Upto(chain, n)
  <2>1. /\ chain \in Seq(Numbers) /\ Len(bucket) <= Len(chain)
        /\ \A i \in 1..Len(bucket) :
             LET n == Len(chain) - Len(bucket) + i
             IN  /\ n \in 1..Len(chain)
                 /\ bucket[i].id = chain[n] /\ bucket[i].seq = n
                 /\ bucket[i].prev = Upto(chain, n - 1) /\ bucket[i].hash = Upto(chain, n)
    BY <1>1, <1>2, SpelledAt
  <2> QED
    BY <1>1, <1>2, <2>1 DEF BucketChained
<1>4. /\ recorded \in Nat /\ MaxEvents \in Nat
      /\ recorded + 1 \in Numbers /\ length + 1 \in Numbers /\ auditClock \in 0..MaxAuditTime
  BY <1>3, AuditAssumption DEF AuditShapes, Numbers
<1>5. PICK id : id = recorded + 1 /\ id \in Numbers
  BY <1>4
<1>6. PICK whole : whole = Append(chain, id)
  OBVIOUS
<1>7. /\ whole \in Seq(Numbers) /\ Len(whole) = length + 1 /\ whole[length + 1] = id
      /\ \A n \in 0..length : Upto(whole, n) = Upto(chain, n)
      /\ Upto(whole, length) = chain /\ Upto(whole, length + 1) = whole
      /\ \A n \in 1..length : whole[n] = chain[n]
  <2>1. /\ whole \in Seq(Numbers) /\ Len(whole) = length + 1 /\ whole[length + 1] = id
        /\ \A n \in 1..length : whole[n] = chain[n]
    BY <1>3, <1>5, <1>6
  <2>2. \A n \in 0..length : Upto(whole, n) = Upto(chain, n)
    BY <1>3, <1>6, UptoFacts
  <2>3. Upto(chain, length) = chain
    BY <1>3, UptoFacts
  <2>4. Upto(whole, length + 1) = whole
    BY <2>1, UptoFacts
  <2> QED
    BY <2>1, <2>2, <2>3, <2>4
<1>8. Linking(event) = [id |-> id, time |-> auditClock, seq |-> length + 1, prev |-> chain,
                        hash |-> whole]
  <2>1. CASE size = 0
    <3>0. bucket = <<>>
      BY <1>1, <2>1, EmptyList
    <3>1. bucket = <<>> /\ chain = <<>>
      BY <1>2, <3>0 DEF ChainOf
    <3>2. length = 0
      BY <1>3, <3>1
    <3> QED
      BY <1>5, <1>6, <3>1, <3>2 DEF Linking, Linked
  <2>2. CASE size # 0
    <3>1. bucket # <<>> /\ size \in 1..size /\ length - size + size = length
      BY <1>1, <1>3, <2>2
    <3>2. bucket[size].seq = length /\ bucket[size].hash = chain
      <4>1. bucket[size].seq = length /\ bucket[size].hash = Upto(chain, length)
        BY <1>3, <3>1
      <4> QED
        BY <1>3, <4>1, UptoFacts
    <3> QED
      BY <1>1, <1>5, <1>6, <3>1, <3>2 DEF Linking, Linked
  <2> QED
    BY <2>1, <2>2
<1>9. PICK link \in Chained :
        /\ link = Linking(event) /\ link.id = id /\ link.time = auditClock
        /\ link.seq = length + 1 /\ link.prev = chain /\ link.hash = whole
  <2>1. Linking(event) \in Chained
    BY <1>3, <1>4, <1>5, <1>7, <1>8 DEF Chained
  <2> QED
    BY <1>8, <2>1
<1>10. /\ more \in Seq(Chained) /\ Len(more) = size + 1 /\ more[size + 1] = link
       /\ \A i \in 1..size : more[i] = bucket[i]
  BY <1>1, <1>9
<1>11. ChainOf(more) = whole
  BY <1>1, <1>9, <1>10 DEF ChainOf
<1>12. ASSUME NEW i \in 1..(size + 1)
       PROVE  LET n == (length + 1) - (size + 1) + i
              IN  /\ more[i].id = whole[n] /\ more[i].seq = n
                  /\ more[i].prev = Upto(whole, n - 1) /\ more[i].hash = Upto(whole, n)
  <2>1. CASE i = size + 1
    <3>1. (length + 1) - (size + 1) + i = length + 1 /\ (length + 1) - 1 = length
      BY <1>3, <2>1
    <3> QED
      BY <1>7, <1>9, <1>10, <2>1, <3>1
  <2>2. CASE i \in 1..size
    <3>1. PICK n \in 1..length : n = length - size + i
      BY <1>3, <2>2
    <3>2. /\ bucket[i].id = chain[n] /\ bucket[i].seq = n
          /\ bucket[i].prev = Upto(chain, n - 1) /\ bucket[i].hash = Upto(chain, n)
      BY <1>3, <2>2, <3>1
    <3>3. /\ (length + 1) - (size + 1) + i = n /\ n - 1 \in 0..length /\ n \in 0..length
      BY <1>1, <1>3, <2>2, <3>1
    <3>4. Upto(whole, n) = Upto(chain, n) /\ Upto(whole, n - 1) = Upto(chain, n - 1)
          /\ whole[n] = chain[n]
      BY <1>7, <3>3
    <3> QED
      BY <1>10, <2>2, <3>2, <3>3, <3>4
  <2>3. i = size + 1 \/ i \in 1..size
    OBVIOUS
  <2> QED
    BY <2>1, <2>2, <2>3
<1>13. Spells(more, whole)
  <2>1. Len(more) <= Len(whole)
    BY <1>3, <1>7, <1>10
  <2>2. \A i \in 1..Len(more) :
          LET n == Len(whole) - Len(more) + i
          IN  /\ more[i].id = whole[n] /\ more[i].seq = n
              /\ more[i].prev = Upto(whole, n - 1) /\ more[i].hash = Upto(whole, n)
    BY <1>7, <1>10, <1>12
  <2> QED
    BY <1>7, <2>1, <2>2 DEF Spells
<1> QED
  BY <1>1, <1>2, <1>5, <1>6, <1>9, <1>10, <1>11, <1>13

\* The types of an event's parts, taken apart.
LEMMA EventTypes ==
  /\ MaxEvents \in Nat /\ Numbers \subseteq Nat
  /\ \A event \in Chained : /\ event.id \in Numbers /\ event.id \in Nat
                             /\ event.time \in 0..MaxAuditTime /\ event.time \in Nat
  /\ \A event \in Logged : /\ event.id \in Numbers /\ event.id \in Nat
                            /\ event.time \in 0..MaxAuditTime /\ event.time \in Nat
<1>1. MaxEvents \in Nat /\ MaxAuditTime \in Nat
  BY AuditAssumption
<1>2. Numbers \subseteq Nat
  BY <1>1 DEF Numbers
<1>3. \A event \in Chained : event.id \in Numbers /\ event.time \in 0..MaxAuditTime
  BY DEF Chained
<1>4. \A event \in Logged : event.id \in Numbers /\ event.time \in 0..MaxAuditTime
  BY DEF Logged
<1>5. \A time \in 0..MaxAuditTime : time \in Nat
  BY <1>1
<1> QED
  BY <1>1, <1>2, <1>3, <1>4, <1>5

\* The identifiers and times of what the log holds.
LEMMA BucketEntries ==
  ASSUME AuditShapes, BucketChained
  PROVE  \A i \in 1..Len(bucket) :
           /\ bucket[i] \in Chained /\ bucket[i].id \in Nat /\ bucket[i].time \in Nat
           /\ bucket[i].id <= recorded
<1>1. PICK size \in Nat : size = Len(bucket) /\ bucket \in Seq(Chained)
  BY DEF AuditShapes
<1>2. ASSUME NEW i \in 1..size
      PROVE  bucket[i].id <= recorded
  <2>1. PICK chain : chain = ChainOf(bucket) /\ Spells(bucket, chain)
    BY DEF BucketChained
  <2>2. PICK n : n = Len(chain) - size + i
    OBVIOUS
  <2>3. n \in 1..Len(chain) /\ bucket[i].id = chain[n]
    BY <1>1, <2>1, <2>2, SpelledAt
  <2> QED
    BY <2>1, <2>3 DEF BucketChained
<1>3. \A i \in 1..size :
        bucket[i] \in Chained /\ bucket[i].id \in Nat /\ bucket[i].time \in Nat
  BY <1>1, EventTypes
<1> QED
  BY <1>1, <1>2, <1>3

\* While the clock only goes forward the list with one event more is in order.
LEMMA MoreInOrder ==
  ASSUME AuditShapes, BucketChained, BucketInOrder, recorded < MaxEvents, setBacks = 0,
         NEW event, event = [id |-> recorded + 1, time |-> auditClock],
         NEW more, more = Append(bucket, Linking(event))
  PROVE  /\ Rises(ChainOf(more)) /\ InOrder(more)
         /\ \A i, j \in 1..Len(more) : i < j => more[i].id < more[j].id
         /\ reloads = 0 => \A i \in 1..Len(more) : more[i].id = (recorded + 1) - Len(more) + i
<1>1. PICK size \in Nat : size = Len(bucket) /\ bucket \in Seq(Chained)
  BY DEF AuditShapes
<1>2. /\ more \in Seq(Chained) /\ Len(more) = size + 1
      /\ ChainOf(more) = Append(ChainOf(bucket), recorded + 1)
      /\ Spells(more, ChainOf(more))
      /\ \A i \in 1..size : more[i] = bucket[i]
      /\ more[size + 1].id = recorded + 1 /\ more[size + 1].time = auditClock
  BY <1>1, LinkingSpells
<1>3. PICK chain : chain = ChainOf(bucket) /\ chain \in Seq(Numbers) /\ Rises(chain)
                   /\ \A n \in 1..Len(chain) : chain[n] <= recorded
  BY <1>1, SpelledAt DEF BucketChained, BucketInOrder
<1>4. recorded \in Nat /\ auditClock \in Nat
  BY AuditAssumption DEF AuditShapes
<1>5. Rises(Append(chain, recorded + 1))
  <2>1. PICK length \in Nat : length = Len(chain)
    BY <1>3
  <2>2. PICK whole : whole = Append(chain, recorded + 1)
    OBVIOUS
  <2>a. recorded + 1 \in Nat /\ chain \in Seq(Nat)
    <3>0. Numbers \subseteq Nat
      BY EventTypes
    <3>1. \A n \in 1..length : chain[n] \in Nat
      BY <1>3, <2>1, <3>0, ListEntries
    <3> QED
      BY <1>3, <1>4, <2>1, <3>1
  <2>b. /\ Len(whole) = length + 1 /\ whole[length + 1] = recorded + 1
        /\ \A n \in 1..length : whole[n] = chain[n] /\ chain[n] \in Nat
    BY <2>1, <2>2, <2>a
  <2>3. /\ Len(whole) = length + 1 /\ whole[length + 1] = recorded + 1
        /\ \A n \in 1..length : whole[n] = chain[n] /\ chain[n] \in Nat /\ chain[n] <= recorded
    BY <1>3, <2>1, <2>b
  <2>4. \A m, n \in 1..length : m < n => chain[m] < chain[n]
    BY <1>3, <2>1 DEF Rises
  <2>5. ASSUME NEW m \in 1..(length + 1), NEW n \in 1..(length + 1), m < n
        PROVE  whole[m] < whole[n]
    <3>1. m \in 1..length /\ (n = length + 1 \/ n \in 1..length)
      BY <2>5
    <3>2. whole[m] = chain[m] /\ chain[m] \in Nat /\ chain[m] <= recorded
      BY <2>3, <3>1
    <3>3. CASE n = length + 1
      <4>1. whole[n] = recorded + 1
        BY <2>3, <3>3
      <4> QED
        BY <1>4, <3>2, <4>1
    <3>4. CASE n \in 1..length
      <4>1. whole[n] = chain[n] /\ chain[m] < chain[n]
        BY <2>3, <2>4, <2>5, <3>1, <3>4
      <4> QED
        BY <3>2, <4>1
    <3> QED
      BY <3>1, <3>3, <3>4
  <2> QED
    BY <2>2, <2>3, <2>5 DEF Rises
<1>6. \A i, j \in 1..(size + 1) : i < j => more[i].id < more[j].id
  BY <1>2, <1>3, <1>5, SpelledRise
<1>7. \A i \in 1..size : /\ bucket[i].id \in Nat /\ bucket[i].time \in Nat
                         /\ bucket[i].id <= recorded
  BY <1>1, BucketEntries
<1>8. InOrder(more)
  <2>1. /\ \A i \in 1..size : bucket[i].time <= auditClock
        /\ \A i, j \in 1..size : i < j => bucket[i].time <= bucket[j].time
    BY <1>1 DEF BucketInOrder, InOrder, Timely
  <2>2. ASSUME NEW i \in 1..(size + 1), NEW j \in 1..(size + 1), i < j
        PROVE  more[i].time <= more[j].time
    <3>1. i \in 1..size /\ (j = size + 1 \/ j \in 1..size)
      BY <2>2
    <3> QED
      BY <1>2, <2>1, <2>2, <3>1
  <2>3. ASSUME NEW i \in 1..(size + 1)
        PROVE  more[i].time <= auditClock
    <3>1. i = size + 1 \/ i \in 1..size
      OBVIOUS
    <3> QED
      BY <1>2, <1>4, <2>1, <3>1
  <2> QED
    BY <1>2, <2>2, <2>3 DEF InOrder, Timely
<1>9. ASSUME reloads = 0, NEW i \in 1..(size + 1)
      PROVE  more[i].id = (recorded + 1) - (size + 1) + i
  <2>1. i = size + 1 \/ i \in 1..size
    OBVIOUS
  <2>2. \A n \in 1..size : bucket[n].id = recorded - size + n
    BY <1>1, <1>9 DEF BucketInOrder
  <2> QED
    BY <1>2, <1>4, <2>1, <2>2
<1>11. Rises(ChainOf(more))
  BY <1>2, <1>3, <1>5
<1>12. Len(more) = size + 1
  BY <1>2
<1> QED
  BY <1>6, <1>8, <1>9, <1>11, <1>12

OlderThan(file, list) ==
  /\ \A k \in 1..Len(file), i \in 1..Len(list) :
       file[k].id = list[i].id => file[k].time = list[i].time
  /\ file # <<>> => file[1].id <= list[1].id

\* ... and every file is older than what it holds.
LEMMA FileBeforeMore ==
  ASSUME AuditShapes, BucketChained, recorded < MaxEvents, setBacks = 0,
         NEW event, event = [id |-> recorded + 1, time |-> auditClock],
         NEW more, more = Append(bucket, Linking(event)),
         NEW file, InFile(file)
  PROVE  OlderThan(file, more)
<1>1. PICK size \in Nat : size = Len(bucket) /\ bucket \in Seq(Chained)
  BY DEF AuditShapes
<1>2. /\ more \in Seq(Chained) /\ Len(more) = size + 1
      /\ \A i \in 1..size : more[i] = bucket[i]
      /\ more[size + 1].id = recorded + 1
  BY <1>1, LinkingSpells
<1>4. recorded \in Nat
  BY AuditAssumption DEF AuditShapes
<1>5. /\ file \in Seq(Logged) /\ \A k \in 1..Len(file) : file[k].id <= recorded
      /\ \A k \in 1..Len(file), i \in 1..size :
           file[k].id = bucket[i].id => file[k].time = bucket[i].time
      /\ file # <<>> /\ bucket # <<>> => file[1].id <= bucket[1].id
  BY <1>1 DEF InFile
<1>6. PICK amount \in Nat : amount = Len(file)
  BY <1>5
<1>7. \A k \in 1..amount : file[k].id \in Nat /\ file[k].id <= recorded
  BY <1>5, <1>6, EventTypes
<1>8. ASSUME NEW k \in 1..amount, NEW i \in 1..(size + 1), file[k].id = more[i].id
      PROVE  file[k].time = more[i].time
  <2>1. file[k].id # recorded + 1
    BY <1>4, <1>7
  <2>2. i \in 1..size
    BY <1>2, <1>8, <2>1
  <2> QED
    BY <1>2, <1>5, <1>6, <1>8, <2>2
<1>9. ASSUME file # <<>>
      PROVE  file[1].id <= more[1].id
  <2>1. amount # 0
    BY <1>5, <1>6, <1>9, EmptyList
  <2>2. file[1].id \in Nat /\ file[1].id <= recorded
    BY <1>7, <2>1
  <2>3. CASE size = 0
    BY <1>2, <1>4, <2>2, <2>3
  <2>4. CASE size # 0
    <3>1. bucket # <<>>
      BY <1>1, <2>4
    <3>2. 1 \in 1..size
      BY <2>4
    <3> QED
      BY <1>2, <1>5, <1>9, <3>1, <3>2
  <2> QED
    BY <2>3, <2>4
<1>10. Len(more) = size + 1
  BY <1>2
<1> QED
  BY <1>6, <1>8, <1>9, <1>10 DEF OlderThan

\* Every event of one list is in another; is its successor there, at the same time.
DrawnFrom(list, more) == \A i \in 1..Len(list) : \E j \in 1..Len(more) : list[i].id = more[j].id
Follows(list, more) ==
  \A i \in 1..Len(list) : list[i].id = more[i + 1].id /\ list[i].time = more[i + 1].time

\* What is left after an overflow: one event less, chained anew, and in the order of
\* time the same events.
LEMMA OverflowFacts ==
  ASSUME AuditShapes, BucketChained, recorded < MaxEvents, Overflows,
         NEW event, event = [id |-> recorded + 1, time |-> auditClock],
         NEW more, more = Append(bucket, Linking(event)),
         NEW list, list = AttachChain(Latest(limit, more))
  PROVE  /\ limit \in Nat \ {0} /\ Len(bucket) = limit /\ Len(more) = limit + 1
         /\ list \in Seq(Chained) /\ Len(list) = limit
         /\ Spells(list, ChainOf(list)) /\ Len(ChainOf(list)) = limit /\ limit <= recorded
         /\ DrawnFrom(list, more) /\ (Timely(more) => Follows(list, more))
<1>1. PICK size \in Nat : size = Len(bucket) /\ bucket \in Seq(Chained)
  BY DEF AuditShapes
<1>2. limit \in Nat \ {0}
  BY AuditAssumption DEF AuditShapes
<1>3. size = limit /\ size <= recorded /\ recorded \in Nat
  <2>1. Len(bucket) <= Len(ChainOf(bucket)) /\ Len(ChainOf(bucket)) \in Nat
    BY <1>1, SpelledAt DEF BucketChained
  <2>2. Len(ChainOf(bucket)) <= recorded /\ Len(bucket) <= limit /\ recorded \in Nat
    BY DEF BucketChained, AuditShapes
  <2> QED
    BY <1>1, <1>2, <2>1, <2>2 DEF Overflows
<1>4. more \in Seq(Chained) /\ Len(more) = limit + 1
  BY <1>1, <1>3, LinkingSpells
<1>5. PICK rest : rest = Latest(limit, more)
  OBVIOUS
<1>6. /\ rest \in Seq(Chained) /\ Len(rest) = limit
      /\ \A i \in 1..limit : i + 1 \in 1..Len(more) /\ rest[i] = more[i + 1]
  <2>1. /\ rest \in Seq(Chained)
        /\ Len(rest) = IF Len(more) > limit THEN limit ELSE Len(more)
        /\ \A i \in 1..Len(rest) : rest[i] = more[Len(more) - Len(rest) + i]
    BY <1>2, <1>4, <1>5, LatestFacts
  <2>2. Len(rest) = limit
    BY <1>2, <1>4, <2>1
  <2>3. ASSUME NEW i \in 1..limit
        PROVE  i + 1 \in 1..Len(more) /\ rest[i] = more[i + 1]
    <3>1. Len(more) - Len(rest) + i = i + 1 /\ i + 1 \in 1..Len(more)
      BY <1>2, <1>4, <2>2
    <3> QED
      BY <2>1, <2>2, <3>1
  <2> QED
    BY <2>1, <2>2, <2>3
<1>7. PICK sorted : sorted = ByTime(rest)
  OBVIOUS
<1>8. /\ list \in Seq(Chained) /\ Len(list) = limit /\ Spells(list, IdsOf(sorted))
      /\ \A i \in 1..limit : list[i].id = sorted[i].id /\ list[i].time = sorted[i].time
      /\ \A i \in 1..limit : \E j \in 1..limit : sorted[i] = rest[j]
  <2>1. Len(rest) <= MaxEvents
    BY <1>2, <1>3, <1>6, EventTypes
  <2>2. \A one \in Chained : one.id \in Numbers /\ one.time \in 0..MaxAuditTime
    BY EventTypes
  <2>3. list = AttachChain(rest)
    BY <1>5
  <2> QED
    <3>1. /\ AttachChain(rest) \in Seq(Chained) /\ Len(AttachChain(rest)) = Len(rest)
          /\ Spells(AttachChain(rest), IdsOf(ByTime(rest)))
          /\ \A i \in 1..Len(rest) :
               /\ AttachChain(rest)[i].id = ByTime(rest)[i].id
               /\ AttachChain(rest)[i].time = ByTime(rest)[i].time
          /\ \A i \in 1..Len(rest) : \E j \in 1..Len(rest) : ByTime(rest)[i] = rest[j]
      BY <1>6, <2>1, <2>2, AttachedFacts
    <3> QED
      BY <1>6, <1>7, <2>3, <3>1
<1>9. \A i \in 1..limit : rest[i].time \in Nat
  BY <1>6, EventTypes
<1>10. sorted \in Seq(Chained) /\ Len(sorted) = limit
  BY <1>6, <1>7, <1>9, ByTimeFacts
<1>11. ChainOf(list) = IdsOf(sorted)
  <2>1. list # <<>>
    BY <1>2, <1>8
  <2> QED
    BY <1>8, <2>1, SpelledAt
<1>12. Len(IdsOf(sorted)) = limit
  BY <1>10 DEF IdsOf
<1>13. \A i \in 1..limit : \E j \in 1..Len(more) : list[i].id = more[j].id
  <2> TAKE i \in 1..limit
  <2>1. PICK j \in 1..limit : sorted[i] = rest[j]
    BY <1>8
  <2>2. PICK k \in 1..Len(more) : rest[j] = more[k]
    BY <1>6
  <2>3. list[i].id = sorted[i].id
    BY <1>8
  <2>4. list[i].id = more[k].id
    BY <2>1, <2>2, <2>3
  <2> QED
    BY <2>4
<1>14. ASSUME \A i, j \in 1..Len(more) : i < j => more[i].time <= more[j].time
       PROVE  \A i \in 1..limit : /\ list[i].id = more[i + 1].id
                                  /\ list[i].time = more[i + 1].time
  <2>1. ASSUME NEW i \in 1..limit, NEW j \in 1..limit, i < j
        PROVE  rest[i].time <= rest[j].time
    <3>1. i + 1 \in 1..Len(more) /\ j + 1 \in 1..Len(more) /\ i + 1 < j + 1
      BY <1>2, <1>6, <2>1
    <3> QED
      BY <1>6, <1>14, <3>1
  <2>2. sorted = rest
    BY <1>6, <1>7, <1>9, <2>1, ByTimeKeeps
  <2>3. ASSUME NEW i \in 1..limit
        PROVE  list[i].id = more[i + 1].id /\ list[i].time = more[i + 1].time
    <3>1. list[i].id = rest[i].id /\ list[i].time = rest[i].time
      BY <1>8, <2>2
    <3>2. rest[i] = more[i + 1]
      BY <1>6
    <3> QED
      BY <3>1, <3>2
  <2> QED
    BY <2>3
<1>15. DrawnFrom(list, more) /\ (Timely(more) => Follows(list, more))
  <2>1. Len(list) = limit
    BY <1>8
  <2>2. DrawnFrom(list, more)
    BY <1>13, <2>1 DEF DrawnFrom
  <2>3. Timely(more) => Follows(list, more)
    BY <1>14, <2>1 DEF Follows, Timely
  <2> QED
    BY <2>2, <2>3
<1> QED
  BY <1>1, <1>2, <1>3, <1>4, <1>8, <1>11, <1>12, <1>15

\* Recording without an overflow.
LEMMA AppendingKeeps ==
  ASSUME AuditInv, Record, ~Overflows
  PROVE  AuditInv'
<1>1. PICK event : event = [id |-> recorded + 1, time |-> auditClock]
  OBVIOUS
<1>2. PICK more : more = Append(bucket, Linking(event))
  OBVIOUS
<1>3. /\ recorded < MaxEvents /\ recorded' = recorded + 1 /\ bucket' = more
      /\ trimmed' = trimmed /\ auditTimer' = TRUE
      /\ UNCHANGED <<limit, auditWaiting, auditWriting, auditSaved, auditClock, setBacks, reloads>>
  <2>1. trimmed' = (trimmed /\ ~Overflows) /\ trimmed \in BOOLEAN
    BY DEF Record, AuditInv, AuditShapes
  <2>2. trimmed' = trimmed
    BY <2>1
  <2> QED
    BY <1>1, <1>2, <2>2 DEF Record
<1>4. AuditShapes /\ BucketChained /\ BucketInOrder /\ FilesOfThePast
  BY DEF AuditInv
<1>a. recorded < MaxEvents
  BY <1>3
<1>5. PICK size \in Nat : size = Len(bucket) /\ bucket \in Seq(Chained)
  BY <1>4 DEF AuditShapes
<1>6. PICK chain : chain = ChainOf(bucket)
  OBVIOUS
<1>7. PICK length \in Nat : length = Len(chain) /\ chain \in Seq(Numbers) /\ size <= length
  BY <1>4, <1>5, <1>6, SpelledAt DEF BucketChained
<1>8. PICK whole : whole = ChainOf(more)
  OBVIOUS
<1>9. /\ more \in Seq(Chained) /\ Len(more) = size + 1
      /\ whole = Append(chain, recorded + 1) /\ Spells(more, whole)
      /\ \A i \in 1..size : more[i] = bucket[i]
      /\ more[size + 1].id = recorded + 1
  BY <1>1, <1>2, <1>3, <1>4, <1>5, <1>6, <1>8, LinkingSpells
<1>10. /\ recorded \in Nat /\ recorded + 1 \in Numbers /\ recorded' \in 0..MaxEvents
       /\ MaxEvents \in Nat
  BY <1>3, <1>4, EventTypes DEF AuditShapes, Numbers
<1>11. /\ Len(whole) = length + 1 /\ whole[length + 1] = recorded + 1
       /\ \A n \in 1..length : whole[n] = chain[n]
  BY <1>7, <1>9, <1>10
<1>12. limit \in Nat /\ size + 1 <= limit
  <2>1. limit \in Nat
    BY <1>4, AuditAssumption DEF AuditShapes
  <2> QED
    BY <1>5, <2>1 DEF Overflows
<1>13. AuditShapes'
  BY <1>3, <1>4, <1>9, <1>10 DEF AuditShapes
<1>14. BucketChained'
  <2>1. (trimmed <=> length > size) /\ length <= recorded /\ \A n \in 1..length : chain[n] <= recorded
    BY <1>4, <1>5, <1>6, <1>7 DEF BucketChained
  <2>2. \A n \in 1..length : chain[n] \in Nat
    <3>1. Numbers \subseteq Nat
      BY EventTypes
    <3> QED
      BY <1>7, <3>1, ListEntries
  <2>3. trimmed <=> length + 1 > size + 1
    BY <1>5, <1>7, <2>1
  <2>4. length + 1 <= recorded + 1
    BY <1>7, <1>10, <2>1
  <2>5. ASSUME NEW n \in 1..(length + 1)
        PROVE  whole[n] <= recorded + 1
    <3>1. n \in 1..length \/ n = length + 1
      OBVIOUS
    <3> QED
      BY <1>10, <1>11, <2>1, <2>2, <3>1
  <2> QED
    BY <1>3, <1>8, <1>9, <1>11, <1>12, <2>3, <2>4, <2>5 DEF BucketChained
<1>15. ASSUME setBacks = 0
       PROVE  /\ Rises(whole) /\ InOrder(more)
              /\ reloads = 0 => \A i \in 1..(size + 1) : more[i].id = (recorded + 1) - (size + 1) + i
              /\ \A file : InFile(file) =>
                   \A k \in 1..Len(file), i \in 1..(size + 1) :
                     file[k].id = more[i].id => file[k].time = more[i].time
  <2>1. Rises(ChainOf(more)) /\ InOrder(more)
    BY <1>1, <1>2, <1>4, <1>15, <1>a, MoreInOrder
  <2>2. reloads = 0 => \A i \in 1..Len(more) : more[i].id = (recorded + 1) - Len(more) + i
    BY <1>1, <1>2, <1>4, <1>15, <1>a, MoreInOrder
  <2>3. ASSUME NEW file, InFile(file), NEW k \in 1..Len(file), NEW i \in 1..Len(more),
               file[k].id = more[i].id
        PROVE  file[k].time = more[i].time
    <3>1. OlderThan(file, more)
      BY <1>1, <1>2, <1>4, <1>15, <1>a, <2>3, FileBeforeMore
    <3> QED
      BY <2>3, <3>1 DEF OlderThan
  <2>4. Len(more) = size + 1
    BY <1>9
  <2> QED
    BY <1>8, <2>1, <2>2, <2>3, <2>4
<1>16. BucketInOrder'
  BY <1>3, <1>8, <1>9, <1>15 DEF BucketInOrder, InOrder, Timely
<1>17. ASSUME NEW file, InFile(file)
       PROVE  InFile(file)'
  <2>1. file \in Seq(Logged) /\ Len(file) <= recorded /\ \A k \in 1..Len(file) : file[k].id <= recorded
    BY <1>17 DEF InFile
  <2>2. PICK amount \in Nat : amount = Len(file) /\ \A k \in 1..amount : file[k].id \in Nat
    BY <2>1, EventTypes, ListEntries
  <2>3. amount <= recorded' /\ \A k \in 1..amount : file[k].id <= recorded'
    BY <1>3, <1>10, <2>1, <2>2
  <2>4. ASSUME setBacks = 0
        PROVE  /\ Rises(IdsOf(file)) /\ InOrder(file)
               /\ \A k \in 1..amount, i \in 1..(size + 1) :
                    file[k].id = more[i].id => file[k].time = more[i].time
               /\ file # <<>> /\ more # <<>> =>
                    /\ file[1].id <= more[1].id
                    /\ file[1].id = whole[1] =>
                         /\ amount <= length + 1
                         /\ \A k \in 1..amount : file[k].id = whole[k]
    <3>1. Rises(IdsOf(file)) /\ InOrder(file)
      BY <1>17, <2>4 DEF InFile
    <3>2. \A k \in 1..amount, i \in 1..(size + 1) :
            file[k].id = more[i].id => file[k].time = more[i].time
      BY <1>15, <1>17, <2>2, <2>4
    <3>3. file # <<>> => file[1].id <= more[1].id
      <4>1. OlderThan(file, more)
        BY <1>1, <1>2, <1>4, <1>17, <1>a, <2>4, FileBeforeMore
      <4> QED
        BY <4>1 DEF OlderThan
    <3>4. ASSUME file # <<>>, file[1].id = whole[1]
          PROVE  amount <= length + 1 /\ \A k \in 1..amount : file[k].id = whole[k]
      <4>1. 1 \in 1..amount
        BY <2>1, <2>2, <3>4, EmptyList
      <4>2. length # 0
        <5> SUFFICES ASSUME length = 0
                     PROVE  FALSE
          OBVIOUS
        <5>1. whole[1] = recorded + 1
          BY <1>11
        <5>2. file[1].id \in Nat /\ file[1].id <= recorded
          BY <2>1, <2>2, <4>1
        <5> QED
          BY <1>10, <3>4, <5>1, <5>2
      <4>3. bucket # <<>>
        <5>1. chain # <<>>
          BY <1>7, <4>2
        <5> QED
          BY <1>6, <5>1 DEF ChainOf
      <4>4. file[1].id = chain[1]
        BY <1>11, <3>4, <4>2
      <4>5. amount <= length /\ \A k \in 1..amount : file[k].id = chain[k]
        BY <1>6, <1>7, <1>17, <2>2, <2>4, <3>4, <4>3, <4>4 DEF InFile
      <4>6. \A k \in 1..amount : k \in 1..length
        BY <4>5
      <4> QED
        BY <1>11, <4>5, <4>6
    <3> QED
      BY <3>1, <3>2, <3>3, <3>4
  <2> QED
    BY <1>3, <1>8, <1>9, <1>11, <2>1, <2>2, <2>3, <2>4 DEF InFile, InOrder, Timely
<1>18. FilesOfThePast'
  BY <1>3, <1>4, <1>17 DEF FilesOfThePast
<1> QED
  BY <1>13, <1>14, <1>16, <1>18 DEF AuditInv

\* Recording with an overflow.
LEMMA OverflowKeeps ==
  ASSUME AuditInv, Record, Overflows
  PROVE  AuditInv'
<1>1. PICK event : event = [id |-> recorded + 1, time |-> auditClock]
  OBVIOUS
<1>2. PICK more : more = Append(bucket, Linking(event))
  OBVIOUS
<1>3. PICK list : list = AttachChain(Latest(limit, more))
  OBVIOUS
<1>4. /\ recorded < MaxEvents /\ recorded' = recorded + 1 /\ bucket' = list
      /\ trimmed' = FALSE /\ auditTimer' = TRUE
      /\ UNCHANGED <<limit, auditWaiting, auditWriting, auditSaved, auditClock, setBacks, reloads>>
  <2>1. trimmed' = FALSE
    BY DEF Record
  <2> QED
    BY <1>1, <1>2, <1>3, <2>1 DEF Record
<1>5. AuditShapes /\ BucketChained /\ BucketInOrder /\ FilesOfThePast
  BY DEF AuditInv
<1>a. recorded < MaxEvents
  BY <1>4
<1>6. PICK whole : whole = ChainOf(list)
  OBVIOUS
<1>7. /\ limit \in Nat \ {0} /\ Len(bucket) = limit /\ Len(more) = limit + 1
      /\ list \in Seq(Chained) /\ Len(list) = limit
      /\ Spells(list, whole) /\ Len(whole) = limit /\ limit <= recorded
      /\ \A i \in 1..limit : \E j \in 1..Len(more) : list[i].id = more[j].id
      /\ Timely(more) =>
           \A i \in 1..limit : list[i].id = more[i + 1].id /\ list[i].time = more[i + 1].time
  <2>1. /\ limit \in Nat \ {0} /\ Len(bucket) = limit /\ Len(more) = limit + 1
        /\ list \in Seq(Chained) /\ Len(list) = limit
        /\ Spells(list, ChainOf(list)) /\ Len(ChainOf(list)) = limit /\ limit <= recorded
        /\ DrawnFrom(list, more) /\ (Timely(more) => Follows(list, more))
    BY <1>1, <1>2, <1>3, <1>5, <1>a, OverflowFacts
  <2> QED
    BY <1>6, <2>1 DEF DrawnFrom, Follows
<1>8. /\ recorded \in Nat /\ recorded' \in 0..MaxEvents /\ MaxEvents \in Nat
  BY <1>4, <1>5, EventTypes DEF AuditShapes
<1>9. more \in Seq(Chained) /\ \A j \in 1..(limit + 1) : more[j].id \in Nat /\ more[j].id <= recorded + 1
  <2>a. /\ more \in Seq(Chained) /\ more[Len(more)].id = recorded + 1
        /\ \A i \in 1..Len(bucket) : more[i] = bucket[i]
    BY <1>1, <1>2, <1>5, <1>a, LinkingSpells
  <2>1. /\ more \in Seq(Chained) /\ more[limit + 1].id = recorded + 1
        /\ \A i \in 1..limit : more[i] = bucket[i]
    BY <1>7, <2>a
  <2>2. \A i \in 1..limit : bucket[i].id \in Nat /\ bucket[i].id <= recorded
    BY <1>5, <1>7, BucketEntries
  <2>3. ASSUME NEW j \in 1..(limit + 1)
        PROVE  more[j].id \in Nat /\ more[j].id <= recorded + 1
    <3>1. j = limit + 1 \/ j \in 1..limit
      BY <1>7
    <3> QED
      BY <1>8, <2>1, <2>2, <3>1
  <2> QED
    BY <2>1, <2>3
<1>10. AuditShapes'
  BY <1>4, <1>5, <1>7, <1>8 DEF AuditShapes
<1>11. \A n \in 1..limit : whole[n] = list[n].id
  <2> TAKE n \in 1..limit
  <2>1. n \in 1..Len(list) /\ Len(whole) - Len(list) + n = n
    BY <1>7
  <2>2. \A i \in 1..Len(list) : list[i].id = whole[Len(whole) - Len(list) + i]
    BY <1>7, SpelledAt
  <2> QED
    BY <2>1, <2>2
<1>12. BucketChained'
  <2>1. ~(limit > limit) /\ limit <= limit /\ limit <= recorded + 1
    BY <1>7, <1>8
  <2>2. \A n \in 1..limit : whole[n] <= recorded + 1
    BY <1>7, <1>9, <1>11
  <2> QED
    BY <1>4, <1>6, <1>7, <2>1, <2>2 DEF BucketChained
<1>13. ASSUME setBacks = 0
       PROVE  /\ InOrder(more)
              /\ \A i, j \in 1..(limit + 1) : i < j => more[i].id < more[j].id
              /\ reloads = 0 => \A i \in 1..(limit + 1) : more[i].id = (recorded + 1) - (limit + 1) + i
  <2>1. /\ InOrder(more)
        /\ \A i, j \in 1..Len(more) : i < j => more[i].id < more[j].id
    BY <1>1, <1>2, <1>5, <1>13, <1>a, MoreInOrder
  <2>2. reloads = 0 => \A i \in 1..Len(more) : more[i].id = (recorded + 1) - Len(more) + i
    BY <1>1, <1>2, <1>5, <1>13, <1>a, MoreInOrder
  <2> QED
    BY <1>7, <2>1, <2>2
<1>14. ASSUME setBacks = 0, NEW i \in 1..limit
       PROVE  list[i].id = more[i + 1].id /\ list[i].time = more[i + 1].time
  BY <1>7, <1>13, <1>14 DEF InOrder, Timely
<1>15. ASSUME setBacks = 0
       PROVE  /\ Rises(whole) /\ InOrder(list)
              /\ reloads = 0 => \A i \in 1..limit : list[i].id = (recorded + 1) - limit + i
  <2>1. ASSUME NEW i \in 1..limit, NEW j \in 1..limit, i < j
        PROVE  list[i].id < list[j].id /\ list[i].time <= list[j].time
    <3>1. i + 1 \in 1..(limit + 1) /\ j + 1 \in 1..(limit + 1) /\ i + 1 < j + 1
      BY <1>7, <2>1
    <3>2. more[i + 1].id < more[j + 1].id /\ more[i + 1].time <= more[j + 1].time
      BY <1>7, <1>13, <1>15, <3>1 DEF InOrder, Timely
    <3> QED
      BY <1>14, <1>15, <3>2
  <2>2. ASSUME NEW i \in 1..limit
        PROVE  list[i].time <= auditClock
    <3>1. i + 1 \in 1..(limit + 1)
      BY <1>7
    <3>2. more[i + 1].time <= auditClock
      BY <1>7, <1>13, <1>15, <3>1 DEF InOrder, Timely
    <3> QED
      BY <1>14, <1>15, <3>2
  <2>3. ASSUME reloads = 0, NEW i \in 1..limit
        PROVE  list[i].id = (recorded + 1) - limit + i
    <3>1. i + 1 \in 1..(limit + 1)
      BY <1>7
    <3>2. more[i + 1].id = (recorded + 1) - (limit + 1) + (i + 1)
      BY <1>13, <1>15, <2>3, <3>1
    <3> QED
      BY <1>7, <1>8, <1>14, <1>15, <3>2
  <2>4. Rises(whole)
    <3>1. \A m, n \in 1..limit : m < n => whole[m] < whole[n]
      BY <1>11, <2>1
    <3>2. Len(whole) = limit
      BY <1>7
    <3> QED
      BY <3>1, <3>2 DEF Rises
  <2>5. InOrder(list)
    BY <1>7, <2>1, <2>2 DEF InOrder, Timely
  <2> QED
    BY <2>3, <2>4, <2>5
<1>16. BucketInOrder'
  BY <1>4, <1>6, <1>7, <1>15 DEF BucketInOrder, InOrder, Timely
<1>17. ASSUME NEW file, InFile(file)
       PROVE  InFile(file)'
  <2>1. file \in Seq(Logged) /\ Len(file) <= recorded /\ \A k \in 1..Len(file) : file[k].id <= recorded
    BY <1>17 DEF InFile
  <2>2. PICK amount \in Nat : amount = Len(file) /\ \A k \in 1..amount : file[k].id \in Nat
    BY <2>1, EventTypes, ListEntries
  <2>3. amount <= recorded' /\ \A k \in 1..amount : file[k].id <= recorded'
    BY <1>4, <1>8, <2>1, <2>2
  <2>4. ASSUME setBacks = 0
        PROVE  /\ Rises(IdsOf(file)) /\ InOrder(file)
               /\ \A k \in 1..amount, i \in 1..limit :
                    file[k].id = list[i].id => file[k].time = list[i].time
               /\ file # <<>> => file[1].id <= list[1].id /\ file[1].id # whole[1]
    <3>1. Rises(IdsOf(file)) /\ InOrder(file)
      BY <1>17, <2>4 DEF InFile
    <3>2. /\ \A k \in 1..amount, i \in 1..(limit + 1) :
               file[k].id = more[i].id => file[k].time = more[i].time
          /\ file # <<>> => file[1].id <= more[1].id
      <4>1. OlderThan(file, more)
        BY <1>1, <1>2, <1>5, <1>17, <1>a, <2>4, FileBeforeMore
      <4> QED
        BY <1>7, <2>2, <4>1 DEF OlderThan
    <3>3. ASSUME NEW k \in 1..amount, NEW i \in 1..limit, file[k].id = list[i].id
          PROVE  file[k].time = list[i].time
      <4>1. i + 1 \in 1..(limit + 1)
        BY <1>7
      <4>2. list[i].id = more[i + 1].id /\ list[i].time = more[i + 1].time
        BY <1>14, <2>4
      <4> QED
        BY <3>2, <3>3, <4>1, <4>2
    <3>4. ASSUME file # <<>>
          PROVE  file[1].id <= list[1].id /\ file[1].id # whole[1]
      <4>1. /\ 1 \in 1..limit /\ 1 \in 1..(limit + 1) /\ 1 + 1 = 2 /\ 2 \in 1..(limit + 1) /\ 1 < 2
        BY <1>7
      <4>2. list[1].id = more[2].id /\ whole[1] = list[1].id
        BY <1>11, <1>14, <2>4, <4>1
      <4>3. more[1].id < more[2].id
        BY <1>13, <2>4, <4>1
      <4>4. more[1].id \in Nat /\ more[2].id \in Nat
        BY <1>9, <4>1
      <4>5. 1 \in 1..amount
        BY <2>1, <2>2, <3>4, EmptyList
      <4> QED
        BY <2>2, <3>2, <3>4, <4>2, <4>3, <4>4, <4>5
    <3> QED
      BY <3>1, <3>2, <3>3, <3>4
  <2> QED
    BY <1>4, <1>6, <1>7, <2>1, <2>2, <2>3, <2>4 DEF InFile, InOrder, Timely
<1>18. FilesOfThePast'
  BY <1>4, <1>5, <1>17 DEF FilesOfThePast
<1> QED
  BY <1>10, <1>12, <1>16, <1>18 DEF AuditInv

\* The file that a write begins with.
LEMMA FileOfBucket ==
  ASSUME AuditShapes, BucketChained, BucketInOrder,
         NEW file, file = [i \in 1..Len(bucket) |-> Base(bucket[i])]
  PROVE  InFile(file)
<1>1. PICK size \in Nat : size = Len(bucket) /\ bucket \in Seq(Chained)
  BY DEF AuditShapes
<1>2. PICK chain : chain = ChainOf(bucket)
  OBVIOUS
<1>3. PICK length \in Nat : /\ length = Len(chain) /\ size <= length /\ length <= recorded
                            /\ Spells(bucket, chain) /\ recorded \in Nat
  <2>1. Spells(bucket, chain) /\ Len(chain) <= recorded /\ recorded \in Nat
    BY <1>2 DEF BucketChained, AuditShapes
  <2>2. chain \in Seq(Numbers) /\ Len(bucket) <= Len(chain)
    BY <1>1, <2>1, SpelledAt
  <2> QED
    BY <1>1, <2>1, <2>2
<1>4. /\ file \in Seq(Logged) /\ Len(file) = size
      /\ \A i \in 1..size : file[i].id = bucket[i].id /\ file[i].time = bucket[i].time
  <2>1. \A i \in 1..size : bucket[i].id \in Numbers /\ bucket[i].time \in 0..MaxAuditTime
    BY <1>1, EventTypes, ListEntries
  <2>2. \A i \in 1..size : Base(bucket[i]) \in Logged
    BY <2>1 DEF Base, Logged
  <2>3. \A i \in 1..size : file[i] = Base(bucket[i])
    BY <1>1
  <2> QED
    BY <1>1, <2>2, <2>3 DEF Base
<1>5. \A i \in 1..size : bucket[i].id \in Nat /\ bucket[i].id <= recorded
  BY <1>1, BucketEntries
<1>6. \A i \in 1..size : /\ length - size + i \in 1..length
                         /\ bucket[i].id = chain[length - size + i]
  BY <1>1, <1>3, SpelledAt
<1>7. ASSUME setBacks = 0
      PROVE  /\ Rises(IdsOf(file)) /\ InOrder(file)
             /\ \A k \in 1..size, i \in 1..size :
                  file[k].id = bucket[i].id => file[k].time = bucket[i].time
             /\ file # <<>> /\ bucket # <<>> =>
                  /\ file[1].id <= bucket[1].id
                  /\ file[1].id = chain[1] =>
                       size <= length /\ \A k \in 1..size : file[k].id = chain[k]
  <2>1. Rises(chain)
    BY <1>2, <1>7 DEF BucketInOrder
  <2>2. \A i, j \in 1..size : i < j => bucket[i].id < bucket[j].id
    BY <1>1, <1>3, <2>1, SpelledRise
  <2>3. Rises(IdsOf(file))
    <3>1. PICK ids : ids = [k \in 1..size |-> file[k].id]
      OBVIOUS
    <3>2. ids = IdsOf(file)
      BY <1>4, <3>1 DEF IdsOf
    <3>3. Len(ids) = size /\ \A k \in 1..size : ids[k] = bucket[k].id
      BY <1>4, <3>1
    <3> QED
      BY <2>2, <3>2, <3>3 DEF Rises
  <2>4. InOrder(file)
    <3>1. /\ \A i, j \in 1..size : i < j => bucket[i].time <= bucket[j].time
          /\ \A i \in 1..size : bucket[i].time <= auditClock
      BY <1>1, <1>7 DEF BucketInOrder, InOrder, Timely
    <3> QED
      BY <1>4, <3>1 DEF InOrder, Timely
  <2>5. ASSUME NEW k \in 1..size, NEW i \in 1..size, file[k].id = bucket[i].id
        PROVE  file[k].time = bucket[i].time
    <3>1. file[k].id = bucket[k].id /\ file[k].time = bucket[k].time
      BY <1>4
    <3>2. bucket[k].id = bucket[i].id /\ bucket[k].id \in Nat /\ bucket[i].id \in Nat
      BY <1>5, <2>5, <3>1
    <3>3. ~(k < i) /\ ~(i < k)
      BY <2>2, <3>2
    <3>4. k = i
      BY <3>3
    <3> QED
      BY <3>1, <3>4
  <2>6. ASSUME bucket # <<>>
        PROVE  /\ file[1].id <= bucket[1].id
               /\ file[1].id = chain[1] =>
                    size <= length /\ \A k \in 1..size : file[k].id = chain[k]
    <3>1. 1 \in 1..size
      BY <1>1, <2>6, EmptyList
    <3>2. file[1].id = bucket[1].id /\ bucket[1].id \in Nat
      BY <1>4, <1>5, <3>1
    <3>3. ASSUME file[1].id = chain[1]
          PROVE  \A k \in 1..size : file[k].id = chain[k]
      <4>1. PICK m \in 1..length : m = length - size + 1 /\ bucket[1].id = chain[m]
        BY <1>6, <3>1
      <4>2. length = size
        <5> SUFFICES ASSUME length # size
                     PROVE  FALSE
          OBVIOUS
        <5>1. 1 < m /\ 1 \in 1..length
          BY <1>3, <3>1, <4>1
        <5>2. chain[1] < chain[m]
          BY <1>3, <2>1, <5>1 DEF Rises
        <5>3. chain[1] = chain[m] /\ chain[1] \in Nat
          BY <3>2, <3>3, <4>1
        <5> QED
          BY <5>2, <5>3
      <4>3. \A k \in 1..size : length - size + k = k
        BY <4>2
      <4> QED
        BY <1>4, <1>6, <4>3
    <3> QED
      BY <1>3, <3>2, <3>3
  <2> QED
    BY <2>3, <2>4, <2>5, <2>6
<1>8. \A k \in 1..size : file[k].id <= recorded
  BY <1>4, <1>5
<1>9. size <= recorded
  BY <1>3
<1> QED
  BY <1>1, <1>2, <1>3, <1>4, <1>7, <1>8, <1>9 DEF InFile

\* What is read back from a file.
LEMMA ReloadFacts ==
  ASSUME AuditShapes, NEW file, InFile(file), NEW n \in AuditLimits,
         NEW list, list = Latest(n, AttachChain(file)), NEW chain, chain = ChainOf(list)
  PROVE  /\ list \in Seq(Chained) /\ Spells(list, chain) /\ Len(list) <= n
         /\ Len(chain) = Len(file) /\ (Len(file) > n <=> Len(chain) > Len(list))
         /\ \A k \in 1..Len(chain) : chain[k] <= recorded
         /\ setBacks = 0 =>
              /\ Rises(chain) /\ \A k \in 1..Len(file) : chain[k] = file[k].id
              /\ \A i \in 1..Len(list) :
                   /\ Len(file) - Len(list) + i \in 1..Len(file)
                   /\ list[i].id = file[Len(file) - Len(list) + i].id
                   /\ list[i].time = file[Len(file) - Len(list) + i].time
<1>1. /\ file \in Seq(Logged) /\ Len(file) <= recorded
      /\ \A k \in 1..Len(file) : file[k].id <= recorded
  BY DEF InFile
<1>2. n \in Nat \ {0} /\ recorded \in Nat /\ recorded <= MaxEvents /\ MaxEvents \in Nat
  BY AuditAssumption, EventTypes DEF AuditShapes
<1>3. PICK size \in Nat : size = Len(file) /\ size <= MaxEvents
  BY <1>1, <1>2, ListEntries
<1>4. PICK sorted : sorted = ByTime(file)
  OBVIOUS
<1>5. PICK whole : whole = AttachChain(file)
  OBVIOUS
<1>6. PICK ids : ids = IdsOf(sorted)
  OBVIOUS
<1>7. /\ whole \in Seq(Chained) /\ Len(whole) = size /\ Spells(whole, ids)
      /\ \A i \in 1..size : whole[i].id = sorted[i].id /\ whole[i].time = sorted[i].time
      /\ \A i \in 1..size : \E j \in 1..size : sorted[i] = file[j]
  <2>1. \A one \in Logged : one.id \in Numbers /\ one.time \in 0..MaxAuditTime
    BY EventTypes
  <2>2. /\ AttachChain(file) \in Seq(Chained) /\ Len(AttachChain(file)) = Len(file)
        /\ Spells(AttachChain(file), IdsOf(ByTime(file)))
        /\ \A i \in 1..Len(file) :
             /\ AttachChain(file)[i].id = ByTime(file)[i].id
             /\ AttachChain(file)[i].time = ByTime(file)[i].time
        /\ \A i \in 1..Len(file) : \E j \in 1..Len(file) : ByTime(file)[i] = file[j]
    BY <1>1, <1>3, <2>1, AttachedFacts
  <2> QED
    BY <1>3, <1>4, <1>5, <1>6, <2>2
<1>8. \A i \in 1..size : file[i].time \in Nat
  BY <1>1, <1>3, EventTypes, ListEntries
<1>9. sorted \in Seq(Logged) /\ Len(sorted) = size
  BY <1>1, <1>3, <1>4, <1>8, ByTimeFacts
<1>10. /\ Len(ids) = size /\ ids \in Seq(Numbers)
       /\ \A k \in 1..size : ids[k] = sorted[k].id
  <2>1. PICK some : some = [k \in 1..size |-> sorted[k].id]
    OBVIOUS
  <2>2. some = ids
    BY <1>6, <1>9, <2>1 DEF IdsOf
  <2>3. ids \in Seq(Numbers)
    BY <1>7, SpelledAt
  <2> QED
    BY <2>1, <2>2, <2>3
<1>11. /\ list \in Seq(Chained) /\ Len(list) = IF size > n THEN n ELSE size
       /\ \A i \in 1..Len(list) : /\ size - Len(list) + i \in 1..size
                                  /\ list[i] = whole[size - Len(list) + i]
  <2>1. list = Latest(n, whole)
    BY <1>5
  <2>2. whole \in Seq(Chained) /\ n \in Nat /\ Len(whole) = size
    BY <1>2, <1>7
  <2>3. /\ list \in Seq(Chained) /\ Len(list) = IF Len(whole) > n THEN n ELSE Len(whole)
        /\ \A i \in 1..Len(list) : /\ Len(whole) - Len(list) + i \in 1..Len(whole)
                                   /\ list[i] = whole[Len(whole) - Len(list) + i]
    BY <2>1, <2>2, LatestFacts
  <2> QED
    BY <2>2, <2>3
<1>12. Spells(list, ids)
  <2>1. list = Latest(n, whole)
    BY <1>5
  <2> QED
    BY <1>2, <1>7, <2>1, LatestSpells
<1>13. chain = ids
  <2>1. CASE list # <<>>
    BY <1>11, <1>12, <2>1, SpelledAt
  <2>2. CASE list = <<>>
    <3>1. Len(list) = 0
      BY <2>2
    <3>2. size = 0
      BY <1>2, <1>11, <3>1
    <3>3. ids = <<>>
      BY <1>10, <3>2, EmptyList
    <3> QED
      BY <2>2, <3>3 DEF ChainOf
  <2> QED
    BY <2>1, <2>2
<1>14. \A k \in 1..size : ids[k] <= recorded
  <2> TAKE k \in 1..size
  <2>1. PICK j \in 1..size : sorted[k] = file[j]
    BY <1>7
  <2>2. ids[k] = file[j].id
    BY <1>10, <2>1
  <2> QED
    BY <1>1, <1>3, <2>2
<1>15. ASSUME setBacks = 0
       PROVE  /\ Rises(ids) /\ \A k \in 1..size : ids[k] = file[k].id
              /\ \A i \in 1..Len(list) :
                   /\ size - Len(list) + i \in 1..size
                   /\ list[i].id = file[size - Len(list) + i].id
                   /\ list[i].time = file[size - Len(list) + i].time
  <2>1. Rises(IdsOf(file)) /\ Timely(file)
    BY <1>15 DEF InFile, InOrder
  <2>2. sorted = file
    BY <1>1, <1>3, <1>4, <1>8, <2>1, ByTimeKeeps DEF Timely
  <2>3. Rises(ids)
    BY <1>6, <2>1, <2>2
  <2>4. ASSUME NEW i \in 1..Len(list)
        PROVE  /\ size - Len(list) + i \in 1..size
               /\ list[i].id = file[size - Len(list) + i].id
               /\ list[i].time = file[size - Len(list) + i].time
    <3>1. PICK m \in 1..size : m = size - Len(list) + i /\ list[i] = whole[m]
      BY <1>11
    <3>2. whole[m].id = file[m].id /\ whole[m].time = file[m].time
      BY <1>7, <2>2
    <3> QED
      BY <3>1, <3>2
  <2> QED
    BY <1>10, <2>2, <2>3, <2>4
<1>16. Len(list) <= n /\ (size > n <=> size > Len(list))
  BY <1>2, <1>11
<1> QED
  BY <1>3, <1>10, <1>11, <1>12, <1>13, <1>14, <1>15, <1>16

\* A restart keeps the invariant, whatever limit the new process has.
LEMMA ReloadKeeps ==
  ASSUME AuditInv, Reload
  PROVE  AuditInv'
<1>1. PICK file : file = auditSaved
  OBVIOUS
<1>2. PICK n \in AuditLimits : n = limit'
  BY DEF Reload
<1>3. PICK list : list = Latest(n, AttachChain(file))
  OBVIOUS
<1>4. /\ bucket' = list /\ trimmed' = (Len(file) > n) /\ reloads < MaxReloads /\ reloads' = reloads + 1
      /\ auditTimer' = FALSE /\ auditWaiting' = 0 /\ auditWriting' = <<>>
      /\ UNCHANGED <<recorded, auditSaved, auditClock, setBacks>>
  BY <1>1, <1>2, <1>3 DEF Reload
<1>5. PICK chain : chain = ChainOf(list)
  OBVIOUS
<1>6. AuditShapes /\ InFile(file)
  BY <1>1 DEF AuditInv, FilesOfThePast
<1>7. /\ list \in Seq(Chained) /\ Spells(list, chain) /\ Len(list) <= n
      /\ Len(chain) = Len(file) /\ (Len(file) > n <=> Len(chain) > Len(list))
      /\ \A k \in 1..Len(chain) : chain[k] <= recorded
      /\ setBacks = 0 =>
           /\ Rises(chain) /\ \A k \in 1..Len(file) : chain[k] = file[k].id
           /\ \A i \in 1..Len(list) :
                /\ Len(file) - Len(list) + i \in 1..Len(file)
                /\ list[i].id = file[Len(file) - Len(list) + i].id
                /\ list[i].time = file[Len(file) - Len(list) + i].time
  BY <1>3, <1>5, <1>6, ReloadFacts
<1>8. PICK size \in Nat, left \in Nat :
        size = Len(file) /\ left = Len(list) /\ size <= recorded /\ left <= size
  <2>1. file \in Seq(Logged) /\ Len(file) <= recorded
    BY <1>6 DEF InFile
  <2>2. Len(list) <= Len(chain)
    BY <1>7, SpelledAt
  <2> QED
    BY <1>7, <2>1, <2>2, ListEntries
<1>9. /\ reloads' \in 0..MaxReloads /\ reloads' # 0
      /\ auditWaiting' \in 0..MaxAuditWaiting
  BY <1>4, <1>6, AuditAssumption DEF AuditShapes
<1>10. AuditShapes'
  <2>1. trimmed' \in BOOLEAN
    BY <1>4
  <2>2. auditTimer' \in BOOLEAN /\ limit' \in AuditLimits
    BY <1>2, <1>4
  <2> QED
    BY <1>4, <1>6, <1>7, <1>9, <2>1, <2>2 DEF AuditShapes
<1>11. BucketChained'
  BY <1>2, <1>4, <1>5, <1>7, <1>8 DEF BucketChained
<1>12. ASSUME setBacks = 0
       PROVE  /\ \A k, m \in 1..size : k < m => file[k].id < file[m].id
              /\ \A k, m \in 1..size : k < m => file[k].time <= file[m].time
              /\ \A k \in 1..size : file[k].id \in Nat /\ file[k].time <= auditClock
  <2>1. Rises(chain) /\ Len(chain) = size /\ \A k \in 1..size : chain[k] = file[k].id
    BY <1>7, <1>8, <1>12
  <2>2. InOrder(file) /\ file \in Seq(Logged)
    BY <1>6, <1>12 DEF InFile
  <2>3. \A k \in 1..size : file[k].id \in Nat
    BY <1>8, <2>2, EventTypes, ListEntries
  <2> QED
    BY <1>8, <2>1, <2>2, <2>3 DEF Rises, InOrder, Timely
<1>13. ASSUME setBacks = 0, NEW i \in 1..left
       PROVE  /\ size - left + i \in 1..size
              /\ list[i].id = file[size - left + i].id
              /\ list[i].time = file[size - left + i].time
  BY <1>7, <1>8, <1>13
<1>14. ASSUME setBacks = 0
       PROVE  Rises(chain) /\ InOrder(list)
  <2>1. Rises(chain)
    BY <1>7, <1>14
  <2>2. ASSUME NEW i \in 1..left, NEW j \in 1..left, i < j
        PROVE  list[i].time <= list[j].time
    <3>1. PICK k \in 1..size, m \in 1..size :
            /\ k = size - left + i /\ m = size - left + j
            /\ list[i].time = file[k].time /\ list[j].time = file[m].time
      BY <1>13, <1>14
    <3>2. k < m
      BY <1>8, <2>2, <3>1
    <3> QED
      BY <1>12, <1>14, <3>1, <3>2
  <2>3. ASSUME NEW i \in 1..left
        PROVE  list[i].time <= auditClock
    <3>1. PICK k \in 1..size : list[i].time = file[k].time
      BY <1>13, <1>14
    <3> QED
      BY <1>12, <1>14, <3>1
  <2> QED
    BY <1>8, <2>1, <2>2, <2>3 DEF InOrder, Timely
<1>15. BucketInOrder'
  BY <1>4, <1>5, <1>9, <1>14 DEF BucketInOrder, InOrder
<1>16. InFile(file)'
  <2>1. /\ file \in Seq(Logged) /\ Len(file) <= recorded
        /\ \A k \in 1..Len(file) : file[k].id <= recorded
    BY <1>6 DEF InFile
  <2>2. ASSUME setBacks = 0
        PROVE  /\ Rises(IdsOf(file)) /\ InOrder(file)
               /\ \A k \in 1..size, i \in 1..left :
                    file[k].id = list[i].id => file[k].time = list[i].time
               /\ list # <<>> => file[1].id <= list[1].id
               /\ size <= Len(chain) /\ \A k \in 1..size : file[k].id = chain[k]
    <3>1. Rises(IdsOf(file)) /\ InOrder(file)
      BY <1>6, <2>2 DEF InFile
    <3>2. ASSUME NEW k \in 1..size, NEW i \in 1..left, file[k].id = list[i].id
          PROVE  file[k].time = list[i].time
      <4>1. PICK m \in 1..size : list[i].id = file[m].id /\ list[i].time = file[m].time
        BY <1>13, <2>2
      <4>2. file[k].id = file[m].id /\ file[k].id \in Nat /\ file[m].id \in Nat
        BY <1>12, <2>2, <3>2, <4>1
      <4>3. ~(k < m) /\ ~(m < k)
        BY <1>12, <2>2, <4>2
      <4>4. k = m
        BY <4>3
      <4> QED
        BY <4>1, <4>4
    <3>3. ASSUME list # <<>>
          PROVE  file[1].id <= list[1].id
      <4>1. 1 \in 1..left
        BY <1>7, <1>8, <3>3, EmptyList
      <4>2. PICK m \in 1..size : list[1].id = file[m].id
        BY <1>13, <2>2, <4>1
      <4>3. 1 \in 1..size /\ (m = 1 \/ 1 < m)
        BY <4>2
      <4>4. /\ file[1].id \in Nat /\ file[m].id \in Nat
            /\ 1 < m => file[1].id < file[m].id
        BY <1>12, <2>2, <4>3
      <4> QED
        BY <4>2, <4>3, <4>4
    <3>4. size <= Len(chain) /\ \A k \in 1..size : file[k].id = chain[k]
      BY <1>7, <1>8, <2>2
    <3> QED
      BY <3>1, <3>2, <3>3, <3>4
  <2> QED
    BY <1>4, <1>5, <1>8, <2>1, <2>2 DEF InFile, InOrder
<1>17. FilesOfThePast'
  BY <1>1, <1>4, <1>16 DEF FilesOfThePast
<1> QED
  BY <1>10, <1>11, <1>15, <1>17 DEF AuditInv

\* So do the steps of the debounced write
LEMMA AuditFileKeeps ==
  ASSUME AuditInv, AuditTimerFires \/ AuditWriteBegins \/ AuditWriteEnds
  PROVE  AuditInv'
<1>1. AuditShapes /\ BucketChained /\ BucketInOrder /\ FilesOfThePast
  BY DEF AuditInv
<1>2. UNCHANGED <<bucket, limit, recorded, trimmed, auditClock, setBacks, reloads>>
  BY DEF AuditTimerFires, AuditWriteBegins, AuditWriteEnds
<1>3. AuditShapes'
  <2>0. MaxAuditWaiting \in Nat /\ auditWaiting \in 0..MaxAuditWaiting /\ auditTimer \in BOOLEAN
    BY <1>1, AuditAssumption DEF AuditShapes
  <2>1. auditTimer' \in BOOLEAN /\ auditWaiting' \in 0..MaxAuditWaiting
    <3>1. CASE AuditTimerFires
      <4>1. auditTimer' = FALSE
        BY <3>1 DEF AuditTimerFires
      <4>2. auditWaiting < MaxAuditWaiting /\ auditWaiting' = auditWaiting + 1
        BY <3>1 DEF AuditTimerFires
      <4>3. auditWaiting' \in 0..MaxAuditWaiting
        BY <2>0, <4>2
      <4> QED
        BY <4>1, <4>3
    <3>2. CASE AuditWriteBegins
      <4>1. auditTimer' = auditTimer
        BY <3>2 DEF AuditWriteBegins
      <4>2. auditWaiting > 0 /\ auditWaiting' = auditWaiting - 1
        BY <3>2 DEF AuditWriteBegins
      <4>3. auditWaiting' \in 0..MaxAuditWaiting
        BY <2>0, <4>2
      <4> QED
        BY <2>0, <4>1, <4>3
    <3>3. CASE AuditWriteEnds
      <4>1. auditTimer' = auditTimer /\ auditWaiting' = auditWaiting
        BY <3>3 DEF AuditWriteEnds
      <4> QED
        BY <2>0, <4>1
    <3> QED
      BY <3>1, <3>2, <3>3
  <2> QED
    BY <1>1, <1>2, <2>1 DEF AuditShapes
<1>4. BucketChained' /\ BucketInOrder'
  BY <1>1, <1>2 DEF BucketChained, BucketInOrder, InOrder
<1>5. \A file : InFile(file) => InFile(file)'
  BY <1>2 DEF InFile, InOrder
<1>6. FilesOfThePast'
  <2>1. CASE AuditTimerFires
    BY <1>1, <1>5, <2>1 DEF AuditTimerFires, FilesOfThePast
  <2>2. CASE AuditWriteBegins
    <3>1. PICK file : file = [i \in 1..Len(bucket) |-> Base(bucket[i])]
      OBVIOUS
    <3>2. auditWriting' = <<file>> /\ auditSaved' = auditSaved
      BY <2>2, <3>1 DEF AuditWriteBegins
    <3>3. InFile(file)
      BY <1>1, <3>1, FileOfBucket
    <3>4. Len(<<file>>) = 1 /\ <<file>>[1] = file
      OBVIOUS
    <3> QED
      BY <1>1, <1>5, <3>2, <3>3, <3>4 DEF FilesOfThePast
  <2>3. CASE AuditWriteEnds
    BY <1>1, <1>5, <2>3 DEF AuditWriteEnds, FilesOfThePast
  <2> QED
    BY <2>1, <2>2, <2>3
<1> QED
  BY <1>3, <1>4, <1>6 DEF AuditInv

\* and the clock, forward or back.
LEMMA AuditClockKeeps ==
  ASSUME AuditInv, AuditTick \/ ClockSetBack
  PROVE  AuditInv'
<1>1. AuditShapes /\ BucketChained /\ BucketInOrder /\ FilesOfThePast
  BY DEF AuditInv
<1>2. UNCHANGED <<bucket, limit, recorded, trimmed, reloads, auditTimer, auditWaiting,
                  auditWriting, auditSaved>>
  BY DEF AuditTick, ClockSetBack, auditFile
<1>3. /\ auditClock \in Nat /\ MaxAuditTime \in Nat /\ auditClock' \in 0..MaxAuditTime
      /\ setBacks' \in 0..MaxSetBacks
      /\ setBacks' = 0 => setBacks = 0 /\ auditClock' = auditClock + 1
  BY <1>1, AuditAssumption DEF AuditTick, ClockSetBack, AuditShapes
<1>4. AuditShapes'
  BY <1>1, <1>2, <1>3 DEF AuditShapes
<1>5. BucketChained'
  BY <1>1, <1>2 DEF BucketChained
<1>6. ASSUME setBacks' = 0, NEW T, NEW list \in Seq(T), \A i \in 1..Len(list) : list[i].time \in Nat,
             InOrder(list)
      PROVE  InOrder(list)'
  <2>1. ASSUME NEW i \in 1..Len(list)
        PROVE  list[i].time <= auditClock'
    <3>1. list[i].time <= auditClock /\ list[i].time \in Nat
      BY <1>6 DEF InOrder
    <3> QED
      BY <1>3, <1>6, <3>1
  <2> QED
    BY <1>6, <2>1 DEF InOrder
<1>7. BucketInOrder'
  <2>1. bucket \in Seq(Chained) /\ \A i \in 1..Len(bucket) : bucket[i].time \in Nat
    BY <1>1, EventTypes, ListEntries DEF AuditShapes
  <2>2. ASSUME setBacks' = 0
        PROVE  InOrder(bucket)'
    <3>1. InOrder(bucket)
      BY <1>1, <1>3, <2>2 DEF BucketInOrder
    <3> QED
      BY <1>2, <1>6, <2>1, <2>2, <3>1 DEF InOrder
  <2> QED
    BY <1>1, <1>2, <1>3, <2>2 DEF BucketInOrder
<1>8. ASSUME NEW file, InFile(file)
      PROVE  InFile(file)'
  <2>1. file \in Seq(Logged)
    BY <1>8 DEF InFile
  <2>2. \A i \in 1..Len(file) : file[i].time \in Nat
    BY <2>1, EventTypes, ListEntries
  <2>3. ASSUME setBacks' = 0
        PROVE  InOrder(file)'
    <3>1. InOrder(file)
      BY <1>3, <1>8, <2>3 DEF InFile
    <3> QED
      BY <1>6, <2>1, <2>2, <2>3, <3>1
  <2> QED
    BY <1>2, <1>3, <1>8, <2>3 DEF InFile
<1>9. FilesOfThePast'
  BY <1>1, <1>2, <1>8 DEF FilesOfThePast
<1> QED
  BY <1>4, <1>5, <1>7, <1>9 DEF AuditInv

\* The invariant of the audit log holds at the start.
LEMMA AuditInitially == AuditInit => AuditInv
<1> SUFFICES ASSUME AuditInit PROVE AuditInv
  OBVIOUS
<1>1. AuditShapes
  <2>1. /\ 0 \in 0..MaxEvents /\ 0 \in 0..MaxAuditWaiting /\ 0 \in 0..MaxAuditTime
        /\ 0 \in 0..MaxSetBacks /\ 0 \in 0..MaxReloads
    BY AuditAssumption
  <2>2. <<>> \in Seq(Chained)
    OBVIOUS
  <2> QED
    BY <2>1, <2>2 DEF AuditInit, AuditShapes
<1>2. bucket = <<>> /\ ChainOf(bucket) = <<>> /\ Len(bucket) = 0
  BY DEF AuditInit, ChainOf
<1>3. BucketChained
  <2>1. limit \in Nat /\ recorded = 0 /\ trimmed = FALSE
    BY AuditAssumption DEF AuditInit
  <2>2. <<>> \in Seq(Numbers)
    OBVIOUS
  <2>3. Spells(bucket, ChainOf(bucket))
    <3>1. Len(bucket) <= Len(ChainOf(bucket)) /\ \A i \in 1..Len(bucket) : FALSE
      BY <1>2
    <3> QED
      BY <1>2, <2>2, <3>1 DEF Spells
  <2>4. ~(Len(ChainOf(bucket)) > Len(bucket)) /\ Len(bucket) <= limit /\ Len(ChainOf(bucket)) <= recorded
    BY <1>2, <2>1
  <2>5. \A n \in 1..Len(ChainOf(bucket)) : FALSE
    BY <1>2
  <2> QED
    BY <2>1, <2>3, <2>4, <2>5 DEF BucketChained
<1>4. BucketInOrder
  BY <1>2 DEF BucketInOrder, Rises, InOrder, Timely
<1>5. FilesOfThePast
  <2>0. <<>> \in Seq(Logged) /\ Len(<<>>) = 0
    OBVIOUS
  <2>1. PICK none : none = <<>> /\ none \in Seq(Logged) /\ Len(none) = 0
    BY <2>0
  <2>2. IdsOf(none) = <<>>
    BY <2>1 DEF IdsOf
  <2>3. InFile(none)
    BY <1>2, <2>1, <2>2 DEF InFile, AuditInit, Rises, InOrder, Timely
  <2> QED
    BY <2>1, <2>3 DEF FilesOfThePast, AuditInit
<1> QED
  BY <1>1, <1>3, <1>4, <1>5 DEF AuditInv

\* Every step keeps the invariant of the audit log.
LEMMA AuditNextKeeps == AuditInv /\ [AuditNext]_auditVars => AuditInv'
<1> SUFFICES ASSUME AuditInv, [AuditNext]_auditVars PROVE AuditInv'
  OBVIOUS
<1>1. CASE Record
  BY <1>1, AppendingKeeps, OverflowKeeps
<1>2. CASE AuditTimerFires \/ AuditWriteBegins \/ AuditWriteEnds
  BY <1>2, AuditFileKeeps
<1>3. CASE Reload
  BY <1>3, ReloadKeeps
<1>4. CASE AuditTick \/ ClockSetBack
  BY <1>4, AuditClockKeeps
<1>5. CASE UNCHANGED auditVars
  BY <1>5 DEF AuditInv, AuditShapes, BucketChained, BucketInOrder, FilesOfThePast, InFile,
              InOrder, auditVars
<1> QED
  BY <1>1, <1>2, <1>3, <1>4, <1>5 DEF AuditNext

\* The log is the end of the chain that its last hash spells, trimmed or whole, and the
\* files are of its past: for any limits, numbers of events, restarts and steps of the
\* clock.
THEOREM AuditInvariance == AuditSpec => []AuditInv
<1> QED
  BY AuditInitially, AuditNextKeeps, PTL DEF AuditSpec

\* The types follow from the invariant.
LEMMA AuditIsTyped == AuditInv => AuditTypeOK
<1> SUFFICES ASSUME AuditInv PROVE AuditTypeOK
  OBVIOUS
<1>1. AuditShapes /\ FilesOfThePast
  BY DEF AuditInv
<1>2. ASSUME NEW i \in 1..Len(bucket)
      PROVE  /\ Base(bucket[i]) \in [id : 1..MaxEvents, time : 0..MaxAuditTime]
             /\ bucket[i].seq \in 1..MaxEvents
             /\ {bucket[i].prev, bucket[i].hash} \subseteq Seq(1..MaxEvents)
  <2>1. bucket[i] \in Chained
    BY <1>1, ListEntries DEF AuditShapes
  <2> QED
    BY <2>1 DEF Chained, Numbers, Base
<1>3. \A file : InFile(file) => file \in Seq([id : 1..MaxEvents, time : 0..MaxAuditTime])
  BY DEF InFile, Logged, Numbers
<1> QED
  BY <1>1, <1>2, <1>3 DEF AuditTypeOK, AuditShapes, FilesOfThePast

\* The log, its limit, its file and the write under way keep their shapes.
THEOREM AuditTypeCorrect == AuditSpec => []AuditTypeOK
<1> QED
  BY AuditInvariance, AuditIsTyped, PTL

\* A window is the last so many of the list, with the hash of the one before them.
LastOnes(w, m) ==
  LET size == Len(bucket)
  IN  /\ w.events \in Seq(Chained) /\ Len(w.events) = m
      /\ \A i \in 1..m : size - m + i \in 1..size /\ w.events[i] = bucket[size - m + i]
      /\ w.anchor = IF m # 0 /\ m < size THEN bucket[size - m].hash ELSE <<>>

\* selectWindow gives the last so many events of the log, with the hash before them.
LEMMA WindowFacts ==
  ASSUME NEW size \in Nat, size = Len(bucket), bucket \in Seq(Chained),
         NEW since \in Nat, NEW n \in Nat, NEW w, w = SelectWindow(since, n)
  PROVE  \E m \in 0..size : LastOnes(w, m)
<1>1. PICK late : late = {i \in 1..size : bucket[i].time > since}
  OBVIOUS
<1>2. PICK start : start = IF late = {} THEN size + 1
                           ELSE CHOOSE i \in late : \A j \in late : i <= j
  OBVIOUS
<1>3. PICK matching : matching = IF since = 0 THEN bucket ELSE SubSeq(bucket, start, size)
  OBVIOUS
<1>4. PICK events : events = Latest(n, matching)
  OBVIOUS
<1>5. PICK first : first = size - Len(events) + 1
  OBVIOUS
<1>6. w = [events |-> events,
           anchor |-> IF events # <<>> /\ first > 1 THEN bucket[first - 1].hash ELSE <<>>]
  BY <1>1, <1>2, <1>3, <1>4, <1>5 DEF SelectWindow
<1>7. start \in 1..(size + 1)
  <2>1. CASE late = {}
    BY <1>2, <2>1
  <2>2. CASE late # {}
    <3>1. \E i \in late : \A j \in late : i <= j
      <4>1. late \in SUBSET Nat /\ IsFiniteSet(late)
        <5>1. IsFiniteSet(1..size)
          BY FS_Interval
        <5>2. late \in SUBSET (1..size)
          BY <1>1
        <5>3. late \in SUBSET Nat
          BY <5>2
        <5> QED
          BY <5>1, <5>2, <5>3, FS_Subset
      <4>2. PICK places, amount : places = Ascending(late) /\ amount = Cardinality(late)
        OBVIOUS
      <4>3. /\ amount \in Nat /\ places \in [1..amount -> late]
            /\ \A s \in late : \E k \in 1..amount : places[k] = s
            /\ \A k, l \in 1..amount : k < l => places[k] < places[l]
        BY <4>1, <4>2, AscendingLists
      <4>4. 1 \in 1..amount
        <5>1. PICK k \in 1..amount : TRUE
          BY <2>2, <4>3
        <5> QED
          BY <4>3, <5>1
      <4>5. ASSUME NEW j \in late
            PROVE  places[1] <= j
        <5>1. PICK k \in 1..amount : places[k] = j
          BY <4>3
        <5>2. k = 1 \/ 1 < k
          BY <4>3
        <5>3. places[1] \in Nat /\ j \in Nat
          BY <4>1, <4>3, <4>4
        <5> QED
          BY <4>3, <4>4, <5>1, <5>2, <5>3
      <4> QED
        BY <4>3, <4>4, <4>5
    <3>2. start \in late
      BY <1>2, <2>2, <3>1
    <3> QED
      BY <1>1, <3>2
  <2> QED
    BY <2>1, <2>2
<1>8. PICK q \in 0..size : /\ matching \in Seq(Chained) /\ Len(matching) = q
                           /\ \A i \in 1..q : /\ size - q + i \in 1..size
                                              /\ matching[i] = bucket[size - q + i]
  <2>1. CASE since = 0
    <3>1. matching = bucket /\ size \in 0..size /\ \A i \in 1..size : size - size + i = i
      BY <1>3, <2>1
    <3> QED
      BY <3>1
  <2>2. CASE since # 0
    <3>1. matching = SubSeq(bucket, start, size)
      BY <1>3, <2>2
    <3>a. size - start + 1 \in 0..size
      BY <1>7
    <3>2. PICK some \in 0..size : some = size - start + 1
      BY <3>a
    <3>3. matching \in Seq(Chained) /\ Len(matching) = some
      BY <1>7, <3>1, <3>2
    <3>4. ASSUME NEW i \in 1..some
          PROVE  size - some + i \in 1..size /\ matching[i] = bucket[size - some + i]
      <4>1. size - some + i = start + i - 1 /\ size - some + i \in 1..size
        BY <1>7, <3>2
      <4>2. matching[i] = bucket[start + i - 1]
        BY <1>7, <3>1, <3>2
      <4> QED
        BY <4>1, <4>2
    <3> QED
      BY <3>3, <3>4
  <2> QED
    BY <2>1, <2>2
<1>9. PICK m \in 0..q : /\ events \in Seq(Chained) /\ Len(events) = m
                        /\ \A i \in 1..m : q - m + i \in 1..q /\ events[i] = matching[q - m + i]
  <2>1. /\ events \in Seq(Chained)
        /\ Len(events) = IF Len(matching) > n THEN n ELSE Len(matching)
        /\ \A i \in 1..Len(events) : /\ Len(matching) - Len(events) + i \in 1..Len(matching)
                                     /\ events[i] = matching[Len(matching) - Len(events) + i]
    BY <1>4, <1>8, LatestFacts
  <2>2. Len(events) \in 0..q
    BY <1>8, <2>1
  <2> QED
    BY <1>8, <2>1, <2>2
<1>10. ASSUME NEW i \in 1..m
       PROVE  size - m + i \in 1..size /\ events[i] = bucket[size - m + i]
  <2>1. PICK k \in 1..q : k = q - m + i /\ events[i] = matching[k]
    BY <1>9
  <2>2. size - q + k = size - m + i
    BY <2>1
  <2>3. size - q + k \in 1..size /\ matching[k] = bucket[size - q + k]
    BY <1>8
  <2> QED
    BY <2>1, <2>2, <2>3
<1>11. w.events = events /\ w.anchor = IF m # 0 /\ m < size THEN bucket[size - m].hash ELSE <<>>
  <2>1. events # <<>> <=> m # 0
    BY <1>9, EmptyList
  <2>2. first - 1 = size - m /\ (first > 1 <=> m < size)
    BY <1>5, <1>9
  <2> QED
    BY <1>6, <2>1, <2>2
<1>12. m \in 0..size
  OBVIOUS
<1>13. LastOnes(w, m)
  BY <1>9, <1>10, <1>11 DEF LastOnes
<1> QED
  BY <1>12, <1>13

\* A window verifies, unless it begins with an event whose predecessor was cut away.
LEMMA WindowVerifies ==
  ASSUME AuditShapes, BucketChained, NEW since \in Nat, NEW n \in Nat,
         NEW w, w = SelectWindow(since, n)
  PROVE  Verified(w) <=> ~(trimmed /\ w.anchor = <<>> /\ w.events # <<>>)
<1>1. PICK size \in Nat : size = Len(bucket) /\ bucket \in Seq(Chained)
  BY DEF AuditShapes
<1>2. PICK chain : chain = ChainOf(bucket) /\ Spells(bucket, chain)
  BY DEF BucketChained
<1>3. PICK length \in Nat :
        /\ length = Len(chain) /\ size <= length /\ chain \in Seq(Numbers)
        /\ (trimmed <=> length > size)
  <2>1. chain \in Seq(Numbers) /\ Len(bucket) <= Len(chain)
    BY <1>1, <1>2, SpelledAt
  <2>2. trimmed <=> Len(chain) > Len(bucket)
    BY <1>2 DEF BucketChained
  <2> QED
    BY <1>1, <2>1, <2>2
<1>4. ASSUME NEW i \in 1..size
      PROVE  LET k == length - size + i
             IN  /\ k \in 1..length
                 /\ bucket[i].id = chain[k]
                 /\ bucket[i].prev = Upto(chain, k - 1) /\ bucket[i].hash = Upto(chain, k)
                 /\ bucket[i].hash = Append(bucket[i].prev, bucket[i].id)
  <2>1. PICK k : k = length - size + i
    OBVIOUS
  <2>2. /\ k \in 1..length
        /\ bucket[i].id = chain[k]
        /\ bucket[i].prev = Upto(chain, k - 1) /\ bucket[i].hash = Upto(chain, k)
    BY <1>1, <1>2, <1>3, <2>1, SpelledAt
  <2>3. Upto(chain, k) = Append(Upto(chain, k - 1), chain[k])
    BY <1>3, <2>2, UptoGrows
  <2> QED
    BY <2>1, <2>2, <2>3
<1>a. PICK m \in 0..size : LastOnes(w, m)
  BY <1>1, WindowFacts
<1>5. /\ w.events \in Seq(Chained) /\ Len(w.events) = m
      /\ \A i \in 1..m : size - m + i \in 1..size /\ w.events[i] = bucket[size - m + i]
      /\ w.anchor = IF m # 0 /\ m < size THEN bucket[size - m].hash ELSE <<>>
  BY <1>1, <1>a DEF LastOnes
<1>6. PICK events : events = w.events
  OBVIOUS
<1>7. PICK Before : Before = [i \in 1..m |-> IF i = 1 THEN w.anchor ELSE events[i - 1].hash]
  OBVIOUS
<1>8. Verified(w) <=> \A i \in 1..m : /\ events[i].prev = Before[i]
                                      /\ events[i].hash = Append(Before[i], events[i].id)
  BY <1>5, <1>6, <1>7 DEF Verified
<1>9. ASSUME NEW i \in 1..m, i # 1 \/ m < size
      PROVE  events[i].prev = Before[i] /\ events[i].hash = Append(Before[i], events[i].id)
  <2>1. PICK p \in 1..size : p = size - m + i /\ events[i] = bucket[p]
    BY <1>5, <1>6
  <2>2. PICK r \in 1..size : r = p - 1
    BY <1>9, <2>1
  <2>3. Before[i] = bucket[r].hash
    <3>1. CASE i = 1
      <4>1. m # 0 /\ m < size /\ size - m = r
        BY <1>9, <2>1, <2>2, <3>1
      <4> QED
        BY <1>5, <1>7, <3>1, <4>1
    <3>2. CASE i # 1
      <4>1. i - 1 \in 1..m /\ size - m + (i - 1) = r
        BY <2>1, <2>2, <3>2
      <4>2. events[i - 1] = bucket[r]
        BY <1>5, <1>6, <4>1
      <4> QED
        BY <1>7, <3>2, <4>2
    <3> QED
      BY <3>1, <3>2
  <2>4. bucket[p].prev = bucket[r].hash
    <3>1. PICK k : k = length - size + p
      OBVIOUS
    <3>2. k - 1 = length - size + r
      BY <1>3, <2>2, <3>1
    <3>3. bucket[p].prev = Upto(chain, k - 1)
      BY <1>4, <3>1
    <3>4. bucket[r].hash = Upto(chain, k - 1)
      BY <1>4, <3>2
    <3> QED
      BY <3>3, <3>4
  <2>5. bucket[p].hash = Append(bucket[p].prev, bucket[p].id)
    BY <1>4
  <2> QED
    BY <2>1, <2>3, <2>4, <2>5
<1>10. ASSUME m = size, m # 0
       PROVE  /\ 1 \in 1..m /\ Before[1] = <<>> /\ w.anchor = <<>>
              /\ events[1].hash = Append(events[1].prev, events[1].id)
              /\ events[1].prev = <<>> <=> ~trimmed
  <2>1. 1 \in 1..m /\ 1 \in 1..size /\ size - m + 1 = 1 /\ ~(m < size)
    BY <1>10
  <2>2. events[1] = bucket[1]
    BY <1>5, <1>6, <2>1
  <2>3. w.anchor = <<>> /\ Before[1] = <<>>
    BY <1>5, <1>7, <2>1
  <2>4. PICK k : k = length - size + 1
    OBVIOUS
  <2>5. /\ k \in 1..length /\ bucket[1].prev = Upto(chain, k - 1)
        /\ bucket[1].hash = Append(bucket[1].prev, bucket[1].id)
    BY <1>4, <2>1, <2>4
  <2>6. PICK l \in 0..length : l = k - 1
    BY <2>5
  <2>7. Upto(chain, l) = <<>> <=> l = 0
    BY <1>3, UptoFacts
  <2>8. l = 0 <=> ~(length > size)
    BY <1>3, <2>4, <2>6
  <2> QED
    BY <1>3, <2>1, <2>2, <2>3, <2>5, <2>6, <2>7, <2>8
<1>11. CASE m = 0
  <2>1. events = <<>>
    BY <1>5, <1>6, <1>11, EmptyList
  <2>2. \A i \in 1..m : FALSE
    BY <1>11
  <2> QED
    BY <1>6, <1>8, <2>1, <2>2
<1>12. CASE m # 0 /\ m < size
  <2>1. Verified(w)
    BY <1>8, <1>9, <1>12
  <2>2. w.anchor # <<>>
    <3>1. PICK p \in 1..size : p = size - m
      BY <1>12
    <3>2. w.anchor = bucket[p].hash
      BY <1>5, <1>12, <3>1
    <3>3. PICK k \in 1..length : bucket[p].hash = Upto(chain, k)
      BY <1>4
    <3>4. k \in 0..length /\ k # 0
      BY <1>3
    <3> QED
      BY <1>3, <3>2, <3>3, <3>4, UptoFacts
  <2> QED
    BY <2>1, <2>2
<1>13. CASE m # 0 /\ m = size
  <2>1. events # <<>>
    BY <1>5, <1>6, <1>13
  <2>2. CASE trimmed
    <3>1. events[1].prev # Before[1]
      BY <1>10, <1>13, <2>2
    <3>2. ~Verified(w)
      BY <1>8, <1>10, <1>13, <3>1
    <3> QED
      BY <1>6, <1>10, <1>13, <2>1, <2>2, <3>2
  <2>3. CASE ~trimmed
    <3>1. /\ events[1].prev = Before[1]
          /\ events[1].hash = Append(Before[1], events[1].id)
      BY <1>10, <1>13, <2>3
    <3>2. Verified(w)
      BY <1>8, <1>9, <3>1
    <3> QED
      BY <2>3, <3>2
  <2> QED
    BY <2>2, <2>3
<1> QED
  BY <1>11, <1>12, <1>13

\* Whole windows and the latest events follow from the invariant.
LEMMA AuditTrailFollows == AuditInv => AuditTrailHolds
<1> SUFFICES ASSUME AuditInv PROVE AuditTrailHolds
  OBVIOUS
<1>1. AuditShapes /\ BucketChained /\ BucketInOrder
  BY DEF AuditInv
<1>2. WindowsVerify
  <2>1. limit \in Nat /\ MaxAuditTime \in Nat
    BY <1>1, AuditAssumption DEF AuditShapes
  <2>2. ASSUME NEW since \in 0..MaxAuditTime, NEW n \in 1..limit, NEW w, w = SelectWindow(since, n)
        PROVE  Verified(w) <=> ~(trimmed /\ w.anchor = <<>> /\ w.events # <<>>)
    <3>1. since \in Nat /\ n \in Nat
      BY <2>1
    <3> QED
      BY <1>1, <2>2, <3>1, WindowVerifies
  <2> QED
    BY <2>2 DEF WindowsVerify
<1>3. KeepsTheLatest
  <2> SUFFICES ASSUME setBacks = 0
               PROVE  /\ \A i \in 1..(Len(bucket) - 1) : bucket[i].id < bucket[i + 1].id
                      /\ reloads = 0 => \A i \in 1..Len(bucket) : bucket[i].id = Lost + i
                      /\ Len(bucket) <= limit
    BY DEF KeepsTheLatest
  <2>1. PICK size \in Nat : size = Len(bucket) /\ bucket \in Seq(Chained)
    BY <1>1 DEF AuditShapes
  <2>2. \A i, j \in 1..size : i < j => bucket[i].id < bucket[j].id
    <3>1. Spells(bucket, ChainOf(bucket)) /\ Rises(ChainOf(bucket))
      BY <1>1 DEF BucketChained, BucketInOrder
    <3> QED
      BY <2>1, <3>1, SpelledRise
  <2>3. ASSUME NEW i \in 1..(size - 1)
        PROVE  bucket[i].id < bucket[i + 1].id
    <3>1. i \in 1..size /\ i + 1 \in 1..size /\ i < i + 1
      BY <2>1
    <3> QED
      BY <2>2, <3>1
  <2>4. reloads = 0 => \A i \in 1..size : bucket[i].id = Lost + i
    BY <1>1, <2>1 DEF BucketInOrder, Lost
  <2>5. size <= limit
    BY <1>1, <2>1 DEF BucketChained
  <2> QED
    BY <2>1, <2>3, <2>4, <2>5
<1> QED
  BY <1>2, <1>3 DEF AuditTrailHolds

\* Every window verifies unless a restart cut the list it was taken from before its anchor,
\* and while the clock only goes forward the log keeps the latest events without a gap
\* before what a restart lost: for any limits, restarts and numbers of events.
THEOREM AuditTrailAlwaysHolds == AuditSpec => []AuditTrailHolds
<1> QED
  BY AuditInvariance, AuditTrailFollows, PTL

\* A list is of the chain that begins with the first event its hashes cover.
LEMMA OriginFacts ==
  ASSUME NEW list \in Seq(Chained), NEW chain, Spells(list, chain), list # <<>>
  PROVE  /\ Origin(list) = chain[1] /\ 1 \in 1..Len(chain) /\ chain \in Seq(Numbers)
<1>1. PICK size \in Nat : size = Len(list)
  BY ListEntries
<1>2. 1 \in 1..size
  BY <1>1, EmptyList
<1>3. PICK k : k = Len(chain) - size + 1
  OBVIOUS
<1>4. /\ chain \in Seq(Numbers) /\ k \in 1..Len(chain) /\ list[1].hash = Upto(chain, k)
  BY <1>1, <1>2, <1>3, SpelledAt
<1>5. Len(chain) \in Nat
  BY <1>4, ListEntries
<1>6. k \in 0..Len(chain) /\ 1 \in 1..k /\ 1 \in 1..Len(chain)
  BY <1>4, <1>5
<1>7. \A l \in 1..k : Upto(chain, k)[l] = chain[l]
  BY <1>4, <1>6, UptoFacts
<1>8. list[1].hash[1] = chain[1]
  BY <1>4, <1>6, <1>7
<1> QED
  BY <1>4, <1>6, <1>8 DEF Origin

\* An event with its hashes is what its parts are.
LEMMA ChainedEqual ==
  ASSUME NEW e \in Chained, NEW f \in Chained, e.id = f.id, e.time = f.time, e.seq = f.seq,
         e.prev = f.prev, e.hash = f.hash
  PROVE  e = f
BY DEF Chained

\* Recording leaves the hashes of the events it keeps, or gives the chain another origin.
LEMMA RecordingAgrees ==
  ASSUME AuditInv, Record, setBacks = 0, Origin(bucket') = Origin(bucket),
         NEW i \in 1..Len(bucket), NEW j \in 1..Len(bucket'), bucket[i].id = bucket'[j].id
  PROVE  bucket[i] = bucket'[j]
<1>1. AuditShapes /\ BucketChained /\ BucketInOrder
  BY DEF AuditInv
<1>2. PICK event : event = [id |-> recorded + 1, time |-> auditClock]
  OBVIOUS
<1>3. PICK more : more = Append(bucket, Linking(event))
  OBVIOUS
<1>4. recorded < MaxEvents
  BY DEF Record
<1>5. bucket' = IF Overflows THEN AttachChain(Latest(limit, more)) ELSE more
  BY <1>2, <1>3 DEF Record
<1>6. PICK size \in Nat : size = Len(bucket) /\ bucket \in Seq(Chained)
  BY <1>1 DEF AuditShapes
<1>7. /\ more \in Seq(Chained) /\ Len(more) = size + 1
      /\ \A k \in 1..size : more[k] = bucket[k]
  <2>1. /\ more \in Seq(Chained) /\ Len(more) = Len(bucket) + 1
        /\ \A k \in 1..Len(bucket) : more[k] = bucket[k]
    BY <1>1, <1>2, <1>3, <1>4, LinkingSpells
  <2> QED
    BY <1>6, <2>1
<1>8. \A k, l \in 1..(size + 1) : k < l => more[k].id < more[l].id
  <2>1. \A k, l \in 1..Len(more) : k < l => more[k].id < more[l].id
    BY <1>1, <1>2, <1>3, <1>4, MoreInOrder
  <2> QED
    BY <1>7, <2>1
<1>9. \A k \in 1..(size + 1) : more[k].id \in Nat
  BY <1>7, EventTypes, ListEntries
<1>10. CASE ~Overflows
  <2>1. bucket' = more /\ j \in 1..(size + 1) /\ i \in 1..size /\ i \in 1..(size + 1)
    BY <1>5, <1>6, <1>7, <1>10
  <2>2. more[i].id = more[j].id /\ more[i].id \in Nat /\ more[j].id \in Nat
    BY <1>7, <1>9, <2>1
  <2>3. ~(i < j) /\ ~(j < i)
    BY <1>8, <2>1, <2>2
  <2>4. i = j
    BY <2>1, <2>3
  <2> QED
    BY <1>7, <2>1, <2>4
<1>11. CASE Overflows
  <2> SUFFICES FALSE
    OBVIOUS
  <2>1. PICK list : list = AttachChain(Latest(limit, more))
    OBVIOUS
  <2>2. bucket' = list
    BY <1>5, <1>11, <2>1
  <2>3. PICK whole : whole = ChainOf(list)
    OBVIOUS
  <2>4. /\ limit \in Nat \ {0} /\ size = limit
        /\ list \in Seq(Chained) /\ Len(list) = limit
        /\ Spells(list, whole) /\ Len(whole) = limit
        /\ (Timely(more) => Follows(list, more))
    <3>1. /\ limit \in Nat \ {0} /\ Len(bucket) = limit /\ Len(more) = limit + 1
          /\ list \in Seq(Chained) /\ Len(list) = limit
          /\ Spells(list, ChainOf(list)) /\ Len(ChainOf(list)) = limit /\ limit <= recorded
          /\ DrawnFrom(list, more) /\ (Timely(more) => Follows(list, more))
      BY <1>1, <1>2, <1>3, <1>4, <1>11, <2>1, OverflowFacts
    <3> QED
      BY <1>6, <2>3, <3>1
  <2>5. Timely(more)
    <3>1. InOrder(more)
      BY <1>1, <1>2, <1>3, <1>4, MoreInOrder
    <3> QED
      BY <3>1 DEF InOrder
  <2>6. 1 \in 1..limit /\ 1 + 1 = 2 /\ limit - limit + 1 = 1
    BY <2>4
  <2>7. list[1].id = more[2].id
    BY <2>4, <2>5, <2>6 DEF Follows
  <2>8. list[1].id = whole[1]
    <3>1. 1 = Len(whole) - Len(list) + 1 /\ 1 \in 1..Len(list)
      BY <2>4, <2>6
    <3>2. list \in Seq(Chained) /\ Spells(list, whole)
      BY <2>4
    <3> QED
      BY <3>1, <3>2, SpelledEntry
  <2>9. Origin(list) = whole[1]
    <3>1. list # <<>>
      BY <2>4
    <3> QED
      BY <2>4, <3>1, OriginFacts
  <2>10. PICK chain : chain = ChainOf(bucket) /\ Spells(bucket, chain) /\ Rises(chain)
    BY <1>1 DEF BucketChained, BucketInOrder
  <2>11. Origin(bucket) = chain[1] /\ 1 \in 1..Len(chain) /\ chain \in Seq(Numbers)
    <3>1. bucket # <<>>
      BY <1>6, <2>4
    <3> QED
      BY <1>6, <2>10, <3>1, OriginFacts
  <2>12. chain[1] <= bucket[1].id
    <3>1. PICK k : k = Len(chain) - size + 1
      OBVIOUS
    <3>2. k \in 1..Len(chain) /\ bucket[1].id = chain[k]
      <4>1. k = Len(chain) - Len(bucket) + 1 /\ 1 \in 1..Len(bucket)
        BY <1>6, <2>4, <2>6, <3>1
      <4> QED
        BY <1>6, <2>10, <4>1, SpelledEntry
    <3>3. chain[1] \in Numbers /\ chain[k] \in Numbers
      BY <2>11, <3>2, ListEntries
    <3>4. chain[1] \in Nat /\ chain[k] \in Nat
      BY <3>3, EventTypes
    <3>5. k = 1 \/ 1 < k
      BY <2>11, <3>2, ListEntries
    <3>6. 1 < k => chain[1] < chain[k]
      BY <2>10, <2>11, <3>2 DEF Rises
    <3> QED
      BY <3>2, <3>4, <3>5, <3>6
  <2>13. bucket[1].id < more[2].id
    <3>1. 1 \in 1..size /\ 1 \in 1..(size + 1) /\ 2 \in 1..(size + 1) /\ 1 < 2
      BY <2>4
    <3>2. more[1].id < more[2].id /\ more[1] = bucket[1]
      BY <1>7, <1>8, <3>1
    <3> QED
      BY <3>2
  <2>14. chain[1] \in Nat /\ bucket[1].id \in Nat /\ more[2].id \in Nat
    <3>1. 1 \in 1..size /\ 1 \in 1..(size + 1) /\ 2 \in 1..(size + 1)
      BY <2>4
    <3>2. chain[1] \in Nat
      BY <2>11, ListEntries, EventTypes
    <3>3. more[1].id \in Nat /\ more[2].id \in Nat /\ more[1] = bucket[1]
      BY <1>7, <1>9, <3>1
    <3> QED
      BY <3>2, <3>3
  <2>15. chain[1] = more[2].id
    BY <2>2, <2>7, <2>8, <2>9, <2>11
  <2> QED
    BY <2>12, <2>13, <2>14, <2>15
<1> QED
  BY <1>10, <1>11

\* A restart gives back the hashes the events had, or another origin.
LEMMA ReloadAgrees ==
  ASSUME AuditInv, Reload, setBacks = 0, Origin(bucket') = Origin(bucket),
         NEW i \in 1..Len(bucket), NEW j \in 1..Len(bucket'), bucket[i].id = bucket'[j].id
  PROVE  bucket[i] = bucket'[j]
<1>1. AuditShapes /\ BucketChained /\ BucketInOrder /\ FilesOfThePast
  BY DEF AuditInv
<1>2. PICK n \in AuditLimits : n = limit'
  BY DEF Reload
<1>3. PICK file : file = auditSaved
  OBVIOUS
<1>4. PICK list : list = Latest(n, AttachChain(file))
  OBVIOUS
<1>5. bucket' = list
  BY <1>2, <1>3, <1>4 DEF Reload
<1>6. PICK chain : chain = ChainOf(list)
  OBVIOUS
<1>7. PICK whole : whole = ChainOf(bucket) /\ Spells(bucket, whole) /\ Rises(whole)
  BY <1>1 DEF BucketChained, BucketInOrder
<1>8. InFile(file)
  BY <1>1, <1>3 DEF FilesOfThePast
<1>9. /\ list \in Seq(Chained) /\ Spells(list, chain) /\ Len(chain) = Len(file)
      /\ \A k \in 1..Len(file) : chain[k] = file[k].id
      /\ \A k \in 1..Len(list) : /\ Len(file) - Len(list) + k \in 1..Len(file)
                                 /\ list[k].id = file[Len(file) - Len(list) + k].id
                                 /\ list[k].time = file[Len(file) - Len(list) + k].time
  BY <1>1, <1>4, <1>6, <1>8, ReloadFacts
<1>10. /\ j \in 1..Len(list) /\ list[j].id = bucket[i].id
       /\ bucket \in Seq(Chained) /\ bucket # <<>> /\ list # <<>>
  BY <1>1, <1>5, <1>9 DEF AuditShapes
<1>11. Origin(list) = chain[1] /\ Origin(bucket) = whole[1] /\ whole \in Seq(Numbers)
       /\ chain \in Seq(Numbers) /\ 1 \in 1..Len(chain)
  BY <1>7, <1>9, <1>10, OriginFacts
<1>12. file # <<>> /\ file[1].id = whole[1]
  BY <1>5, <1>9, <1>11
<1>13. PICK size \in Nat, length \in Nat : size = Len(file) /\ length = Len(whole)
  BY <1>9, <1>11, ListEntries
<1>14. /\ size <= length /\ \A k \in 1..size : file[k].id = whole[k]
       /\ \A k \in 1..size : file[k].id = bucket[i].id => file[k].time = bucket[i].time
  BY <1>7, <1>8, <1>10, <1>12, <1>13 DEF InFile
<1>15. PICK q \in 1..size : /\ q = size - Len(list) + j /\ list[j].time = file[q].time
                            /\ list[j].id = file[q].id
  BY <1>9, <1>10, <1>13
<1>16. /\ list[j].seq = q /\ list[j].prev = Upto(chain, q - 1) /\ list[j].hash = Upto(chain, q)
  <2>1. q = Len(chain) - Len(list) + j
    BY <1>9, <1>13, <1>15
  <2>2. list \in Seq(Chained) /\ Spells(list, chain) /\ j \in 1..Len(list)
    BY <1>9, <1>10
  <2> QED
    BY <2>1, <2>2, SpelledEntry
<1>17. PICK p : p = length - Len(bucket) + i
  OBVIOUS
<1>18. /\ p \in 1..length /\ bucket[i].id = whole[p] /\ bucket[i].seq = p
       /\ bucket[i].prev = Upto(whole, p - 1) /\ bucket[i].hash = Upto(whole, p)
  BY <1>7, <1>10, <1>13, <1>17, SpelledAt
<1>19. p = q
  <2>1. whole[p] = whole[q] /\ q \in 1..length
    BY <1>10, <1>13, <1>14, <1>15, <1>18
  <2>2. whole[p] \in Nat /\ whole[q] \in Nat
    BY <1>11, <1>13, <1>18, <2>1, ListEntries, EventTypes
  <2>3. ~(p < q) /\ ~(q < p)
    BY <1>7, <1>13, <1>18, <2>1, <2>2 DEF Rises
  <2> QED
    BY <1>13, <1>18, <2>3
<1>20. ASSUME NEW k \in 0..size
       PROVE  Upto(chain, k) = Upto(whole, k)
  <2>1. \A l \in 1..k : chain[l] = whole[l]
    BY <1>9, <1>13, <1>14
  <2> QED
    BY <2>1 DEF Upto
<1>21. Upto(chain, q - 1) = Upto(whole, q - 1) /\ Upto(chain, q) = Upto(whole, q)
  <2>1. q - 1 \in 0..size /\ q \in 0..size
    BY <1>13
  <2> QED
    BY <1>20, <2>1
<1>22. bucket[i] \in Chained /\ list[j] \in Chained
  BY <1>9, <1>10, ListEntries
<1>23. bucket[i].time = list[j].time
  BY <1>10, <1>14, <1>15
<1>24. bucket[i] = list[j]
  BY <1>10, <1>16, <1>18, <1>19, <1>21, <1>22, <1>23, ChainedEqual
<1> QED
  BY <1>5, <1>24

\* So does every step.
LEMMA AuditStepAgrees ==
  ASSUME AuditInv, [AuditNext]_auditVars, setBacks = 0, Origin(bucket') = Origin(bucket),
         NEW i \in 1..Len(bucket), NEW j \in 1..Len(bucket'), bucket[i].id = bucket'[j].id
  PROVE  bucket[i] = bucket'[j]
<1>1. CASE Record
  BY <1>1, RecordingAgrees
<1>2. CASE Reload
  BY <1>2, ReloadAgrees
<1>3. CASE UNCHANGED bucket
  <2>1. PICK size \in Nat : size = Len(bucket) /\ bucket \in Seq(Chained)
    BY DEF AuditInv, AuditShapes
  <2>2. Spells(bucket, ChainOf(bucket)) /\ Rises(ChainOf(bucket))
    BY DEF AuditInv, BucketChained, BucketInOrder
  <2>3. \A k, l \in 1..size : k < l => bucket[k].id < bucket[l].id
    BY <2>1, <2>2, SpelledRise
  <2>4. i \in 1..size /\ j \in 1..size /\ bucket[i].id = bucket[j].id
    BY <1>3, <2>1
  <2>5. bucket[i].id \in Nat /\ bucket[j].id \in Nat
    BY <2>1, <2>4, EventTypes, ListEntries
  <2>6. ~(i < j) /\ ~(j < i)
    BY <2>3, <2>4, <2>5
  <2>7. i = j
    BY <2>1, <2>4, <2>6
  <2> QED
    BY <1>3, <2>7
<1>4. Record \/ Reload \/ UNCHANGED bucket
  BY DEF AuditNext, AuditTimerFires, AuditWriteBegins, AuditWriteEnds, AuditTick, ClockSetBack,
         auditVars
<1> QED
  BY <1>1, <1>2, <1>3, <1>4

\* While the clock only goes forward, chains that begin with the same event agree on the
\* hashes of every event both contain, through overflows, writes and restarts.
THEOREM HashesOfOneOriginAgree == AuditSpec => SameOriginSameHashes
<1> DEFINE Agrees == setBacks = 0 /\ Origin(bucket') = Origin(bucket) =>
                       \A i \in 1..Len(bucket), j \in 1..Len(bucket') :
                         bucket[i].id = bucket'[j].id => bucket[i] = bucket'[j]
<1>1. AuditInv /\ [AuditNext]_auditVars => [Agrees]_auditVars
  BY AuditStepAgrees
<1> QED
  BY <1>1, AuditInvariance, PTL DEF AuditSpec, SameOriginSameHashes
=============================================================================
