----------------------------- MODULE MemoryContract -----------------------------
(***************************************************************************)
(* What the memory service (src/service/memory) promises about the         *)
(* memories of all tenants, as if every call were one step: a call touches *)
(* one tenant only, a tenant keeps no more than its limit, and what makes  *)
(* room is the oldest.  Memory implements it over a file.                  *)
(***************************************************************************)
EXTENDS Naturals, FiniteSets

CONSTANTS Owners, MaxKept

VARIABLES
  known,   \* a set of memories, each with an id, an owner, a date and its retrievals
  lost     \* the file cannot be read any more

Of(t, memories) == {m \in memories : m.tenant = t}
WithId(id, memories) == {m \in memories : m.id = id}

ContractInit == known = {} /\ ~lost

OthersUntouched(t) == known \ Of(t, known) = known' \ Of(t, known')

\* What is new is dated at once and no earlier than anything before; what goes
\* has been replaced under its id or is no newer than anything that stays.
Remember(t) ==
  LET old == Of(t, known)
      new == Of(t, known')
  IN  /\ ~lost /\ ~lost'
      /\ OthersUntouched(t)
      /\ Cardinality(new) <= MaxKept
      /\ \A m \in new : Cardinality(WithId(m.id, known')) = 1
      /\ \A m \in new \ old :
           /\ \A n \in old : n.updated <= m.updated
           /\ \A n \in new \ old : n.updated = m.updated
      /\ \A m \in {m \in old : WithId(m.id, new) = {}} : \A n \in new : m.updated <= n.updated

Forget(t) ==
  /\ ~lost /\ ~lost'
  /\ \E m \in Of(t, known) : known' = known \ {m}

\* Retrieval counts go up and nothing else changes.
Recall(t) ==
  /\ ~lost /\ ~lost'
  /\ OthersUntouched(t)
  /\ \E hit \in SUBSET Of(t, known) :
       known' = (known \ hit) \cup {[m EXCEPT !.hits = @ + 1] : m \in hit}

\* A process that dies while it writes loses the file.
Lose == lost' /\ known' = {}

ContractNext == Lose \/ \E t \in Owners : Remember(t) \/ Forget(t) \/ Recall(t)

ContractSpec == ContractInit /\ [][ContractNext]_<<known, lost>>
=============================================================================
