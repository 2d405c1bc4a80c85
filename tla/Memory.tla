-------------------------------- MODULE Memory --------------------------------
(***************************************************************************)
(* The tenants' memories: one file of all of them behind a promise that    *)
(* queues the calls (QueuedFile), the operations on its content            *)
(* (src/service/memory/service.ts) and their routes                        *)
(* (src/service/api/routes/memory.ts).                                     *)
(*                                                                         *)
(* store.items is a sequence, for a JavaScript object keeps the order in   *)
(* which its keys were added and eviction and lookup go by it.  Of a       *)
(* memory's fields only those that decide something are kept: its content  *)
(* is a fact, and which memories match a query is left open.               *)
(***************************************************************************)
EXTENDS Naturals, Sequences, FiniteSets, Sublists

CONSTANTS
  MemTenants,
  Facts, ClientIds, NoId,      \* contents; ids a client may give, or none
  KeptPerTenant, BatchSlack,   \* maxItemsPerTenant, and the 100 a batch may exceed it by
  Batches,                     \* bounds of the model: batches that are sent,
  MaxMemCalls,                 \* calls made,
  MaxMemTime, MaxMemCrashes

ASSUME MemoryAssumption ==
  /\ KeptPerTenant \in Nat \ {0} /\ BatchSlack \in Nat /\ NoId \notin ClientIds
  /\ {MaxMemCalls, MaxMemTime, MaxMemCrashes} \subseteq Nat
  /\ \A b \in Batches : b # <<>> /\ b \in Seq([id : ClientIds \cup {NoId}, fact : Facts])

VARIABLES
  memFile,     \* the file
  memQueue,    \* calls that wait for those before them
  memRuns,     \* calls that have read the file and go on to write it
  memCalls,    \* calls made so far
  memClock, memCrashes

memVars == <<memFile, memQueue, memRuns, memCalls, memClock, memCrashes>>

MemStore == INSTANCE QueuedFile WITH
  file <- memFile, queue <- memQueue, runs <- memRuns, Nothing <- <<>>

MemInit ==
  /\ MemStore!Init
  /\ memCalls = 0
  /\ memClock = 0
  /\ memCrashes = 0

-----------------------------------------------------------------------------
(* memorizeForTenant, on what was read. *)

\* Some clients name their memories, the others get an id of their own.
FreshId(n, i) == <<n, i>>

TenantItems(items, t) == Picked(items, {i \in 1..Len(items) : items[i].tenant = t})
Ids(items) == {items[i].id : i \in 1..Len(items)}
Item(items, id) == items[CHOOSE i \in 1..Len(items) : items[i].id = id]

\* The id comes from the client, or from the first memory of that content among
\* those there were before the batch.
ProposedId(call, i, before) ==
  LET asked == call.batch[i]
      same  == Picked(before, {j \in 1..Len(before) : /\ before[j].tenant = call.tenant
                                                     /\ before[j].fact = asked.fact})
  IN  IF asked.id # NoId THEN asked.id
      ELSE IF same # <<>> THEN same[1].id ELSE FreshId(call.number, i)

Put(items, m) ==
  IF m.id \in Ids(items)
    THEN [i \in 1..Len(items) |-> IF items[i].id = m.id THEN m ELSE items[i]]
    ELSE Append(items, m)

\* A memory that is stored again keeps its retrievals.
Memorized(call, before, items, i) ==
  LET id == ProposedId(call, i, before)
  IN  Put(items, [id |-> id, tenant |-> call.tenant, fact |-> call.batch[i].fact,
                  updated |-> memClock,
                  hits |-> IF id \in Ids(items) THEN Item(items, id).hits ELSE 0])

Remembered(call, before) ==
  LET after[i \in 0..Len(call.batch)] ==
        IF i = 0 THEN before ELSE Memorized(call, before, after[i - 1], i)
  IN  after[Len(call.batch)]

\* The newest come first, in their order in the file where dates are equal; what
\* comes after the first maxItemsPerTenant goes.
Precedes(items, i, j) ==
  \/ items[i].updated > items[j].updated
  \/ items[i].updated = items[j].updated /\ i < j

Trimmed(items, t) ==
  LET own      == {i \in 1..Len(items) : items[i].tenant = t}
      Newer(i) == Cardinality({j \in own : Precedes(items, j, i)})
  IN  Picked(items, {i \in 1..Len(items) : items[i].tenant # t \/ Newer(i) < KeptPerTenant})

TooMany(call, items) ==
  Len(TenantItems(items, call.tenant)) + Len(call.batch) > KeptPerTenant + BatchSlack

Foreign(call, items) ==
  \E i \in 1..Len(call.batch) :
    LET id == ProposedId(call, i, items)
    IN  id \in Ids(items) /\ Item(items, id).tenant # call.tenant

\* The scores decide which memories a search returns: any of the tenant's may.
MayMatch(items, t) == SUBSET Ids(TenantItems(items, t))

\* What is returned counts as retrieved once more.
Retrieved(items, hits) ==
  [i \in 1..Len(items) |->
     IF items[i].id \in hits THEN [items[i] EXCEPT !.hits = @ + 1] ELSE items[i]]

\* What a call may leave to be written; nothing if its handler throws or only reads.
Outcomes(call, items) ==
  CASE call.op = "memorize" ->
         IF TooMany(call, items) \/ Foreign(call, items) THEN {}
         ELSE {Trimmed(Remembered(call, items), call.tenant)}
    [] call.op = "search" -> {Retrieved(items, hits) : hits \in MayMatch(items, call.tenant)}
    [] call.op = "delete" ->
         {Picked(items, {i \in 1..Len(items) :
                           items[i].id # call.id \/ items[i].tenant # call.tenant})}
    [] call.op = "read" -> {}

-----------------------------------------------------------------------------
(* The routes, and memorizing what a chat says. *)

Waits(call) ==
  /\ memCalls < MaxMemCalls
  /\ memCalls' = memCalls + 1
  /\ MemStore!Waits(call)
  /\ UNCHANGED <<memClock, memCrashes>>

PostItems(t, batch) ==
  Waits([op |-> "memorize", number |-> memCalls + 1, tenant |-> t, batch |-> batch])

PostSearch(t) == Waits([op |-> "search", number |-> memCalls + 1, tenant |-> t])

\* GET /v1/memory/items and GET /v1/memory/stats.
ListItems(t) == Waits([op |-> "read", number |-> memCalls + 1, tenant |-> t])

\* What a user says in a chat, if it looks worth keeping.
AutoCapture(t, fact) == PostItems(t, <<[id |-> NoId, fact |-> fact]>>)

DeleteItem(t, id) ==
  Waits([op |-> "delete", number |-> memCalls + 1, tenant |-> t, id |-> id])

-----------------------------------------------------------------------------
(* withMemoryStore. *)

BeginsCall ==
  /\ MemStore!Begins(Outcomes(Head(memQueue), memFile.content))
  /\ UNCHANGED <<memCalls, memClock, memCrashes>>

WritesMemory(n) ==
  /\ MemStore!Truncates(n) \/ MemStore!Writes(n)
  /\ UNCHANGED <<memCalls, memClock, memCrashes>>

MemoryDies ==
  /\ memCrashes < MaxMemCrashes
  /\ memCrashes' = memCrashes + 1
  /\ MemStore!Dies
  /\ UNCHANGED <<memCalls, memClock>>

MemTick ==
  /\ memClock < MaxMemTime
  /\ memClock' = memClock + 1
  /\ UNCHANGED <<memFile, memQueue, memRuns, memCalls, memCrashes>>

MemNext ==
  \/ \E t \in MemTenants :
       \/ \E batch \in Batches : PostItems(t, batch)
       \/ PostSearch(t)
       \/ ListItems(t)
       \/ \E fact \in Facts : AutoCapture(t, fact)
       \/ \E id \in Ids(memFile.content) : DeleteItem(t, id)
  \/ BeginsCall
  \/ \E n \in DOMAIN memRuns : WritesMemory(n)
  \/ MemoryDies
  \/ MemTick

MemSpec == MemInit /\ [][MemNext]_memVars

-----------------------------------------------------------------------------
(* What should hold. *)

AnyId == ClientIds \cup ((1..MaxMemCalls) \X Nat)
Memories == [id : AnyId, tenant : MemTenants, fact : Facts, updated : 0..MaxMemTime, hits : Nat]

\* The shapes of the variables.
MemTypeOK ==
  /\ MemStore!ShapesOK(memCalls) /\ MemStore!Contents \subseteq Seq(Memories)
  /\ memCalls \in 0..MaxMemCalls /\ memClock \in 0..MaxMemTime /\ memCrashes \in 0..MaxMemCrashes

Items(seq) == {seq[i] : i \in 1..Len(seq)}

\* Calls that read, change and rewrite one file over several awaits have the effect
\* of one step each: none is lost or half done, tenants do not reach each other's
\* memories, and only the oldest of a tenant make room.
Promise == INSTANCE MemoryContract WITH
  known <- Items(MemStore!Says), lost <- MemStore!Torn,
  Owners <- MemTenants, MaxKept <- KeptPerTenant

KeepsThePromise == Promise!ContractSpec
=============================================================================
