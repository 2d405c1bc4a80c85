------------------------------ MODULE Knowledge ------------------------------
(***************************************************************************)
(* The tenants' documents for retrieval: one file of all of them behind a  *)
(* queue (QueuedFile, src/service/rag/store.ts), ingestion, deletion and   *)
(* search (src/service/rag/service.ts) with their routes                   *)
(* (src/service/api/routes/rag.ts), and the loop that fetches a document   *)
(* from a URL (src/service/rag/remote-url.ts).                             *)
(*                                                                         *)
(* Of a document only its chunks are kept, of a chunk whose it is.  Chunks *)
(* without a token are not stored, so a document may come to none at all.  *)
(* Which chunks a search returns changes nothing that is stored, and what  *)
(* the tenant's remote policy says is the subject of TenantPolicies: here  *)
(* it may say either.  A request that is refused for its size or its shape *)
(* before it waits changes nothing and is left out.                        *)
(***************************************************************************)
EXTENDS Naturals, Sequences, FiniteSets
LOCAL INSTANCE SequencesExt

CONSTANTS
  RagTenants,
  DocumentIds, NoDocumentId,   \* ids a client may give, or none
  Urls, WellShaped,            \* URLs, and those that validateUrlShape lets pass
  MaxRedirects,                \* remoteFetchMaxRedirects
  RagBatches,                  \* bounds of the model: documents that are sent at once,
  MaxRagCalls, MaxFetches,     \* calls and fetches,
  MaxRagCrashes

ASSUME KnowledgeAssumption ==
  /\ {MaxRedirects, MaxRagCalls, MaxFetches, MaxRagCrashes} \subseteq Nat
  /\ WellShaped \subseteq Urls
  /\ \A b \in RagBatches :
       b # <<>> /\ b \in Seq([id : DocumentIds \cup {NoDocumentId}, chunks : Nat])

VARIABLES
  ragFile, ragQueue, ragRuns,   \* QueuedFile's
  ragCalls,                     \* calls and fetches so far
  fetches,                      \* fetches under way, by number
  ragCrashes

ragVars == <<ragFile, ragQueue, ragRuns, ragCalls, fetches, ragCrashes>>

NoDocuments == [documents |-> [id \in {} |-> 0], chunks |-> {}]

RagStore == INSTANCE QueuedFile WITH
  file <- ragFile, queue <- ragQueue, runs <- ragRuns, Nothing <- NoDocuments

RagInit ==
  /\ RagStore!Init
  /\ ragCalls = 0
  /\ fetches = [n \in {} |-> 0]
  /\ ragCrashes = 0

-----------------------------------------------------------------------------
(* What a call does to what was read. *)

\* Chunks get ids of their own, and so do documents that come without one.
DocumentId(call, i) ==
  IF call.batch[i].id = NoDocumentId THEN <<call.number, i>> ELSE call.batch[i].id

Cut(call, i) ==
  {[id |-> <<call.number, i, k>>, document |-> DocumentId(call, i), tenant |-> call.tenant] :
     k \in 1..call.batch[i].chunks}

Has(store, id) == id \in DOMAIN store.documents
Owned(store, id, t) == Has(store, id) /\ store.documents[id].tenant = t
Listed(store, id) == {c \in store.chunks : c.id \in store.documents[id].chunks}

\* Mutant: the chunks of whoever's document had this id go.
ReplacedWhosever(store, id, t) == IF Has(store, id) THEN Listed(store, id) ELSE {}

\* A tenant's document makes way for the one it sends under the same id.
Replaced(store, id, t) == IF Owned(store, id, t) THEN Listed(store, id) ELSE {}

WithDocument(store, id, document) ==
  [j \in DOMAIN store.documents \cup {id} |->
     IF j = id THEN document ELSE store.documents[j]]

\* A document that comes to no chunk is not put, though the one before it has lost
\* its chunks.
Ingest(call, store, i) ==
  LET id  == DocumentId(call, i)
      cut == Cut(call, i)
      document == [tenant |-> call.tenant, chunks |-> {c.id : c \in cut}]
  IN  [documents |-> IF cut = {} THEN store.documents ELSE WithDocument(store, id, document),
       chunks    |-> (store.chunks \ Replaced(store, id, call.tenant)) \cup cut]

Ingested(call, store) ==
  LET after[i \in 0..Len(call.batch)] == IF i = 0 THEN store ELSE Ingest(call, after[i - 1], i)
  IN  after[Len(call.batch)]

Deleted(call, store) ==
  IF ~Owned(store, call.id, call.tenant) THEN store
  ELSE [documents |-> [j \in DOMAIN store.documents \ {call.id} |-> store.documents[j]],
        chunks    |-> store.chunks \ Listed(store, call.id)]

RagEffects(call, store) ==
  CASE call.op = "ingest" -> {Ingested(call, store)}
    [] call.op = "delete" -> {Deleted(call, store)}
    [] call.op = "read"   -> {}

-----------------------------------------------------------------------------
(* The routes.  The statistics they read after a change are one more read. *)

RagWaits(call) ==
  /\ ragCalls < MaxRagCalls
  /\ ragCalls' = ragCalls + 1
  /\ RagStore!Waits(call)
  /\ UNCHANGED <<fetches, ragCrashes>>

PostDocuments(t, batch) ==
  RagWaits([op |-> "ingest", number |-> ragCalls + 1, tenant |-> t, batch |-> batch])

SearchTenantKnowledge(t) == RagWaits([op |-> "read", number |-> ragCalls + 1, tenant |-> t])

ListTenantDocuments(t) == RagWaits([op |-> "read", number |-> ragCalls + 1, tenant |-> t])

DeleteTenantDocument(t, id) ==
  RagWaits([op |-> "delete", number |-> ragCalls + 1, tenant |-> t, id |-> id])

-----------------------------------------------------------------------------
(* Fetching: previewUrlForTenant, and ingestUrlForTenant if it is to be ingested. *)

Others(n) == [m \in DOMAIN fetches \ {n} |-> fetches[m]]
Url(n)    == Last(fetches[n].hops)

\* The policy is asked about the URL that was named, before anything is fetched.
FetchBegins(t, ingest, url) ==
  /\ ragCalls < MaxRagCalls /\ Cardinality(DOMAIN fetches) < MaxFetches
  /\ ragCalls' = ragCalls + 1
  /\ \/ fetches' = [n \in DOMAIN fetches \cup {ragCalls + 1} |->
                      IF n = ragCalls + 1
                        THEN [tenant |-> t, ingest |-> ingest, step |-> "resolve", hops |-> <<url>>]
                        ELSE fetches[n]]
     \/ UNCHANGED fetches
  /\ UNCHANGED <<ragFile, ragQueue, ragRuns, ragCrashes>>

PreviewUrl(t, url) == FetchBegins(t, FALSE, url)
IngestUrl(t, url)  == FetchBegins(t, TRUE, url)

\* The request is answered.
Ends(n) ==
  /\ fetches' = Others(n)
  /\ UNCHANGED <<ragFile, ragQueue, ragRuns, ragCalls, ragCrashes>>

\* validateUrlShape
PassesShape(url) == url \in WellShaped

\* Each hop is validated, and resolved to addresses that must all be public, before
\* it is looked up among those visited.
HopResolves(n) ==
  LET visited == Front(fetches[n].hops)
  IN  /\ fetches[n].step = "resolve"
      /\ PassesShape(Url(n)) /\ ~Contains(visited, Url(n))
      /\ fetches' = [fetches EXCEPT ![n].step = "request"]
      /\ UNCHANGED <<ragFile, ragQueue, ragRuns, ragCalls, ragCrashes>>

\* It is not resolved, or to an address that is not public, or one of those fails.
HopRefused(n) == fetches[n].step = "resolve" /\ Ends(n)

\* The request times out or fails, or what comes is too large, a redirect too many or
\* to nowhere, or not a text.
RequestFails(n) == fetches[n].step = "request" /\ Ends(n)

\* Mutant: the redirect in hand is not counted.
RedirectsLeftLate(n) == Len(fetches[n].hops) - 1 <= MaxRedirects

RedirectsLeft(n) == Len(fetches[n].hops) - 1 < MaxRedirects

Redirects(n) ==
  /\ fetches[n].step = "request"
  /\ RedirectsLeft(n)
  /\ \E next \in Urls :
       fetches' = [fetches EXCEPT ![n].step = "resolve", ![n].hops = Append(@, next)]
  /\ UNCHANGED <<ragFile, ragQueue, ragRuns, ragCalls, ragCrashes>>

\* A text has arrived: it is shown, or ingested under an id of its own.
Shown(n) == fetches[n].step = "request" /\ ~fetches[n].ingest /\ Ends(n)

Arrives(n) ==
  /\ fetches[n].step = "request" /\ fetches[n].ingest
  /\ fetches' = Others(n)
  /\ \E chunks \in 0..1 :
       RagStore!Waits([op |-> "ingest", number |-> n, tenant |-> fetches[n].tenant,
                       batch |-> <<[id |-> NoDocumentId, chunks |-> chunks]>>])
  /\ UNCHANGED <<ragCalls, ragCrashes>>

-----------------------------------------------------------------------------
(* withRagStore and readOnlyRagStore. *)

BeginsRagCall ==
  /\ RagStore!Begins(RagEffects(Head(ragQueue), ragFile.content))
  /\ UNCHANGED <<ragCalls, fetches, ragCrashes>>

WritesRag(n) ==
  /\ RagStore!Truncates(n) \/ RagStore!Writes(n)
  /\ UNCHANGED <<ragCalls, fetches, ragCrashes>>

RagDies ==
  /\ ragCrashes < MaxRagCrashes
  /\ ragCrashes' = ragCrashes + 1
  /\ RagStore!Dies
  /\ fetches' = [n \in {} |-> 0]
  /\ UNCHANGED ragCalls

RagNext ==
  \/ \E t \in RagTenants :
       \/ \E batch \in RagBatches : PostDocuments(t, batch)
       \/ SearchTenantKnowledge(t)
       \/ ListTenantDocuments(t)
       \/ \E id \in DOMAIN ragFile.content.documents : DeleteTenantDocument(t, id)
       \/ \E url \in Urls : PreviewUrl(t, url) \/ IngestUrl(t, url)
  \/ \E n \in DOMAIN fetches :
       \/ HopResolves(n) \/ HopRefused(n)
       \/ Redirects(n) \/ RequestFails(n) \/ Shown(n) \/ Arrives(n)
  \/ BeginsRagCall
  \/ \E n \in DOMAIN ragRuns : WritesRag(n)
  \/ RagDies

RagSpec == RagInit /\ [][RagNext]_ragVars

-----------------------------------------------------------------------------
(* What should hold. *)

AnyDocumentId == DocumentIds \cup Seq(Nat)

IsKnowledge(store) ==
  /\ \A id \in DOMAIN store.documents :
       /\ id \in AnyDocumentId /\ store.documents[id].tenant \in RagTenants
       /\ store.documents[id].chunks \subseteq Seq(Nat)
  /\ store.chunks \subseteq [id : Seq(Nat), document : AnyDocumentId, tenant : RagTenants]

\* The shapes of the variables.
RagTypeOK ==
  /\ RagStore!ShapesOK(ragCalls) /\ \A c \in RagStore!Contents : IsKnowledge(c)
  /\ ragCalls \in 0..MaxRagCalls /\ ragCrashes \in 0..MaxRagCrashes
  /\ \A n \in DOMAIN fetches :
       /\ n \in 1..ragCalls /\ fetches[n].tenant \in RagTenants
       /\ fetches[n].ingest \in BOOLEAN /\ fetches[n].step \in {"resolve", "request"}
       /\ fetches[n].hops \in Seq(Urls) \ {<<>>}

\* The loop ends whatever the servers answer: what has been requested is well shaped
\* and all different, the first URL and no more than the redirects allowed.
FetchesEnd ==
  \A n \in DOMAIN fetches :
    LET hops      == fetches[n].hops
        requested == IF fetches[n].step = "request" THEN hops ELSE Front(hops)
    IN  /\ ToSet(requested) \subseteq WellShaped
        /\ \A i, j \in DOMAIN requested : requested[i] = requested[j] => i = j
        /\ Len(requested) <= MaxRedirects + 1

\* Calls that read, change and rewrite one file over several awaits, with a process
\* that dies in between, change the knowledge of one tenant at a time: the chunks of
\* the others stay, those that go were listed by a document of its own, those that
\* come are listed by one, and the entry of another tenant's document changes only
\* when the tenant sends a document under the same id.
Mine(store, t)   == {c \in store.chunks : c.tenant = t}
Theirs(store, t) == store.chunks \ Mine(store, t)

ChangesOnly(t, old, new) ==
  LET gone == Mine(old, t) \ Mine(new, t)
      come == Mine(new, t) \ Mine(old, t)
  IN  /\ Theirs(old, t) = Theirs(new, t)
      /\ \A c \in gone : Owned(old, c.document, t) /\ c.id \in old.documents[c.document].chunks
      /\ \A c \in come : Owned(new, c.document, t) /\ c.id \in new.documents[c.document].chunks
      /\ \A id \in DOMAIN old.documents :
           \/ Has(new, id) /\ new.documents[id] = old.documents[id]
           \/ Owned(new, id, t)
           \/ ~Has(new, id) /\ Owned(old, id, t)

KnowledgeIsApart ==
  [][LET old == RagStore!Says
         new == RagStore!Says'
     IN  ~RagStore!Torn /\ ~RagStore!Torn' => \E t \in RagTenants : ChangesOnly(t, old, new)
    ]_RagStore!Says
=============================================================================
