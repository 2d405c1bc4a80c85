# SMART-AI: specification and verification

SMART-AI is a TypeScript service (Fastify on Node.js) that answers chat and research
requests with a language model and tools, and keeps a security plane around them: an
audit log whose exports are signed and delivered to outside destinations, operators who
watch over those deliveries, sessions, keys and policies per tenant. This directory holds
TLA+ models of the parts whose correctness depends on the order in which things happen,
the TLC configurations that check them, and theorems about them checked by TLAPS.

Paths below are relative to `src/`, the repository; `decisions.md`, `delivery.md` and
`README.md` with a line number are the repository's own documents. `PROJECT.json` maps
each definition to the lines it models.

Contents: 1 the system, 2 how the code became steps, 3 the modules, 4 the runs, 5 where
code and documents disagree, 6 fairness, 7 what is proved, 8 what is only model-checked,
9 what is not modelled, 10 the plan.

## 1. The system

| component | state | operations | what is hard | what makes it correct |
|---|---|---|---|---|
| Export delivery store and queue (`security/export-delivery.ts`) | receipts, encrypted payloads, idempotency index, targets, all in memory and written out; one retry timer and one promise chain | enqueue, synchronous deliver, redrive, drain, retry, settle, hydrate | every mutation awaits a write, so handlers and the worker interleave; restarts | a settled receipt is final; attempts and redrives are bounded; an accepted delivery settles; no payload outlives its use |
| Destination incidents (same file) | incidents by id, derived from receipts and edited by operators | open, refresh, acknowledge, clear request with a live canary, clear by a second operator | handlers save a copy they read before an await | a destination that fails is closed until two operators reopen it after a cooldown |
| Operator delegation (`security/export-operator-delegation.ts`, `api/routes/security-events.ts`) | grants, in a JSON file only | request, approve, revoke, look up, consume | read-modify-write over an awaited, shared temporary file | two persons behind each grant; single use; settled grants stay so |
| Operator policy (`security/export-operator-policy.ts`) | roster per action and tenant, revisions | evaluate, preview, set, reset | concurrent edits | an edit names the revision it was made from |
| Export signing (`security/export-signing.ts`) | keys, policy, lease in a file; a copy per instance; a lock file | sign, verify, rotate, maintain, policy update, timer | several processes; a lock file that a waiter may remove; stale copies | a key that signs is in the shared file; one rotation per due key; only the leader maintains |
| JSON persistence (`persistence/json-file.ts`) | the file and one temporary file | read, write | overlapping writers | a file that can be read is one of the contents written |
| Research jobs (`worker/jobs.ts`) | jobs, idempotency index, controllers and timers in memory | enqueue, start, time out, cancel, finish, prune | late answers, cancel before start | a result is final; a cancel reaches the runner; every job ends |
| Circuit breaker (`mcp-health/`) | three states and counters per server, persisted | admit, record, seed | calls in flight when the state changes; restart | an open breaker lets calls through again after the cooldown, and not before |
| Audit log (`security/audit-log.ts`) | events per tenant with a hash chain, written with a debounce | record, prune, export, verify, hydrate | pruning re-chains; crash before the debounce | an untouched chain verifies, a changed one does not |
| UI sessions (`security/ui-session-store.ts`) | sessions by token hash, two caps | issue, resolve, rotate, revoke, prune | expiry against rotation; caps evict | a revoked or expired session never resolves |
| Policies and keys (`security/model-policy.ts`, `security/key-store.ts`, `security/export-delivery-policy.ts`, `rag/remote-policy.ts`) | a file each, all tenants together | read, preview, set, reset | read, compare and write are separated by awaits | no update is lost silently |
| Authentication, rate limits (`api/middleware/`, `security/ui-session-rate-limit.ts`) | window counters | check, record | window borders | at most so many requests in any window |
| Orchestrator (`orchestrator/`) | one request's plan | plan, run tools, verify, synthesise | loop and budget bounds | it ends, within its budget |
| Memory, RAG (`memory/`, `rag/`) | items and chunks in a file behind a promise queue | memorise, search, evict, ingest | capacity, eviction order | a tenant stays within its capacity |
| Tools, LLM client, dashboard (`tools/`, `llm/`, `web/`) | none that lasts | calls to services outside, presentation | I/O | out of scope |

How they interact. A route authenticates the caller, asks the operator policy (or a
delegation grant) whether the action is allowed, and calls the export service. That
service asks the delivery policy which rule a destination matches, asks signing for a
signature over the bundle that the audit log exported, and sends it over HTTPS. Failed
sends become incidents of the destination, which the operators' routes act upon; a
delegated action is carried out first and its grant consumed afterwards. Delegation,
policies, audit log and delivery store all write through `json-file.ts`; signing uses its
synchronous writer behind a lock file, because several processes may share that store.
Jobs call the orchestrator, which calls tools behind the circuit breaker.

## 2. How the code became steps

Node runs one callback at a time. Within one process a step is the code from one await
that leaves the process (a file write, DNS, HTTPS, a runner) to the next; code between is
atomic even when it awaits a function that does not itself leave it. A handler that is
suspended is a record in a set, holding exactly what the code's local variables carry
over the await. Where a file belongs to one store of one process (sessions, audit log,
breaker, memory, documents, policies, keys), its write is split at the file-system calls
that are awaited, because other handlers run between them and a crash may fall there.
Between processes (signing only) there is no protection at all: a step ends at every
file-system call that another instance can observe.

A payload, a signature, a URL or a text is left out or is a member of a small set; ids
are numbers in the order they are given out. Time is a natural number that an action
advances; comparisons with it are those of the code, strict or not as there.

Constants whose comment stands under "bounds of the model" only limit exploration; the
others are the code's settings.

## 3. The modules

The security plane:

| module | models | state | actions |
|---|---|---|---|
| `DeliveryStore` | the class `SecurityExportDeliveryStore` and the destination statistics | none (operators) | `Unshift`/`Overflow` (upsert with eviction), `SyncedIncidents` (`syncIncidentState`), `Quarantined`, `DueRetryables`, `PrunedIdempotency` |
| `ExportDelivery` | the handlers and the worker of `export-delivery.ts` | `deliveries`, `materials`, `idempotency`, `incidents`, `targets` (the store); `requests` (suspended handlers); `worker`, `drain`, `timer`; `policy`, `now` | `Enqueue`, `StoreMaterial`, `StoreIdempotency`, `StartProcessing`, `Redrive`, `RedriveQueues`, `Deliver`, `DeliverAnswered`, `DrainStarts`, `Take`, `SendAnswered`, `Settle`, `WorkerWriteFails`, `DrainEnds`, `TimerFires`, `BackoffEnds`, `Acknowledge`, `RequestClear`, `CanaryPasses`, `Clear`, `ClearSaves`, `OperatorActionFails`, `EditPolicy`, `WriteFails`, `Restart`, `Tick` |
| `DeliveryContract` | what the queue promises, without handlers, worker or store | `phase`, `attempts`, `source` | `Accept`, `Answer`, `Retry`, `Settle`, `Redrive` |
| `JsonFile` | `readJsonFileSync`, overlapping `writeJsonFileAtomic` | `disk`, `writers` | `WriteJson`, `OpensTmp`, `Writes`, `Renames`, `WritersDie` |
| `OperatorDelegation` | grants in such a file, and the routes that use them | the file; `incident`, `handlers`, `now` | `RequestGrant` (`CreateGrant`), `Approve` (`ApproveGrant`), `Revoke` (`RevokeGrant`), `Acknowledge`, `RequestClear`, `ApproveClear`, `Finish` (the action, then `ConsumeIfNeeded`), `Fail`, `ReceiptArrives`, `FileStep`, `Crash`, `Tick` |
| `ExportSigning` | instances that share one signing store | `file`, `written`, `lock`; per instance `mem`, `fresh`, `pc`, `task`; `clock` | `Boot`, `Ask`, `AskRun`, `Look`, `Demand`, `Answer`; the mutex `OpenLock`, `NoticeBusy`, `NoticeAbandoned`, `BreakLock`, `GiveUp`, `TryAgain`, `Release`, `Abort`; inside it `Refuse`, `Maintain`, `Change`, `Write`, `WriteFails`; `Crash`, `Tick` |
| `AuditLog` | `audit-log.ts` for one tenant: recording, chain, trimming, debounced file, reload | `bucket` of chained events, `limit`; the timer and the file | `Record`, `AuditTimerFires`, `AuditWriteBegins`, `AuditWriteEnds`, `Reload`, `AuditTick`, `ClockSetBack`; readers `SelectWindow`, `Verified` |
| `UiSessions` | `ui-session-store.ts`, and the login, session and administration routes over it | `store` (sessions, the global queue, the tenants' queues), `admitted` (requests past authentication); debounce timer, waiting, written and saved file | `Login`; `AsUser`, `AsAdministrator` (touch, refresh, logout, list, revoke); `TimerFires`, `WriteBegins`, `WriteEnds`, `Restart`, `SessionTick` |
| `RequestLimits` | the login limiter with its block, the fixed window of requests | `attempts`, the window, and the times of guesses and served requests | `LoginFails`, `LoginSucceeds`, `ForgetAttempts`, `Request`, `ForgetWindow`, `LimitTick` |
| `Sublists` | `Array.prototype.filter` and `sort`, with a set of places or numbers or a set of pairs | none (operators) | `Picked`, `Ascending`, `Ordered` |
| `PlainStore` | a file of all tenants' entries that is read, changed and written in place, without lock or temporary file | `plain`, `edition`, `updates` (calls under way), `answered`, `stale` (a write began from content that had been replaced) | `Asks`, `Accesses`, `Creates`, `Fills`, `ReadsFile`, `Puts`, `Refuses`, `BeginsWrite`, `EndsWrite`, `UpdatesDie` |
| `ModelPolicy` | `model-policy.ts` over such a file, with the expected revision | as `PlainStore`, and `deployment` | `PutModelPolicy`, `DeleteModelPolicy`, `ReadModelPolicy`, `Decides`, `ModelStoreStep`, `ModelRestart`; readers `Effective`, `Resolve`, `Preview` |
| `KeyStore` | `key-store.ts` and its routes over such a file | an instance of `PlainStore` | `PostKey`, `DeleteKey`, `ReadKey`, `StoresKey` |
| `TenantPolicies` | the delivery, remote and operator policies over `JsonFile` | `policyKind`, the deployment's default, the file, what was told | `Put`, `Delete` of each policy, `PolicyWriterStep`, `PolicyRenamed`, `PolicyRestart` |

Work, tools and knowledge:

| module | models | state | actions |
|---|---|---|---|
| `ResearchJobs` | `worker/jobs.ts` | `jobs`, `index`, `runners`, `controllers`, `timers`, `aborted` | `EnqueueResearchJob`, `Start`, `TimeoutFires`, `RunnerEndsSomehow`, `Cancel`, `JobsTick` |
| `CircuitBreaker` | one tool behind `mcp-health/circuit-breaker.ts`, the health store's snapshots and the seed read at start | `circuit`, `failures`, `successes`, `probes`, `rest`, `calls`; `seed`, `snapshots`; `lately` (results, for the properties) | `CallMcpTool`, `CallSucceeds`, `CallFails`, `Reset`, `ReadHealth`, `SnapshotDue`, `SnapshotWritten`, `SeedArrives`, `Flush`, `BreakerTick`, `BreakerRestart` |
| `QueuedFile` | the store of `memory/store.ts` and `rag/store.ts`: one file behind a promise that queues calls | `file`, `queue`, `runs` | `Waits`, `Begins`, `Truncates`, `Writes`, `Dies` |
| `Memory` | `memory/service.ts` and its routes over it | an instance of `QueuedFile`, the clock, calls | `PostItems`, `PostSearch`, `ListItems`, `AutoCapture`, `DeleteItem`, `BeginsCall`, `WritesMemory`, `MemoryDies`, `MemTick` |
| `MemoryContract` | what memory promises a tenant, without ids, batches or file | `known` (the memories of all tenants), `lost` | `Remember`, `Forget`, `Recall`, `Lose` |
| `Knowledge` | `rag/service.ts`, its routes and the loop of `rag/remote-url.ts` | an instance of `QueuedFile`; fetches under way | `PostDocuments`, `SearchTenantKnowledge`, `ListTenantDocuments`, `DeleteTenantDocument`, `PreviewUrl`, `IngestUrl`, `HopResolves`, `HopRefused`, `Redirects`, `RequestFails`, `Shown`, `Arrives`, `BeginsRagCall`, `WritesRag`, `RagDies` |

How they fit together:

- `ExportDelivery` EXTENDS `DeliveryStore` and instantiates `DeliveryContract` with a
  refinement mapping: a delivery's phase is its receipt's status, `queued` and `retrying`
  being "pending"; attempts and source are read off the receipt.
- `OperatorDelegation` EXTENDS `JsonFile`, `TenantPolicies` instantiates it;
  `ModelPolicy` EXTENDS `PlainStore`, `KeyStore` instantiates it; `Memory` and `Knowledge`
  instantiate `QueuedFile`; `Memory` instantiates `MemoryContract`: what is known is the
  set of memories that the file says (or said before a write under way), and it is lost
  where a crash left the file torn. `OperatorDelegation` keeps only that part of an incident on which grants
  depend, and uses the operator policy's decision with fixed rosters.
- Components that share no state with each other are checked by one run.
  `MCTenantServices` and `MCBackgroundWork` hold several components and a variable
  `subject`, chosen at the start: it alone moves, so the states of the components add
  up and are never multiplied, and each behaviour is one of a component's own
  specification. In `MCBackgroundWork`, which has fairness, no fair action is enabled in
  the initial state of a component that rests.
- The other `MC*` modules add symmetry, a constraint and the constants a cfg cannot write. `*Proofs`
  modules EXTEND the modules they are about and TLAPS: `ExportDeliveryProofs` and, over it,
  `ExportQueueProofs`; `ExportSigningProofs`; `OperatorDelegationProofs`;
  `BackgroundWorkProofs` (jobs and breaker); `AccessAndAuditProofs` (sessions, limiters, audit log); `PlainStoreProofs` and,
  over it, `TenantServicesProofs` (model policies, keys, policies, memory, documents).

Points where the correspondence is not obvious:

- *Timestamps of failures.* Receipts carry milliseconds, and the comparison of the last
  failure with an incident's decides whether it is fresh. `Stamped` gives each failure a
  tick of its own, so that two failures never share one.
- *Two copies of an incident.* `RequestClear` and `Clear` put the record they read into
  `requests`; `CanaryPasses` and `ClearSaves` save that record, not the current one, as
  the code does.
- *Writes of the worker.* Whether the write the worker waits for will fail is chosen when
  it begins (`WorkerWrites`), and memory keeps what was not written. If the write stands in
  the `try` block of an attempt (`caught`), `WorkerWriteFails` goes on as the `catch` block
  does: the attempt counts as failed, whatever its outcome was. Anywhere else the error
  ends the drain, and `retryChain` swallows it.
- *`JsonFile`'s fd.* A writer opened a file, not a name. `Follows` moves the file a
  writer has open when another one renames it, which is how a writer can go on writing
  into the file in place.
- *Delegation starts anywhere in an incident's life.* `Init` takes any incident that can
  exist when the first grant is requested: acknowledged or not, clear requested or not,
  by any operator.
- *Instances of the signing service.* `fresh[i]` says that the mtime instance i
  remembers is the file's; two writes in one tick may leave the same mtime, so `Write`
  chooses whether the others notice. `lock.owner` is not in the lock file: it records
  who created it, so that `trespassed` can record that a lock was removed under its
  owner. A maintenance task remembers the time it was begun at, as `params.now` does.
- *A hash* of the audit chain is the sequence of the events it was computed over, so two
  chains have the same hash exactly when they hash the same events.
- *The breaker's rest* counts ticks since it opened, up to the cooldown; counters stop at
  their thresholds, above which the code does not tell them apart.
- *The floor of 50 jobs* in `pruneTenantJobs` is scaled down with `MaxJobs`, and the 100
  by which a batch of memories may exceed the capacity with `BatchSlack`.

## 4. The runs

"States" are distinct states. Every passing run is exhaustive within its bounds.

| run | module | properties | states |
|---|---|---|---|
| `export_queue` | `ExportDelivery` | `NoOrphanActive`, `EnqueueCap`, `ImplementsContract` | 1.0 M |
| `export_incidents` | `ExportDelivery` | `ResolutionIsEarned`, `SettledHoldsNoPayload`, `ReceiptsAreFinal`, `CooldownOutlivesClear` | 3.6 M |
| `operator_delegation` | `OperatorDelegation` | `SeparationOfDuties`, `NoTwinGrants`, `LiveGrantsBounded`, `SettledIsFinal` | 2.6 M |
| `export_signing` | `ExportSigning` | `SigningTypeOK`, `SignedKeyWasStored`, `RotatesOnlyWhenDue`, `KeysLeaveByPruning`, `OnlyTheLeaderMaintains` | 6.1 M |
| `tenant_services` | eight components | `ServiceTypesOK`; sessions: `QueuesMatchSessions`, `SettledFileRestores`, `LoginEvictsOldest`; limits: `LimitersHold`; audit log: `AuditTrailHolds`, `SameOriginSameHashes`; model policy: `ModelsResolveWithinBoth`, `ModelPreviewForetells`, `UpdatesNameWhatTheyReplace`; model policy, keys and the other policies: `AnswersAreKept`; the other policies: `PolicyRulesNest`; memory: `KeepsThePromise`; knowledge: `FetchesEnd`, `KnowledgeIsApart` | 1.4 M |
| `background_work` | deliveries, jobs, breaker | `EveryDeliverySettles`; `ActiveCap`, `StoreBounded`, `CancelReachesRunner`, `SettledForGood`, `EveryJobEnds`; `HalfOpenAfterRest`, `ChangesOnStreaks`, `TrustReturns` | 0.3 M |
| `export_restart`, `export_stale_clear`, `export_replay`, `research_jobs_replay`, `delegation_replay`, `model_policy_race` | | one each, violated: section 5 | |

What they show, and why the bounds are enough:

- `export_queue`: one destination, three deliveries, two attempts, one redrive, two
  suspended handlers, `MaxActive` 2. Three deliveries are what a redrive needs beside an
  enqueue that competes for its place; two attempts separate the first from the last.
  Stored payloads may fail to decrypt. Eviction is out of reach here (three receipts fit
  the list), because the contract and the orphan property are claimed only then.
- `export_incidents`: two operators, three deliveries of two attempts each, a redrive, and
  thresholds of one, so that the first failure closes the destination. A list of two makes
  eviction happen in the export's ordinary course. The window outlasts the cooldown, so
  that all orders of failure, expiry of the breach and of the clear request occur; a
  failure can arrive while a clear waits for DNS, and a third delivery or a retry can try
  the destination afterwards. `CooldownOutlivesClear` thereby shows that a clear from a
  stale copy is harmless for the *destination*: the breach is computed again from the
  receipts. The surroundings interfere once in a behaviour (`DisturbedOnce`): the policy
  changes, the process dies, or a write fails, of a handler or at any point of the worker.
  One failed write is what an attempt can absorb: a second one, in its `catch` block, ends
  the drain. After a disturbance states with two suspended handlers are not followed
  further, nor, after a crash or a failed write, those with an acknowledged incident.
- `operator_delegation`: three principals of whom two may approve and one is a delegate,
  two grants for one action, one action under way, two overlapping writers, times up to
  two and a crash. Two writers show every effect of the shared temporary file on a reader. An
  incident that is new meets the crash, one that is acknowledged sees time pass, and one
  whose clear was requested neither (`MCInit`). `MaxActive` cannot be exceeded with two
  grants (three do not finish in reasonable time), so of `LiveGrantsBounded` the run
  exercises the pending limit; the theorem covers all values and all of `Init`.
- `export_signing`: two instances, three keys, three ticks, one administrator's request,
  and one crash or failed write, with an automatic and a manual policy. A period of one
  tick, a lease of one tick and a lock that is stale after one make a key fall due, a
  lease lapse and a lock look abandoned within the run, each also while an instance is
  between its preview and its write. Three keys are two rotations, so that pruning by
  number happens.
- `tenant_services`:
  *sessions*: three tenants, one session each and two in all, three logins, so that both
  caps evict and a tenant is evicted by another; one request past authentication while
  others change the store; one write under way, one waiting, one restart.
  *limits*: two failures to a block, windows of two ticks, five tries over six ticks, so
  that histories span three windows and meet their border.
  *audit*: limits of one to three, four events, one set-back of the clock, one reload,
  which may choose another limit: overflow, re-chaining and equal times all happen.
  *model policy*: two tenants, two calls at once, three editions, one restart that may
  change the deployment's models.
  *keys*: three writes of two tenants, two at once. *Policies*: each kind, lists of at
  most one or two entries, two writers, one restart that may shrink the limit.
  *memory*: three calls of batches up to two, two items kept, one crash, one tick.
  *knowledge*: three calls, documents of zero to two chunks under a shared id, one fetch
  of three well-shaped URLs and a bad one with one redirect, one crash.
- `background_work`: two deliveries with retries and a key; falling off the list counts
  as an end, since the code does that silently. Two tenants, three jobs, one key and a
  store limit below the active limit: three jobs of one tenant are what pruning with an
  active job needs. A breaker with its real thresholds (three and two), two calls in
  flight and one snapshot, so that a late result and a restart both meet a half-open
  breaker.

Deadlock is not checked: with the bounds used up every system here may stop, and callers
need not come.

Type invariants that no run lists (`TypeOK` of `ExportDelivery` and
`OperatorDelegation`, `JobsTypeOK`, the breaker's) are proved, section 7.

## 5. Where code and documents disagree

Each of these is a run of one property, taken from a document, that the model violates
because of what the code does. All six are cases no test of the repository reaches.

1. `export_restart` / `RestartResumesRetries`. Hydrating at start schedules nothing, so
   queued and retrying deliveries wait until some later request starts the worker
   (`export-delivery.ts:1719`; `README.md:340` promises retries until the limit).
2. `export_stale_clear` / `ClearSeesFreshFailures`. A clear compares the revision before
   its DNS lookup and saves its old copy after it; a failure that arrived in between had
   taken the acknowledgement back (`:3388`; `decisions.md:231`).
3. `export_replay` / `KeyNamesOneDelivery`. The Idempotency-Key is looked up before and
   remembered after two awaited writes (`:2309`, `:2388`; `delivery.md:348`).
4. `research_jobs_replay` / `KeyNamesOneJob`. Removing an old job forgets its key even
   when the key names a newer job (`jobs.ts:95`; `delivery.md:701`, `707`).
5. `delegation_replay` / `ConsumedGrantIsSpent`. The grant of a delegated clear request is
   consumed after the canary; a second request passes its checks meanwhile
   (`security-events.ts:1949`; `decisions.md:125`).
6. `model_policy_race` / `RacingUpdatesNeverOverwrite`. The expected revision is compared
   with a file read before an awaited write, so two updates that name the same revision
   can both succeed and the later write replaces the earlier (`model-policy.ts:580`;
   `decisions.md:30`).

Observations without a run of their own, because no document says otherwise or because
they only limit what a property may claim:

- *Writes that fail inside the worker.* A delivery the destination has accepted is
  recorded as failed or blocked when the write of its success fails
  (`export-delivery.ts:2840`). A receipt that waits for a retry stays active without a
  payload when the write that deleted the payload fails before the receipt is stored
  (`:2736`). A write that fails outside the `try` block ends the drain before it arms the
  timer (`:3019`), and what is due waits for the next caller.
- *Signing.* Without the condition `~trespassed` each of the three action properties is
  violated: a waiter looks at the age of the lock file and removes whatever lock file is
  there afterwards, and `Release` removes whatever lock file is there too. After a failed
  write the key just generated stays in memory and goes on signing although no other
  instance can verify it, which is why `SignedKeyWasStored` speaks of histories without a
  failed write. A policy update may rotate and prune while another instance holds the
  lease, where `README.md:334` names the leader.
- *Audit log.* After a restart with a smaller limit, a window that reaches back to the
  first event left does not verify until the log overflows again: the reload chains
  everything it reads and trims afterwards.
- *Sessions.* A restart within the debounce of the file brings back a session that had
  been revoked (`README.md:368`).
- *Breaker.* A breaker that was saved open is seeded with one failure after a restart, so
  it starts closed (`task.md:140`).
- *Policies.* A stored policy that limits lowered since no longer allow is replaced
  silently by the deployment's default; a torn policy file reads as empty;
  `inherit_remote_policy` takes the remote policy's rules without its mode.
- *Memory and RAG.* Their lock is a promise inside one process. A crash while a file is
  being written in place leaves a file that does not parse, and every later call throws.
- *RAG.* An id names one document for all tenants: another tenant's ingest takes the
  entry over, after which the first tenant's chunks have no entry and cannot be deleted.
  An ingest that comes to no token removes the old chunks but leaves a document that
  lists them. The remote policy is asked about the URL that was named, before the fetch.

## 6. Fairness

Safety runs use none. `background_work` asks of each component what its scheduling gives:

- `Fairness` (deliveries): weak fairness of the resumed steps of delivery handlers (Node
  resumes a handler whose write or HTTPS exchange is over, and the exchange has a
  timeout), the end of a backoff, the worker's steps, and the timer. It demands nothing
  of callers, operators, the policy or faults, and nothing of clear handlers.
- `JobsFairness`: weak fairness of `Start` (a microtask) and `TimeoutFires` (an armed
  timer), and none of the runner, which may hang for ever.
- `BreakerFairness`: weak fairness of time and of the end of a call, which the code runs
  with a timeout, and none of its success or of callers: `TrustReturns` speaks of what
  the breaker does once it is asked.

## 7. What is proved

All theorems hold for all values of the constants that satisfy the named assumptions
(`StoreAssumption`, `DeliveryAssumption`, `JobsAssumption`, `DelegationAssumption`,
`SigningAssumption`, `BreakerAssumption`, `ModelAssumption`, `KeyAssumption`,
`PolicyAssumption`, `SessionAssumption`, `LimitAssumption`, `AuditAssumption`,
`MemoryAssumption`, `KnowledgeAssumption`): any number of destinations, operators, tenants, instances, writers,
sessions, events, calls, crashes and faults.
Each assumption is what the code's configuration enforces; `PolicyAssumption` gives
edits and defaults a known mode and lists of known entries, wants a port, a path and an
administrator to exist, and says that a map of policies can be told from a file that is
missing or does not parse. `ModelAssumption` says what the file's entries are in this
model, and that proposals are lists of models with a default: the bounds `Proposals` and
`MaxEditions` are there for TLC, and the proofs hold for any. `MemoryAssumption` and
`KnowledgeAssumption` say that a tenant may keep at least one memory, that an id a client
gives is not "none", and that batches are lists that are not empty (the routes reject
empty ones); `KeyAssumption` that "no key" is not a key.

| module | theorem | statement |
|---|---|---|
| `ExportDeliveryProofs` | `Invariance`, `DeliveryTypeCorrect`, `ResolutionsAreEarned` | `Spec => []IInv`, `[]TypeOK`, `[]ResolutionIsEarned` |
| `ExportQueueProofs` | `QueueInvariance`, `PayloadsGoWhenSettled`, `SettledReceiptsAreFinal`, `CooldownsOutliveClears` | `Spec => []QueueInv`, `[]SettledHoldsNoPayload`, `ReceiptsAreFinal`, `CooldownOutlivesClear` |
| | `FitInvariance`, `CallersKeepToTheLimit`, `ActiveDeliveriesCanEnd` | `Spec => []FitInv`, `[](Fits /\ NoWriteFailed => EnqueueCap)`, `[](Fits /\ NoWriteFailed /\ spent.crashes = 0 => NoOrphanActive)` |
| | `QueueKeepsContract` | assuming `Fits`, `Spec /\ []NoWriteFailed => ImplementsContract` |
| `OperatorDelegationProofs` | `Invariance`, `DelegationTypeCorrect`, `TwoPersonsAlways`, `NeverTwins`, `LimitsHold`, `SettledForEver` | `Spec => []Inv`, `[]TypeOK`, `[]SeparationOfDuties`, `[]NoTwinGrants`, `[]LiveGrantsBounded`, `SettledIsFinal` |
| `ExportSigningProofs` | `SigningTypeCorrect`, `SignaturesAreShared`, `LeaseIsRespected`, `KeysRotateWhenDue`, `KeysStayUntilPruned` | `SigningSpec => []SigningTypeOK`, `[]SignedKeyWasStored`, `OnlyTheLeaderMaintains`, `RotatesOnlyWhenDue`, `KeysLeaveByPruning` |
| `BackgroundWorkProofs` | `Invariance`, `JobsTypeCorrect`, `CancelAlwaysReachesRunner`, `SettledStaysSettled`, `ActiveJobsCapped`, `JobsDoNotPileUp` | `JobsSpec => []JobsInv`, `[]JobsTypeOK`, `[]CancelReachesRunner`, `SettledForGood`, `[]ActiveCap`, `[]StoreBounded` |
| | `HalfOpenIsCallable`, `ChangesFollowStreaks` | `BreakerSpec => []HalfOpenAfterRest`, `ChangesOnStreaks` |
| `AccessAndAuditProofs` | `SessionInvariance`, `SessionTypeCorrect`, `QueuesAlwaysMatch`, `SettledFilesRestore`, `LoginsEvictTheOldest` | `SessionSpec => []SessionInv`, `[]SessionTypeOK`, `[]QueuesMatchSessions`, `[]SettledFileRestores`, `LoginEvictsOldest` |
| | `LimitsTypeCorrect`, `LimitersAlwaysHold` | `LimitSpec => []LimitTypeOK`, `[]LimitersHold` |
| | `AuditInvariance`, `AuditTypeCorrect`, `AuditTrailAlwaysHolds`, `HashesOfOneOriginAgree` | `AuditSpec => []AuditInv`, `[]AuditTypeOK`, `[]AuditTrailHolds`, `SameOriginSameHashes` |
| `TenantServicesProofs` | `AnsweredStaysStored`, `UpdatesReplaceWhatTheyNamed` | `ModelSpec => []AnsweredIsStored`, `UpdatesNameWhatTheyReplace` |
| | `ModelsStayWithinBoth`, `PreviewsComeTrue` | `ModelSpec => []ResolvesWithinBoth`, `[]PreviewForetells` |
| | `ModelTypes`, `KeyTypes`, `KeysStayAsAnswered` | `ModelSpec => []ModelTypeOK`, `KeySpec => []KeyTypeOK`, `[]KeysAreAsAnswered` |
| | `MemoryKeepsPromise`, `MemoryTypes` | `MemSpec => KeepsThePromise`, `[]MemTypeOK` |
| | `KnowledgeStaysApart`, `FetchesCome`, `RagTypes` | `RagSpec => KnowledgeIsApart`, `[]FetchesEnd`, `[]RagTypeOK` |
| | `PolicyTypeCorrect`, `ToldPoliciesGovern`, `RulesAlwaysNest` | `PolicySpec => []PolicyTypeOK`, `[]ToldPolicyGoverns`, `[]RulesNest` |
| | `AnswersStayKept`, `PolicyRulesStayNested` | `ServicesSpec => []AnswersAreKept`, `[]PolicyRulesNest` |
| | `ModelsStayResolved`, `ServicesPreviewsComeTrue` | `ServicesSpec => []ModelsResolveWithinBoth`, `[]ModelPreviewForetells` |
| | `ServiceTypesHold` | `ServicesSpec => []ServiceTypesOK` |

`PlainStoreProofs` holds the lemmas about the file in place that model policies and keys
share; `TenantServicesProofs` uses them directly for the one and instantiates them for the
other. Its last section carries results over to the composition that TLC checks: a step
of `ServicesSpec` is a step of each component or leaves it alone.

Why the stated invariants are not inductive, and what makes them so:

- *Incidents.* `ResolutionIsEarned` says nothing of the copies in `requests`, but
  `ClearSaves` makes such a copy the incident. The strengthening `CopyEarned` says that a
  copy awaiting DNS already shows everything a resolution must show, with the operator
  who waits differing from the one who asked, and that receipts are dated in the past.
- *The queue: who owns a delivery.* A receipt and its payload are written over awaits by
  the handler that created it, by the handler of its redrive and by the worker from a
  snapshot. `QueueInv` says whose a delivery is: a handler's is its own, without payload
  and not held by the worker; what the snapshot says of a listed receipt the receipt says
  too; what the worker is about to write replaces an active receipt, or one that a failed
  write of the same attempt left settled. It survives eviction, crashes and failed writes,
  and so do the three results drawn from it.
- *The queue: that nothing is lost.* The caps, the orphans and the contract are a matter of
  what an eviction or a failed write takes away. An active receipt that fell off the list
  frees its place, and comes back when the worker, holding it in its snapshot, writes its
  outcome: by then another delivery may have the place. Hence the hypotheses `Fits`
  (`MaxDeliveries <= MaxRecords`: nothing falls off) and `NoWriteFailed`, and for orphans
  that the process did not die, since a restart finds no one to end what it reads. Where
  they hold, `FitInv` says that places on the list are 1 to its length (so that nothing
  is cut), that every receipt under way is listed with its attempt still to count, that
  each redrive was counted on the payload of a dead letter before its own receipt appears
  (`LineageInv`), and that callers' active receipts with those still to come stay within
  the cap. The simulation of the contract is one lemma per action over it.
- *Jobs.* A job is cancelled through its controller, so `CancelReachesRunner` needs to
  know that a running runner of an unfinished job has one (`RunnerOfJob`) and that an
  armed timer belongs to a runner (`TimersHaveRunners`). `StoreBounded` is a count: the
  jobs that pruning chooses are enough, since what remains is either within the limit or
  has not ended (`DiscardedEnough`).
- *Delegation.* The file read next may be the temporary file of a writer that has not
  finished. The invariant speaks of `Contents`: everything the file holds, the temporary
  file holds, or a writer is about to write. A new content is made only from a member of
  `Contents`, so `StoreOK` over all of them is inductive, however writers overlap or die.
- *Signing, types.* That a store has one active key, newer than the others, is part of
  `SigningTypeOK`; the lemmas on `Pruned`, `Rotated`, `Normalised` and `Maintained` show
  that every operation keeps it (`WellKept`).
- *Signing, shared keys.* `KeysShared`: while no write has failed, the keys an instance
  holds have been in the file, or it is about to write them. It does not depend on the
  mutex, so it survives a lock that is removed under its owner.
- *Signing, lease and keys.* `LeaderInv`: while nobody trespassed the lock belongs to
  whoever is inside, so there is one; and a maintainer about to write found no other live
  lease in the file, which cannot have changed since. `DraftInv` says of what it is about
  to write that it is lawful over the file as it is: the active key changed because it was
  due or an administrator rotates, and each key that is missing is accounted for. It
  needs that a file that exists has keys and that they are finitely many (`StockInv`): how
  many newer retired keys there are decides what is pruned.
- *Breaker.* Probes and successes are counted apart, and an answer that arrives late
  counts for both. `ProbesWereSuccesses` says that in a half-open breaker the streak of
  successes is at least the number of probes used, so the probes cannot run out before
  the breaker closes, and one that is stuck half-open is impossible. `CountersAreStreaks`
  says that a counter is the length of a streak that the history still shows at its end,
  so a change of state, which looks at a counter only, follows a streak.
- *Files in place.* Until a call begins to write from content that has been replaced
  meanwhile, at most one call is between truncating and writing, no other call holds the
  current edition, and what it is about to write is what the tenants were answered but
  for its own tenant's entry (`FileInv`, `CallInv`).
- *Model policies.* `ModelShapes` says that what is in the file and in the hands of a call
  are policies, and that revisions stay below the number of writes, so that a call that
  adds one to what it read stays within the type. What requests get is then a fact about
  the operators: `EffectiveFacts` for every deployment there can be and every policy
  stored under another, `PreviewFacts` and `Foretold` for every valid update.
- *Policies.* `PolicyShapes` says of what the file holds, what the temporary file holds
  and what a writer will rename that each is a map of policies that passed validation;
  `ToldIsStored` that while writers do not overlap the one there is is about to tell what
  it wrote. The nesting of rules is a fact about the operators (`NarrowerMatches`,
  `DeliveryNests`, `RemoteNests`, `OperatorNests`), which then holds of every policy that can govern.
- *Memory.* The contract speaks of what an observer finds, while a call works on a copy it
  read before. `MemRunInv` says of the one call that has read the file that what it will
  write follows what it read by one step of the contract (`FollowsPromise`), and that the file
  still holds what was read, or is blank under its hands; so the write is that step, and
  a crash either undoes the call or loses the file, as the contract says. That an
  outcome follows is a fact about the operators (`MemorizeFollows`, `SearchFollows`,
  `DeleteFollows`): ids stay unique (`IsMemory`), and what `Trimmed` drops has as many
  newer memories of its tenant as may be kept. It also needs every date to be past.
- *Documents.* A document that is sent again deletes the chunks the old entry lists, and
  a tenant may send an id that another one owns. `ListsItsOwn` says that a listed chunk is
  of that document and of the tenant who owns it, so the deletion stays with that tenant.
  It survives a change of owner only because chunks of different calls have different
  ids: `Spent` says that the chunks of the file and of the call at work carry numbers that
  no waiting call and no fetch has.
- *Batches.* Both services go through a batch, entry by entry. `Remembered` and `Ingested`
  are recursive functions on the places of the batch. The library's induction takes an
  operator, which the provers cannot instantiate; `LeastNumber` and `UpTo` say the same of
  sets: what fails at some place has a least place where it fails. `Iterates` proves from
  it that the functions have a value at each place.
- *Types of the files in place.* `TypesByCall` and the lemmas after it in
  `PlainStoreProofs` prove the shapes for any entries and requests; the owners of a file
  add that what they put there is an entry.
- *Fetches.* `FetchInv`: the URLs a fetch has requested are those before its last hop, and
  the last one too once it resolved; a hop joins them only after it was not found among
  them.
- *Sessions.* Tokens are issued in order and queues are appended to, but a queue is also
  filtered, cut to its cap and rebuilt from a file by creation time. `IsStore` says that
  each queue lists exactly the sessions it is about, in the order of their tokens, and
  `Kept` says it of the maps that are being written or saved, from which a restart builds
  the queues anew. `Restores` ties the file, or the write on its way, to memory, up to
  sessions that expired. The lemmas behind them are about `Ascending` and `Picked`
  (`Sublists`): a filtered ascending queue is the ascending queue of what was kept.
- *Limiters.* That a span holds few entries of a history is proved as a distance: entries
  that many places apart are a span apart in time (`Spaced`, `SpacedAreFew`), so that a new
  entry is compared with a single old one. A count knows only its own window; `LimitInv`
  adds when the entries before it were made: none after it began, and none but a count
  less than full closely before it. After a block nothing comes closely before it, after
  a state that was forgotten long enough ago neither.
- *Audit log.* That a window verifies says nothing of what a restart or the next event
  makes of the log. `BucketChained` says what the whole list is: the end of a chain of
  events, which the hash of its last event spells, as long as the list unless the list was
  trimmed. A window is then the last so many of them, whose hashes link by `UptoGrows`.
  That hashes agree over time needs the past of the file: `FilesOfThePast` says that what
  it has, or is about to have, is no later than the log, and is a prefix of the log's chain if
  both begin with the same event. Sorting, which a restart and an overflow do, changes
  nothing while the clock only goes forward (`ByTimeKeeps`, `BucketInOrder`), and an
  overflow gives the chain a new origin.

Three places of the model were changed by these proofs. Queues, lists and the
audit log are filtered and sorted with `Sublists`, which takes a set where the library's operators take an operator,
so that a lemma can speak of it. The batches of memory and documents are recursive
functions where they were folds. And `LoginEvictsOldest` said more than the code keeps:
a session that was refreshed can be brought back by a restart and then be older than one
that stays while its tenant is refreshed. The proof of a refresh failed there, TLC found
the behaviour with two sessions per tenant, and the property now speaks of logins, and of
a refresh only that it takes the session it replaces.

## 8. Only model-checked

- The liveness properties `EveryDeliverySettles`, `EveryJobEnds` and `TrustReturns`:
  liveness under fairness and ENABLED are out of the prover's reach.

Every other property that a passing run checks is proved. The runs that expect a violation
show behaviours of the code and have nothing to prove.

`NoOrphanActive` and `ImplementsContract` are checked without crashes and failed writes:
a crash between the receipt and its payload does leave an orphan. `ReceiptsAreFinal`
exempts one step: after a failed write, the attempt that settled a receipt may settle it
anew. `AnswersAreKept` and
`UpdatesNameWhatTheyReplace` are claimed until two writes meet, and `SettledFileRestores`
of a file that nothing waits to be written to: what happens otherwise is section 5.

## 9. What is not modelled, and why

- *Orchestrator*: a sequential pipeline around the answers of a language model. It has no
  state of its own, nothing interleaves with it, and its branches are decided by texts.
- *LLM client and tools* other than `callMcpTool`: adapters to services outside. The
  *dashboard* is presentation.
- In the delivery model: the analytics
  endpoint and listings (they read only); signing and encryption as such; several tenants
  (no state is shared between them except the retry timer and the file).
- In the delegation model: the expiry of a clear request and the freshness of step-up
  sessions. Other tenants' grants, which live in the same file, appear only as
  overlapping writers of this one; editing the roster is in `TenantPolicies`.
- In the signing model: the revision counter and the history of maintenance, which
  nothing reads back; a store file edited by hand; the timer's period (it may fire at any
  time); `resetForTests`.
- In the policies: how a rule is parsed from text, with ports and IPv6 addresses, and
  which addresses are private: hosts, ports and paths are given as they come out of it.
  The histories of a model policy are kept to their length.
- In the audit log: risk scores and summaries, which are computed from a window and
  stored nowhere.
- In memory and RAG: which items match a query and how they are ranked, the splitting of
  a text into chunks, relations between memories (which may name one that was evicted)
  and metrics.
- Authentication by API key, scopes, origins, content rules, schema validation and
  formats are checks on texts without state.
- `writeJsonFileAtomicSync` runs in one callback; a crash in the middle leaves the old
  file, as the rename is last.

## 10. Plan

Done: the export queue with incidents, failing writes and its contract; jobs, and the breaker beside
them; delegation with the file under it; signing; model policy, keys and the other
policies over their files; audit log; sessions and rate limits; memory with its contract,
and documents. Proved: section 7. Left: the orchestrator's
bounds on its tool, verification and thinking loops, as far as they do not depend on what
a model answers.
