----------------------------- MODULE ResearchJobs -----------------------------
(***************************************************************************)
(* Asynchronous research jobs (src/service/worker/jobs.ts).  The store is  *)
(* a set of maps in memory; every function runs to its end without an      *)
(* await, only the runner is awaited.  A job is a microtask until it       *)
(* starts, then a pending runner with an AbortController and a timer.      *)
(* Job ids are issued in order, so "oldest by createdAt, then by insertion"*)
(* is the order of ids.  tenantJobs is the set of jobs of a tenant.        *)
(***************************************************************************)
EXTENDS Naturals, FiniteSets, Functions

CONSTANTS
  Tenants, JobKeys,
  NoKey,       \* no Idempotency-Key
  MaxActiveJobs,  \* maxActiveJobsPerTenant
  MaxJobs,    \* maxJobsPerTenant, after the floor of pruneTenantJobs
  Ttl,        \* idempotencyTtlSeconds
  \* Bounds of the model.
  MaxIssued, MaxJobTime

\* enqueueResearchJob takes max(1, maxActiveJobsPerTenant), pruneTenantJobs at least 50.
ASSUME JobsAssumption ==
  /\ {MaxActiveJobs, MaxJobs} \subseteq Nat \ {0}
  /\ {Ttl, MaxIssued, MaxJobTime} \subseteq Nat
  /\ NoKey \notin JobKeys

VARIABLES
  jobs,         \* ResearchJob by id
  index,        \* idempotencyIndex: <<tenant, key>> -> the job and when it was created
  runners,      \* microtasks and pending runners, by job id
  controllers,  \* jobs with an AbortController
  timers,       \* jobs with an armed timeout
  aborted,      \* runners whose signal was aborted
  issuedJobs,
  jobsNow

handles == <<controllers, timers>>
jobsVars == <<jobs, index, runners, handles, aborted, issuedJobs, jobsNow>>

ActiveJobStatus == {"queued", "running"}
TerminalStatus  == {"completed", "failed", "cancelled"}

Job ==
  [tenant: Tenants, key: JobKeys \cup {NoKey}, created: Nat,
   status: ActiveJobStatus \cup TerminalStatus,
   reason: {"none", "user_cancelled", "timeout", "system_abort"}]

NoJobs == [i \in {} |-> NoKey]

JobsInit ==
  /\ jobs = NoJobs
  /\ index = NoJobs
  /\ runners = NoJobs
  /\ controllers = {}
  /\ timers = {}
  /\ aborted = {}
  /\ issuedJobs = 0
  /\ jobsNow = 0

-----------------------------------------------------------------------------

WithoutJob(f, S) == Restrict(f, DOMAIN f \ S)

With(f, x, v) == [y \in DOMAIN f \cup {x} |-> IF y = x THEN v ELSE f[y]]

IsTerminal(i) == jobs[i].status \in TerminalStatus

\* pruneExpiredIdempotencyEntries.
Unexpired ==
  Restrict(index, {e \in DOMAIN index :
                     jobsNow - index[e].since <= Ttl /\ index[e].job \in DOMAIN jobs})

Bucket(all, t) == {i \in DOMAIN all : all[i].tenant = t}

\* countTenantActiveJobs.
ActiveJobs(t) == {i \in Bucket(jobs, t) : jobs[i].status \in ActiveJobStatus}

\* Mutant: one more than the limit.
FullLate(t) == Cardinality(ActiveJobs(t)) > MaxActiveJobs

Full(t) == Cardinality(ActiveJobs(t)) >= MaxActiveJobs

\* Mutant: a full bucket is left alone.
DiscardedNone(all, t) == {}

\* pruneTenantJobs: the oldest terminal jobs of a bucket beyond the limit.
Discarded(all, t) ==
  LET bucket == Bucket(all, t)
      done   == {i \in bucket : all[i].status \in TerminalStatus}
  IN  {i \in done : Cardinality(bucket) > MaxJobs + Cardinality({j \in done : j < i})}

\* registerJob with removeJob for what it discards.  Removing a job deletes the
\* index entry of its key, whichever job that entry names by then.
RegisterJob(i, t, k) ==
  LET job     == [tenant |-> t, key |-> k, created |-> jobsNow,
                  status |-> "queued", reason |-> "none"]
      all     == With(jobs, i, job)
      indexed == IF k = NoKey THEN Unexpired
                 ELSE With(Unexpired, <<t, k>>, [job |-> i, since |-> jobsNow])
      gone    == Discarded(all, t)
  IN  /\ jobs' = WithoutJob(all, gone)
      /\ index' = WithoutJob(indexed, {<<t, all[j].key>> : j \in gone})
      /\ controllers' = controllers \ gone
      /\ timers' = timers \ gone

\* enqueueResearchJob.  With a known key the job is returned, or 409 for another
\* payload; a tenant at its limit gets 429.
EnqueueResearchJob(t, k) ==
  LET known == k # NoKey /\ <<t, k>> \in DOMAIN Unexpired
  IN  /\ issuedJobs < MaxIssued
      /\ \/ /\ known \/ Full(t)
            /\ index' = Unexpired
            /\ UNCHANGED <<jobs, runners, handles, issuedJobs>>
         \/ /\ ~known /\ ~Full(t)
            /\ issuedJobs' = issuedJobs + 1
            /\ RegisterJob(issuedJobs + 1, t, k)
            /\ runners' = With(runners, issuedJobs + 1, "queued")
      /\ UNCHANGED <<aborted, jobsNow>>

\* Mutant: a result is stored without looking at the job again.
LateResultCounts(i) == i \in DOMAIN jobs

\* The job is still there and nobody cancelled it.
Awaited(i) == i \in DOMAIN jobs /\ jobs[i].status # "cancelled"

\* Neither gone nor terminal.
Open(i) == i \in DOMAIN jobs /\ ~IsTerminal(i)

\* The microtask: the job runs, unless it was cancelled meanwhile.
Start(i) ==
  /\ i \in DOMAIN runners /\ runners[i] = "queued"
  /\ \/ /\ Awaited(i)
        /\ jobs' = [jobs EXCEPT ![i].status = "running"]
        /\ runners' = [runners EXCEPT ![i] = "running"]
        /\ controllers' = controllers \cup {i}
        /\ timers' = timers \cup {i}
     \/ /\ ~Awaited(i)
        /\ runners' = WithoutJob(runners, {i})
        /\ UNCHANGED <<jobs, handles>>
  /\ UNCHANGED <<index, aborted, issuedJobs, jobsNow>>

\* Mutant: the reason is not recorded.
MarkCancelledSilently(i, reason) ==
  jobs' = [jobs EXCEPT ![i].status = "cancelled", ![i].reason = NoKey]

\* markCancelled.
MarkCancelled(i, reason) ==
  jobs' = [jobs EXCEPT ![i].status = "cancelled", ![i].reason = reason]

\* Mutant: the timeout aborts and leaves the status to the runner.
TimeoutMarksNothing(i) ==
  /\ i \in timers
  /\ timers' = timers \ {i}
  /\ aborted' = aborted \cup {i}
  /\ UNCHANGED <<jobs, index, runners, controllers, issuedJobs, jobsNow>>

TimeoutFires(i) ==
  /\ i \in timers
  /\ timers' = timers \ {i}
  /\ \/ /\ Open(i)
        /\ MarkCancelled(i, "timeout")
        /\ aborted' = aborted \cup {i}
     \/ /\ ~Open(i)
        /\ UNCHANGED <<jobs, aborted>>
  /\ UNCHANGED <<index, runners, controllers, issuedJobs, jobsNow>>

\* The runner returned, threw, or threw an AbortError; finally the handles go.
RunnerEnds(i, status, reason) ==
  /\ i \in DOMAIN runners /\ runners[i] = "running"
  /\ IF Awaited(i)
     THEN jobs' = [jobs EXCEPT ![i].status = status, ![i].reason = reason]
     ELSE UNCHANGED jobs
  /\ runners' = WithoutJob(runners, {i})
  /\ aborted' = aborted \ {i}
  /\ controllers' = controllers \ {i}
  /\ timers' = timers \ {i}
  /\ UNCHANGED <<index, issuedJobs, jobsNow>>

RunnerEndsSomehow(i) ==
  \/ RunnerEnds(i, "completed", "none")
  \/ RunnerEnds(i, "failed", "none")
  \/ RunnerEnds(i, "cancelled", "system_abort")

\* Mutant: the handles are cleared before the controller is looked up.
CancelForgetsSignal(i) ==
  /\ Open(i)
  /\ MarkCancelled(i, "user_cancelled")
  /\ controllers' = controllers \ {i}
  /\ timers' = timers \ {i}
  /\ UNCHANGED <<index, runners, aborted, issuedJobs, jobsNow>>

\* cancelResearchJob, by the tenant that owns the job.
Cancel(i) ==
  /\ Open(i)
  /\ MarkCancelled(i, "user_cancelled")
  /\ aborted' = aborted \cup (controllers \cap {i})
  /\ controllers' = controllers \ {i}
  /\ timers' = timers \ {i}
  /\ UNCHANGED <<index, runners, issuedJobs, jobsNow>>

JobsTick ==
  /\ jobsNow < MaxJobTime
  /\ jobsNow' = jobsNow + 1
  /\ UNCHANGED <<jobs, index, runners, handles, aborted, issuedJobs>>

JobsNext ==
  \/ \E t \in Tenants, k \in JobKeys \cup {NoKey} : EnqueueResearchJob(t, k)
  \/ \E i \in DOMAIN runners : Start(i) \/ RunnerEndsSomehow(i)
  \/ \E i \in DOMAIN jobs : Cancel(i)
  \/ \E i \in timers : TimeoutFires(i)
  \/ JobsTick

JobsSpec == JobsInit /\ [][JobsNext]_jobsVars

\* Microtasks run and timers fire; a runner may hang for ever.
JobsFairness ==
  \A i \in 1 .. MaxIssued : WF_jobsVars(Start(i)) /\ WF_jobsVars(TimeoutFires(i))

FairJobs == JobsSpec /\ JobsFairness

-----------------------------------------------------------------------------

\* Every variable holds what the code's types say.
JobsTypeOK ==
  /\ jobs \in [DOMAIN jobs -> Job] /\ DOMAIN jobs \subseteq 1 .. issuedJobs
  /\ index \in [DOMAIN index -> [job: Nat, since: Nat]]
  /\ DOMAIN index \subseteq Tenants \X JobKeys
  /\ runners \in [DOMAIN runners -> {"queued", "running"}]
  /\ DOMAIN runners \subseteq 1 .. issuedJobs
  /\ controllers \cup timers \cup aborted \subseteq 1 .. issuedJobs
  /\ issuedJobs \in Nat /\ jobsNow \in Nat

\* No order of enqueue, start, cancel and timeout takes a tenant beyond its active
\* jobs (maxActiveJobsPerTenant): the check and the registration are one step.
ActiveCap == \A t \in Tenants : Cardinality(ActiveJobs(t)) <= MaxActiveJobs

\* A tenant's jobs do not pile up (decisions.md:680): only active ones, bounded by
\* the cap, can hold the store above maxJobsPerTenant.
StoreBounded ==
  \A t \in Tenants :
    \/ Cardinality(Bucket(jobs, t)) <= MaxJobs
    \/ Cardinality(Bucket(jobs, t)) <= MaxActiveJobs

\* A cancelled job's runner has been told to stop, whether the cancel came before
\* it started, from the user, or from the timer (decisions.md:667).
CancelReachesRunner ==
  \A i \in DOMAIN runners \cap DOMAIN jobs :
    runners[i] = "running" /\ jobs[i].status = "cancelled" => i \in aborted

\* How a job ended stays: a runner that answers after a cancel or a timeout, a
\* timer that fires after the answer, a second cancel change nothing.
SettledForGood ==
  [][\A i \in DOMAIN jobs \cap DOMAIN jobs' : IsTerminal(i) => jobs'[i] = jobs[i]]_jobsVars

\* Every job ends, even when its runner never returns.
EveryJobEnds ==
  \A i \in 1 .. MaxIssued :
    (i \in DOMAIN jobs) ~> (i \notin DOMAIN jobs \/ jobs[i].status \in TerminalStatus)

\* Within the TTL a key names one job: the same key again returns it, or conflicts
\* (delivery.md:701, 707).
KeyNamesOneJob ==
  \A i, j \in DOMAIN jobs :
    /\ i < j /\ jobs[i].tenant = jobs[j].tenant
    /\ jobs[i].key = jobs[j].key /\ jobs[i].key # NoKey
    => jobs[j].created - jobs[i].created > Ttl

=============================================================================
