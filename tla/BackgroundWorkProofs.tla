------------------------- MODULE BackgroundWorkProofs -------------------------
(***************************************************************************)
(* Proofs about the research jobs, for any tenants, keys, limits and       *)
(* bounds, and about the circuit breaker of the tools, for all thresholds, *)
(* cooldowns and numbers of calls under way.                               *)
(***************************************************************************)
EXTENDS ResearchJobs, CircuitBreaker, FiniteSetTheorems, NaturalsInduction,
        WellFoundedInduction, TLAPS

-----------------------------------------------------------------------------
(***************************************************************************)
(* Research jobs.  The invariant adds to the types what ties a job to its  *)
(* runner: a runner that has not started belongs to a job that has not     *)
(* run, and a running one either awaits the job's answer under a           *)
(* controller or was aborted.                                              *)
(***************************************************************************)

\* A job with a microtask has not run; a job whose runner is under way is
\* running, or was cancelled and its runner told so.
RunnerOfJob ==
  \A i \in DOMAIN runners \cap DOMAIN jobs :
    /\ runners[i] = "queued" => jobs[i].status \in {"queued", "cancelled"}
    /\ runners[i] = "running" =>
         \/ jobs[i].status = "running" /\ i \in controllers
         \/ jobs[i].status = "cancelled" /\ i \in aborted

\* A timer is armed only for a runner that has a controller.
TimersHaveRunners ==
  \A i \in timers : i \in DOMAIN runners /\ runners[i] = "running"

JobsInv == JobsTypeOK /\ RunnerOfJob /\ TimersHaveRunners

-----------------------------------------------------------------------------
(* Functions. *)

\* With changes one value.
LEMMA WithFacts ==
  ASSUME NEW f, NEW x, NEW v
  PROVE  /\ DOMAIN With(f, x, v) = DOMAIN f \cup {x}
         /\ With(f, x, v)[x] = v
         /\ \A y \in DOMAIN f \ {x} : With(f, x, v)[y] = f[y]
  BY DEF With

\* The index loses entries only.
LEMMA UnexpiredFacts ==
  /\ DOMAIN Unexpired \subseteq DOMAIN index
  /\ \A e \in DOMAIN Unexpired : Unexpired[e] = index[e]
  BY DEF Unexpired, Restrict

\* Only terminal jobs of the tenant are discarded.
LEMMA DiscardedFacts ==
  ASSUME NEW all, NEW t
  PROVE  \A i \in Discarded(all, t) : i \in DOMAIN all /\ all[i].status \in TerminalStatus
  BY DEF Discarded, Bucket

-----------------------------------------------------------------------------
(* The job that registerJob adds. *)

NewJob(t, k) ==
  [tenant |-> t, key |-> k, created |-> jobsNow, status |-> "queued", reason |-> "none"]

\* After an accepted enqueue the store holds what it held, less discarded
\* terminal jobs, and the new job.
LEMMA RegisterFacts ==
  ASSUME JobsInv, NEW t \in Tenants, NEW k \in JobKeys \cup {NoKey},
         RegisterJob(issuedJobs + 1, t, k)
  PROVE  /\ jobs' = [i \in DOMAIN jobs' |-> jobs'[i]]
         /\ DOMAIN jobs' \subseteq DOMAIN jobs \cup {issuedJobs + 1}
         /\ issuedJobs + 1 \in DOMAIN jobs' /\ jobs'[issuedJobs + 1] = NewJob(t, k)
         /\ \A i \in DOMAIN jobs' \ {issuedJobs + 1} : i \in DOMAIN jobs /\ jobs'[i] = jobs[i]
         /\ \A i \in DOMAIN jobs' : i \in controllers => i \in controllers'
         /\ controllers' \subseteq controllers /\ timers' \subseteq timers
         /\ index' \in [DOMAIN index' -> [job: Nat, since: Nat]]
         /\ DOMAIN index' \subseteq Tenants \X JobKeys
<1> DEFINE all == With(jobs, issuedJobs + 1, NewJob(t, k))
           gone == Discarded(all, t)
           entry == [job |-> issuedJobs + 1, since |-> jobsNow]
           indexed == IF k = NoKey THEN Unexpired ELSE With(Unexpired, <<t, k>>, entry)
<1>1. /\ jobs' = WithoutJob(all, gone)
      /\ index' = WithoutJob(indexed, {<<t, all[j].key>> : j \in gone})
      /\ controllers' = controllers \ gone
      /\ timers' = timers \ gone
  BY DEF RegisterJob, NewJob
<1>2. issuedJobs + 1 \notin DOMAIN jobs
  BY DEF JobsInv, JobsTypeOK
<1>3. /\ DOMAIN all = DOMAIN jobs \cup {issuedJobs + 1}
      /\ all[issuedJobs + 1] = NewJob(t, k)
      /\ \A i \in DOMAIN jobs : all[i] = jobs[i]
  BY <1>2 DEF With
<1>4. issuedJobs + 1 \notin gone
  <2>1. NewJob(t, k).status = "queued"
    BY DEF NewJob
  <2> QED
    BY <1>3, <2>1, DiscardedFacts DEF TerminalStatus
<1>5. /\ DOMAIN jobs' = DOMAIN all \ gone
      /\ \A i \in DOMAIN all \ gone : jobs'[i] = all[i]
      /\ jobs' = [i \in DOMAIN jobs' |-> jobs'[i]]
  BY <1>1 DEF WithoutJob, Restrict
<1>6. /\ \A e \in DOMAIN indexed : e \in Tenants \X JobKeys /\ indexed[e] \in [job: Nat, since: Nat]
  <2>1. entry \in [job: Nat, since: Nat]
    BY DEF JobsInv, JobsTypeOK
  <2>2. \A e \in DOMAIN Unexpired : e \in Tenants \X JobKeys /\ Unexpired[e] \in [job: Nat, since: Nat]
    BY UnexpiredFacts DEF JobsInv, JobsTypeOK
  <2>3. CASE k = NoKey
    BY <2>2, <2>3
  <2>4. CASE k # NoKey
    <3>1. DOMAIN indexed = DOMAIN Unexpired \cup {<<t, k>>}
      BY <2>4, WithFacts
    <3>2. indexed[<<t, k>>] = entry /\ \A e \in DOMAIN Unexpired \ {<<t, k>>} : indexed[e] = Unexpired[e]
      BY <2>4 DEF With
    <3>3. <<t, k>> \in Tenants \X JobKeys
      BY <2>4
    <3> HIDE DEF indexed, entry
    <3> QED
      BY <2>1, <2>2, <3>1, <3>2, <3>3
  <2> QED
    BY <2>3, <2>4
<1>7. /\ index' = [e \in DOMAIN index' |-> index'[e]]
      /\ \A e \in DOMAIN index' : e \in DOMAIN indexed /\ index'[e] = indexed[e]
  BY <1>1 DEF WithoutJob, Restrict
<1>8. /\ index' \in [DOMAIN index' -> [job: Nat, since: Nat]]
      /\ DOMAIN index' \subseteq Tenants \X JobKeys
  <2> HIDE DEF indexed
  <2> QED
    BY <1>6, <1>7
<1> QED
  <2> HIDE DEF all, gone
  <2> QED
    BY <1>1, <1>2, <1>3, <1>4, <1>5, <1>8

-----------------------------------------------------------------------------
(* The invariant, action by action. *)

\* The invariant holds at the start.
LEMMA InitInv == JobsInit => JobsInv
  BY DEF JobsInit, JobsInv, JobsTypeOK, RunnerOfJob, TimersHaveRunners, NoJobs

\* EnqueueResearchJob adds a queued job with a microtask, or forgets old entries of the index.
LEMMA EnqueueInv ==
  ASSUME JobsInv, NEW t \in Tenants, NEW k \in JobKeys \cup {NoKey}, EnqueueResearchJob(t, k)
  PROVE  JobsInv'
<1>1. CASE RegisterJob(issuedJobs + 1, t, k) /\ issuedJobs' = issuedJobs + 1
           /\ runners' = With(runners, issuedJobs + 1, "queued") /\ UNCHANGED <<aborted, jobsNow>>
  <2>1. NewJob(t, k) \in Job /\ NewJob(t, k).status = "queued"
    BY DEF NewJob, Job, ActiveJobStatus, JobsInv, JobsTypeOK
  <2>2. /\ jobs' \in [DOMAIN jobs' -> Job] /\ DOMAIN jobs' \subseteq 1 .. issuedJobs'
    <3>1. \A i \in DOMAIN jobs' : jobs'[i] \in Job
      BY <1>1, <2>1, RegisterFacts DEF JobsInv, JobsTypeOK
    <3>2. DOMAIN jobs' \subseteq 1 .. issuedJobs'
      BY <1>1, RegisterFacts DEF JobsInv, JobsTypeOK
    <3> QED
      BY <1>1, <3>1, <3>2, RegisterFacts
  <2>3. /\ runners' \in [DOMAIN runners' -> {"queued", "running"}]
        /\ DOMAIN runners' = DOMAIN runners \cup {issuedJobs + 1}
        /\ runners'[issuedJobs + 1] = "queued"
        /\ \A i \in DOMAIN runners : runners'[i] = runners[i]
    BY <1>1 DEF With, JobsInv, JobsTypeOK
  <2>4. controllers' \cup timers' \cup aborted' \subseteq 1 .. issuedJobs'
    BY <1>1, RegisterFacts DEF JobsInv, JobsTypeOK
  <2>5. JobsTypeOK'
    BY <1>1, <2>2, <2>3, <2>4, RegisterFacts DEF JobsInv, JobsTypeOK
  <2>6. RunnerOfJob'
    <3> SUFFICES ASSUME NEW i \in DOMAIN runners' \cap DOMAIN jobs'
                 PROVE  /\ runners'[i] = "queued" => jobs'[i].status \in {"queued", "cancelled"}
                        /\ runners'[i] = "running" =>
                             \/ jobs'[i].status = "running" /\ i \in controllers'
                             \/ jobs'[i].status = "cancelled" /\ i \in aborted'
      BY DEF RunnerOfJob
    <3>1. CASE i = issuedJobs + 1
      BY <1>1, <2>1, <2>3, <3>1, RegisterFacts
    <3>2. CASE i # issuedJobs + 1
      BY <1>1, <2>3, <3>2, RegisterFacts DEF JobsInv, RunnerOfJob
    <3> QED
      BY <3>1, <3>2
  <2>7. TimersHaveRunners'
    BY <1>1, <2>3, RegisterFacts DEF JobsInv, TimersHaveRunners
  <2> QED
    BY <2>5, <2>6, <2>7 DEF JobsInv
<1>2. CASE index' = Unexpired /\ UNCHANGED <<jobs, runners, handles, issuedJobs, aborted, jobsNow>>
  <2>1. /\ index' \in [DOMAIN index' -> [job: Nat, since: Nat]]
        /\ DOMAIN index' \subseteq Tenants \X JobKeys
    BY <1>2 DEF Unexpired, Restrict, JobsInv, JobsTypeOK
  <2> QED
    BY <1>2, <2>1 DEF JobsInv, JobsTypeOK, RunnerOfJob, TimersHaveRunners, handles
<1> QED
  BY <1>1, <1>2 DEF EnqueueResearchJob

\* A microtask ends, or becomes a running job with a controller and a timer.
LEMMA StartInv ==
  ASSUME JobsInv, NEW i, Start(i)
  PROVE  JobsInv'
<1>1. JobsTypeOK'
  BY DEF Start, Awaited, WithoutJob, Restrict, handles, JobsInv, JobsTypeOK, Job, ActiveJobStatus
<1>2. RunnerOfJob'
  BY DEF Start, Awaited, WithoutJob, Restrict, handles, JobsInv, JobsTypeOK, RunnerOfJob, Job
<1>3. TimersHaveRunners'
  BY DEF Start, Awaited, WithoutJob, Restrict, handles, JobsInv, JobsTypeOK, TimersHaveRunners
<1> QED
  BY <1>1, <1>2, <1>3 DEF JobsInv

\* A timeout cancels a job that is not terminal and aborts its runner.
LEMMA TimeoutInv ==
  ASSUME JobsInv, NEW i \in timers, TimeoutFires(i)
  PROVE  JobsInv'
<1>1. JobsTypeOK'
  BY DEF TimeoutFires, MarkCancelled, Open, JobsInv, JobsTypeOK, Job, ActiveJobStatus, TerminalStatus
<1>2. RunnerOfJob'
  BY DEF TimeoutFires, MarkCancelled, Open, JobsInv, JobsTypeOK, RunnerOfJob, TimersHaveRunners, Job
<1>3. TimersHaveRunners'
  BY DEF TimeoutFires, JobsInv, TimersHaveRunners
<1> QED
  BY <1>1, <1>2, <1>3 DEF JobsInv

\* A runner answers: its job is settled once, its handles go.
LEMMA RunnerEndsInv ==
  ASSUME JobsInv, NEW i, NEW status \in TerminalStatus,
         NEW reason \in {"none", "system_abort"}, RunnerEnds(i, status, reason)
  PROVE  JobsInv'
<1>1. JobsTypeOK'
  BY DEF RunnerEnds, Awaited, WithoutJob, Restrict, JobsInv, JobsTypeOK, Job
<1>2. RunnerOfJob'
  BY DEF RunnerEnds, Awaited, WithoutJob, Restrict, JobsInv, JobsTypeOK, RunnerOfJob
<1>3. TimersHaveRunners'
  BY DEF RunnerEnds, WithoutJob, Restrict, JobsInv, TimersHaveRunners
<1> QED
  BY <1>1, <1>2, <1>3 DEF JobsInv

\* A cancel aborts the runner through its controller, if it has started.
LEMMA CancelInv ==
  ASSUME JobsInv, NEW i, Cancel(i)
  PROVE  JobsInv'
<1>1. JobsTypeOK'
  BY DEF Cancel, MarkCancelled, Open, JobsInv, JobsTypeOK, Job, ActiveJobStatus, TerminalStatus
<1>2. RunnerOfJob'
  BY DEF Cancel, MarkCancelled, Open, IsTerminal, TerminalStatus, JobsInv, JobsTypeOK, RunnerOfJob, Job
<1>3. TimersHaveRunners'
  BY DEF Cancel, JobsInv, TimersHaveRunners
<1> QED
  BY <1>1, <1>2, <1>3 DEF JobsInv

\* Time passes, or nothing happens.
LEMMA QuietInv ==
  ASSUME JobsInv, JobsTick \/ UNCHANGED jobsVars
  PROVE  JobsInv'
  BY DEF JobsTick, jobsVars, handles, JobsInv, JobsTypeOK, RunnerOfJob, TimersHaveRunners

\* Every step keeps the invariant.
LEMMA StepInv ==
  ASSUME JobsInv, [JobsNext]_jobsVars
  PROVE  JobsInv'
<1>1. ASSUME NEW t \in Tenants, NEW k \in JobKeys \cup {NoKey}, EnqueueResearchJob(t, k)
      PROVE  JobsInv'
  BY <1>1, EnqueueInv
<1>2. ASSUME NEW i, Start(i)
      PROVE  JobsInv'
  BY <1>2, StartInv
<1>3. ASSUME NEW i, RunnerEndsSomehow(i)
      PROVE  JobsInv'
  BY <1>3, RunnerEndsInv DEF RunnerEndsSomehow, TerminalStatus
<1>4. ASSUME NEW i, Cancel(i)
      PROVE  JobsInv'
  BY <1>4, CancelInv
<1>5. ASSUME NEW i \in timers, TimeoutFires(i)
      PROVE  JobsInv'
  BY <1>5, TimeoutInv
<1> QED
  BY <1>1, <1>2, <1>3, <1>4, <1>5, QuietInv DEF JobsNext

\* The inductive invariant holds throughout.
THEOREM Invariance == JobsSpec => []JobsInv
  BY InitInv, StepInv, PTL DEF JobsSpec

\* The maps hold what their types say, for any tenants and limits.
THEOREM JobsTypeCorrect == JobsSpec => []JobsTypeOK
  BY Invariance, PTL DEF JobsInv

\* A cancelled job's runner has its signal aborted: by the cancel, by the
\* timeout, or because it never started.
THEOREM CancelAlwaysReachesRunner == JobsSpec => []CancelReachesRunner
<1>1. JobsInv => CancelReachesRunner
  BY DEF JobsInv, RunnerOfJob, CancelReachesRunner
<1> QED
  BY <1>1, Invariance, PTL

\* A job that ended stays as it ended, however late its runner or timer is.
THEOREM SettledStaysSettled == JobsSpec => SettledForGood
<1>1. ASSUME JobsInv, [JobsNext]_jobsVars
      PROVE  [\A i \in DOMAIN jobs \cap DOMAIN jobs' : IsTerminal(i) => jobs'[i] = jobs[i]]_jobsVars
  <2> SUFFICES ASSUME NEW i \in DOMAIN jobs \cap DOMAIN jobs', IsTerminal(i)
               PROVE  jobs'[i] = jobs[i] \/ UNCHANGED jobsVars
    OBVIOUS
  <2>1. ASSUME NEW t \in Tenants, NEW k \in JobKeys \cup {NoKey}, EnqueueResearchJob(t, k)
        PROVE  jobs'[i] = jobs[i]
    BY <1>1, <2>1, RegisterFacts DEF EnqueueResearchJob, JobsInv, JobsTypeOK
  <2>2. ASSUME NEW j, Start(j)
        PROVE  jobs'[i] = jobs[i]
    BY <1>1, <2>2 DEF Start, Awaited, IsTerminal, TerminalStatus, JobsInv, JobsTypeOK, RunnerOfJob
  <2>3. ASSUME NEW j, RunnerEndsSomehow(j)
        PROVE  jobs'[i] = jobs[i]
    BY <1>1, <2>3 DEF RunnerEndsSomehow, RunnerEnds, Awaited, IsTerminal, TerminalStatus,
                      JobsInv, JobsTypeOK, RunnerOfJob
  <2>4. ASSUME NEW j, Cancel(j) \/ TimeoutFires(j)
        PROVE  jobs'[i] = jobs[i]
    BY <1>1, <2>4 DEF Cancel, TimeoutFires, MarkCancelled, Open, JobsInv, JobsTypeOK
  <2> QED
    BY <1>1, <2>1, <2>2, <2>3, <2>4 DEF JobsNext, JobsTick
<1> QED
  BY <1>1, Invariance, PTL DEF JobsSpec, SettledForGood

-----------------------------------------------------------------------------
(* The active limit.  Only an accepted enqueue makes a job active, and it is *)
(* accepted below the limit in the same step.                                *)

\* A tenant has finitely many jobs: their ids were issued.
LEMMA ActiveFinite ==
  ASSUME JobsInv, NEW t
  PROVE  IsFiniteSet(ActiveJobs(t))
<1>1. IsFiniteSet(1 .. issuedJobs)
  <2>1. 1 \in Int /\ issuedJobs \in Int
    BY DEF JobsInv, JobsTypeOK
  <2> QED
    BY <2>1, FS_Interval
<1>2. ActiveJobs(t) \in SUBSET (1 .. issuedJobs)
  BY DEF JobsInv, JobsTypeOK, ActiveJobs, Bucket
<1> QED
  BY <1>1, <1>2, FS_Subset

\* No step but an accepted enqueue makes a job active.
LEMMA NoNewActive ==
  ASSUME JobsInv, NEW t, DOMAIN jobs' \subseteq DOMAIN jobs,
         \A i \in DOMAIN jobs' : /\ jobs'[i].tenant = jobs[i].tenant
                                 /\ jobs'[i].status \in ActiveJobStatus => jobs[i].status \in ActiveJobStatus,
         Cardinality(ActiveJobs(t)) <= MaxActiveJobs
  PROVE  Cardinality(ActiveJobs(t)') <= MaxActiveJobs
<1>1. ActiveJobs(t)' \in SUBSET ActiveJobs(t)
  BY DEF ActiveJobs, Bucket
<1>2. Cardinality(ActiveJobs(t)') <= Cardinality(ActiveJobs(t))
  BY <1>1, ActiveFinite, FS_Subset
<1>3. Cardinality(ActiveJobs(t)) \in Nat /\ Cardinality(ActiveJobs(t)') \in Nat
  BY <1>1, ActiveFinite, FS_Subset, FS_CardinalityType
<1>4. MaxActiveJobs \in Nat
  BY JobsAssumption
<1> QED
  BY <1>2, <1>3, <1>4

\* An accepted enqueue adds at most its own job, to its own tenant.
LEMMA EnqueueKeepsCap ==
  ASSUME JobsInv, NEW t \in Tenants, NEW k \in JobKeys \cup {NoKey}, ~Full(t),
         RegisterJob(issuedJobs + 1, t, k), ActiveCap
  PROVE  ActiveCap'
<1> SUFFICES ASSUME NEW u \in Tenants
             PROVE  Cardinality(ActiveJobs(u)') <= MaxActiveJobs
  BY DEF ActiveCap
<1>1. MaxActiveJobs \in Nat
  BY JobsAssumption
<1>2. IsFiniteSet(ActiveJobs(u)) /\ Cardinality(ActiveJobs(u)) \in Nat
  BY ActiveFinite, FS_CardinalityType
<1>3. Cardinality(ActiveJobs(u)) <= MaxActiveJobs
  BY DEF ActiveCap
<1>4. CASE u = t
  <2>1. ActiveJobs(u)' \in SUBSET (ActiveJobs(u) \cup {issuedJobs + 1})
    BY RegisterFacts DEF ActiveJobs, Bucket
  <2> DEFINE n == issuedJobs + 1
  <2>2. /\ IsFiniteSet(ActiveJobs(u) \cup {n})
        /\ Cardinality(ActiveJobs(u) \cup {n}) <= Cardinality(ActiveJobs(u)) + 1
        /\ Cardinality(ActiveJobs(u) \cup {n}) \in Nat
    <3> HIDE DEF n
    <3>1. /\ IsFiniteSet(ActiveJobs(u) \cup {n})
          /\ Cardinality(ActiveJobs(u) \cup {n}) =
               IF n \in ActiveJobs(u) THEN Cardinality(ActiveJobs(u)) ELSE Cardinality(ActiveJobs(u)) + 1
      BY <1>2, FS_AddElement
    <3> QED
      BY <1>2, <3>1
  <2>3. /\ Cardinality(ActiveJobs(u)') <= Cardinality(ActiveJobs(u) \cup {issuedJobs + 1})
        /\ Cardinality(ActiveJobs(u)') \in Nat
    BY <2>1, <2>2, FS_Subset, FS_CardinalityType
  <2>4. Cardinality(ActiveJobs(u)) < MaxActiveJobs
    BY <1>1, <1>2, <1>4 DEF Full
  <2> QED
    BY <1>1, <1>2, <2>2, <2>3, <2>4
<1>5. CASE u # t
  <2>1. ActiveJobs(u)' \in SUBSET ActiveJobs(u)
    <3>0. jobs'[issuedJobs + 1] = NewJob(t, k)
      BY RegisterFacts
    <3>1. jobs'[issuedJobs + 1].tenant # u
      BY <1>5, <3>0 DEF NewJob
    <3> QED
      BY <3>1, RegisterFacts DEF ActiveJobs, Bucket
  <2>2. /\ Cardinality(ActiveJobs(u)') <= Cardinality(ActiveJobs(u))
        /\ Cardinality(ActiveJobs(u)') \in Nat
    BY <1>2, <2>1, FS_Subset, FS_CardinalityType
  <2> QED
    BY <1>1, <1>2, <1>3, <2>2
<1> QED
  BY <1>4, <1>5

\* A tenant never has more active jobs than its limit.
THEOREM ActiveJobsCapped == JobsSpec => []ActiveCap
<1>1. JobsInit => ActiveCap
  <2> SUFFICES ASSUME JobsInit, NEW t \in Tenants
               PROVE  Cardinality(ActiveJobs(t)) <= MaxActiveJobs
    BY DEF ActiveCap
  <2>1. ActiveJobs(t) = {}
    BY DEF JobsInit, NoJobs, ActiveJobs, Bucket
  <2> QED
    BY <2>1, FS_EmptySet, JobsAssumption
<1>2. ASSUME JobsInv, ActiveCap, [JobsNext]_jobsVars
      PROVE  ActiveCap'
  <2>1. ASSUME NEW t \in Tenants, NEW k \in JobKeys \cup {NoKey}, EnqueueResearchJob(t, k)
        PROVE  ActiveCap'
    <3>1. CASE RegisterJob(issuedJobs + 1, t, k) /\ ~Full(t)
      BY <1>2, <3>1, EnqueueKeepsCap
    <3>2. CASE UNCHANGED jobs
      BY <1>2, <3>2 DEF ActiveCap, ActiveJobs, Bucket
    <3> QED
      BY <2>1, <3>1, <3>2 DEF EnqueueResearchJob
  <2>2. SUFFICES ASSUME ~(\E t \in Tenants, k \in JobKeys \cup {NoKey} : EnqueueResearchJob(t, k)),
                        NEW t \in Tenants
                 PROVE  Cardinality(ActiveJobs(t)') <= MaxActiveJobs
    BY <2>1 DEF ActiveCap
  <2>3. Cardinality(ActiveJobs(t)) <= MaxActiveJobs
    BY <1>2 DEF ActiveCap
  <2>4. /\ DOMAIN jobs' \subseteq DOMAIN jobs
        /\ \A i \in DOMAIN jobs' :
             /\ jobs'[i].tenant = jobs[i].tenant
             /\ jobs'[i].status \in ActiveJobStatus => jobs[i].status \in ActiveJobStatus
    <3>1. ASSUME NEW j, Start(j)
          PROVE  <2>4
      BY <1>2, <3>1 DEF Start, Awaited, JobsInv, JobsTypeOK, RunnerOfJob, ActiveJobStatus, Job
    <3>2. ASSUME NEW j, RunnerEndsSomehow(j)
          PROVE  <2>4
      BY <1>2, <3>2 DEF RunnerEndsSomehow, RunnerEnds, Awaited, JobsInv, JobsTypeOK, ActiveJobStatus, Job
    <3>3. ASSUME NEW j, Cancel(j) \/ TimeoutFires(j)
          PROVE  <2>4
      BY <1>2, <3>3 DEF Cancel, TimeoutFires, MarkCancelled, JobsInv, JobsTypeOK, ActiveJobStatus, Job
    <3>4. CASE JobsTick \/ UNCHANGED jobsVars
      BY <3>4 DEF JobsTick, jobsVars
    <3> QED
      BY <1>2, <2>2, <3>1, <3>2, <3>3, <3>4 DEF JobsNext
  <2> QED
    BY <1>2, <2>3, <2>4, NoNewActive
<1> QED
  BY <1>1, <1>2, Invariance, PTL DEF JobsSpec

-----------------------------------------------------------------------------
(* The limit of the store.  pruneTenantJobs discards the oldest terminal   *)
(* jobs first: if one is left, all that were discarded are older, and as   *)
(* many as the bucket was too long by; if none is left, the active limit   *)
(* bounds what is.                                                         *)

\* A nonempty set of natural numbers has a least element.
LEMMA LeastExists ==
  ASSUME NEW S \in SUBSET Nat, S # {}
  PROVE  \E m \in S : \A n \in S : m <= n
<1> DEFINE R == OpToRel(<, Nat)
<1>1. IsWellFoundedOn(R, Nat)
  BY NatLessThanWellFounded
<1>2. \A x, y \in Nat : x < y => <<x, y>> \in R
  BY DEF OpToRel
<1> HIDE DEF R
<1>3. PICK m \in S : \A n \in S : ~(<<n, m>> \in R)
  BY <1>1, WFMin
<1>4. ASSUME NEW n \in S PROVE m <= n
  <2>1. m \in Nat /\ n \in Nat /\ ~(n < m)
    BY <1>2, <1>3
  <2> QED BY <2>1
<1> QED BY <1>4

\* Pruning a bucket leaves at most MaxJobs jobs in it, or no terminal one.
LEMMA DiscardedEnough ==
  ASSUME NEW all, NEW t, DOMAIN all \in SUBSET Nat, IsFiniteSet(Bucket(all, t))
  PROVE  \/ Cardinality(Bucket(all, t) \ Discarded(all, t)) <= MaxJobs
         \/ \A i \in Bucket(all, t) \ Discarded(all, t) : all[i].status \notin TerminalStatus
<1> DEFINE bucket == Bucket(all, t)
           gone   == Discarded(all, t)
           done   == {i \in bucket : all[i].status \in TerminalStatus}
<1>1. /\ gone = {i \in done : Cardinality(bucket) > MaxJobs + Cardinality({j \in done : j < i})}
      /\ done \in SUBSET bucket /\ gone \in SUBSET done /\ gone \in SUBSET bucket
      /\ bucket \in SUBSET Nat
  BY DEF Discarded, Bucket
<1>2. MaxJobs \in Nat
  BY JobsAssumption
<1>3. CASE done \ gone = {}
  BY <1>3
<1>4. CASE done \ gone # {}
  <2>1. PICK i \in done \ gone : \A j \in done \ gone : i <= j
    <3>1. done \ gone \in SUBSET Nat
      BY <1>1
    <3> HIDE DEF done, gone
    <3> QED BY <1>4, <3>1, LeastExists
  <2> DEFINE older == {j \in done : j < i}
  <2>2. older \in SUBSET gone
    <3>1. SUFFICES ASSUME NEW j \in done, j < i, j \notin gone PROVE FALSE
      OBVIOUS
    <3>2. j \in Nat /\ i \in Nat
      BY <1>1, <2>1
    <3> HIDE DEF gone, done
    <3>3. i <= j
      BY <2>1, <3>1
    <3> QED BY <3>1, <3>2, <3>3
  <2>3. ~(Cardinality(bucket) > MaxJobs + Cardinality(older))
    BY <1>1, <2>1
  <2> HIDE DEF older, gone, done, bucket
  <2>4. /\ IsFiniteSet(gone) /\ Cardinality(gone) \in Nat /\ Cardinality(bucket) \in Nat
        /\ Cardinality(older) \in Nat /\ Cardinality(older) <= Cardinality(gone)
    <3>1. IsFiniteSet(bucket)
      BY DEF bucket
    <3>2. IsFiniteSet(gone)
      BY <1>1, <3>1, FS_Subset
    <3>3. IsFiniteSet(older) /\ Cardinality(older) <= Cardinality(gone)
      BY <2>2, <3>2, FS_Subset
    <3> QED BY <3>1, <3>2, <3>3, FS_CardinalityType
  <2>5. Cardinality(bucket \ gone) = Cardinality(bucket) - Cardinality(gone)
    <3>1. bucket \cap gone = gone /\ IsFiniteSet(bucket)
      BY <1>1 DEF bucket
    <3>2. Cardinality(bucket \ gone) = Cardinality(bucket) - Cardinality(bucket \cap gone)
      BY <3>1, FS_Difference
    <3> QED BY <3>1, <3>2
  <2>6. Cardinality(bucket \ gone) <= MaxJobs
    BY <1>2, <2>3, <2>4, <2>5
  <2> QED BY <2>6 DEF bucket, gone
<1> QED BY <1>3, <1>4

\* What bounds one tenant's bucket.
BucketBounded(t) ==
  \/ Cardinality(Bucket(jobs, t)) <= MaxJobs
  \/ Cardinality(Bucket(jobs, t)) <= MaxActiveJobs

\* A tenant has finitely many jobs: their ids were issued.
LEMMA BucketFinite ==
  ASSUME JobsInv, NEW t
  PROVE  IsFiniteSet(Bucket(jobs, t)) /\ Cardinality(Bucket(jobs, t)) \in Nat
<1>1. IsFiniteSet(1 .. issuedJobs)
  <2>1. 1 \in Int /\ issuedJobs \in Int
    BY DEF JobsInv, JobsTypeOK
  <2> QED BY <2>1, FS_Interval
<1>2. Bucket(jobs, t) \in SUBSET (1 .. issuedJobs)
  BY DEF JobsInv, JobsTypeOK, Bucket
<1> QED BY <1>1, <1>2, FS_Subset, FS_CardinalityType

\* A bucket that gains no job stays bounded.
LEMMA SmallerBucket ==
  ASSUME JobsInv, NEW t, BucketBounded(t), Bucket(jobs', t) \in SUBSET Bucket(jobs, t)
  PROVE  BucketBounded(t)'
<1>1. PICK now : now = Bucket(jobs', t) /\ now \in SUBSET Bucket(jobs, t)
  OBVIOUS
<1>2. /\ Cardinality(now) <= Cardinality(Bucket(jobs, t))
      /\ Cardinality(now) \in Nat /\ Cardinality(Bucket(jobs, t)) \in Nat
  BY <1>1, BucketFinite, FS_Subset, FS_CardinalityType
<1>3. MaxJobs \in Nat /\ MaxActiveJobs \in Nat
  BY JobsAssumption
<1>4. Cardinality(now) <= MaxJobs \/ Cardinality(now) <= MaxActiveJobs
  BY <1>2, <1>3 DEF BucketBounded
<1> QED BY <1>1, <1>4 DEF BucketBounded

\* An accepted enqueue leaves its tenant's bucket bounded, and the others alone.
LEMMA EnqueueKeepsBound ==
  ASSUME JobsInv, NEW t \in Tenants, NEW k \in JobKeys \cup {NoKey}, ~Full(t),
         RegisterJob(issuedJobs + 1, t, k), StoreBounded, ActiveCap
  PROVE  StoreBounded'
<1> SUFFICES ASSUME NEW u \in Tenants PROVE BucketBounded(u)'
  BY DEF StoreBounded, BucketBounded
<1>0. BucketBounded(u)
  BY DEF StoreBounded, BucketBounded
<1>n. PICK n \in Nat : n = issuedJobs + 1 /\ n \notin DOMAIN jobs
  BY DEF JobsInv, JobsTypeOK
<1>1. CASE u # t
  <2>0. jobs'[n] = NewJob(t, k)
    BY <1>n, RegisterFacts
  <2>1. jobs'[n].tenant # u
    BY <1>1, <2>0 DEF NewJob
  <2>2. Bucket(jobs', u) \in SUBSET Bucket(jobs, u)
    BY <1>n, <2>1, RegisterFacts DEF Bucket
  <2> QED BY <1>0, <2>2, SmallerBucket
<1>2. CASE u = t
  <2>1. PICK all, gone : /\ all = With(jobs, n, NewJob(t, k)) /\ gone = Discarded(all, t)
                         /\ jobs' = WithoutJob(all, gone)
    BY <1>n DEF RegisterJob, NewJob
  <2>2. /\ DOMAIN all = DOMAIN jobs \cup {n}
        /\ all[n] = NewJob(t, k) /\ \A i \in DOMAIN jobs : all[i] = jobs[i]
    BY <1>n, <2>1 DEF With
  <2>3. /\ NewJob(t, k).tenant = t /\ NewJob(t, k).status = "queued"
        /\ "queued" \notin TerminalStatus
    BY DEF NewJob, TerminalStatus
  <2>4. Bucket(all, t) = Bucket(jobs, t) \cup {n}
    BY <1>n, <2>2, <2>3 DEF Bucket
  <2>5. Bucket(jobs', t) = Bucket(all, t) \ gone
    BY <2>1 DEF Bucket, WithoutJob, Restrict
  <2>6. IsFiniteSet(Bucket(all, t)) /\ DOMAIN all \in SUBSET Nat
    <3>1. IsFiniteSet(Bucket(jobs, t) \cup {n})
      BY BucketFinite, FS_AddElement
    <3> QED BY <2>2, <2>4, <3>1 DEF JobsInv, JobsTypeOK
  <2>7. CASE Cardinality(Bucket(all, t) \ gone) <= MaxJobs
    BY <1>2, <2>5, <2>7 DEF BucketBounded
  <2>8. CASE \A i \in Bucket(all, t) \ gone : all[i].status \notin TerminalStatus
    <3>1. Bucket(all, t) \ gone \in SUBSET (ActiveJobs(t) \cup {n})
      <4>1. \A i \in DOMAIN jobs : jobs[i].status \in ActiveJobStatus \cup TerminalStatus
        BY DEF JobsInv, JobsTypeOK, Job
      <4> QED BY <2>2, <2>4, <2>8, <4>1 DEF ActiveJobs, Bucket
    <3>2. /\ IsFiniteSet(ActiveJobs(t)) /\ Cardinality(ActiveJobs(t)) \in Nat
          /\ MaxActiveJobs \in Nat
      BY ActiveFinite, FS_CardinalityType, JobsAssumption
    <3>3. Cardinality(ActiveJobs(t)) < MaxActiveJobs
      BY <3>2 DEF Full
    <3>4. /\ IsFiniteSet(ActiveJobs(t) \cup {n})
          /\ Cardinality(ActiveJobs(t) \cup {n}) \in Nat
          /\ Cardinality(ActiveJobs(t) \cup {n}) <= Cardinality(ActiveJobs(t)) + 1
      <4>1. /\ IsFiniteSet(ActiveJobs(t) \cup {n})
            /\ Cardinality(ActiveJobs(t) \cup {n}) =
                 IF n \in ActiveJobs(t) THEN Cardinality(ActiveJobs(t))
                                        ELSE Cardinality(ActiveJobs(t)) + 1
        BY <3>2, FS_AddElement
      <4> QED BY <3>2, <4>1
    <3>5. PICK left : left = Bucket(all, t) \ gone /\ left = Bucket(jobs', t)
      BY <2>5
    <3>6. /\ Cardinality(left) <= Cardinality(ActiveJobs(t) \cup {n})
          /\ Cardinality(left) \in Nat
      BY <3>1, <3>4, <3>5, FS_Subset, FS_CardinalityType
    <3>7. Cardinality(left) <= MaxActiveJobs
      BY <3>2, <3>3, <3>4, <3>6
    <3> QED BY <1>2, <3>5, <3>7 DEF BucketBounded
  <2> QED BY <2>1, <2>6, <2>7, <2>8, DiscardedEnough
<1> QED BY <1>1, <1>2

\* However jobs come and end, a tenant's jobs stay within the limit of the store, or are
\* no more than its active limit.
THEOREM JobsDoNotPileUp == JobsSpec => []StoreBounded
<1>1. JobsInit => StoreBounded
  <2> SUFFICES ASSUME JobsInit, NEW t \in Tenants PROVE Cardinality(Bucket(jobs, t)) <= MaxJobs
    BY DEF StoreBounded
  <2>1. Bucket(jobs, t) = {}
    BY DEF JobsInit, NoJobs, Bucket
  <2> QED BY <2>1, FS_EmptySet, JobsAssumption
<1>2. ASSUME JobsInv, ActiveCap, StoreBounded, [JobsNext]_jobsVars PROVE StoreBounded'
  <2>1. ASSUME NEW t \in Tenants, NEW k \in JobKeys \cup {NoKey}, EnqueueResearchJob(t, k)
        PROVE  StoreBounded'
    <3>1. CASE RegisterJob(issuedJobs + 1, t, k) /\ ~Full(t)
      BY <1>2, <3>1, EnqueueKeepsBound
    <3>2. CASE UNCHANGED jobs
      BY <1>2, <3>2 DEF StoreBounded, Bucket
    <3> QED BY <2>1, <3>1, <3>2 DEF EnqueueResearchJob
  <2>2. SUFFICES ASSUME ~(\E t \in Tenants, k \in JobKeys \cup {NoKey} : EnqueueResearchJob(t, k)),
                        NEW t \in Tenants
                 PROVE  BucketBounded(t)'
    BY <2>1 DEF StoreBounded, BucketBounded
  <2>3. DOMAIN jobs' = DOMAIN jobs /\ \A i \in DOMAIN jobs' : jobs'[i].tenant = jobs[i].tenant
    <3>1. ASSUME NEW j, Start(j) PROVE <2>3
      BY <1>2, <3>1 DEF Start, Awaited, JobsInv, JobsTypeOK, Job
    <3>2. ASSUME NEW j, RunnerEndsSomehow(j) PROVE <2>3
      BY <1>2, <3>2 DEF RunnerEndsSomehow, RunnerEnds, Awaited, JobsInv, JobsTypeOK, Job
    <3>3. ASSUME NEW j, Cancel(j) \/ TimeoutFires(j) PROVE <2>3
      BY <1>2, <3>3 DEF Cancel, TimeoutFires, MarkCancelled, JobsInv, JobsTypeOK, Job
    <3>4. CASE JobsTick \/ UNCHANGED jobsVars
      BY <3>4 DEF JobsTick, jobsVars
    <3> QED BY <1>2, <2>2, <3>1, <3>2, <3>3, <3>4 DEF JobsNext
  <2>4. Bucket(jobs', t) \in SUBSET Bucket(jobs, t) /\ BucketBounded(t)
    BY <1>2, <2>3 DEF Bucket, StoreBounded, BucketBounded
  <2> QED BY <1>2, <2>4, SmallerBucket
<1> QED BY <1>1, <1>2, Invariance, ActiveJobsCapped, PTL DEF JobsSpec

-----------------------------------------------------------------------------
(***************************************************************************)
(* The breaker: while half-open it has rested and admits a call.           *)
(*                                                                         *)
(* HalfOpenAdmits is not inductive: a success uses up a probe unless it    *)
(* closes the breaker, and whether it closes depends on another counter.   *)
(* The invariant ties the two together: in the half-open state the streak  *)
(* of successes is at least as long as the probes used.                    *)
(*                                                                         *)
(* That the breaker changes on streaks is a step of an invariant about the *)
(* history: each counter is the length of a streak the history still shows *)
(* (CountersAreStreaks).                                                   *)
(***************************************************************************)

CountersTyped ==
  /\ circuit \in Circuits
  /\ {failures, successes, probes, rest} \subseteq Nat

ProbesWereSuccesses ==
  circuit = "half-open" => probes <= successes /\ probes < SuccessThreshold

BreakerInv == CountersTyped /\ ProbesWereSuccesses /\ RestsBeforeProbing

\* A saturating counter goes up to its threshold and stays there.
LEMMA CountedFacts ==
  ASSUME NEW n \in Nat, NEW threshold \in Nat
  PROVE  /\ Counted(n, threshold) \in Nat
         /\ Counted(n, threshold) < threshold => Counted(n, threshold) = n + 1
BY DEF Counted

\* The invariant of the breaker holds at the start.
LEMMA BreakerInitially ==
  BreakerInit => BreakerInv
<1>1. BreakerCooldown \in Nat
  BY BreakerAssumption
<1> QED
  BY <1>1 DEF BreakerInit, BreakerInv, CountersTyped, ProbesWereSuccesses, RestsBeforeProbing, Circuits

\* Who asks a breaker that has rested starts with no probe used.
LEMMA AskedKeeps ==
  ASSUME BreakerInv, Asked
  PROVE  BreakerInv'
<1>1. SuccessThreshold \in Nat /\ SuccessThreshold > 0
  BY BreakerAssumption
<1> QED
  BY <1>1 DEF Asked, BreakerInv, CountersTyped, ProbesWereSuccesses, RestsBeforeProbing, Rested, Circuits

\* A success that does not close lengthens the streak with the probes.
LEMMA SuccessKeeps ==
  ASSUME BreakerInv, RecordSuccess
  PROVE  BreakerInv'
<1>1. SuccessThreshold \in Nat /\ SuccessThreshold > 0
  BY BreakerAssumption
<1> DEFINE streak == Counted(successes, SuccessThreshold)
<1>2. streak \in Nat /\ (streak < SuccessThreshold => streak = successes + 1)
  BY <1>1, CountedFacts DEF BreakerInv, CountersTyped
<1>3. successes' = streak /\ failures' = 0 /\ rest' = rest
  BY DEF RecordSuccess
<1>4. CASE circuit = "half-open" /\ streak >= SuccessThreshold
  BY <1>1, <1>2, <1>3, <1>4
  DEF RecordSuccess, BreakerInv, CountersTyped, ProbesWereSuccesses, RestsBeforeProbing, Circuits
<1>5. CASE circuit = "half-open" /\ streak < SuccessThreshold
  <2>1. circuit' = circuit /\ probes' = probes + 1
    BY <1>1, <1>2, <1>5 DEF RecordSuccess
  <2> QED
    BY <1>1, <1>2, <1>3, <1>5, <2>1
    DEF BreakerInv, CountersTyped, ProbesWereSuccesses, RestsBeforeProbing, Rested
<1>6. CASE circuit # "half-open"
  BY <1>1, <1>2, <1>3, <1>6
  DEF RecordSuccess, BreakerInv, CountersTyped, ProbesWereSuccesses, RestsBeforeProbing
<1> QED
  BY <1>1, <1>2, <1>4, <1>5, <1>6

\* After a failure the breaker is not half-open.
LEMMA FailureKeeps ==
  ASSUME BreakerInv, RecordFailure
  PROVE  BreakerInv'
<1>1. FailureThreshold \in Nat
  BY BreakerAssumption
<1>2. Counted(failures, FailureThreshold) \in Nat
  BY <1>1, CountedFacts DEF BreakerInv, CountersTyped
<1>3. circuit' \in Circuits /\ circuit' # "half-open"
  BY DEF RecordFailure, BreakerInv, CountersTyped, Circuits
<1> QED
  BY <1>2, <1>3
  DEF RecordFailure, BreakerInv, CountersTyped, ProbesWereSuccesses, RestsBeforeProbing

\* A step that leaves the breaker alone keeps it.
LEMMA QuietKeeps ==
  ASSUME BreakerInv, UNCHANGED breaker
  PROVE  BreakerInv'
BY DEF breaker, BreakerInv, CountersTyped, ProbesWereSuccesses, RestsBeforeProbing, Rested

\* Every step keeps the invariant of the breaker.
LEMMA BreakerNextKeeps ==
  ASSUME BreakerInv, [BreakerNext]_breakerVars
  PROVE  BreakerInv'
<1>1. CASE CallMcpTool
  BY <1>1, AskedKeeps DEF CallMcpTool
<1>2. CASE CallSucceeds
  BY <1>2, SuccessKeeps DEF CallSucceeds
<1>3. CASE CallFails
  BY <1>3, FailureKeeps DEF CallFails
<1>4. CASE Reset
  BY <1>4 DEF Reset, BreakerInv, CountersTyped, ProbesWereSuccesses, RestsBeforeProbing, Circuits
<1>5. CASE ReadHealth \/ SnapshotDue \/ Flush
  BY <1>5, QuietKeeps DEF ReadHealth, SnapshotDue, Flush
<1>6. CASE \E i \in 1..MaxSnapshots : i <= Len(snapshots) /\ SnapshotWritten(i)
  BY <1>6, QuietKeeps DEF SnapshotWritten
<1>7. CASE SeedArrives
  BY <1>7, FailureKeeps, QuietKeeps DEF SeedArrives
<1>8. CASE BreakerTick
  <2>1. BreakerCooldown \in Nat
    BY BreakerAssumption
  <2> QED
    BY <1>8, <2>1 DEF BreakerTick, BreakerInv, CountersTyped, ProbesWereSuccesses, RestsBeforeProbing, Rested
<1>9. CASE BreakerRestart
  <2>1. BreakerCooldown \in Nat
    BY BreakerAssumption
  <2> QED
    BY <1>9, <2>1
    DEF BreakerRestart, BreakerInv, CountersTyped, ProbesWereSuccesses, RestsBeforeProbing, Circuits
<1>10. CASE UNCHANGED breakerVars
  BY <1>10, QuietKeeps DEF breakerVars
<1> QED
  BY <1>1, <1>2, <1>3, <1>4, <1>5, <1>6, <1>7, <1>8, <1>9, <1>10 DEF BreakerNext

\* canCall never turns away the first call after a cooldown: in every reachable
\* state a half-open breaker has a probe left and has rested since the last failure.
THEOREM HalfOpenIsCallable ==
  BreakerSpec => []HalfOpenAfterRest
<1>1. BreakerInv => HalfOpenAfterRest
  BY DEF BreakerInv, ProbesWereSuccesses, HalfOpenAfterRest, HalfOpenAdmits
<1> QED
  BY <1>1, BreakerInitially, BreakerNextKeeps, PTL DEF BreakerSpec

-----------------------------------------------------------------------------
(* The counters and what was recorded. *)

\* The last n results recorded.
Ending(n) == (Len(lately) - n + 1) .. Len(lately)

Failed == {"failure", "seeded"}

\* Each counter is the length of a streak that the history still shows at its end: it
\* is trimmed to the length of both streaks together.
CountersAreStreaks ==
  /\ lately \in Seq(Results)
  /\ failures \in 0 .. FailureThreshold /\ successes \in 0 .. SuccessThreshold
  /\ failures <= Len(lately) /\ successes <= Len(lately)
  /\ \A i \in Ending(failures) : lately[i] \in Failed
  /\ \A i \in Ending(successes) : lately[i] \in {"success"}

\* What the history is after a result: the result at its end, the others before it as
\* they were, but for the first, which may have gone.
LEMMA RecordedEnds ==
  ASSUME lately \in Seq(Results), NEW result \in Results, Recorded(result)
  PROVE  /\ lately' \in Seq(Results)
         /\ \E gone \in {0, 1} :
              /\ Len(lately') = Len(lately) + 1 - gone
              /\ gone = 1 => Len(lately) >= FailureThreshold + SuccessThreshold
              /\ \A i \in 1 .. Len(lately') :
                   lately'[i] = IF i = Len(lately') THEN result ELSE lately[i + gone]
<1> DEFINE all == Append(lately, result)
           max == FailureThreshold + SuccessThreshold
<1>1. /\ all \in Seq(Results) /\ Len(all) = Len(lately) + 1
      /\ \A i \in 1 .. Len(all) : all[i] = IF i = Len(all) THEN result ELSE lately[i]
  OBVIOUS
<1>2. max \in Nat /\ Len(lately) \in Nat
  BY BreakerAssumption
<1>3. CASE Len(all) > max
  <2>1. lately' = Tail(all)
    BY <1>3 DEF Recorded
  <2>2. all # <<>>
    BY <1>1, <1>2
  <2>3. /\ Tail(all) \in Seq(Results) /\ Len(Tail(all)) = Len(all) - 1
        /\ \A i \in 1 .. Len(Tail(all)) : Tail(all)[i] = all[i + 1]
    BY <1>1, <2>2
  <2> QED
    BY <1>1, <1>2, <1>3, <2>1, <2>3
<1>4. CASE ~(Len(all) > max)
  <2>1. lately' = all
    BY <1>4 DEF Recorded
  <2> QED
    BY <1>1, <1>2, <2>1
<1> QED
  BY <1>3, <1>4

\* A streak goes on with a result of its kind, up to its threshold.
LEMMA StreakGrows ==
  ASSUME lately \in Seq(Results), NEW result \in Results, Recorded(result),
         NEW kind, result \in kind,
         NEW threshold \in Nat \ {0}, threshold <= FailureThreshold + SuccessThreshold,
         NEW n \in 0 .. threshold, n <= Len(lately), \A i \in Ending(n) : lately[i] \in kind
  PROVE  /\ Counted(n, threshold) \in 0 .. threshold
         /\ Counted(n, threshold) <= Len(lately')
         /\ \A i \in (Len(lately') - Counted(n, threshold) + 1) .. Len(lately') :
              lately'[i] \in kind
<1>1. PICK m : m = Counted(n, threshold)
  OBVIOUS
<1>2. m \in 0 .. threshold /\ m <= n + 1
  BY <1>1 DEF Counted
<1>3. PICK gone \in {0, 1} :
        /\ Len(lately') = Len(lately) + 1 - gone
        /\ gone = 1 => Len(lately) >= FailureThreshold + SuccessThreshold
        /\ \A i \in 1 .. Len(lately') :
             lately'[i] = IF i = Len(lately') THEN result ELSE lately[i + gone]
  BY RecordedEnds
<1>4. Len(lately) \in Nat /\ FailureThreshold + SuccessThreshold \in Nat
  BY BreakerAssumption
<1>5. m <= Len(lately')
  BY <1>2, <1>3, <1>4
<1>6. ASSUME NEW i \in (Len(lately') - m + 1) .. Len(lately')
      PROVE  lately'[i] \in kind
  <2>1. i \in 1 .. Len(lately')
    BY <1>2, <1>3, <1>4, <1>5
  <2>2. CASE i = Len(lately')
    BY <1>3, <2>1, <2>2
  <2>3. CASE i # Len(lately')
    <3>1. i + gone \in Ending(n)
      BY <1>2, <1>3, <1>4, <2>1, <2>3 DEF Ending
    <3> QED
      BY <1>3, <2>1, <2>3, <3>1
  <2> QED
    BY <2>2, <2>3
<1> QED
  BY <1>1, <1>2, <1>5, <1>6

\* The thresholds are numbers that the history is long enough for.
LEMMA Thresholds ==
  /\ FailureThreshold \in Nat \ {0} /\ FailureThreshold <= FailureThreshold + SuccessThreshold
  /\ SuccessThreshold \in Nat \ {0} /\ SuccessThreshold <= FailureThreshold + SuccessThreshold
BY BreakerAssumption

\* A success lengthens the streak of successes and ends that of failures,
LEMMA SuccessCounts ==
  ASSUME CountersAreStreaks, RecordSuccess, Recorded("success")
  PROVE  CountersAreStreaks'
<1>1. "success" \in Results /\ lately' \in Seq(Results)
  BY RecordedEnds DEF CountersAreStreaks, Results
<1>2. /\ successes' \in 0 .. SuccessThreshold /\ successes' <= Len(lately')
      /\ \A i \in (Len(lately') - successes' + 1) .. Len(lately') : lately'[i] \in {"success"}
  BY <1>1, Thresholds, StreakGrows DEF CountersAreStreaks, RecordSuccess
<1>3. failures' = 0 /\ Len(lately') \in Nat
  BY <1>1 DEF RecordSuccess
<1> QED
  BY <1>1, <1>2, <1>3, Thresholds DEF CountersAreStreaks, Ending

\* a failure the other way round,
LEMMA FailureCounts ==
  ASSUME CountersAreStreaks, RecordFailure, NEW result \in Failed, Recorded(result)
  PROVE  CountersAreStreaks'
<1>1. result \in Results /\ lately' \in Seq(Results)
  BY RecordedEnds DEF CountersAreStreaks, Results, Failed
<1>2. /\ failures' \in 0 .. FailureThreshold /\ failures' <= Len(lately')
      /\ \A i \in (Len(lately') - failures' + 1) .. Len(lately') : lately'[i] \in Failed
  BY <1>1, Thresholds, StreakGrows DEF CountersAreStreaks, RecordFailure
<1>3. successes' = 0 /\ Len(lately') \in Nat
  BY <1>1 DEF RecordFailure
<1> QED
  BY <1>1, <1>2, <1>3, Thresholds DEF CountersAreStreaks, Ending

\* and a step that counts nothing leaves both.
LEMMA NothingCounts ==
  ASSUME CountersAreStreaks, UNCHANGED <<failures, successes, lately>>
  PROVE  CountersAreStreaks'
BY DEF CountersAreStreaks, Ending

\* What forgets the counters forgets the history.
LEMMA ForgottenCounts ==
  ASSUME failures' = 0, successes' = 0, lately' = <<>>
  PROVE  CountersAreStreaks'
BY Thresholds DEF CountersAreStreaks, Ending

\* Every step keeps counters that are the lengths of streaks.
LEMMA CountsKept ==
  ASSUME CountersAreStreaks, [BreakerNext]_breakerVars
  PROVE  CountersAreStreaks'
<1>1. CASE CallMcpTool
  BY <1>1, NothingCounts DEF CallMcpTool, Asked
<1>2. CASE CallSucceeds
  BY <1>2, SuccessCounts DEF CallSucceeds
<1>3. CASE CallFails
  BY <1>3, FailureCounts DEF CallFails, Failed
<1>4. CASE Reset
  BY <1>4, ForgottenCounts DEF Reset
<1>5. CASE ReadHealth \/ SnapshotDue \/ Flush
  BY <1>5, NothingCounts DEF ReadHealth, SnapshotDue, Flush, breaker
<1>6. CASE \E i \in 1..MaxSnapshots : i <= Len(snapshots) /\ SnapshotWritten(i)
  BY <1>6, NothingCounts DEF SnapshotWritten, breaker
<1>7. CASE SeedArrives
  BY <1>7, FailureCounts, NothingCounts DEF SeedArrives, breaker, Failed
<1>8. CASE BreakerTick
  BY <1>8, NothingCounts DEF BreakerTick
<1>9. CASE BreakerRestart
  BY <1>9, ForgottenCounts DEF BreakerRestart
<1>10. CASE UNCHANGED breakerVars
  BY <1>10, NothingCounts DEF breakerVars, breaker
<1> QED
  BY <1>1, <1>2, <1>3, <1>4, <1>5, <1>6, <1>7, <1>8, <1>9, <1>10 DEF BreakerNext

\* The results on which the breaker changes are the last ones recorded.
LEMMA LastAreEnding ==
  ASSUME lately' \in Seq(Results), NEW n \in Nat, n <= Len(lately'), NEW i \in 1 .. n
  PROVE  /\ LastResults(n)[i] = lately'[Len(lately') - n + i]
         /\ Len(lately') - n + i \in (Len(lately') - n + 1) .. Len(lately')
<1>1. Len(lately') \in Nat
  OBVIOUS
<1>2. Len(lately') - n + i \in (Len(lately') - n + 1) .. Len(lately')
  BY <1>1
<1>3. LastResults(n)[i] = lately'[Len(lately') - n + i]
  BY <1>1 DEF LastResults
<1> QED
  BY <1>2, <1>3

\* A closed breaker is opened by a failure that completes a streak.
LEMMA OpensOnStreak ==
  ASSUME CountersAreStreaks, [BreakerNext]_breakerVars, circuit = "closed", circuit' = "open"
  PROVE  /\ Len(lately') >= FailureThreshold
         /\ "success" \notin {LastResults(FailureThreshold)[i] : i \in 1..FailureThreshold}
<1>1. CASE RecordFailure
  <2>1. failures' = FailureThreshold
    BY <1>1, Thresholds DEF RecordFailure, Counted, CountersAreStreaks
  <2>2. /\ lately' \in Seq(Results) /\ FailureThreshold <= Len(lately')
        /\ \A i \in (Len(lately') - FailureThreshold + 1) .. Len(lately') : lately'[i] \in Failed
    BY <2>1, CountsKept DEF CountersAreStreaks, Ending
  <2>3. \A i \in 1 .. FailureThreshold : LastResults(FailureThreshold)[i] \in Failed
    BY <2>2, Thresholds, LastAreEnding
  <2> QED
    BY <2>2, <2>3, Thresholds DEF Failed
<1>2. RecordFailure
  BY DEF BreakerNext, CallMcpTool, Asked, CallSucceeds, RecordSuccess, CallFails, Reset, ReadHealth,
         SnapshotDue, SnapshotWritten, SeedArrives, Flush, BreakerTick, BreakerRestart, breakerVars,
         breaker
<1> QED
  BY <1>1, <1>2

\* A half-open breaker is closed by a success that completes a streak, or forgets.
LEMMA ClosesOnStreak ==
  ASSUME CountersAreStreaks, [BreakerNext]_breakerVars,
         circuit = "half-open", circuit' = "closed", lately' # <<>>
  PROVE  /\ Len(lately') >= SuccessThreshold
         /\ {LastResults(SuccessThreshold)[i] : i \in 1..SuccessThreshold} = {"success"}
<1>1. CASE RecordSuccess
  <2>1. successes' = SuccessThreshold
    BY <1>1, Thresholds DEF RecordSuccess, Counted, CountersAreStreaks
  <2>2. /\ lately' \in Seq(Results) /\ SuccessThreshold <= Len(lately')
        /\ \A i \in (Len(lately') - SuccessThreshold + 1) .. Len(lately') : lately'[i] = "success"
    BY <2>1, CountsKept DEF CountersAreStreaks, Ending
  <2>3. \A i \in 1 .. SuccessThreshold : LastResults(SuccessThreshold)[i] = "success"
    BY <2>2, Thresholds, LastAreEnding
  <2>4. 1 \in 1 .. SuccessThreshold
    BY Thresholds
  <2> QED
    BY <2>2, <2>3, <2>4, Thresholds
<1>2. RecordSuccess
  BY DEF BreakerNext, CallMcpTool, Asked, CallSucceeds, CallFails, RecordFailure, Reset, ReadHealth,
         SnapshotDue, SnapshotWritten, SeedArrives, Flush, BreakerTick, BreakerRestart, breakerVars,
         breaker
<1> QED
  BY <1>1, <1>2

\* The breaker opens on as many failures in a row as the threshold says and closes on as
\* many successes in a row, whatever answers come late, for all thresholds.
THEOREM ChangesFollowStreaks ==
  BreakerSpec => ChangesOnStreaks
<1>1. BreakerInit => CountersAreStreaks
  BY ForgottenCounts, Thresholds DEF BreakerInit, CountersAreStreaks, Ending
<1>2. CountersAreStreaks /\ [BreakerNext]_breakerVars
        => [/\ circuit = "closed" /\ circuit' = "open" =>
                 /\ Len(lately') >= FailureThreshold
                 /\ "success" \notin {LastResults(FailureThreshold)[i] : i \in 1..FailureThreshold}
            /\ circuit = "half-open" /\ circuit' = "closed" /\ lately' # <<>> =>
                 /\ Len(lately') >= SuccessThreshold
                 /\ {LastResults(SuccessThreshold)[i] : i \in 1..SuccessThreshold} = {"success"}
             ]_breakerVars
  BY OpensOnStreak, ClosesOnStreak
<1> QED
  BY <1>1, <1>2, CountsKept, PTL DEF BreakerSpec, ChangesOnStreaks
=============================================================================
