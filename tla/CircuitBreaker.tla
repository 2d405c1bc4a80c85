---------------------------- MODULE CircuitBreaker ----------------------------
(***************************************************************************)
(* The circuit breaker in front of one MCP server, the calls under way,    *)
(* and the health snapshot written behind them and read back by the first  *)
(* use after a start (src/service/mcp-health, callMcpTool of               *)
(* src/service/tools/tr-mcp-search.ts, src/service/api/routes/mcp-health). *)
(*                                                                         *)
(* The three servers share nothing but the file, so one is modelled.  The  *)
(* counters are compared with their thresholds only and saturate there;    *)
(* rest is the age of the last failure and saturates at the cooldown, so   *)
(* time needs no bound.  Of the snapshot only the circuit is read back.    *)
(***************************************************************************)
EXTENDS Naturals, Sequences
Seqs == INSTANCE SequencesExt

CONSTANTS
  FailureThreshold, SuccessThreshold, BreakerCooldown,
  MaxCalls,            \* bounds of the model: calls under way,
  MaxSnapshots         \* writes of the snapshot under way

ASSUME BreakerAssumption ==
  /\ {FailureThreshold, SuccessThreshold, BreakerCooldown} \subseteq Nat \ {0}
  /\ {MaxCalls, MaxSnapshots} \subseteq Nat

VARIABLES
  circuit,       \* circuitState
  failures, successes,   \* consecutiveFailures, consecutiveSuccesses
  probes,        \* halfOpenAttempts
  rest,          \* ticks since lastFailureAt
  calls,         \* calls admitted and not answered
  seed,          \* what the snapshot says, from its reading until it is applied
  flushing,      \* a flush waits for the snapshot that is being read
  snapTimer, snapshots, snapFile,   \* throttle, writes under way, file
  lately         \* history: what was recorded since the start or the last reset

breaker == <<circuit, failures, successes, probes, rest>>
snapping == <<seed, flushing, snapTimer, snapshots, snapFile>>
breakerVars == <<breaker, calls, snapping, lately>>

Circuits == {"closed", "open", "half-open"}
Snapshot == {"open", "other"}
Results  == {"success", "failure", "seeded"}

BreakerInit ==
  /\ circuit = "closed" /\ failures = 0 /\ successes = 0 /\ probes = 0
  /\ rest = BreakerCooldown
  /\ calls = 0
  /\ seed = "unread" /\ flushing = FALSE
  /\ snapTimer = FALSE /\ snapshots = <<>> /\ snapFile = "other"
  /\ lately = <<>>

Counted(n, threshold) == IF n < threshold THEN n + 1 ELSE threshold

\* The history keeps as many results as a streak has.
Recorded(result) ==
  LET all == Append(lately, result)
      max == FailureThreshold + SuccessThreshold
  IN  lately' = IF Len(all) > max THEN Tail(all) ELSE all

\* ensureSeedLoaded, which every function of the module calls without waiting
\* for it: the first one begins to read.
BeginSeed ==
  \/ seed = "unread" /\ seed' \in ({snapFile} \cap Snapshot) \cup {"none"}
  \/ seed # "unread" /\ UNCHANGED seed

-----------------------------------------------------------------------------
(* canCall, recordSuccess, recordFailure and resetCircuit. *)

Rested == rest >= BreakerCooldown

CanCall ==
  \/ circuit = "closed"
  \/ circuit = "open" /\ Rested
  \/ circuit = "half-open" /\ probes < SuccessThreshold

\* Mutant: every admission begins the streak and the probes anew.
AskedAnew ==
  /\ circuit' = IF circuit = "open" /\ Rested THEN "half-open" ELSE circuit
  /\ probes' = 0 /\ successes' = 0
  /\ UNCHANGED <<failures, rest>>

\* Asking turns a breaker that has rested half-open.
Asked ==
  /\ circuit' = IF circuit = "open" /\ Rested THEN "half-open" ELSE circuit
  /\ probes' = IF circuit = "open" /\ Rested THEN 0 ELSE probes
  /\ UNCHANGED <<failures, successes, rest>>

\* Mutant: one success more than the threshold closes.
RecordSuccessLate ==
  /\ failures' = 0
  /\ successes' = Counted(successes, SuccessThreshold)
  /\ circuit' = IF circuit = "half-open" /\ successes >= SuccessThreshold
                THEN "closed" ELSE circuit
  /\ probes' = IF circuit = "half-open" /\ probes < SuccessThreshold THEN probes + 1 ELSE probes
  /\ UNCHANGED rest

\* Mutant: a success does not end a streak of failures.
RecordSuccessOnly ==
  /\ successes' = Counted(successes, SuccessThreshold)
  /\ circuit' = IF circuit = "half-open" /\ successes + 1 >= SuccessThreshold
                THEN "closed" ELSE circuit
  /\ probes' = IF circuit = "half-open" THEN probes + 1 ELSE probes
  /\ UNCHANGED <<failures, rest>>

RecordSuccess ==
  LET streak == Counted(successes, SuccessThreshold)
      closes == circuit = "half-open" /\ streak >= SuccessThreshold
  IN  /\ failures' = 0
      /\ successes' = streak
      /\ circuit' = IF closes THEN "closed" ELSE circuit
      /\ probes' = IF closes THEN 0 ELSE IF circuit = "half-open" THEN probes + 1 ELSE probes
      /\ UNCHANGED rest

RecordFailure ==
  LET streak == Counted(failures, FailureThreshold)
  IN  /\ rest' = 0
      /\ successes' = 0
      /\ failures' = streak
      /\ circuit' = IF circuit = "half-open" \/ streak >= FailureThreshold THEN "open" ELSE circuit
      /\ probes' = IF circuit = "half-open" THEN 0 ELSE probes

-----------------------------------------------------------------------------
(* callMcpTool. *)

CallMcpTool ==
  /\ CanCall /\ calls < MaxCalls
  /\ Asked
  /\ calls' = calls + 1
  /\ BeginSeed
  /\ UNCHANGED <<flushing, snapTimer, snapshots, snapFile, lately>>

\* GET /v1/mcp/health.
ReadHealth ==
  /\ BeginSeed
  /\ UNCHANGED <<breaker, calls, flushing, snapTimer, snapshots, snapFile, lately>>

\* The server answered, whatever the breaker has become meanwhile.
CallSucceeds ==
  /\ calls > 0
  /\ calls' = calls - 1
  /\ RecordSuccess
  /\ Recorded("success")
  /\ snapTimer' = TRUE
  /\ UNCHANGED <<seed, flushing, snapshots, snapFile>>

\* It answered with an error or not at all, or the user's signal ended the call.
CallFails ==
  /\ calls > 0
  /\ calls' = calls - 1
  /\ RecordFailure
  /\ Recorded("failure")
  /\ snapTimer' = TRUE
  /\ UNCHANGED <<seed, flushing, snapshots, snapFile>>

\* POST /v1/mcp/reset.  Calls under way report to the breaker all the same.
Reset ==
  /\ circuit' = "closed" /\ failures' = 0 /\ successes' = 0 /\ probes' = 0
  /\ lately' = <<>>
  /\ snapTimer' = TRUE
  /\ BeginSeed
  /\ UNCHANGED <<rest, calls, flushing, snapshots, snapFile>>

-----------------------------------------------------------------------------
(* The snapshot. *)

\* All writes go through one temporary file: those that overlap spoil each other.
BeginWrite ==
  LET content == IF circuit' = "open" THEN "open" ELSE "other"
      Spoil(w) == [w EXCEPT !.alone = FALSE]
  IN  /\ Len(snapshots) < MaxSnapshots
      /\ snapshots' = Append([i \in DOMAIN snapshots |-> Spoil(snapshots[i])],
                             [content |-> content, alone |-> snapshots = <<>>])

SnapshotDue ==
  /\ snapTimer
  /\ snapTimer' = FALSE
  /\ UNCHANGED breaker
  /\ BeginWrite
  /\ UNCHANGED <<calls, seed, flushing, snapFile, lately>>

\* A write puts its content in place or fails silently; one that met another may
\* put the other's content there, or half of each.
SnapshotWritten(i) ==
  LET w == snapshots[i]
  IN  /\ snapFile' \in {snapFile, w.content} \cup (IF w.alone THEN {} ELSE Snapshot \cup {"torn"})
      /\ snapshots' = Seqs!RemoveAt(snapshots, i)
      /\ UNCHANGED <<breaker, calls, seed, flushing, snapTimer, lately>>

\* A server saved as open counts as one failure, in whatever state it is by now.
SeedArrives ==
  /\ seed \in Snapshot \cup {"none"}
  /\ seed' = "applied"
  /\ \/ seed = "open" /\ RecordFailure /\ Recorded("seeded")
     \/ seed # "open" /\ UNCHANGED <<breaker, lately>>
  /\ IF flushing THEN BeginWrite ELSE UNCHANGED snapshots
  /\ flushing' = FALSE
  /\ UNCHANGED <<calls, snapTimer, snapFile>>

\* POST /v1/mcp/flush waits for the snapshot only if it began to read it.
Flush ==
  /\ UNCHANGED breaker
  /\ BeginSeed
  /\ \/ seed = "unread" /\ flushing' = TRUE /\ UNCHANGED snapshots
     \/ seed # "unread" /\ UNCHANGED flushing /\ BeginWrite
  /\ UNCHANGED <<calls, snapTimer, snapFile, lately>>

BreakerTick ==
  /\ rest < BreakerCooldown
  /\ rest' = rest + 1
  /\ UNCHANGED <<circuit, failures, successes, probes, calls, lately>> /\ UNCHANGED snapping

BreakerRestart ==
  /\ circuit' = "closed" /\ failures' = 0 /\ successes' = 0 /\ probes' = 0
  /\ rest' = BreakerCooldown
  /\ calls' = 0
  /\ seed' = "unread" /\ flushing' = FALSE
  /\ snapTimer' = FALSE /\ snapshots' = <<>>
  /\ lately' = <<>>
  /\ UNCHANGED snapFile

BreakerNext ==
  \/ CallMcpTool \/ CallSucceeds \/ CallFails
  \/ Reset \/ ReadHealth
  \/ SnapshotDue \/ \E i \in 1..MaxSnapshots : i <= Len(snapshots) /\ SnapshotWritten(i)
  \/ SeedArrives \/ Flush
  \/ BreakerTick
  \/ BreakerRestart

BreakerSpec == BreakerInit /\ [][BreakerNext]_breakerVars

\* Time goes on, and a call ends: mcporter is given a timeout.
BreakerFairness == WF_breakerVars(BreakerTick) /\ WF_breakerVars(CallSucceeds \/ CallFails)

-----------------------------------------------------------------------------
(* What should hold. *)

\* The shapes of the variables.
BreakerTypeOK ==
  /\ circuit \in Circuits
  /\ failures \in 0..FailureThreshold /\ successes \in 0..SuccessThreshold
  /\ probes \in 0..SuccessThreshold /\ rest \in 0..BreakerCooldown
  /\ calls \in 0..MaxCalls
  /\ seed \in Snapshot \cup {"unread", "none", "applied"} /\ flushing \in BOOLEAN
  /\ snapTimer \in BOOLEAN
  /\ snapshots \in Seq([content : Snapshot, alone : BOOLEAN]) /\ Len(snapshots) <= MaxSnapshots
  /\ snapFile \in Snapshot \cup {"torn"}
  /\ lately \in Seq(Results)

\* A half-open breaker admits a call: the successes that used up its probes have
\* closed it, even with answers that were asked for before it opened.
HalfOpenAdmits == circuit = "half-open" => probes < SuccessThreshold

\* What is not closed rests a whole cooldown after the last failure, late ones
\* and the one from the file included, before it is asked or closed again.
RestsBeforeProbing == circuit = "half-open" => Rested

\* While it is half-open the breaker has rested since its last failure and admits
\* a call: late answers neither shorten the rest nor use the probes up.
HalfOpenAfterRest == HalfOpenAdmits /\ RestsBeforeProbing

\* The breaker opens on a streak of failures with no success among them, and
\* closes on a streak of successes; one failure of a streak may be the file's.
LastResults(n) == SubSeq(lately', Len(lately') - n + 1, Len(lately'))

ChangesOnStreaks ==
  [][/\ circuit = "closed" /\ circuit' = "open" =>
          /\ Len(lately') >= FailureThreshold
          /\ "success" \notin {LastResults(FailureThreshold)[i] : i \in 1..FailureThreshold}
     /\ circuit = "half-open" /\ circuit' = "closed" /\ lately' # <<>> =>
          /\ Len(lately') >= SuccessThreshold
          /\ {LastResults(SuccessThreshold)[i] : i \in 1..SuccessThreshold} = {"success"}
      ]_breakerVars

\* A server whose calls no longer fail is trusted again if it goes on being asked.
TrustReturns ==
  []<><<CallFails \/ SeedArrives \/ BreakerRestart>>_breakerVars
    \/ <>[][~CallMcpTool]_breakerVars
    \/ []<>(circuit = "closed")
=============================================================================
