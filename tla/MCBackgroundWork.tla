--------------------------- MODULE MCBackgroundWork ---------------------------
(***************************************************************************)
(* Work that must come to an end, checked with fairness by one run of TLC: *)
(* deliveries, research jobs, and calls of tools behind the circuit        *)
(* breaker.  They share no state, so subject chooses at the start which of *)
(* them moves.  No action that fairness demands is enabled in an initial   *)
(* state, so nothing is demanded of the two that rest.                     *)
(***************************************************************************)
EXTENDS ExportDelivery, ResearchJobs, CircuitBreaker

VARIABLE subject

workVars == <<subject, vars, jobsVars, breakerVars>>

WorkInit ==
  /\ subject \in {"deliveries", "jobs", "breaker"}
  /\ Init /\ JobsInit /\ BreakerInit

WorkNext ==
  /\ UNCHANGED subject
  /\ IF subject = "deliveries" THEN Next        ELSE UNCHANGED vars
  /\ IF subject = "jobs"       THEN JobsNext    ELSE UNCHANGED jobsVars
  /\ IF subject = "breaker"    THEN BreakerNext ELSE UNCHANGED breakerVars

WorkSpec ==
  /\ WorkInit /\ [][WorkNext]_workVars
  /\ Fairness /\ JobsFairness /\ BreakerFairness
=============================================================================
