---------------------------- MODULE MCResearchJobs ----------------------------
(* ResearchJobs with small sets for TLC; the cfg files choose the bounds. *)
EXTENDS ResearchJobs
=============================================================================
