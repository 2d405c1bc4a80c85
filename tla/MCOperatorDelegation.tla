------------------------ MODULE MCOperatorDelegation ------------------------
(* OperatorDelegation with small sets for TLC; the cfg files choose the bounds. *)
EXTENDS OperatorDelegation, TLC

\* Approvers are only compared with each other, and so are slots.
Symmetry == Permutations(Approvers) \cup Permutations(Slots)

\* A new incident meets a crash; one that is acknowledged sees time pass only, and
\* one whose clear has been requested neither.
MCInit ==
  /\ Init
  /\ crashes = IF incident.ackBy = None THEN 0 ELSE MaxCrashes
  /\ now = IF incident.request = None THEN 1 ELSE MaxTime
MCSpec == MCInit /\ [][Next]_vars
=============================================================================
