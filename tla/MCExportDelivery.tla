--------------------------- MODULE MCExportDelivery ---------------------------
(* ExportDelivery with small sets for TLC; the cfg files choose the bounds. *)
EXTENDS ExportDelivery, TLC

\* Rules, destinations and operators are only compared with each other.
Symmetry == Permutations(Rules) \cup Permutations(Dests) \cup Permutations(Operators)

\* All that can happen together is too many states.  The surroundings disturb a
\* behaviour once, with at most one handler suspended from then on; the process dies
\* or a write fails where no operator has acted.
DisturbedOnce ==
  LET changed == spent.edits
      broken  == spent.crashes + spent.faults
  IN  /\ changed + broken <= 1
      /\ changed + broken = 1 => Cardinality(requests) <= 1
      /\ broken = 1 => \A n \in DOMAIN incidents : incidents[n].ackBy = None
=============================================================================
