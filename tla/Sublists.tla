------------------------------- MODULE Sublists -------------------------------
(***************************************************************************)
(* Parts of a sequence, chosen by their places: Array.prototype.filter and *)
(* sort of the code.  SelectSeq and SetToSortSeq of the libraries say the  *)
(* same of an operator they take as a parameter; here it is a set, so that *)
(* proofs can speak of it.                                                 *)
(***************************************************************************)
EXTENDS Naturals, Sequences, FiniteSets

\* The numbers of a finite set, the least first.
Ascending(S) ==
  [n \in 1..Cardinality(S) |-> CHOOSE s \in S : Cardinality({r \in S : r <= s}) = n]

\* The entries of a sequence at the places of I, in their order.
Picked(seq, I) ==
  LET places == Ascending(I) IN [n \in 1..Cardinality(I) |-> seq[places[n]]]

\* The entries of a sequence in the order E, a set of pairs of places.
Ordered(seq, E) ==
  LET Place(i) == Cardinality({j \in 1..Len(seq) : <<j, i>> \in E}) + 1
  IN  [n \in 1..Len(seq) |-> seq[CHOOSE i \in 1..Len(seq) : Place(i) = n]]
=============================================================================
