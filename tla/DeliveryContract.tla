--------------------------- MODULE DeliveryContract ---------------------------
(***************************************************************************)
(* What the export queue promises about a delivery, whatever the           *)
(* interleaving of handlers, retry worker and store writes: a receipt is   *)
(* pending until it settles once, each send is counted, sends and redrives *)
(* are bounded, and only a dead letter is redriven.  ExportDelivery        *)
(* implements it as long as no receipt falls off the list.                 *)
(***************************************************************************)
EXTENDS Naturals, FiniteSets

CONSTANTS Ids, MaxAttempts, MaxRedrives

VARIABLES
  phase,     \* "none", "pending" or how the delivery settled
  attempts,  \* how often it was sent
  source     \* the dead letter it redrives, 0 for a delivery of a caller

view == <<phase, attempts, source>>

Final == {"succeeded", "failed", "blocked", "dead_letter"}

Redriven(i) == {j \in Ids : source[j] = i}

Init ==
  /\ phase = [i \in Ids |-> "none"]
  /\ attempts = [i \in Ids |-> 0]
  /\ source = [i \in Ids |-> 0]

Accept(i) ==
  /\ phase[i] = "none"
  /\ phase' = [phase EXCEPT ![i] = "pending"]
  /\ UNCHANGED <<attempts, source>>

\* Refused at the door, or sent at once: the receipt is settled from the start.
Answer(i, s, n) ==
  /\ phase[i] = "none" /\ s # "dead_letter"
  /\ phase' = [phase EXCEPT ![i] = s]
  /\ attempts' = [attempts EXCEPT ![i] = n]
  /\ UNCHANGED source

Retry(i) ==
  /\ phase[i] = "pending" /\ attempts[i] + 1 < MaxAttempts
  /\ attempts' = [attempts EXCEPT ![i] = @ + 1]
  /\ UNCHANGED <<phase, source>>

Settle(i, s, n) ==
  /\ phase[i] = "pending"
  /\ attempts[i] + n <= MaxAttempts
  /\ n = 0 => s = "dead_letter"
  /\ phase' = [phase EXCEPT ![i] = s]
  /\ attempts' = [attempts EXCEPT ![i] = @ + n]
  /\ UNCHANGED source

Redrive(i, j) ==
  /\ phase[i] = "dead_letter" /\ phase[j] = "none"
  /\ Cardinality(Redriven(i)) < MaxRedrives
  /\ phase' = [phase EXCEPT ![j] = "pending"]
  /\ source' = [source EXCEPT ![j] = i]
  /\ UNCHANGED attempts

Next ==
  \E i \in Ids :
    \/ Accept(i)
    \/ Retry(i)
    \/ \E s \in Final, n \in {0, 1} : Answer(i, s, n) \/ Settle(i, s, n)
    \/ \E j \in Ids : Redrive(i, j)

Spec == Init /\ [][Next]_view
=============================================================================
