--------------------------- MODULE MCExportSigning ---------------------------
(* ExportSigning with two lifecycle policies, in ticks of the model's clock.   *)
EXTENDS ExportSigning, TLC

Automatic == [auto |-> TRUE, rotate |-> 1, expire |-> 2, retain |-> 1]
Manual    == [auto |-> FALSE, rotate |-> 1, expire |-> 2, retain |-> 2]

MCPolicies == {Automatic, Manual}

Symmetric == Permutations(Instances)
=============================================================================
