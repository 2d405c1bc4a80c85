---------------------------- MODULE MCModelPolicy ----------------------------
(* ModelPolicy with two language models for TLC; the cfg files choose the rest. *)
EXTENDS ModelPolicy

CONSTANTS a, b

\* The second deployment has dropped a model, and names it as its default.
MCDeployments == {[allowed |-> <<a, b>>, default |-> a], [allowed |-> <<b>>, default |-> a]}
MCProposals   == {[allowed |-> <<a>>, default |-> a], [allowed |-> <<a, b>>, default |-> b]}
=============================================================================
