----------------------------- MODULE MCPdAnswers -----------------------------
(***************************************************************************)
(* Nothing tells one offer from another, so states that differ in the      *)
(* names of the offers are explored once.                                  *)
(***************************************************************************)
EXTENDS PdAnswers, TLC

Symmetry == Permutations(Offers)

\* Bound: a packet is lost or the firmware restarts, not both.
OneFault == noise + boots <= 1
=============================================================================
