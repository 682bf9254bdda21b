----------------------------- MODULE MCApiKeys -----------------------------
(* Instances of ApiKeys for TLC. *)
EXTENDS ApiKeys, TLC

Symmetry == Permutations(Tokens) \cup Permutations(Touches) \cup Permutations(Requests)
=============================================================================
