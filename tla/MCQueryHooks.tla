---------------------------- MODULE MCQueryHooks ----------------------------
(* QueryHooks for TLC: components and keys are interchangeable. *)
EXTENDS QueryHooks, TLC

Symmetry == Permutations(Components) \cup Permutations(Keys)
=============================================================================
