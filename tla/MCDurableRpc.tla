---------------------------- MODULE MCDurableRpc ----------------------------
(* DurableRpc for TLC: requests and messages are interchangeable. *)
EXTENDS DurableRpc, TLC

Symmetry == Permutations(Requests) \cup Permutations(Messages)
=============================================================================
