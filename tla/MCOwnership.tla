---------------------------- MODULE MCOwnership ----------------------------
(* Neither places nor callables differ but by what happens to them. *)
EXTENDS Ownership, TLC

Symmetry == Permutations(Places) \cup Permutations(Callables)
=============================================================================
