----------------------------- MODULE MCPipeline -----------------------------
(* Pipeline for TLC: the clients are interchangeable. *)
EXTENDS Pipeline, TLC

ClientSymmetry == Permutations(Clients)
=============================================================================
