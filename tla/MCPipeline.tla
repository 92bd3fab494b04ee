----------------------------- MODULE MCPipeline -----------------------------
(* Finite instances of Pipeline for TLC.                                   *)
EXTENDS Pipeline

Interchangeable == Permutations(Attempt)
=============================================================================
