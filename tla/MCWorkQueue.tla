---------------------------- MODULE MCWorkQueue ----------------------------
(* A finite instance of WorkQueue for TLC.                                 *)
EXTENDS WorkQueue, TLC

Interchangeable == Permutations(Attempt) \union Permutations(Serial)
=============================================================================
