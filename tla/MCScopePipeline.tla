-------------------------- MODULE MCScopePipeline --------------------------
(* Small instances of ScopePipeline for TLC. *)
EXTENDS ScopePipeline, TLC

\* The calls and the transactions are interchangeable (safety runs only).
Symmetry == Permutations(Op) \cup Permutations(Tx)
=============================================================================
