------------------------- MODULE MCUserTransaction -------------------------
(* Small instances of UserTransaction for TLC. *)
EXTENDS UserTransaction, TLC

\* The goroutines and the transactions are interchangeable.
Symmetry == Permutations(Session) \cup Permutations(Tx)
=============================================================================
