---------------------------- MODULE MCLocalStore ----------------------------
(* Threads, keys and values are alike, for TLC. *)
EXTENDS LocalStore, TLC

Symmetry == Permutations(Callers) \cup Permutations(Keys) \cup Permutations(Values)
=============================================================================
