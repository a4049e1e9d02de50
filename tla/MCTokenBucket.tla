---- MODULE MCTokenBucket ----
(* Small instances of TokenBucket for TLC. *)
EXTENDS TokenBucket, TLC

Symmetry == Permutations(Tasks \ Unreliable)
====
