---- MODULE MCLeakyBucket ----
(* Small instances of LeakyBucket for TLC. *)
EXTENDS LeakyBucket, TLC

Symmetry == Permutations(Tasks \ Unreliable)
====
