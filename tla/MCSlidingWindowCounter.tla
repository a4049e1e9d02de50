---- MODULE MCSlidingWindowCounter ----
(* Small instances of SlidingWindowCounter for TLC. *)
EXTENDS SlidingWindowCounter, TLC

Symmetry == Permutations(Tasks \ Unreliable)
====
