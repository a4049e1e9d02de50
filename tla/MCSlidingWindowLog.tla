---- MODULE MCSlidingWindowLog ----
(* Small instances of SlidingWindowLog for TLC. *)
EXTENDS SlidingWindowLog

Symmetry == Permutations(Tasks \ Unreliable)
====
