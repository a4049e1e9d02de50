---------------------------- MODULE MCFixedWindow ----------------------------
(***************************************************************************)
(* Small instances of FixedWindow for TLC.                                 *)
(***************************************************************************)
EXTENDS FixedWindow, TLC

Symmetry == Permutations(Tasks \ Unreliable)
=============================================================================
