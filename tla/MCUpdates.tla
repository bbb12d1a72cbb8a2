----------------------------- MODULE MCUpdates -----------------------------
(***************************************************************************)
(* Instances of Updates for TLC.                                           *)
(***************************************************************************)
EXTENDS Updates, TLC

CONSTANTS c1, c2, w1, w2

Symmetry == Permutations(Windows)
=============================================================================
