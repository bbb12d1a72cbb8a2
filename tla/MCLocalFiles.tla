---------------------------- MODULE MCLocalFiles ----------------------------
(***************************************************************************)
(* Instances of LocalFiles for TLC.                                        *)
(***************************************************************************)
EXTENDS LocalFiles, TLC

CONSTANTS b1, b2

Symmetry == Permutations(Bases)
=============================================================================
