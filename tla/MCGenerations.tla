--------------------------- MODULE MCGenerations ---------------------------
(***************************************************************************)
(* Small instances of Generations for TLC.                                 *)
(***************************************************************************)
EXTENDS Generations, TLC

CONSTANTS c1, x, y

\* Contents are interchangeable.
Symmetry == Permutations(Contents)
=============================================================================
