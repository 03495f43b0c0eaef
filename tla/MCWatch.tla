------------------------------- MODULE MCWatch -------------------------------
(***************************************************************************)
(* A small instance of Watch for TLC: one source with a schedule of its    *)
(* own, one without.                                                       *)
(***************************************************************************)
EXTENDS Watch

CONSTANTS s1, s2

Own3 == [s \in Sources |-> IF s = s1 THEN 3 ELSE Unset]
=============================================================================
