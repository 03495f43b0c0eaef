---------------------------- MODULE MCWriteBack ----------------------------
(***************************************************************************)
(* A small instance of WriteBack for TLC: two sessions, and upstreams of   *)
(* each kind; two of the documents share the name of their suggestions.    *)
(***************************************************************************)
EXTENDS WriteBack, TLC

CONSTANTS s1, s2, clone, lone, url, drive, twin, other

Names == [d \in {drive, twin, other} |-> IF d = other THEN "own" ELSE "shared"]

\* Sessions are alike.
Alike == Permutations({s1, s2})
=============================================================================
