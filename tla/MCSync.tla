------------------------------- MODULE MCSync -------------------------------
(***************************************************************************)
(* Small instances of Sync for TLC: two sources with a document or two,    *)
(* and one index.md (i1).                                                  *)
(***************************************************************************)
EXTENDS Sync, TLC

CONSTANTS s1, s2, a1, a2, b1, ca1, ca2, cb1, x, y, w, v,
          i1, ci1

MCSourceOf == [u \in Uris |-> IF u \in {b1, i1} THEN s2 ELSE s1]
MCPathOf ==
  [u \in Uris |-> CASE u = a1 -> ca1 [] u = a2 -> ca2 [] u = b1 -> cb1
              [] u = i1 -> ci1]

\* Any owner may write any content, or delete.
AnyWrite == Uris \X (Contents \cup {None})

\* No two documents ever have the same content, so that nothing is adopted.
OwnWrites ==
  ({a1} \X {x, y, None}) \cup ({b1} \X {w, None}) \cup ({i1} \X {v, None})

\* x and y are interchangeable in OwnWrites, so a1 starts with x or without.
MCInit == Init /\ upstream[a1] # y
MCFairSpec == MCInit /\ [][Next]_vars /\ Fairness

\* The two documents of s1 are interchangeable, together with their paths.
Swap == a1 :> a2 @@ a2 :> a1 @@ ca1 :> ca2 @@ ca2 :> ca1
Symmetry == {Swap, [e \in DOMAIN Swap |-> e]}

\* The properties of the safety run say nothing once a lapse has happened.
NoLapseYet == lapses = {}
=============================================================================
