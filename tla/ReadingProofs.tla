--------------------------- MODULE ReadingProofs ---------------------------
(***************************************************************************)
(* Proofs about what a session reads, for any concepts, links, directories *)
(* and scopes: the walk of Traversal first, for any view and depth, then   *)
(* loading a bundle, the view, and the walk on it, whichever tool is       *)
(* called, and last the search of Search, with a generation changing under *)
(* it.                                                                     *)
(*                                                                         *)
(* The inductive invariant of the walk says where every met concept        *)
(* stands: those of the frontier were met at the hop before, those of the  *)
(* next frontier at this hop, and the visible targets of every concept     *)
(* already walked are met, no later than one hop after it.  For the        *)
(* distances, a path leads to every met concept in as many links as its    *)
(* hop, and no shorter one leads to a concept not met by then.             *)
(*                                                                         *)
(* That of the search says that only a complete list of keyword hits is    *)
(* added to, that a concept of the store is a candidate until it is a hit  *)
(* or left out, and that no candidate left is nearer than one taken.       *)
(***************************************************************************)
EXTENDS Search, SequenceTheorems, FiniteSetTheorems, TLAPS

\* Among the visible concepts, those seen are those met; the start is never
\* reported; and only visible concepts are met.
SeenIsMet ==
  /\ start \in seen
  /\ ~Reached(start)
  /\ \A c \in Concepts : Reached(c) => c \in visible /\ c \in seen
  /\ \A c \in visible : c \in seen => Met(c)

\* No concept is met later than this hop; where the two frontiers stand.
Frontiers ==
  /\ \A c \in Concepts : Reached(c) => reached[c].hop <= hop
  /\ \A c \in Concepts : Reached(c) => reached[c].hop >= 1
  /\ \A c \in frontier : c \in visible /\ Met(c) /\ Hop(c) = hop - 1
  /\ \A c \in nextFrontier : c \in visible /\ Met(c) /\ Hop(c) = hop
  /\ \A c \in visible : Met(c) /\ Hop(c) = hop => c \in nextFrontier

\* The visible targets of a concept that has been walked are met in time.
Walked ==
  \A d, c \in visible :
    /\ Met(d) /\ (Hop(d) < hop - 1 \/ (Hop(d) = hop - 1 /\ d \notin frontier))
    /\ c \in Linked(d)
    => Met(c) /\ Hop(c) <= Hop(d) + 1

IInv == TypeOK /\ SeenIsMet /\ Frontiers /\ ViaIsALink /\ OnlyVisible /\ Walked

\* Links lead to ids.
LEMMA LinkedIsId ==
  ASSUME TypeOK, NEW d \in Concepts
  PROVE  Linked(d) \subseteq Ids
BY IdsAssumption, TargetsAssumption DEF TypeOK, Linked, Resolve

\* The initial states of a walk satisfy the invariant.
LEMMA InitInv == Init => IInv
<1> SUFFICES ASSUME Init PROVE IInv
  OBVIOUS
<1>1. TypeOK
  BY StartAssumption, DepthAssumption DEF Init, TypeOK, Ids, Depths
<1>2. \A c \in Concepts : ~Reached(c)
  BY DEF Init, Reached
<1>3. SeenIsMet
  BY <1>2, StartAssumption DEF Init, SeenIsMet, Met
<1>4. Frontiers
  BY <1>2, StartAssumption DEF Init, Frontiers, Met, Hop
<1>5. ViaIsALink /\ OnlyVisible
  BY <1>2 DEF ViaIsALink, OnlyVisible
<1>6. Walked
  BY <1>2, <1>1 DEF Init, Walked, Met, Hop, TypeOK
<1> QED
  BY <1>1, <1>3, <1>4, <1>5, <1>6 DEF IInv

\* Walking one document of the frontier preserves the invariant.
LEMMA WalkInv ==
  ASSUME IInv, NEW d \in frontier, Walk(d)
  PROVE  IInv'
<1> DEFINE fresh == Linked(d) \ seen
<1> DEFINE found == fresh \cap visible
<1> USE DEF IInv
<1>1. /\ d \in Concepts /\ d \in visible /\ Met(d) /\ Hop(d) = hop - 1
      /\ ~Done
  BY DEF TypeOK, Frontiers, Walk
<1>2. /\ seen' = seen \cup fresh
      /\ nextFrontier' = nextFrontier \cup found
      /\ reached' = [c \in Concepts |->
           IF c \in found THEN [hop |-> hop, via |-> d] ELSE reached[c]]
      /\ frontier' = frontier \ {d}
      /\ visible' = visible /\ links' = links /\ depth' = depth /\ hop' = hop
  BY DEF Walk, configVars
<1> HIDE DEF fresh
<1>3. fresh \subseteq Ids /\ fresh \subseteq Linked(d) /\ fresh \cap seen = {}
      /\ Linked(d) \subseteq seen \cup fresh
  BY LinkedIsId, <1>1 DEF fresh
<1>4. start \notin found /\ hop \in Nat /\ hop >= 1
  BY <1>3, DepthAssumption DEF SeenIsMet, TypeOK
<1>5. [hop |-> hop, via |-> d] # NotReached
  BY <1>1, <1>4, NotReachedAssumption
<1>6. /\ \A c \in found : c \in Concepts /\ Reached(c)'
           /\ reached'[c].hop = hop /\ reached'[c].via = d
      /\ \A c \in Concepts \ found : reached'[c] = reached[c]
      /\ \A c \in Concepts \ found : Reached(c)' <=> Reached(c)
  BY <1>2, <1>5 DEF Reached, TypeOK
<1>7. \A c \in found : ~Met(c) /\ c # start
  BY <1>3, <1>4 DEF SeenIsMet, Met, TypeOK
<1>8. /\ \A c \in Concepts :
           Met(c) => Met(c)' /\ Hop(c)' = Hop(c) /\ c \notin found
      /\ \A c \in found : Met(c)' /\ Hop(c)' = hop
      /\ \A c \in Concepts : Met(c)' => Met(c) \/ c \in found
  BY <1>6, <1>7 DEF Met, Hop
<1>9. \A e \in Concepts : Linked(e)' = Linked(e)
  BY <1>2 DEF Linked, Resolve
<1>10. TypeOK'
  BY <1>1, <1>2, <1>3, <1>4 DEF TypeOK
<1>11. SeenIsMet'
  <2>1. start \in seen' /\ ~Reached(start)'
    BY <1>2, <1>4, <1>6, StartAssumption DEF SeenIsMet
  <2>2. \A c \in Concepts : Reached(c)' => c \in visible' /\ c \in seen'
    BY <1>2, <1>6 DEF SeenIsMet
  <2>3. \A c \in visible' : c \in seen' => Met(c)'
    BY <1>2, <1>8 DEF SeenIsMet, TypeOK
  <2> QED
    BY <2>1, <2>2, <2>3 DEF SeenIsMet
<1>12. Frontiers'
  <2>1. \A c \in Concepts :
          Reached(c)' => reached'[c].hop <= hop' /\ reached'[c].hop >= 1
    BY <1>2, <1>4, <1>6 DEF Frontiers
  <2>2. \A c \in frontier' : c \in visible' /\ Met(c)' /\ Hop(c)' = hop' - 1
    BY <1>2, <1>8 DEF Frontiers, TypeOK
  <2>3. \A c \in nextFrontier' : c \in visible' /\ Met(c)' /\ Hop(c)' = hop'
    BY <1>2, <1>8 DEF Frontiers, TypeOK
  <2>4. \A c \in visible' : Met(c)' /\ Hop(c)' = hop' => c \in nextFrontier'
    BY <1>2, <1>8 DEF Frontiers, TypeOK
  <2> QED
    BY <2>1, <2>2, <2>3, <2>4 DEF Frontiers
<1>13. ViaIsALink'
  <2> SUFFICES ASSUME NEW c \in Concepts, NEW e \in Concepts,
                      Reached(c)', reached'[c].via = e
               PROVE  /\ c \in Linked(e)' /\ Met(e)'
                      /\ reached'[c].hop = Hop(e)' + 1
    BY DEF ViaIsALink
  <2>1. CASE c \in found
    <3>1. e = d /\ reached'[c].hop = hop
      BY <2>1, <1>6
    <3>2. c \in Linked(d)
      BY <2>1, <1>3
    <3> QED
      BY <3>1, <3>2, <1>1, <1>4, <1>8, <1>9
  <2>2. CASE c \notin found
    <3>1. Reached(c) /\ reached'[c] = reached[c]
      BY <2>2, <1>6
    <3>2. c \in Linked(e) /\ Met(e) /\ reached[c].hop = Hop(e) + 1
      BY <3>1 DEF ViaIsALink
    <3> QED
      BY <3>1, <3>2, <1>8, <1>9
  <2> QED
    BY <2>1, <2>2
<1>14. OnlyVisible'
  <2> SUFFICES ASSUME NEW c \in Concepts, Reached(c)'
               PROVE  c \in visible' /\ reached'[c].via \in visible'
    BY DEF OnlyVisible
  <2>1. CASE c \in found
    BY <2>1, <1>1, <1>2, <1>6
  <2>2. CASE c \notin found
    BY <2>2, <1>2, <1>6 DEF OnlyVisible
  <2> QED
    BY <2>1, <2>2
<1>15. Walked'
  <2> SUFFICES ASSUME NEW e \in visible, NEW c \in visible, Met(e)',
                      \/ Hop(e)' < hop - 1
                      \/ Hop(e)' = hop - 1 /\ e \notin frontier \ {d},
                      c \in Linked(e)
               PROVE  Met(c)' /\ Hop(c)' <= Hop(e)' + 1
    BY <1>2, <1>9 DEF Walked, TypeOK
  <2>1. e \in Concepts /\ c \in Concepts
    BY DEF TypeOK
  <2>2. Met(e) /\ Hop(e)' = Hop(e)
    BY <2>1, <1>4, <1>8
  <2>3. CASE e = d
    <3>1. c \in seen \/ c \in found
      BY <2>3, <1>3
    <3>2. CASE c \in found
      BY <3>2, <2>2, <2>3, <1>1, <1>4, <1>8
    <3>3. CASE c \in seen
      <4>1. Met(c)
        BY <3>3 DEF SeenIsMet
      <4>2. Hop(c) <= hop
        BY <4>1, <2>1, <1>4 DEF Frontiers, Met, Hop
      <4> QED
        BY <4>1, <4>2, <2>1, <2>2, <2>3, <1>1, <1>4, <1>8
    <3> QED
      BY <3>1, <3>2, <3>3
  <2>4. CASE e # d
    <3>1. Hop(e) < hop - 1 \/ (Hop(e) = hop - 1 /\ e \notin frontier)
      BY <2>2, <2>4
    <3>2. Met(c) /\ Hop(c) <= Hop(e) + 1
      BY <3>1, <2>2 DEF Walked
    <3> QED
      BY <3>2, <2>1, <2>2, <1>8
  <2> QED
    BY <2>3, <2>4
<1> QED
  BY <1>10, <1>11, <1>12, <1>13, <1>14, <1>15

\* Going on to the next hop preserves the invariant.
LEMMA NextHopInv ==
  ASSUME IInv, NextHop
  PROVE  IInv'
<1> USE DEF IInv
<1>1. /\ ~Done /\ frontier = {} /\ hop' = hop + 1
      /\ frontier' = nextFrontier /\ nextFrontier' = {}
      /\ visible' = visible /\ links' = links /\ depth' = depth
      /\ seen' = seen /\ reached' = reached
  BY DEF NextHop, configVars
<1>2. hop \in Nat /\ hop >= 1 /\ hop <= MaxDepth
  BY <1>1, DepthAssumption DEF TypeOK, Depths, Done
<1>3. /\ \A c \in Concepts : Reached(c)' <=> Reached(c)
      /\ \A c \in Concepts : Met(c)' <=> Met(c)
      /\ \A c \in Concepts : Hop(c)' = Hop(c)
      /\ \A c \in Concepts : Linked(c)' = Linked(c)
  BY <1>1 DEF Reached, Met, Hop, Linked, Resolve
<1>4. \A c \in Concepts : Met(c) => Hop(c) \in Nat /\ Hop(c) <= hop
  BY <1>2 DEF TypeOK, Frontiers, Met, Hop, Reached
<1>5. TypeOK'
  BY <1>1, <1>2, DepthAssumption DEF TypeOK
<1>6. SeenIsMet'
  BY <1>1, <1>3, StartAssumption DEF SeenIsMet, TypeOK
<1>7. Frontiers'
  <2>1. \A c \in Concepts :
          Reached(c)' => reached'[c].hop <= hop' /\ reached'[c].hop >= 1
    <3> SUFFICES ASSUME NEW c \in Concepts, Reached(c)
                 PROVE  reached[c].hop <= hop + 1 /\ reached[c].hop >= 1
      BY <1>1, <1>3
    <3>1. reached[c].hop \in Nat
      BY DEF TypeOK, Reached
    <3> QED
      BY <3>1, <1>2 DEF Frontiers
  <2>2. \A c \in frontier' : c \in visible' /\ Met(c)' /\ Hop(c)' = hop' - 1
    BY <1>1, <1>2, <1>3 DEF Frontiers, TypeOK
  <2>3. \A c \in nextFrontier' : c \in visible' /\ Met(c)' /\ Hop(c)' = hop'
    BY <1>1
  <2>4. \A c \in visible' : Met(c)' /\ Hop(c)' = hop' => c \in nextFrontier'
    BY <1>1, <1>2, <1>3, <1>4 DEF TypeOK
  <2> QED
    BY <2>1, <2>2, <2>3, <2>4 DEF Frontiers
<1>8. ViaIsALink'
  <2> SUFFICES ASSUME NEW c \in Concepts, NEW e \in Concepts,
                      Reached(c)', reached'[c].via = e
               PROVE  /\ c \in Linked(e)' /\ Met(e)'
                      /\ reached'[c].hop = Hop(e)' + 1
    BY DEF ViaIsALink
  <2> QED
    BY <1>1, <1>3 DEF ViaIsALink
<1>9. OnlyVisible'
  BY <1>1, <1>3 DEF OnlyVisible
<1>10. Walked'
  <2> SUFFICES ASSUME NEW e \in visible, NEW c \in visible, Met(e)',
                      \/ Hop(e)' < hop
                      \/ Hop(e)' = hop /\ e \notin nextFrontier,
                      c \in Linked(e)
               PROVE  Met(c)' /\ Hop(c)' <= Hop(e)' + 1
    BY <1>1, <1>2, <1>3 DEF Walked, TypeOK
  <2>1. e \in Concepts /\ c \in Concepts
    BY DEF TypeOK
  <2>2. Met(e) /\ Hop(e)' = Hop(e) /\ Hop(e) \in Nat
    BY <2>1, <1>3, <1>4
  <2>3. Hop(e) < hop
    BY <2>2 DEF Frontiers
  <2>4. Hop(e) < hop - 1 \/ (Hop(e) = hop - 1 /\ e \notin frontier)
    BY <2>2, <2>3, <1>1, <1>2
  <2>5. Met(c) /\ Hop(c) <= Hop(e) + 1
    BY <2>2, <2>4 DEF Walked
  <2> QED
    BY <2>1, <2>2, <2>5, <1>3
<1> QED
  BY <1>5, <1>6, <1>7, <1>8, <1>9, <1>10

\* A stuttering step preserves the invariant.
LEMMA StutterInv ==
  ASSUME IInv, UNCHANGED vars
  PROVE  IInv'
BY DEF IInv, vars, configVars, TypeOK, SeenIsMet, Frontiers, ViaIsALink,
       OnlyVisible, Walked, Reached, Met, Hop, Linked, Resolve

\* The invariant of the walk, for every graph, view and depth.
THEOREM Invariance == Spec => []IInv
<1>1. Init => IInv
  BY InitInv
<1>2. IInv /\ [Next]_vars => IInv'
  BY NextHopInv, WalkInv, StutterInv DEF Next
<1> QED
  BY <1>1, <1>2, PTL DEF Spec

\* Every variable of the walk has its type.
THEOREM TypeCorrect == Spec => []TypeOK
<1>1. IInv => TypeOK
  BY DEF IInv
<1> QED
  BY <1>1, Invariance, PTL

\* Of a finished walk, from what has been walked: no visible concept that a
\* reported one links to is left out, short of the depth.
LEMMA NothingIsMissed ==
  ASSUME IInv
  PROVE  NothingMissed
<1> SUFFICES ASSUME Done, NEW d \in visible, NEW c \in visible,
                    Met(d), Hop(d) < depth, c \in Linked(d)
             PROVE  Met(c) /\ Hop(c) <= Hop(d) + 1
  BY DEF NothingMissed
<1>1. d \in Concepts /\ hop \in Int /\ depth \in Int
  BY DepthAssumption DEF IInv, TypeOK, Depths
<1>2. Hop(d) \in Int
  BY <1>1 DEF IInv, TypeOK, Met, Reached, Hop
<1>3. Hop(d) < hop - 1
  BY <1>1, <1>2 DEF Done
<1> QED
  BY <1>3 DEF IInv, Walked

\* A reported concept is led to by a link that names no bundle or a loaded one.
LEMMA LinksResolve ==
  ASSUME IInv
  PROVE  OnlyLoadedBundles
<1> SUFFICES ASSUME NEW c \in Concepts, Reached(c)
             PROVE  \E t \in links[reached[c].via] :
                      t.id = c /\ (t.bundle = Here \/ t.bundle \in Loaded)
  BY DEF OnlyLoadedBundles
<1>1. reached[c].via \in Concepts
  BY DEF IInv, TypeOK, Reached
<1>2. c \in Linked(reached[c].via)
  BY <1>1 DEF IInv, ViaIsALink
<1>3. PICK t \in links[reached[c].via] : c = Resolve(t) /\ c # Nowhere
  BY <1>2 DEF Linked
<1> QED
  BY <1>3 DEF Resolve, Loads

\* follow_links of a view reports, and names as the way there, only concepts of
\* that view; each is linked to by the one it is said to be reached by, met
\* exactly one hop earlier, whatever the cycles, and by a link that resolves;
\* and no visible concept a reported one links to is missed, short of the
\* depth.
THEOREM ReportIsRightHolds == Spec => []ReportIsRight
<1>1. IInv => ReportIsRight
  BY NothingIsMissed, LinksResolve DEF IInv, ReportIsRight
<1> QED
  BY <1>1, Invariance, PTL

-----------------------------------------------------------------------------
(* Distances.  What is met is at the end of a path of its hop, every path   *)
(* shorter than this hop ends at what is met in time, and no hop is beyond  *)
(* the depth.                                                              *)
ByPath == \A c \in Concepts : Met(c) => Path(Hop(c), c)
NoShortcut ==
  \A n \in 0..hop - 1, c \in Concepts : Path(n, c) => Met(c) /\ Hop(c) <= n
InDepth == \A c \in Concepts : Reached(c) => reached[c].hop <= depth
DistanceInv == ByPath /\ NoShortcut /\ InDepth

\* Paths are of the view and its links only.
LEMMA PathsStay ==
  ASSUME visible' = visible, links' = links, NEW n, NEW c
  PROVE  Path(n, c)' <=> Path(n, c)
BY DEF Path, Linked, Resolve

\* No path leads on from the start before the first hop.
LEMMA DistanceInit == Init => DistanceInv
<1> SUFFICES ASSUME Init PROVE DistanceInv
  OBVIOUS
<1>1. /\ \A c \in Concepts : ~Reached(c)
      /\ start \in visible /\ hop = 1
  BY DEF Init, Reached
<1>2. Path(0, start)
  <2> DEFINE p == [k \in 0..0 |-> start]
  <2>1. p \in [0..0 -> visible] /\ p[0] = start /\ \A k \in 1..0 : FALSE
    BY <1>1
  <2> HIDE DEF p
  <2> QED
    BY <2>1 DEF Path
<1>3. ByPath
  BY <1>1, <1>2 DEF ByPath, Met, Hop
<1>4. NoShortcut
  BY <1>1 DEF NoShortcut, Path, Met, Hop
<1>5. InDepth
  BY <1>1 DEF InDepth
<1> QED
  BY <1>3, <1>4, <1>5 DEF DistanceInv

\* A path goes on over a link to a visible concept.
LEMMA PathGoesOn ==
  ASSUME NEW n \in Nat, NEW d, NEW c \in visible, Path(n, d), c \in Linked(d)
  PROVE  Path(n + 1, c)
<1>1. PICK p \in [0..n -> visible] :
        /\ p[0] = start /\ p[n] = d
        /\ \A k \in 1..n : p[k] \in Linked(p[k - 1])
  BY DEF Path
<1> DEFINE q == [k \in 0..n + 1 |-> IF k = n + 1 THEN c ELSE p[k]]
<1>2. q \in [0..n + 1 -> visible] /\ q[0] = start /\ q[n + 1] = c
  BY <1>1
<1>3. \A k \in 1..n + 1 : q[k] \in Linked(q[k - 1])
  <2> SUFFICES ASSUME NEW k \in 1..n + 1
               PROVE  q[k] \in Linked(q[k - 1])
    OBVIOUS
  <2>1. CASE k = n + 1
    <3>1. q[k] = c /\ q[k - 1] = d
      BY <2>1, <1>1
    <3> QED
      BY <3>1
  <2>2. CASE k # n + 1
    <3>1. k \in 1..n /\ q[k] = p[k] /\ q[k - 1] = p[k - 1]
      BY <2>2
    <3> QED
      BY <3>1, <1>1
  <2> QED
    BY <2>1, <2>2
<1> HIDE DEF q
<1> QED
  BY <1>2, <1>3 DEF Path

\* A path without its last link is a path.
LEMMA PathComesFrom ==
  ASSUME NEW n \in Nat, NEW c, Path(n + 1, c)
  PROVE  \E d \in visible : Path(n, d) /\ c \in Linked(d) /\ c \in visible
<1>1. PICK p \in [0..n + 1 -> visible] :
        /\ p[0] = start /\ p[n + 1] = c
        /\ \A k \in 1..n + 1 : p[k] \in Linked(p[k - 1])
  BY DEF Path
<1> DEFINE q == [k \in 0..n |-> p[k]]
<1>2. /\ q \in [0..n -> visible] /\ q[0] = start /\ q[n] = p[n]
      /\ \A k \in 1..n : q[k] = p[k] /\ q[k - 1] = p[k - 1]
  BY <1>1
<1> HIDE DEF q
<1>3. Path(n, p[n])
  BY <1>1, <1>2 DEF Path
<1>4. n + 1 \in 1..n + 1 /\ (n + 1) - 1 = n
  OBVIOUS
<1>5. c \in Linked(p[n]) /\ p[n] \in visible /\ c \in visible
  BY <1>1, <1>4
<1> QED
  BY <1>3, <1>5

\* What is found by walking a document is one link further than it.
LEMMA DistanceWalk ==
  ASSUME IInv, IInv', DistanceInv, NEW d \in frontier, Walk(d)
  PROVE  DistanceInv'
<1> DEFINE found == (Linked(d) \ seen) \cap visible
<1>1. /\ d \in Concepts /\ d \in visible /\ Met(d) /\ Hop(d) = hop - 1
      /\ hop \in Nat /\ hop >= 1 /\ hop <= depth /\ depth \in Int
  BY DepthAssumption DEF IInv, TypeOK, Frontiers, Walk, Done, Depths
<1>2. /\ visible' = visible /\ links' = links /\ hop' = hop /\ depth' = depth
      /\ reached' = [c \in Concepts |->
           IF c \in found THEN [hop |-> hop, via |-> d] ELSE reached[c]]
  BY DEF Walk, configVars
<1>3. found \subseteq visible /\ found \subseteq Linked(d)
      /\ found \subseteq Concepts /\ found \cap seen = {}
  BY DEF IInv, TypeOK
<1> HIDE DEF found
<1>4. [hop |-> hop, via |-> d] # NotReached
  BY <1>1, NotReachedAssumption
<1>5. \A c \in found : Met(c)' /\ Hop(c)' = hop /\ ~Met(c) /\ c # start
  BY <1>2, <1>3, <1>4 DEF IInv, SeenIsMet, Met, Reached, Hop
<1>6. \A c \in Concepts \ found :
        /\ Reached(c)' <=> Reached(c)
        /\ Met(c)' <=> Met(c)
        /\ reached'[c] = reached[c] /\ Hop(c)' = Hop(c)
  BY <1>2 DEF Met, Reached, Hop
<1>7. ByPath'
  <2> SUFFICES ASSUME NEW c \in Concepts, Met(c)', NEW n, n = Hop(c)'
               PROVE  Path(n, c)'
    BY DEF ByPath
  <2>1. CASE c \in found
    <3>1. Path(hop - 1, d)
      BY <1>1 DEF DistanceInv, ByPath
    <3>2. Path((hop - 1) + 1, c) /\ (hop - 1) + 1 = hop
      BY <2>1, <3>1, <1>1, <1>3, PathGoesOn
    <3> QED
      BY <2>1, <3>2, <1>2, <1>5, PathsStay
  <2>2. CASE c \notin found
    <3>1. Met(c) /\ n = Hop(c)
      BY <2>2, <1>6
    <3>2. Path(n, c)
      BY <3>1 DEF DistanceInv, ByPath
    <3> QED
      BY <3>2, <1>2, PathsStay
  <2> QED
    BY <2>1, <2>2
<1>8. NoShortcut'
  <2> SUFFICES ASSUME NEW n \in 0..hop - 1, NEW c \in Concepts, Path(n, c)'
               PROVE  Met(c)' /\ Hop(c)' <= n
    BY <1>2 DEF NoShortcut
  <2>1. Met(c) /\ Hop(c) <= n
    BY <1>2, PathsStay DEF DistanceInv, NoShortcut
  <2> QED
    BY <2>1, <1>5, <1>6
<1>9. InDepth'
  BY <1>1, <1>2, <1>3, <1>6 DEF DistanceInv, InDepth
<1> QED
  BY <1>7, <1>8, <1>9 DEF DistanceInv

\* Once a frontier is walked, so are all paths of this hop.
LEMMA DistanceNextHop ==
  ASSUME IInv, DistanceInv, NextHop
  PROVE  DistanceInv'
<1>1. /\ frontier = {} /\ hop' = hop + 1 /\ hop \in Nat /\ hop >= 1
      /\ visible' = visible /\ links' = links /\ depth' = depth
      /\ reached' = reached
  BY DepthAssumption DEF NextHop, configVars, IInv, TypeOK
<1>2. /\ \A c \in Concepts : Reached(c)' <=> Reached(c)
      /\ \A c \in Concepts : Met(c)' <=> Met(c)
      /\ \A c \in Concepts : Hop(c)' = Hop(c)
  BY <1>1 DEF Reached, Met, Hop
<1>3. ByPath'
  <2> SUFFICES ASSUME NEW c \in Concepts, Met(c)', NEW n, n = Hop(c)'
               PROVE  Path(n, c)'
    BY DEF ByPath
  <2>1. Path(n, c)
    BY <1>2 DEF DistanceInv, ByPath
  <2> QED
    BY <2>1, <1>1, PathsStay
<1>4. NoShortcut'
  <2> SUFFICES ASSUME NEW n \in 0..hop, NEW c \in Concepts, Path(n, c)'
               PROVE  Met(c) /\ Hop(c) <= n
    BY <1>1, <1>2 DEF NoShortcut
  <2>1. Path(n, c)
    BY <1>1, PathsStay
  <2>2. CASE n <= hop - 1
    BY <2>1, <2>2, <1>1 DEF DistanceInv, NoShortcut
  <2>3. CASE n = hop
    <3>1. hop - 1 \in Nat /\ (hop - 1) + 1 = hop /\ hop - 1 \in 0..hop - 1
      BY <1>1
    <3>2. Path((hop - 1) + 1, c)
      BY <2>1, <2>3, <3>1
    <3>3. PICK d \in visible :
            Path(hop - 1, d) /\ c \in Linked(d) /\ c \in visible
      BY <3>1, <3>2, PathComesFrom
    <3>4. d \in Concepts
      BY DEF IInv, TypeOK
    <3>5. Met(d) /\ Hop(d) <= hop - 1
      BY <3>1, <3>3, <3>4 DEF DistanceInv, NoShortcut
    <3>6. Hop(d) \in Nat
      BY <3>4, <3>5 DEF IInv, TypeOK, Met, Hop, Reached
    <3>7. Hop(d) < hop - 1 \/ (Hop(d) = hop - 1 /\ d \notin frontier)
      BY <3>5, <3>6, <1>1
    <3>8. Met(c) /\ Hop(c) <= Hop(d) + 1
      BY <3>3, <3>5, <3>7 DEF IInv, Walked
    <3>9. Hop(c) \in Nat
      BY <3>8 DEF IInv, TypeOK, Met, Hop, Reached
    <3> QED
      BY <2>3, <3>5, <3>6, <3>8, <3>9, <1>1
  <2> QED
    BY <2>2, <2>3, <1>1
<1>5. InDepth'
  BY <1>1, <1>2 DEF DistanceInv, InDepth
<1> QED
  BY <1>3, <1>4, <1>5 DEF DistanceInv

\* Where nothing of a walk changes, no distance does.
LEMMA DistanceStutter ==
  ASSUME DistanceInv, UNCHANGED vars
  PROVE  DistanceInv'
<1>1. /\ visible' = visible /\ links' = links /\ depth' = depth /\ hop' = hop
      /\ reached' = reached
  BY DEF vars, configVars
<1> QED
  BY <1>1 DEF DistanceInv, ByPath, NoShortcut, InDepth, Path, Linked, Resolve,
              Met, Hop, Reached

\* A finished walk has the lengths of the shortest paths.
LEMMA DistancesAreShortest ==
  ASSUME IInv, DistanceInv
  PROVE  ShortestInView
<1> SUFFICES ASSUME Done, NEW c \in Concepts
             PROVE  /\ Reached(c) <=>
                         c # start /\ \E n \in 1..depth : Path(n, c)
                    /\ Reached(c) => /\ Path(reached[c].hop, c)
                                     /\ \A n \in 1..reached[c].hop - 1 :
                                          ~Path(n, c)
  BY DEF ShortestInView
<1>1. hop \in Int /\ depth \in Int /\ hop > depth
  BY DepthAssumption DEF Done, IInv, TypeOK, Depths
<1>2. ASSUME Reached(c)
      PROVE  /\ c # start /\ reached[c].hop \in 1..depth
             /\ Path(reached[c].hop, c)
             /\ \A n \in 1..reached[c].hop - 1 : ~Path(n, c)
  <2>1. /\ c # start /\ Met(c) /\ Hop(c) = reached[c].hop
        /\ reached[c].hop \in Nat /\ reached[c].hop >= 1
        /\ reached[c].hop <= depth
    BY <1>2
    DEF IInv, TypeOK, SeenIsMet, Frontiers, DistanceInv, InDepth, Met, Hop,
        Reached
  <2>2. Path(reached[c].hop, c)
    BY <2>1 DEF DistanceInv, ByPath
  <2>3. ASSUME NEW n \in 1..reached[c].hop - 1, Path(n, c)
        PROVE  FALSE
    <3>1. n \in 0..hop - 1
      BY <2>1, <1>1
    <3>2. Hop(c) <= n
      BY <2>3, <3>1 DEF DistanceInv, NoShortcut
    <3> QED
      BY <2>1, <3>2
  <2> QED
    BY <2>1, <2>2, <2>3, <1>1
<1>3. ASSUME NEW n \in 1..depth, Path(n, c), c # start
      PROVE  Reached(c)
  <2>1. n \in 0..hop - 1
    BY <1>1
  <2> QED
    BY <1>3, <2>1 DEF DistanceInv, NoShortcut, Met
<1> QED
  BY <1>2, <1>3

\* A finished walk reports exactly what some path of at most depth links leads
\* to in the view, at the length of the shortest (follow_links), for every
\* graph with its cycles, view and depth.
THEOREM DistancesHold == Spec => []ShortestInView
<1>1. Init => IInv /\ DistanceInv
  BY InitInv, DistanceInit
<1>2. IInv /\ DistanceInv /\ [Next]_vars => (IInv /\ DistanceInv)'
  <2> SUFFICES ASSUME IInv, DistanceInv, [Next]_vars
               PROVE  IInv' /\ DistanceInv'
    OBVIOUS
  <2>1. CASE NextHop
    BY <2>1, NextHopInv, DistanceNextHop
  <2>2. ASSUME NEW d \in frontier, Walk(d)
        PROVE  IInv' /\ DistanceInv'
    BY <2>2, WalkInv, DistanceWalk
  <2>3. CASE UNCHANGED vars
    BY <2>3, StutterInv, DistanceStutter
  <2> QED
    BY <2>1, <2>2, <2>3 DEF Next
<1>3. IInv /\ DistanceInv => ShortestInView
  BY DistancesAreShortest
<1> QED
  BY <1>1, <1>2, <1>3, PTL DEF Spec

-----------------------------------------------------------------------------
(* Directories. *)
LEMMA FrontOfPrefix ==
  ASSUME NEW d \in Directories \ {<<>>}, NEW w \in Directories,
         IsPrefix(d, w)
  PROVE  /\ Front(d) \in Directories /\ Len(d) \in Nat
         /\ Len(Front(d)) = Len(d) - 1 /\ IsPrefix(Front(d), w)
<1>1. d \in Seq(Names) /\ w \in Seq(Names) /\ Len(d) \in Nat /\ Len(d) > 0
  BY DirectoriesAssumption
<1>2. \A i \in 1..Len(d) - 1 : d[i] \in Names
  BY <1>1
<1>3. /\ Len(SubSeq(d, 1, Len(d) - 1)) = Len(d) - 1
      /\ SubSeq(d, 1, Len(d) - 1) \in Seq(Names)
      /\ \A i \in 1..Len(d) - 1 : SubSeq(d, 1, Len(d) - 1)[i] = d[i]
  <2> DEFINE n == Len(d) - 1
  <2>1. /\ 1 \in Int /\ n \in Int /\ n >= 0
        /\ \A i \in 1..n : d[i] \in Names
    BY <1>1, <1>2
  <2> HIDE DEF n
  <2>2. /\ SubSeq(d, 1, n) \in Seq(Names)
        /\ Len(SubSeq(d, 1, n)) = IF 1 <= n THEN (n - 1) + 1 ELSE 0
        /\ \A i \in 1..(n - 1) + 1 : SubSeq(d, 1, n)[i] = d[(1 + i) - 1]
    BY <2>1, SubSeqProperties
  <2>3. (n - 1) + 1 = n /\ (~(1 <= n) => n = 0)
    BY <2>1
  <2>4. Len(SubSeq(d, 1, n)) = n
    <3>1. CASE 1 <= n
      BY <2>2, <2>3, <3>1, Zenon
    <3>2. CASE ~(1 <= n)
      BY <2>2, <2>3, <3>2, Zenon
    <3> QED
      BY <3>1, <3>2
  <2>5. \A i \in 1..n : SubSeq(d, 1, n)[i] = d[i]
    <3> SUFFICES ASSUME NEW i \in 1..n
                 PROVE  SubSeq(d, 1, n)[i] = d[i]
      OBVIOUS
    <3>1. i \in 1..(n - 1) + 1 /\ (1 + i) - 1 = i
      BY <2>1
    <3> QED
      BY <2>2, <3>1
  <2> QED
    BY <2>2, <2>4, <2>5 DEF n
<1>4. Front(d) = SubSeq(d, 1, Len(d) - 1)
  BY DEF Front
<1>5. Front(d) \in Directories
  BY DirectoriesAssumption
<1>6. \A i \in 1..Len(d) : d[i] = w[i]
  BY <1>1 DEF IsPrefix
<1>7. SubSeq(Front(d), 1, Len(Front(d))) = SubSeq(w, 1, Len(Front(d)))
  BY <1>1, <1>3, <1>4, <1>6 DEF IsPrefix
<1> QED
  BY <1>1, <1>3, <1>4, <1>5, <1>7 DEF IsPrefix

LEMMA PrefixOfLength ==
  ASSUME NEW d \in Directories, NEW e \in Directories, NEW w,
         IsPrefix(d, w), IsPrefix(e, w), Len(d) = Len(e)
  PROVE  d = e
<1>1. SubSeq(d, 1, Len(d)) = SubSeq(e, 1, Len(e))
  BY DEF IsPrefix
<1>2. SubSeq(d, 1, Len(d)) = d /\ SubSeq(e, 1, Len(e)) = e
  BY DirectoriesAssumption
<1> QED
  BY <1>1, <1>2

LEMMA OwnPrefix == \A w \in Directories : IsPrefix(w, w)
BY DirectoriesAssumption DEF IsPrefix

-----------------------------------------------------------------------------
(* The invariant of loading, in named parts. *)
InputType ==
  /\ where \in [Concepts -> Directories]
  /\ scope \in [Concepts -> Fields]
  /\ default \in [Directories -> Fields]
  /\ links \in [Concepts -> SUBSET Targets]
  /\ depth \in Depths

LoadType ==
  /\ phase \in {"load", "ready", "walk", "refused"} \cup SearchPhases
  /\ pending \in SUBSET Concepts
  /\ doc \in {Nothing} \cup (Concepts \ pending)
  /\ directory \in Directories
  /\ scopes \in {Unset} \cup ScopeSets
  /\ DOMAIN resolved = (Concepts \ pending) \ {doc}
  /\ \A c \in DOMAIN resolved : resolved[c] \in ScopeSets
  /\ phase # "load" => pending = {} /\ doc = Nothing

(* d is the deepest directory that has a say on c. *)
Deepest(c, d) ==
  d \in Settling(c) /\ \A e \in Settling(c) : Len(e) <= Len(d)

(* s are the scopes of c. *)
ScopesOf(c, s) ==
  IF Declares(scope[c]) THEN s = scope[c]
  ELSE \/ Settling(c) = {} /\ s = {Public}
       \/ \E d \in Directories : Deepest(c, d) /\ s = default[d]

(* The climb: nothing below this directory has a say. *)
ClimbInv ==
  doc # Nothing =>
    IF scopes # Unset THEN ScopesOf(doc, scopes)
    ELSE /\ ~Declares(scope[doc]) /\ IsPrefix(directory, where[doc])
         /\ \A e \in Settling(doc) : Len(e) <= Len(directory)
ResolvedInv == \A c \in DOMAIN resolved : ScopesOf(c, resolved[c])

ViewInv ==
  /\ visible \in SUBSET Concepts
  /\ phase # "load" =>
       visible = {c \in Concepts : IsVisible(resolved[c], caller)}

(* Before the walk, and without it, nothing is met. *)
Unwalked ==
  /\ hop = 1 /\ frontier = {} /\ nextFrontier = {} /\ seen = {}
  /\ reached = [c \in Concepts |-> NotReached]
StageInv == IF phase = "walk" THEN IInv /\ DistanceInv ELSE Unwalked

ReadInv ==
  /\ InputType /\ LoadType /\ ClimbInv /\ ResolvedInv
  /\ ViewInv /\ StageInv

-----------------------------------------------------------------------------
LEMMA Fielded ==
  ASSUME NEW field \in Fields
  PROVE  /\ Declares(field) => field \in ScopeSets /\ field # Unset
                                 /\ DeclaredScopes(field) = field
         /\ ~Declares(field) => DeclaredScopes(field) = Unset
         /\ DeclaredScopes(field) \in {Unset} \cup ScopeSets
BY FieldAssumption DEF Fields, Declares, DeclaredScopes

LEMMA ReadInit == SearchInit => ReadInv
<1> SUFFICES ASSUME SearchInit
             PROVE  ReadInv
  OBVIOUS
<1> USE DEF SearchInit, ReadingInit, Inputs, Unread
<1>1. InputType
  BY DEF InputType
<1>2. LoadType
  BY DirectoriesAssumption DEF LoadType
<1>3. ClimbInv /\ ResolvedInv /\ ViewInv /\ StageInv
  BY DEF ClimbInv, ResolvedInv, ViewInv, StageInv, Unwalked
<1> QED
  BY <1>1, <1>2, <1>3 DEF ReadInv

LEMMA TakeInv ==
  ASSUME ReadInv, NEW c \in pending, Take(c)
  PROVE  ReadInv'
<1>1. /\ doc = Nothing /\ doc' = c /\ pending' = pending \ {c}
      /\ scopes' = DeclaredScopes(scope[c]) /\ directory' = where[c]
      /\ UNCHANGED <<where, scope, default, caller, links, depth, phase,
                     resolved, visible, hop, frontier, nextFrontier, seen,
                     reached>>
  BY DEF Take, vars, configVars, bundle
<1>2. c \in Concepts /\ phase = "load"
  BY DEF ReadInv, LoadType
<1>3. /\ scope[c] \in Fields /\ where[c] \in Directories
      /\ Declares(scope[c]) => scopes' = scope[c] /\ scopes' # Unset
      /\ ~Declares(scope[c]) => scopes' = Unset
      /\ scopes' \in {Unset} \cup ScopeSets
  BY <1>1, <1>2, Fielded DEF ReadInv, InputType
<1>4. LoadType'
  BY <1>1, <1>2, <1>3, NothingAssumption DEF ReadInv, LoadType
<1>5. ClimbInv'
  <2>1. CASE Declares(scope[c])
    BY <1>1, <1>3, <2>1 DEF ClimbInv, ScopesOf
  <2>2. CASE ~Declares(scope[c])
    <3>1. /\ IsPrefix(where[c], where[c])
          /\ \A e \in Settling(c) : Len(e) <= Len(where[c])
      BY <1>3, OwnPrefix DEF Settling, IsPrefix
    <3>2. Settling(doc)' = Settling(c)
      BY <1>1 DEF Settling
    <3> QED
      BY <1>1, <1>3, <2>2, <3>1, <3>2 DEF ClimbInv
  <2> QED
    BY <2>1, <2>2
<1>6. InputType' /\ ViewInv' /\ StageInv'
  BY <1>1, <1>2 DEF ReadInv, InputType, ViewInv, StageInv, Unwalked
<1>7. ResolvedInv'
  BY <1>1 DEF ReadInv, ResolvedInv, ScopesOf, Deepest, Settling
<1> QED
  BY <1>4, <1>5, <1>6, <1>7 DEF ReadInv

(* What a document is settled with are its scopes. *)
LEMMA SettleInv ==
  ASSUME ReadInv, doc # Nothing, NEW found \in {Unset} \cup ScopeSets,
         Settle(found),
         ScopesOf(doc, IF found = Unset THEN {Public} ELSE found),
         scopes' \in {Unset} \cup ScopeSets, directory' = directory,
         UNCHANGED <<vars, bundle, phase, pending>>
  PROVE  ReadInv'
<1> DEFINE given == IF found = Unset THEN {Public} ELSE found
<1>1. given \in ScopeSets
  <2>1. CASE found = Unset
    <3>1. {Public} \subseteq Labels /\ {Public} # {}
      BY PublicAssumption
    <3>2. given = {Public}
      BY <2>1
    <3> QED
      BY <3>1, <3>2 DEF ScopeSets
  <2>2. CASE found # Unset
    BY <2>2
  <2> QED
    BY <2>1, <2>2
<1>2. /\ doc' = Nothing
      /\ resolved' = [c \in DOMAIN resolved \cup {doc} |->
                        IF c # doc THEN resolved[c] ELSE given]
      /\ UNCHANGED <<where, scope, default, caller, links, depth, phase,
                     pending, visible, hop, frontier, nextFrontier, seen,
                     reached>>
  BY DEF Settle, vars, configVars, bundle
<1> HIDE DEF given
<1>3. doc \in Concepts \ pending /\ phase = "load"
  BY DEF ReadInv, LoadType
<1>4. LoadType'
  BY <1>1, <1>2, <1>3, NothingAssumption DEF ReadInv, LoadType
<1>5. ResolvedInv'
  <2>1. \A c \in DOMAIN resolved' : ScopesOf(c, resolved'[c])
    BY <1>2 DEF ReadInv, ResolvedInv, given
  <2>2. SUFFICES ASSUME NEW c \in DOMAIN resolved', NEW s, s = resolved'[c]
                 PROVE  ScopesOf(c, s)'
    BY DEF ResolvedInv
  <2>3. ScopesOf(c, s)
    BY <2>1, <2>2
  <2> QED
    BY <1>2, <2>3 DEF ScopesOf, Deepest, Settling
<1>6. InputType' /\ ViewInv' /\ StageInv' /\ ClimbInv'
  BY <1>2, <1>3
  DEF ReadInv, InputType, ViewInv, StageInv, Unwalked, ClimbInv
<1> QED
  BY <1>4, <1>5, <1>6 DEF ReadInv

LEMMA FoundInv ==
  ASSUME ReadInv, Found
  PROVE  ReadInv'
<1>1. /\ doc # Nothing /\ scopes # Unset /\ Settle(scopes)
      /\ UNCHANGED <<vars, bundle, phase, pending, directory, scopes>>
  BY DEF Found
<1>2. ScopesOf(doc, scopes) /\ scopes \in {Unset} \cup ScopeSets
  BY <1>1 DEF ReadInv, ClimbInv, LoadType
<1> QED
  BY <1>1, <1>2, SettleInv

LEMMA ClimbStepInv ==
  ASSUME ReadInv, Climb
  PROVE  ReadInv'
<1> DEFINE found == DeclaredScopes(default[directory])
<1>1. /\ doc # Nothing /\ scopes = Unset /\ scopes' = found
      /\ UNCHANGED <<vars, bundle, phase, pending>>
      /\ \/ directory = <<>> /\ Settle(found) /\ directory' = directory
         \/ /\ directory # <<>> /\ directory' = Front(directory)
            /\ UNCHANGED <<doc, resolved>>
  BY DEF Climb
<1>2. /\ doc \in Concepts /\ phase = "load" /\ directory \in Directories
      /\ where[doc] \in Directories /\ default[directory] \in Fields
      /\ ~Declares(scope[doc]) /\ IsPrefix(directory, where[doc])
      /\ \A e \in Settling(doc) : Len(e) <= Len(directory)
  BY <1>1 DEF ReadInv, LoadType, InputType, ClimbInv
<1>3. /\ found \in {Unset} \cup ScopeSets
      /\ Declares(default[directory])
           => found = default[directory] /\ found # Unset
      /\ ~Declares(default[directory]) => found = Unset
  BY <1>2, Fielded
<1>4. Declares(default[directory]) => Deepest(doc, directory)
  BY <1>2 DEF Deepest, Settling
<1> HIDE DEF found
<1>5. Declares(default[directory]) => ScopesOf(doc, found)
  BY <1>2, <1>3, <1>4 DEF ScopesOf
<1>6. CASE directory = <<>>
  <2>1. ~Declares(default[directory]) => Settling(doc) = {}
    <3> SUFFICES ASSUME ~Declares(default[<<>>]), NEW e \in Settling(doc)
                 PROVE  FALSE
      BY <1>6
    <3>1. e \in Directories /\ Len(e) <= 0 /\ Declares(default[e])
      BY <1>2, <1>6 DEF Settling
    <3>2. e = <<>>
      BY <3>1, DirectoriesAssumption
    <3> QED
      BY <3>1, <3>2
  <2>2. ScopesOf(doc, IF found = Unset THEN {Public} ELSE found)
    BY <1>2, <1>3, <1>5, <2>1 DEF ScopesOf
  <2> QED
    BY <1>1, <1>3, <1>6, <2>2, SettleInv
<1>7. CASE directory # <<>>
  <2>1. /\ directory' = Front(directory) /\ UNCHANGED <<doc, resolved>>
        /\ UNCHANGED <<where, scope, default, caller, links, depth, phase,
                       pending, visible, hop, frontier, nextFrontier, seen,
                       reached>>
    BY <1>1, <1>7 DEF vars, configVars, bundle
  <2>2. /\ Front(directory) \in Directories /\ Len(directory) \in Nat
        /\ Len(Front(directory)) = Len(directory) - 1
        /\ IsPrefix(Front(directory), where[doc])
    BY <1>2, <1>7, FrontOfPrefix
  <2>3. ~Declares(default[directory]) =>
          \A e \in Settling(doc) : Len(e) <= Len(Front(directory))
    <3> SUFFICES ASSUME ~Declares(default[directory]), NEW e \in Settling(doc)
                 PROVE  Len(e) <= Len(directory) - 1
      BY <2>2
    <3>1. e \in Directories /\ IsPrefix(e, where[doc]) /\ Declares(default[e])
      BY DEF Settling
    <3>2. Len(e) # Len(directory)
      BY <1>2, <3>1, PrefixOfLength
    <3>3. Len(e) \in Nat /\ Len(e) <= Len(directory)
      BY <1>2, <3>1, DirectoriesAssumption
    <3> QED
      BY <2>2, <3>2, <3>3
  <2>4. LoadType'
    BY <1>1, <1>3, <2>1, <2>2 DEF ReadInv, LoadType
  <2>5. Settling(doc)' = Settling(doc)
    BY <2>1 DEF Settling
  <2>6. ClimbInv'
    <3>1. CASE Declares(default[directory])
      <4>1. scopes' # Unset /\ scopes' = found
        BY <1>1, <1>3, <3>1
      <4>2. ScopesOf(doc, scopes')
        BY <1>5, <3>1, <4>1
      <4> QED
        BY <2>1, <4>1, <4>2 DEF ClimbInv, ScopesOf, Deepest, Settling
    <3>2. CASE ~Declares(default[directory])
      BY <1>1, <1>2, <1>3, <2>1, <2>2, <2>3, <2>5, <3>2 DEF ClimbInv
    <3> QED
      BY <3>1, <3>2
  <2>7. InputType' /\ ViewInv' /\ StageInv'
    BY <1>2, <2>1 DEF ReadInv, InputType, ViewInv, StageInv, Unwalked
  <2>8. ResolvedInv'
    BY <2>1 DEF ReadInv, ResolvedInv, ScopesOf, Deepest, Settling
  <2> QED
    BY <2>4, <2>6, <2>7, <2>8 DEF ReadInv
<1> QED
  BY <1>6, <1>7

\* Deriving the view, once every document has its scopes.
LEMMA VisibleToInv ==
  ASSUME ReadInv, VisibleTo
  PROVE  ReadInv'
<1>1. /\ phase = "load" /\ pending = {} /\ doc = Nothing /\ phase' = "ready"
      /\ visible' = {c \in Concepts : IsVisible(resolved[c], caller)}
      /\ UNCHANGED <<where, scope, default, caller, links, depth, pending,
                     doc, directory, scopes, resolved, hop, frontier,
                     nextFrontier, seen, reached>>
  BY DEF VisibleTo, bundle, loadVars
<1>2. InputType' /\ LoadType'
  BY <1>1 DEF ReadInv, InputType, LoadType
<1>3. ClimbInv' /\ ViewInv'
  BY <1>1 DEF ClimbInv, ViewInv
<1>4. ResolvedInv'
  BY <1>1 DEF ReadInv, ResolvedInv, ScopesOf, Deepest, Settling
<1>5. StageInv'
  BY <1>1 DEF ReadInv, StageInv, Unwalked
<1> QED
  BY <1>2, <1>3, <1>4, <1>5 DEF ReadInv

\* What the tools leave alone once there is a view.
LEMMA LoadedStays ==
  ASSUME ReadInv, phase # "load", phase' # "load",
         phase' \in {"ready", "walk", "refused"} \cup SearchPhases,
         UNCHANGED <<configVars, bundle, loadVars>>, StageInv'
  PROVE  ReadInv'
<1>1. UNCHANGED <<where, scope, default, caller, links, depth, visible,
                  pending, doc, directory, scopes, resolved>>
  BY DEF configVars, bundle, loadVars
<1>2. InputType' /\ LoadType'
  BY <1>1 DEF ReadInv, InputType, LoadType
<1>3. ClimbInv' /\ ViewInv'
  BY <1>1 DEF ReadInv, LoadType, ClimbInv, ViewInv
<1>4. ResolvedInv'
  BY <1>1 DEF ReadInv, ResolvedInv, ScopesOf, Deepest, Settling
<1> QED
  BY <1>2, <1>3, <1>4 DEF ReadInv

\* A call of follow_links starts a walk on the view, or is refused.
LEMMA CallInv ==
  ASSUME ReadInv, Call
  PROVE  ReadInv'
<1>1. /\ phase = "ready" /\ seen' = frontier'
      /\ UNCHANGED <<configVars, hop, nextFrontier, reached, bundle, loadVars>>
      /\ \/ start \in visible /\ phase' = "walk" /\ frontier' = {start}
         \/ start \notin visible /\ phase' = "refused" /\ frontier' = frontier
  BY DEF Call
<1>2. Unwalked
  BY <1>1 DEF ReadInv, StageInv
<1>3. CASE phase' = "walk"
  <2>1. /\ frontier' = {start} /\ start \in visible /\ seen' = {start}
        /\ visible' = visible /\ links' = links /\ depth' = depth
        /\ hop' = 1 /\ nextFrontier' = {}
        /\ reached' = [c \in Concepts |-> NotReached]
    BY <1>1, <1>2, <1>3 DEF Unwalked, configVars
  <2>2. Init'
    BY <2>1 DEF ReadInv, InputType, ViewInv, Init
  <2>3. Init' => IInv' /\ DistanceInv'
    BY InitInv, DistanceInit, PTL
  <2>4. StageInv'
    BY <1>3, <2>2, <2>3 DEF StageInv
  <2> QED
    BY <1>1, <1>3, <2>4, LoadedStays
<1>4. CASE phase' = "refused"
  <2>1. StageInv'
    BY <1>1, <1>2, <1>4 DEF StageInv, Unwalked
  <2> QED
    BY <1>1, <1>4, <2>1, LoadedStays
<1> QED
  BY <1>1, <1>3, <1>4

\* A step of the walk, by the invariant of Traversal.
LEMMA FollowInv ==
  ASSUME ReadInv, Follow
  PROVE  ReadInv'
<1>1. /\ phase = "walk" /\ phase' = "walk" /\ Next
      /\ UNCHANGED <<bundle, loadVars>>
  BY DEF Follow
<1>2. IInv /\ DistanceInv
  BY <1>1 DEF ReadInv, StageInv
<1>3. IInv' /\ DistanceInv'
  <2>1. CASE NextHop
    BY <2>1, <1>2, NextHopInv, DistanceNextHop
  <2>2. ASSUME NEW d \in frontier, Walk(d)
        PROVE  IInv' /\ DistanceInv'
    BY <2>2, <1>2, WalkInv, DistanceWalk
  <2> QED
    BY <2>1, <2>2, <1>1 DEF Next
<1>4. UNCHANGED configVars
  BY <1>1 DEF Next, NextHop, Walk
<1>5. StageInv'
  BY <1>1, <1>3 DEF StageInv
<1> QED
  BY <1>1, <1>4, <1>5, LoadedStays

\* A step of search_concepts reads the view and leaves it as it is.
LEMMA SearchConceptsInv ==
  ASSUME ReadInv, SearchConcepts
  PROVE  ReadInv'
<1>1. PICK from \in {"ready", "ranked", "merge"}, to \in SearchPhases :
        Answering(from, to)
  BY DEF SearchConcepts, Rank, Augment, Answer, Raise, Skip, Fetch, Candidate,
         SearchPhases
<1>2. /\ phase = from /\ phase' = to
      /\ UNCHANGED <<vars, bundle, loadVars>>
  BY <1>1 DEF Answering
<1>3. /\ phase # "load" /\ phase' # "load" /\ phase # "walk" /\ phase' # "walk"
      /\ phase' \in SearchPhases
  BY <1>2 DEF SearchPhases
<1>4. StageInv'
  BY <1>2, <1>3 DEF ReadInv, StageInv, Unwalked, vars
<1> QED
  BY <1>2, <1>3, <1>4, LoadedStays DEF vars

\* The invariant of a session: its load, and either tool on its view.
LEMMA ReadInvariance == SearchSpec => []ReadInv
<1>1. SearchInit => ReadInv
  BY ReadInit
<1>2. ReadInv /\ [SearchNext]_toolVars => ReadInv'
  <2> SUFFICES ASSUME ReadInv, [SearchNext]_toolVars
               PROVE  ReadInv'
    OBVIOUS
  <2>1. CASE Load
    BY <2>1, TakeInv, ClimbStepInv, FoundInv, VisibleToInv DEF Load
  <2>2. CASE Call
    BY <2>2, CallInv
  <2>3. CASE Follow
    BY <2>3, FollowInv
  <2>4. CASE SearchConcepts
    BY <2>4, SearchConceptsInv
  <2>5. CASE UNCHANGED toolVars
    <3>1. UNCHANGED <<where, scope, default, caller, phase, pending, doc,
                      directory, scopes, resolved>> /\ UNCHANGED vars
      BY <2>5 DEF toolVars, readingVars, bundle, loadVars
    <3>2. UNCHANGED <<visible, links, depth, hop, frontier, nextFrontier, seen,
                      reached>>
      BY <3>1 DEF vars, configVars
    <3>3. StageInv'
      BY <3>1, <3>2, StutterInv, DistanceStutter
      DEF ReadInv, StageInv, Unwalked
    <3>4. InputType' /\ LoadType' /\ ClimbInv' /\ ViewInv'
      BY <3>1, <3>2
      DEF ReadInv, InputType, LoadType, ClimbInv, ViewInv, ScopesOf, Deepest,
          Settling
    <3>5. ResolvedInv'
      BY <3>1, <3>2 DEF ReadInv, ResolvedInv, ScopesOf, Deepest, Settling
    <3> QED
      BY <3>3, <3>4, <3>5 DEF ReadInv
  <2> QED
    BY <2>1, <2>2, <2>3, <2>4, <2>5 DEF SearchNext
<1> QED
  BY <1>1, <1>2, PTL DEF SearchSpec

\* Every variable of a session has its type: a document done has a non-empty
\* set of labels, and a walk has the types of follow_links.
THEOREM ReadingTypeCorrect == SearchSpec => []ReadingTypeOK
<1>1. ReadInv => ReadingTypeOK
  <2> SUFFICES ASSUME ReadInv
               PROVE  ReadingTypeOK
    OBVIOUS
  <2>1. phase = "walk" => TypeOK
    BY DEF ReadInv, StageInv, IInv
  <2> QED
    BY <2>1 DEF ReadInv, LoadType, ReadingTypeOK
<1> QED
  BY <1>1, ReadInvariance, PTL

\* For any bundle and any session: whether the session sees a concept is up to
\* the concept's own scope, else to the deepest directory above it whose index
\* has a default, else the concept is public (effective_scopes, visible_to).
THEOREM ScopesDecide == SearchSpec => []NearestDecides
<1>1. ReadInv => NearestDecides
  <2> SUFFICES ASSUME ReadInv, phase # "load", NEW c \in Concepts
               PROVE  c \in visible <=>
                        \/ /\ Declares(scope[c])
                           /\ scope[c] \cap (caller \cup {Public}) # {}
                        \/ /\ ~Declares(scope[c])
                           /\ \A d \in Settling(c) :
                                \/ default[d] \cap (caller \cup {Public}) # {}
                                \/ \E e \in Settling(c) : Len(e) > Len(d)
    BY DEF NearestDecides
  <2> DEFINE s == resolved[c]
  <2>1. ScopesOf(c, s)
    BY NothingAssumption DEF ReadInv, LoadType, ResolvedInv
  <2>2. c \in visible <=> s \cap (caller \cup {Public}) # {}
    BY DEF ReadInv, ViewInv, IsVisible
  <2> HIDE DEF s
  <2>3. CASE Declares(scope[c])
    BY <2>1, <2>2, <2>3 DEF ScopesOf
  <2>4. CASE ~Declares(scope[c]) /\ Settling(c) = {} /\ s = {Public}
    BY <2>2, <2>4
  <2>5. ASSUME ~Declares(scope[c]), NEW d \in Directories, Deepest(c, d),
               s = default[d]
        PROVE  c \in visible <=>
                 \A f \in Settling(c) :
                   \/ default[f] \cap (caller \cup {Public}) # {}
                   \/ \E e \in Settling(c) : Len(e) > Len(f)
    <3>1. /\ d \in Settling(c)
          /\ \A e \in Settling(c) : Len(e) <= Len(d)
      BY <2>5 DEF Deepest
    <3>2. \A e \in Settling(c) :
            /\ e \in Directories /\ IsPrefix(e, where[c]) /\ Len(e) \in Nat
      BY DirectoriesAssumption DEF Settling
    <3>3. \A f \in Settling(c) : f = d \/ Len(d) > Len(f)
      <4> SUFFICES ASSUME NEW f \in Settling(c), Len(f) = Len(d)
                   PROVE  f = d
        BY <3>1, <3>2
      <4> QED
        BY <3>1, <3>2, PrefixOfLength
    <3>4. ~\E e \in Settling(c) : Len(e) > Len(d)
      BY <3>1, <3>2
    <3> QED
      BY <2>2, <2>5, <3>1, <3>3, <3>4
  <2> QED
    BY <2>1, <2>3, <2>4, <2>5 DEF ScopesOf
<1> QED
  BY <1>1, ReadInvariance, PTL

\* What follow_links reports to a session is right as it is of a walk alone:
\* part of the view the session's scopes give, hop by hop, nothing left out.
THEOREM ViewReportIsRight == SearchSpec => []ReportIsRight
<1>1. ReadInv => ReportIsRight
  <2> SUFFICES ASSUME ReadInv
               PROVE  ReportIsRight
    OBVIOUS
  <2>1. CASE phase = "walk"
    <3>1. IInv
      BY <2>1 DEF ReadInv, StageInv
    <3> QED
      BY <3>1, NothingIsMissed, LinksResolve DEF IInv, ReportIsRight
  <2>2. CASE phase # "walk"
    <3>1. /\ \A c \in Concepts : ~Reached(c)
          /\ hop = 1 /\ depth \in Int /\ visible \subseteq Concepts
      BY <2>2, DepthAssumption
      DEF ReadInv, StageInv, Unwalked, Reached, InputType, ViewInv, Depths
    <3>2. OnlyVisible /\ ViaIsALink /\ OnlyLoadedBundles
      BY <3>1 DEF OnlyVisible, ViaIsALink, OnlyLoadedBundles
    <3>3. NothingMissed
      <4> SUFFICES ASSUME Done, NEW d \in visible, Met(d), Hop(d) < depth
                   PROVE  FALSE
        BY DEF NothingMissed
      <4>1. Hop(d) = 0
        BY <3>1 DEF Met, Hop
      <4> QED
        BY <3>1, <4>1 DEF Done
    <3> QED
      BY <3>2, <3>3 DEF ReportIsRight
  <2> QED
    BY <2>1, <2>2
<1> QED
  BY <1>1, ReadInvariance, PTL

\* The distances follow_links reports to a session are the shortest in the view
\* its scopes give, and it reports all there is within the depth.
THEOREM ViewDistancesHold == SearchSpec => []ShortestInView
<1>1. ReadInv => ShortestInView
  <2> SUFFICES ASSUME ReadInv
               PROVE  ShortestInView
    OBVIOUS
  <2>1. CASE phase = "walk"
    <3>1. IInv /\ DistanceInv
      BY <2>1 DEF ReadInv, StageInv
    <3> QED
      BY <3>1, DistancesAreShortest
  <2>2. CASE phase # "walk"
    <3>1. /\ \A c \in Concepts : ~Reached(c)
          /\ hop = 1 /\ depth \in Int
      BY <2>2, DepthAssumption
      DEF ReadInv, StageInv, Unwalked, Reached, InputType, Depths
    <3>2. Done => 1..depth = {}
      BY <3>1 DEF Done
    <3> QED
      BY <3>1, <3>2 DEF ShortestInView
  <2> QED
    BY <2>1, <2>2
<1> QED
  BY <1>1, ReadInvariance, PTL

-----------------------------------------------------------------------------
(* What a search finds.  Sequences first: a sequence of a set has all its  *)
(* members.                                                                *)
LEMMA AllInSequence ==
  ASSUME NEW S, IsFiniteSet(S), NEW ids \in SetToSeqs(S)
  PROVE  /\ ids \in Seq(S) /\ DOMAIN ids = 1..Len(ids) /\ Len(ids) \in Nat
         /\ \A k, n \in DOMAIN ids : k # n => ids[k] # ids[n]
         /\ \A c \in S : \E n \in DOMAIN ids : ids[n] = c
<1> DEFINE D == 1..Cardinality(S)
<1>1. Cardinality(S) \in Nat
  BY FS_CardinalityType
<1>2. ids \in [D -> S] /\ \A k, n \in D : k # n => ids[k] # ids[n]
  BY DEF SetToSeqs
<1>3. ids \in Seq(S) /\ DOMAIN ids = 1..Len(ids) /\ Len(ids) = Cardinality(S)
  BY <1>1, <1>2
<1>4. Cardinality(D) = Cardinality(S)
  BY <1>1, FS_Interval
<1> HIDE DEF D
<1>5. ids \in Injection(D, S)
  BY <1>2 DEF Injection, IsInjective
<1>6. ids \in Surjection(D, S)
  BY <1>4, <1>5, FS_Injection
<1>7. \A c \in S : \E n \in D : ids[n] = c
  BY <1>6 DEF Surjection
<1> QED
  BY <1>1, <1>2, <1>3, <1>7 DEF D

\* Every concept has its place among the ids.
LEMMA Placed ==
  ASSUME NEW c \in Concepts
  PROVE  Position(c) \in Nat
<1>1. /\ DOMAIN Sorted = 1..Len(Sorted) /\ Len(Sorted) \in Nat
      /\ \E n \in DOMAIN Sorted : Sorted[n] = c
  BY SortedAssumption, AllInSequence
<1> QED
  BY <1>1 DEF Position

\* The order of the hits has no circles of two.
LEMMA AheadOnce ==
  ASSUME NEW g \in Indexes, NEW c \in Concepts, NEW d \in Concepts,
         Ahead(g, c, d)
  PROVE  c # d /\ ~Ahead(g, d, c)
<1>1. g.documents[c].score \in Nat /\ g.documents[d].score \in Nat
  BY MaxScoreAssumption DEF Indexes, Documents, Match
<1>2. Position(c) \in Nat /\ Position(d) \in Nat
  BY Placed
<1> QED
  BY <1>1, <1>2 DEF Ahead

\* The first members of a sequence, up to a limit.
LEMMA FirstMembers ==
  ASSUME NEW S, NEW ids \in Seq(S), NEW limit \in Nat
  PROVE  /\ FirstOf(ids, limit) \in Seq(S)
         /\ Len(FirstOf(ids, limit)) <= limit
         /\ Len(FirstOf(ids, limit)) <= Len(ids)
         /\ Len(FirstOf(ids, limit)) < limit
              => Len(FirstOf(ids, limit)) = Len(ids)
         /\ \A n \in 1..Len(FirstOf(ids, limit)) :
              FirstOf(ids, limit)[n] = ids[n]
<1> DEFINE m == IF Len(ids) < limit THEN Len(ids) ELSE limit
<1>1. /\ m \in Nat /\ m <= limit /\ m <= Len(ids) /\ Len(ids) \in Nat
      /\ m < limit => m = Len(ids)
  OBVIOUS
<1>2. FirstOf(ids, limit) = SubSeq(ids, 1, m)
  BY DEF FirstOf
<1> HIDE DEF m
<1>3. /\ 1 \in Int /\ m \in Int
      /\ \A n \in 1..m : ids[n] \in S
  BY <1>1
<1>4. /\ SubSeq(ids, 1, m) \in Seq(S)
      /\ Len(SubSeq(ids, 1, m)) = IF 1 <= m THEN (m - 1) + 1 ELSE 0
      /\ \A n \in 1..(m - 1) + 1 : SubSeq(ids, 1, m)[n] = ids[(1 + n) - 1]
  BY <1>3, SubSeqProperties
<1>5. (m - 1) + 1 = m /\ (~(1 <= m) => m = 0)
  BY <1>1
<1>6. Len(SubSeq(ids, 1, m)) = m
  <2>1. CASE 1 <= m
    BY <1>4, <1>5, <2>1, Zenon
  <2>2. CASE ~(1 <= m)
    BY <1>4, <1>5, <2>2, Zenon
  <2> QED
    BY <2>1, <2>2
<1>7. \A n \in 1..m : SubSeq(ids, 1, m)[n] = ids[n]
  <2> SUFFICES ASSUME NEW n \in 1..m
               PROVE  SubSeq(ids, 1, m)[n] = ids[n]
    OBVIOUS
  <2>1. n \in 1..(m - 1) + 1 /\ (1 + n) - 1 = n
    BY <1>1
  <2> QED
    BY <1>4, <2>1
<1> QED
  BY <1>1, <1>2, <1>4, <1>6, <1>7

Hit == [id : Concepts, from : Nat]

\* The hits made of concepts read from one generation.
LEMMA HitsAre ==
  ASSUME NEW ids \in Seq(Concepts), NEW g \in Nat
  PROVE  /\ Hits(ids, g) \in Seq(Hit) /\ Len(Hits(ids, g)) = Len(ids)
         /\ \A n \in 1..Len(ids) :
              Hits(ids, g)[n].id = ids[n] /\ Hits(ids, g)[n].from = g
<1>1. /\ DOMAIN ids = 1..Len(ids) /\ Len(ids) \in Nat
      /\ \A n \in 1..Len(ids) : ids[n] \in Concepts
  OBVIOUS
<1>2. Hits(ids, g) \in [1..Len(ids) -> Hit]
  BY <1>1 DEF Hits, Hit
<1>3. Hits(ids, g) \in Seq(Hit) /\ Len(Hits(ids, g)) = Len(ids)
  BY <1>1, <1>2
<1> QED
  BY <1>1, <1>3 DEF Hits

\* One more hit at the end.
LEMMA OneMoreHit ==
  ASSUME NEW all \in Seq(Hit), NEW c \in Concepts, NEW g \in Nat
  PROVE  /\ all \o Hits(<<c>>, g) \in Seq(Hit)
         /\ Len(all \o Hits(<<c>>, g)) = Len(all) + 1
         /\ \A n \in 1..Len(all) : (all \o Hits(<<c>>, g))[n] = all[n]
         /\ (all \o Hits(<<c>>, g))[Len(all) + 1].id = c
         /\ (all \o Hits(<<c>>, g))[Len(all) + 1].from = g
<1> DEFINE more == Hits(<<c>>, g)
<1>1. /\ <<c>> \in Seq(Concepts) /\ Len(<<c>>) = 1 /\ <<c>>[1] = c
      /\ 1 \in 1..Len(<<c>>)
  OBVIOUS
<1>2. more \in Seq(Hit) /\ Len(more) = 1
  BY <1>1, HitsAre
<1>3. more[1].id = c /\ more[1].from = g
  BY <1>1, HitsAre
<1> HIDE DEF more
<1>4. /\ all \o more \in Seq(Hit) /\ Len(all) \in Nat
      /\ Len(all \o more) = Len(all) + 1
      /\ \A n \in 1..Len(all) + 1 :
           (all \o more)[n] = IF n <= Len(all) THEN all[n]
                              ELSE more[n - Len(all)]
  <2>1. /\ all \o more \in Seq(Hit)
        /\ Len(all \o more) = Len(all) + Len(more)
        /\ \A n \in 1..Len(all) + Len(more) :
             (all \o more)[n] = IF n <= Len(all) THEN all[n]
                                ELSE more[n - Len(all)]
    BY <1>2, ConcatProperties, Zenon
  <2>2. Len(all) \in Nat
    OBVIOUS
  <2> QED
    BY <1>2, <2>1, <2>2, Zenon
<1>5. (all \o more)[Len(all) + 1] = more[1]
  <2>1. /\ Len(all) + 1 \in 1..Len(all) + 1 /\ ~(Len(all) + 1 <= Len(all))
        /\ (Len(all) + 1) - Len(all) = 1
    BY <1>4
  <2> QED
    BY <1>4, <2>1
<1>6. \A n \in 1..Len(all) : (all \o more)[n] = all[n]
  BY <1>4
<1> QED
  BY <1>3, <1>4, <1>5, <1>6 DEF more

-----------------------------------------------------------------------------
(* The invariant of a search, in named parts. *)
HitsType ==
  /\ search \in Searches
  /\ read \in Seq(Indexes) /\ Len(read) >= 1
  /\ hits \in Seq(Hit)
  /\ Len(hits) <= search.limit

(* Nothing that matches is missing. *)
AllMatches == \A c \in Concepts : Matches(c) => Seen(c)

(* The hits fit where they were read, none comes twice, and only a complete
   list of keyword hits is added to.                                       *)
HitsInv ==
  /\ \A n \in DOMAIN hits :
       /\ hits[n].from \in 1..Len(read)
       /\ Fits(read[hits[n].from], hits[n].id)
  /\ \A k, n \in DOMAIN hits : k < n =>
       hits[k].id # hits[n].id /\ hits[k].from <= hits[n].from
  /\ \A n \in DOMAIN hits, c, d \in Concepts :
       hits[n].id = d /\ Outranks(c, d) => Before(c, n)
  /\ More => AllMatches
  /\ (\E n \in DOMAIN hits : ~Matches(hits[n].id)) => AllMatches

KeywordsOnly == \A n \in DOMAIN hits : Matches(hits[n].id)

(* With one generation, every concept the store has is still a candidate or
   among the hits ...                                                      *)
Offered ==
  Len(read) = 1 => \A c \in DOMAIN search.similarity :
    Fits(read[1], c) => c \in candidates \/ Seen(c)

(* ... and no candidate is nearer to the query than one that was taken. *)
NearestFirst ==
  \A n \in DOMAIN hits :
    \/ Matches(hits[n].id)
    \/ /\ hits[n].id \in DOMAIN search.similarity
       /\ \A d \in candidates :
            search.similarity[d] <= search.similarity[hits[n].id]

CandidatesInv == candidates \subseteq DOMAIN search.similarity

StepInv ==
  /\ phase = "ranked" => KeywordsOnly /\ Len(read) = 1
  /\ phase = "merge" => CandidatesInv /\ Offered /\ NearestFirst
  /\ phase = "answered" =>
       \/ ~More /\ KeywordsOnly
       \/ Offered /\ NearestFirst /\ (~More \/ candidates = {})

AnswerInv ==
  phase \in {"ranked", "merge", "answered"} => HitsType /\ HitsInv /\ StepInv

\* Another generation may be read, and what was read before stays.
LEMMA ReadOn ==
  ASSUME HitsType, search' = search, CurrentIndex
  PROVE  /\ read' \in Seq(Indexes) /\ Len(read') >= Len(read)
         /\ Len(read) \in Nat /\ Len(read') \in Nat
         /\ \A k \in 1..Len(read) : read'[k] = read[k]
         /\ read'[1] = read[1] /\ Current = read'[Len(read')]
         /\ Current \in Indexes
         /\ Len(read') = 1 => read' = read
<1>1. read \in Seq(Indexes) /\ Len(read) \in Nat /\ Len(read) >= 1
  BY DEF HitsType
<1>2. /\ read' \in Seq(Indexes) /\ Len(read') >= Len(read)
      /\ Len(read') \in Nat
      /\ \A k \in 1..Len(read) : read'[k] = read[k]
      /\ Len(read') = 1 => read' = read
  <2>1. CASE read' = read
    BY <1>1, <2>1
  <2>2. ASSUME NEW g \in search.reloads, read' = Append(read, g)
        PROVE  /\ read' \in Seq(Indexes) /\ Len(read') >= Len(read)
               /\ Len(read') \in Nat
               /\ \A k \in 1..Len(read) : read'[k] = read[k]
               /\ Len(read') = 1 => read' = read
    <3>1. g \in Indexes
      BY <2>2, SearchesAssumption DEF HitsType
    <3> QED
      BY <1>1, <2>2, <3>1
  <2> QED
    BY <2>1, <2>2 DEF CurrentIndex
<1>3. Current = read'[Len(read')]
  BY DEF Current, Last
<1> QED
  BY <1>1, <1>2, <1>3

\* The hits stay, while another generation may be read.
LEMMA HitsStay ==
  ASSUME HitsType, HitsInv, search' = search, hits' = hits, CurrentIndex
  PROVE  /\ HitsType' /\ HitsInv'
         /\ \A c : Matches(c)' <=> Matches(c)
         /\ \A c : Seen(c)' <=> Seen(c)
<1>1. /\ read' \in Seq(Indexes) /\ Len(read') >= Len(read)
      /\ Len(read) \in Nat /\ Len(read') \in Nat /\ Len(read) >= 1
      /\ \A k \in 1..Len(read) : read'[k] = read[k]
      /\ read'[1] = read[1]
  BY ReadOn DEF HitsType
<1>2. \A c : Matches(c)' <=> Matches(c)
  BY <1>1 DEF Matches, Fits
<1>3. \A c : Seen(c)' <=> Seen(c)
  BY DEF Seen
<1>4. HitsType'
  BY <1>1 DEF HitsType
<1>5. \A n \in DOMAIN hits' :
        /\ hits'[n].from \in 1..Len(read')
        /\ Fits(read'[hits'[n].from], hits'[n].id)
  <2> SUFFICES ASSUME NEW n \in DOMAIN hits
               PROVE  /\ hits[n].from \in 1..Len(read')
                      /\ Fits(read'[hits[n].from], hits[n].id)
    OBVIOUS
  <2>1. /\ hits[n].from \in 1..Len(read)
        /\ Fits(read[hits[n].from], hits[n].id)
    BY DEF HitsInv
  <2>2. read'[hits[n].from] = read[hits[n].from]
    BY <1>1, <2>1
  <2> QED
    BY <1>1, <2>1, <2>2
<1>6. \A n \in DOMAIN hits', c, d \in Concepts :
        hits'[n].id = d /\ Outranks(c, d)' => Before(c, n)'
  <2> SUFFICES ASSUME NEW n \in DOMAIN hits, NEW c \in Concepts,
                      NEW d \in Concepts, hits[n].id = d, Outranks(c, d)'
               PROVE  Before(c, n)'
    OBVIOUS
  <2>1. Outranks(c, d)
    BY <1>1, <1>2 DEF Outranks, Ahead
  <2>2. Before(c, n)
    BY <2>1 DEF HitsInv
  <2> QED
    BY <2>2 DEF Before
<1>7. AllMatches => AllMatches'
  BY <1>2, <1>3 DEF AllMatches
<1>8. HitsInv'
  <2>1. \A k, n \in DOMAIN hits' : k < n =>
          hits'[k].id # hits'[n].id /\ hits'[k].from <= hits'[n].from
    BY DEF HitsInv
  <2>2. (\E n \in DOMAIN hits' : ~Matches(hits[n].id)') => AllMatches'
    BY <1>2, <1>7 DEF HitsInv
  <2> QED
    BY <1>1, <1>2, <1>5, <1>6, <1>7, <2>1, <2>2 DEF HitsInv, More
<1> QED
  BY <1>2, <1>3, <1>4, <1>8

\* A hit is added: every keyword hit is there, and this one is new and fits.
LEMMA HitAdded ==
  ASSUME HitsType, HitsInv, More, search' = search, CurrentIndex,
         NEW e \in Concepts, ~Seen(e), Fits(Current, e),
         hits' \in Seq(Hit), Len(hits') = Len(hits) + 1,
         \A n \in 1..Len(hits) : hits'[n] = hits[n],
         hits'[Len(hits) + 1].id = e, hits'[Len(hits) + 1].from = Len(read')
  PROVE  /\ HitsType' /\ HitsInv'
         /\ \A c : Matches(c)' <=> Matches(c)
         /\ \A c : Seen(c) => Seen(c)'
<1> DEFINE last == Len(hits) + 1
<1>1. /\ read' \in Seq(Indexes) /\ Len(read') >= Len(read)
      /\ Len(read) \in Nat /\ Len(read') \in Nat /\ Len(read) >= 1
      /\ \A k \in 1..Len(read) : read'[k] = read[k]
      /\ read'[1] = read[1] /\ Current = read'[Len(read')]
  BY ReadOn DEF HitsType
<1>2. /\ hits' \in Seq(Hit) /\ Len(hits') = last /\ Len(hits) \in Nat
      /\ \A n \in 1..Len(hits) : hits'[n] = hits[n]
      /\ hits'[last].id = e /\ hits'[last].from = Len(read')
  BY DEF HitsType
<1>3. /\ DOMAIN hits = 1..Len(hits) /\ DOMAIN hits' = 1..last
      /\ \A n \in 1..last : n \in 1..Len(hits) \/ n = last
      /\ last \notin 1..Len(hits)
  BY <1>2 DEF HitsType
<1> HIDE DEF last
<1>4. \A c : Matches(c)' <=> Matches(c)
  BY <1>1 DEF Matches, Fits
<1>5. \A c : Seen(c) => Seen(c)'
  <2> SUFFICES ASSUME NEW c, Seen(c)
               PROVE  Seen(c)'
    OBVIOUS
  <2>1. PICK n \in 1..Len(hits) : hits[n].id = c
    BY <1>3 DEF Seen
  <2>2. n \in DOMAIN hits' /\ hits'[n].id = c
    BY <1>2, <1>3, <2>1 DEF last
  <2> QED
    BY <2>2 DEF Seen
<1>6. AllMatches /\ AllMatches'
  <2>1. AllMatches
    BY DEF HitsInv
  <2> QED
    BY <1>4, <1>5, <2>1 DEF AllMatches
<1>7. HitsType'
  <2>1. search.limit \in Nat /\ search' \in Searches
    BY SearchesAssumption DEF HitsType
  <2>2. Len(hits') <= search'.limit
    BY <1>2, <2>1 DEF last, More
  <2>3. Len(read') >= 1
    BY <1>1
  <2> QED
    BY <1>1, <1>2, <2>1, <2>2, <2>3 DEF HitsType
<1>8. \A n \in DOMAIN hits' :
        /\ hits'[n].from \in 1..Len(read')
        /\ Fits(read'[hits'[n].from], hits'[n].id)
  <2> SUFFICES ASSUME NEW n \in 1..last
               PROVE  /\ hits'[n].from \in 1..Len(read')
                      /\ Fits(read'[hits'[n].from], hits'[n].id)
    BY <1>3
  <2>1. CASE n = last
    BY <1>1, <1>2, <2>1
  <2>2. CASE n \in 1..Len(hits)
    <3>1. /\ hits[n].from \in 1..Len(read)
          /\ Fits(read[hits[n].from], hits[n].id)
      BY <1>3, <2>2 DEF HitsInv
    <3>2. read'[hits[n].from] = read[hits[n].from] /\ hits'[n] = hits[n]
      BY <1>1, <1>2, <2>2, <3>1
    <3> QED
      BY <1>1, <3>1, <3>2
  <2> QED
    BY <1>3, <2>1, <2>2
<1>9. \A k, n \in DOMAIN hits' : k < n =>
        hits'[k].id # hits'[n].id /\ hits'[k].from <= hits'[n].from
  <2> SUFFICES ASSUME NEW k \in 1..last, NEW n \in 1..last, k < n
               PROVE  /\ hits'[k].id # hits'[n].id
                      /\ hits'[k].from <= hits'[n].from
    BY <1>3
  <2>1. k \in 1..Len(hits) /\ hits'[k] = hits[k]
    BY <1>2, <1>3 DEF last
  <2>2. CASE n = last
    <3>1. hits[k].id # e
      BY <1>3, <2>1 DEF Seen
    <3>2. hits[k].from \in 1..Len(read)
      BY <1>3, <2>1 DEF HitsInv
    <3> QED
      BY <1>1, <1>2, <2>1, <2>2, <3>1, <3>2
  <2>3. CASE n \in 1..Len(hits)
    BY <1>2, <1>3, <2>1, <2>3 DEF HitsInv
  <2> QED
    BY <1>3, <2>2, <2>3
<1>10. \A n \in DOMAIN hits', c, d \in Concepts :
         hits'[n].id = d /\ Outranks(c, d)' => Before(c, n)'
  <2> SUFFICES ASSUME NEW n \in 1..last, NEW c \in Concepts,
                      NEW d \in Concepts, hits'[n].id = d, Outranks(c, d)'
               PROVE  \E k \in 1..n - 1 : hits'[k].id = c
    BY <1>3 DEF Before
  <2>1. Outranks(c, d)
    BY <1>1, <1>4 DEF Outranks, Ahead
  <2>2. CASE n = last
    <3>1. Seen(c)
      BY <1>6, <2>1 DEF AllMatches, Outranks
    <3>2. PICK k \in 1..Len(hits) : hits[k].id = c
      BY <1>3, <3>1 DEF Seen
    <3>3. k \in 1..n - 1
      BY <1>2, <2>2 DEF last
    <3> QED
      BY <1>2, <3>2, <3>3
  <2>3. CASE n \in 1..Len(hits)
    <3>1. Before(c, n)
      BY <1>2, <1>3, <2>1, <2>3 DEF HitsInv
    <3>2. PICK k \in 1..n - 1 : hits[k].id = c
      BY <3>1 DEF Before
    <3>3. k \in 1..Len(hits)
      BY <1>2, <2>3
    <3> QED
      BY <1>2, <3>2, <3>3
  <2> QED
    BY <1>3, <2>2, <2>3
<1>11. HitsInv'
  BY <1>6, <1>8, <1>9, <1>10 DEF HitsInv
<1> QED
  BY <1>2, <1>4, <1>5, <1>7, <1>11 DEF last

\* The keyword hits: a part of the ranking, from its beginning.
LEMMA RankInv ==
  ASSUME ReadInv, Rank
  PROVE  AnswerInv'
<1>1. /\ phase' = "ranked" /\ search' \in Searches
      /\ read' = <<[view |-> visible, documents |-> search'.documents]>>
  BY DEF Rank, Answering
<1>2. PICK ids \in Ranked(read'[1]) :
        hits' = Hits(FirstOf(ids, search'.limit), 1)
  BY DEF Rank
<1> DEFINE g == read'[1]
           first == FirstOf(ids, search'.limit)
<1>3. /\ read' \in Seq(Indexes) /\ Len(read') = 1 /\ g \in Indexes
  <2>1. [view |-> visible, documents |-> search'.documents] \in Indexes
    BY <1>1, SearchesAssumption DEF ReadInv, ViewInv, Indexes
  <2> QED
    BY <1>1, <2>1
<1> HIDE DEF g, first
<1>4. /\ ids \in Seq(Scored(g)) /\ DOMAIN ids = 1..Len(ids) /\ Len(ids) \in Nat
      /\ \A k, n \in DOMAIN ids : k # n => ids[k] # ids[n]
      /\ \A c \in Scored(g) : \E n \in DOMAIN ids : ids[n] = c
  <2>1. ids \in SetToSeqs(Scored(g))
    BY <1>2 DEF Ranked, g
  <2>2. IsFiniteSet(Scored(g))
    BY SortedAssumption, FS_Subset DEF Scored
  <2> QED
    BY <2>1, <2>2, AllInSequence
<1>5. \A k, n \in DOMAIN ids : k < n => Ahead(g, ids[k], ids[n])
  BY <1>2 DEF Ranked, g
<1>6. search'.limit \in Nat
  BY <1>1, SearchesAssumption
<1>7. /\ first \in Seq(Scored(g)) /\ Len(first) <= search'.limit
      /\ Len(first) <= Len(ids) /\ Len(first) \in Nat
      /\ Len(first) < search'.limit => Len(first) = Len(ids)
      /\ \A n \in 1..Len(first) : first[n] = ids[n]
  BY <1>4, <1>6, FirstMembers DEF first
<1>8. first \in Seq(Concepts)
  BY <1>7 DEF Scored
<1>9. /\ hits' \in Seq(Hit) /\ Len(hits') = Len(first)
      /\ DOMAIN hits' = 1..Len(first)
      /\ \A n \in 1..Len(first) : hits'[n].id = ids[n] /\ hits'[n].from = 1
  <2>1. /\ Hits(first, 1) \in Seq(Hit) /\ Len(Hits(first, 1)) = Len(first)
        /\ \A n \in 1..Len(first) :
             Hits(first, 1)[n].id = first[n] /\ Hits(first, 1)[n].from = 1
    BY <1>8, HitsAre
  <2>2. hits' = Hits(first, 1)
    BY <1>2 DEF first
  <2> QED
    BY <2>1, <2>2, <1>7
<1>10. HitsType'
  BY <1>1, <1>3, <1>7, <1>9 DEF HitsType
<1>11. \A n \in 1..Len(first) : n \in DOMAIN ids /\ ids[n] \in Scored(g)
  BY <1>4, <1>7
<1>12. \A c : Matches(c)' <=> (Fits(g, c) /\ g.documents[c].score > 0)
  BY DEF Matches, g, Fits
<1>13. More' => AllMatches'
  <2> SUFFICES ASSUME Len(hits') < search'.limit, NEW c \in Concepts,
                      Matches(c)'
               PROVE  \E n \in DOMAIN hits' : hits'[n].id = c
    BY DEF More, AllMatches, Seen
  <2>1. c \in Scored(g)
    BY <1>12 DEF Scored
  <2>2. PICK n \in DOMAIN ids : ids[n] = c
    BY <2>1, <1>4
  <2>3. Len(first) = Len(ids)
    BY <1>7, <1>9
  <2>4. n \in 1..Len(first)
    BY <2>2, <2>3, <1>4
  <2> QED
    BY <2>2, <2>4, <1>9
<1>14. \A n \in DOMAIN hits' : Fits(g, hits'[n].id)
                                 /\ g.documents[hits'[n].id].score > 0
  BY <1>9, <1>11 DEF Scored
<1>15. KeywordsOnly'
  <2> SUFFICES ASSUME NEW n \in DOMAIN hits', NEW c, c = hits'[n].id
               PROVE  Matches(c)'
    BY DEF KeywordsOnly, Matches
  <2> QED
    BY <1>12, <1>14
<1>16. \A n \in DOMAIN hits', c, d \in Concepts :
         hits'[n].id = d /\ Outranks(c, d)' => Before(c, n)'
  <2> SUFFICES ASSUME NEW n \in 1..Len(first), NEW c \in Concepts,
                      NEW d \in Concepts, ids[n] = d, Outranks(c, d)'
               PROVE  \E k \in 1..n - 1 : hits'[k].id = c
    BY <1>9 DEF Before
  <2>1. Matches(c)' /\ (Matches(d)' => Ahead(g, c, d))
    BY DEF Outranks, Ahead, g
  <2>2. c \in Scored(g) /\ d \in Scored(g)
    BY <2>1, <1>11, <1>12 DEF Scored
  <2>3. Ahead(g, c, d)
    BY <2>1, <2>2, <1>12 DEF Scored
  <2>4. PICK k \in DOMAIN ids : ids[k] = c
    BY <2>2, <1>4
  <2>5. c # d /\ ~Ahead(g, d, c)
    BY <2>3, <1>3, AheadOnce
  <2>6. k # n /\ ~(n < k)
    BY <2>4, <2>5, <1>5, <1>11
  <2>7. k \in 1..n - 1 /\ k \in 1..Len(first)
    BY <2>4, <2>6, <1>4, <1>7
  <2> QED
    BY <2>4, <2>7, <1>9
<1>17. HitsInv'
  <2>1. \A n \in DOMAIN hits' :
          /\ hits'[n].from \in 1..Len(read')
          /\ Fits(read'[hits'[n].from], hits'[n].id)
    BY <1>3, <1>9, <1>14 DEF g
  <2>2. \A k, n \in DOMAIN hits' : k < n =>
          hits'[k].id # hits'[n].id /\ hits'[k].from <= hits'[n].from
    BY <1>4, <1>9, <1>11
  <2>3. ~\E n \in DOMAIN hits' :
           ~(Fits(read'[1], hits'[n].id)
              /\ read'[1].documents[hits'[n].id].score > 0)
    BY <1>14 DEF g
  <2> QED
    BY <2>1, <2>2, <2>3, <1>13, <1>16 DEF HitsInv, Matches
<1>18. StepInv'
  BY <1>1, <1>3, <1>15 DEF StepInv
<1> QED
  BY <1>10, <1>17, <1>18 DEF AnswerInv

\* The store is asked: whatever it has in the view becomes a candidate.
LEMMA AugmentInv ==
  ASSUME AnswerInv, Augment
  PROVE  AnswerInv'
<1>1. /\ phase = "ranked" /\ phase' = "merge" /\ search' = search
      /\ hits' = hits /\ CurrentIndex /\ candidates' = Nearest
  BY DEF Augment, Answering
<1>2. HitsType /\ HitsInv /\ KeywordsOnly
  BY <1>1 DEF AnswerInv, StepInv
<1>3. /\ HitsType' /\ HitsInv'
      /\ \A c : Matches(c)' <=> Matches(c)
  BY <1>1, <1>2, HitsStay
<1>4. /\ candidates' = DOMAIN search.similarity \cap Current.view
      /\ Current = read'[Len(read')]
  BY <1>1, <1>2, ReadOn DEF Nearest
<1>5. CandidatesInv' /\ Offered'
  BY <1>1, <1>4 DEF CandidatesInv, Offered, Fits
<1>6. NearestFirst'
  <2> SUFFICES ASSUME NEW n \in DOMAIN hits, NEW c, c = hits[n].id
               PROVE  Matches(c)'
    BY <1>1 DEF NearestFirst, Matches
  <2> QED
    BY <1>2, <1>3 DEF KeywordsOnly
<1> QED
  BY <1>1, <1>3, <1>5, <1>6 DEF AnswerInv, StepInv

\* What a turn of the merge finds.
LEMMA MergeTurn ==
  ASSUME AnswerInv, NEW c \in candidates, Candidate(c)
  PROVE  /\ phase = "merge" /\ phase' = "merge" /\ search' = search /\ More
         /\ candidates' = candidates \ {c}
         /\ HitsType /\ HitsInv /\ CandidatesInv /\ Offered /\ NearestFirst
         /\ c \in Concepts /\ c \in DOMAIN search.similarity
         /\ \A d \in candidates : search.similarity[d] <= search.similarity[c]
<1>1. /\ phase = "merge" /\ phase' = "merge" /\ search' = search /\ More
      /\ candidates' = candidates \ {c}
      /\ \A d \in candidates : search.similarity[d] <= search.similarity[c]
  BY DEF Candidate, Answering
<1>2. HitsType /\ HitsInv /\ CandidatesInv /\ Offered /\ NearestFirst
  BY <1>1 DEF AnswerInv, StepInv
<1>3. c \in DOMAIN search.similarity
  BY <1>2 DEF CandidatesInv
<1>4. c \in Concepts
  BY <1>2, <1>3, SearchesAssumption DEF HitsType
<1> QED
  BY <1>1, <1>2, <1>3, <1>4

\* A candidate that is a hit already, or does not fit, leaves the hits alone.
LEMMA LeftOut ==
  ASSUME AnswerInv, NEW c \in candidates, Candidate(c), CurrentIndex,
         hits' = hits, Seen(c) \/ ~Fits(Current, c)
  PROVE  AnswerInv'
<1>1. /\ phase' = "merge" /\ search' = search /\ candidates' = candidates \ {c}
      /\ HitsType /\ HitsInv /\ CandidatesInv /\ Offered /\ NearestFirst
  BY MergeTurn
<1>2. /\ HitsType' /\ HitsInv'
      /\ \A d : Matches(d)' <=> Matches(d)
      /\ \A d : Seen(d)' <=> Seen(d)
  BY <1>1, HitsStay
<1>3. /\ Current = read'[Len(read')]
      /\ Len(read') = 1 => read' = read
  BY <1>1, ReadOn
<1>4. Offered'
  <2> SUFFICES ASSUME Len(read') = 1, NEW d \in DOMAIN search.similarity,
                      Fits(read'[1], d)
               PROVE  d \in candidates' \/ Seen(d)'
    BY <1>1 DEF Offered
  <2>1. d \in candidates \/ Seen(d)
    BY <1>1, <1>3 DEF Offered
  <2>2. d = c => Seen(c)
    BY <1>3
  <2> QED
    BY <1>1, <1>2, <2>1, <2>2
<1>5. NearestFirst'
  <2> SUFFICES ASSUME NEW n \in DOMAIN hits, NEW d, d = hits[n].id
               PROVE  \/ Matches(d)'
                      \/ /\ d \in DOMAIN search.similarity
                         /\ \A e \in candidates' :
                              search.similarity[e] <= search.similarity[d]
    BY <1>1 DEF NearestFirst, Matches
  <2> QED
    BY <1>1, <1>2 DEF NearestFirst
<1>6. CandidatesInv'
  BY <1>1 DEF CandidatesInv
<1> QED
  BY <1>1, <1>2, <1>4, <1>5, <1>6 DEF AnswerInv, StepInv

\* The last number of an interval is in it.
LEMMA LastOfInterval == \A n \in Nat : n + 1 \in 1..n + 1
  OBVIOUS

\* A candidate that fits becomes the last hit.
LEMMA Taken ==
  ASSUME AnswerInv, NEW c \in candidates, Candidate(c), CurrentIndex,
         ~Seen(c), Fits(Current, c),
         hits' = hits \o Hits(<<c>>, Len(read'))
  PROVE  AnswerInv'
<1>1. /\ phase' = "merge" /\ search' = search /\ candidates' = candidates \ {c}
      /\ HitsType /\ HitsInv /\ CandidatesInv /\ Offered /\ NearestFirst
      /\ More /\ c \in Concepts /\ c \in DOMAIN search.similarity
      /\ \A d \in candidates : search.similarity[d] <= search.similarity[c]
  BY MergeTurn
<1>2. /\ hits \in Seq(Hit) /\ Len(read') \in Nat
      /\ Len(read') = 1 => read' = read
  BY <1>1, ReadOn DEF HitsType
<1>3. /\ hits' \in Seq(Hit) /\ Len(hits') = Len(hits) + 1
      /\ \A n \in 1..Len(hits) : hits'[n] = hits[n]
      /\ hits'[Len(hits) + 1].id = c
      /\ hits'[Len(hits) + 1].from = Len(read')
  BY <1>1, <1>2, OneMoreHit
<1>4. /\ HitsType' /\ HitsInv'
      /\ \A d : Matches(d)' <=> Matches(d)
      /\ \A d : Seen(d) => Seen(d)'
  BY <1>1, <1>3, HitAdded
<1>5. /\ Len(hits) \in Nat /\ DOMAIN hits = 1..Len(hits)
      /\ DOMAIN hits' = 1..Len(hits) + 1
  BY <1>2, <1>3
<1>6. Seen(c)'
  <2>1. Len(hits) + 1 \in DOMAIN hits'
    BY <1>5, Zenon, LastOfInterval
  <2> QED
    BY <1>3, <2>1, Zenon DEF Seen
<1>7. Offered'
  <2> SUFFICES ASSUME Len(read') = 1, NEW d \in DOMAIN search.similarity,
                      Fits(read'[1], d)
               PROVE  d \in candidates' \/ Seen(d)'
    BY <1>1 DEF Offered
  <2>1. d \in candidates \/ Seen(d)
    BY <1>1, <1>2 DEF Offered
  <2> QED
    BY <1>1, <1>4, <1>6, <2>1
<1>8. NearestFirst'
  <2> SUFFICES ASSUME NEW n \in DOMAIN hits', NEW d, d = hits'[n].id
               PROVE  \/ Matches(d)'
                      \/ /\ d \in DOMAIN search.similarity
                         /\ \A e \in candidates' :
                              search.similarity[e] <= search.similarity[d]
    BY <1>1 DEF NearestFirst, Matches
  <2>1. CASE n = Len(hits) + 1
    BY <1>1, <1>3, <2>1
  <2>2. CASE n \in 1..Len(hits)
    <3>1. n \in DOMAIN hits /\ hits[n].id = d
      BY <1>3, <1>5, <2>2
    <3> QED
      BY <1>1, <1>4, <3>1 DEF NearestFirst
  <2> QED
    BY <1>5, <2>1, <2>2
<1>9. CandidatesInv'
  BY <1>1 DEF CandidatesInv
<1> QED
  BY <1>1, <1>4, <1>7, <1>8, <1>9 DEF AnswerInv, StepInv

\* Skipping or fetching a candidate.
LEMMA CandidateInv ==
  ASSUME AnswerInv, NEW c \in candidates, Skip(c) \/ Fetch(c)
  PROVE  AnswerInv'
<1>1. CASE Skip(c)
  <2>1. Candidate(c) /\ Seen(c) /\ hits' = hits /\ CurrentIndex
    BY <1>1 DEF Skip, CurrentIndex
  <2> QED
    BY <2>1, LeftOut
<1>2. CASE Fetch(c)
  <2>1. /\ Candidate(c) /\ ~Seen(c) /\ CurrentIndex
        /\ hits' = IF Fits(Current, c) THEN hits \o Hits(<<c>>, Len(read'))
                   ELSE hits
    BY <1>2 DEF Fetch
  <2>2. CASE Fits(Current, c)
    BY <2>1, <2>2, Taken
  <2>3. CASE ~Fits(Current, c)
    BY <2>1, <2>3, LeftOut
  <2> QED
    BY <2>2, <2>3
<1> QED
  BY <1>1, <1>2

\* The answer is what the merge came to.
LEMMA AnswerStepInv ==
  ASSUME AnswerInv, Answer
  PROVE  AnswerInv'
<1>1. /\ search' = search /\ read' = read /\ hits' = hits
      /\ candidates' = candidates /\ phase' = "answered"
      /\ phase \in {"ranked", "merge"}
      /\ ~More \/ (phase = "merge" /\ candidates = {})
  BY DEF Answer, Answering, searchVars
<1>2. HitsType /\ HitsInv /\ StepInv
  BY <1>1 DEF AnswerInv
<1>3. CurrentIndex
  BY <1>1 DEF CurrentIndex
<1>4. HitsType' /\ HitsInv'
  BY <1>1, <1>2, <1>3, HitsStay
<1>5. /\ KeywordsOnly => KeywordsOnly'
      /\ Offered => Offered'
      /\ NearestFirst => NearestFirst'
      /\ More' <=> More
  BY <1>1 DEF KeywordsOnly, Offered, NearestFirst, More, Matches, Seen, Fits
<1>6. StepInv'
  BY <1>1, <1>2, <1>5 DEF StepInv
<1> QED
  BY <1>4, <1>6 DEF AnswerInv

\* The invariant of a search, over any documents, vectors, limits and
\* generations that come in between.
LEMMA AnswerInvariance == SearchSpec => []AnswerInv
<1>1. SearchInit => AnswerInv
  BY DEF SearchInit, ReadingInit, Unread, AnswerInv
<1>2. ReadInv /\ AnswerInv /\ [SearchNext]_toolVars => AnswerInv'
  <2> SUFFICES ASSUME ReadInv, AnswerInv, [SearchNext]_toolVars
               PROVE  AnswerInv'
    OBVIOUS
  <2>1. CASE Load
    <3>1. phase = "load"
      BY <2>1 DEF Load, Climb, Found, VisibleTo, Take, ReadInv, LoadType
    <3>2. phase' \in {"load", "ready"}
      BY <2>1, <3>1 DEF Load, Climb, Found, VisibleTo, Take
    <3> QED
      BY <3>2 DEF AnswerInv
  <2>2. CASE Call \/ Follow
    <3>1. phase' \in {"walk", "refused"}
      BY <2>2 DEF Call, Follow
    <3> QED
      BY <3>1 DEF AnswerInv
  <2>3. CASE Rank
    BY <2>3, RankInv
  <2>4. CASE Augment
    BY <2>4, AugmentInv
  <2>5. CASE Answer
    BY <2>5, AnswerStepInv
  <2>6. CASE Raise
    <3>1. phase' = "failed"
      BY <2>6 DEF Raise, Answering
    <3> QED
      BY <3>1 DEF AnswerInv
  <2>7. ASSUME NEW c \in candidates, Skip(c) \/ Fetch(c)
        PROVE  AnswerInv'
    BY <2>7, CandidateInv
  <2>8. CASE UNCHANGED toolVars
    <3>1. /\ search' = search /\ read' = read /\ hits' = hits
          /\ candidates' = candidates /\ phase' = phase
      BY <2>8 DEF toolVars, searchVars, readingVars
    <3>2. CASE phase \in {"ranked", "merge", "answered"}
      <4>1. HitsType /\ HitsInv /\ StepInv /\ CurrentIndex
        BY <3>1, <3>2 DEF AnswerInv, CurrentIndex
      <4>2. HitsType' /\ HitsInv'
        BY <3>1, <4>1, HitsStay
      <4>3. /\ KeywordsOnly => KeywordsOnly'
            /\ Offered => Offered'
            /\ NearestFirst => NearestFirst'
            /\ CandidatesInv => CandidatesInv'
            /\ More' <=> More
        BY <3>1
        DEF KeywordsOnly, Offered, NearestFirst, CandidatesInv, More, Matches,
            Seen, Fits
      <4>4. StepInv'
        BY <3>1, <4>1, <4>3 DEF StepInv
      <4> QED
        BY <4>2, <4>4 DEF AnswerInv
    <3>3. CASE phase \notin {"ranked", "merge", "answered"}
      BY <3>1, <3>3 DEF AnswerInv
    <3> QED
      BY <3>2, <3>3
  <2> QED
    BY <2>1, <2>2, <2>3, <2>4, <2>5, <2>6, <2>7, <2>8
    DEF SearchNext, SearchConcepts
<1> QED
  BY <1>1, <1>2, ReadInvariance, PTL DEF SearchSpec

\* search_concepts answers with keyword hits in their order, then the others;
\* no concept twice, none beyond the limit, and none that the session may not
\* see or the facets exclude in the generation it was read from, whatever
\* generations come in between.
THEOREM AnswersHold == SearchSpec => []AnswerHolds
<1>1. AnswerInv => AnswerHolds
  <2> SUFFICES ASSUME AnswerInv, phase \in {"ranked", "merge", "answered"}
               PROVE  /\ Len(hits) <= search.limit
                      /\ \A n \in DOMAIN hits :
                           /\ Fits(read[hits[n].from], hits[n].id)
                           /\ ~Before(hits[n].id, n)
                           /\ \A k \in 1..n : hits[k].from <= hits[n].from
                           /\ \A c \in Concepts :
                                Outranks(c, hits[n].id) => Before(c, n)
    BY DEF AnswerHolds
  <2>1. HitsType /\ HitsInv
    BY DEF AnswerInv
  <2>2. /\ DOMAIN hits = 1..Len(hits) /\ Len(hits) \in Nat
        /\ Len(hits) <= search.limit
        /\ \A n \in DOMAIN hits :
             hits[n].id \in Concepts /\ hits[n].from \in Nat
    <3>1. hits \in Seq(Hit) /\ Len(hits) <= search.limit
      BY <2>1 DEF HitsType
    <3>2. DOMAIN hits = 1..Len(hits) /\ Len(hits) \in Nat
      BY <3>1
    <3>3. \A n \in DOMAIN hits : hits[n] \in Hit
      BY <3>1, <3>2
    <3> QED
      BY <3>1, <3>2, <3>3 DEF Hit
  <2> SUFFICES ASSUME NEW n \in DOMAIN hits
               PROVE  /\ Fits(read[hits[n].from], hits[n].id)
                      /\ ~Before(hits[n].id, n)
                      /\ \A k \in 1..n : hits[k].from <= hits[n].from
                      /\ \A c \in Concepts :
                           Outranks(c, hits[n].id) => Before(c, n)
    BY <2>2
  <2>3. Fits(read[hits[n].from], hits[n].id)
    BY <2>1 DEF HitsInv
  <2>4. ~Before(hits[n].id, n)
    <3>1. \A k \in 1..n - 1 : k \in DOMAIN hits /\ k < n
      BY <2>2
    <3> QED
      BY <3>1, <2>1 DEF HitsInv, Before
  <2>5. \A k \in 1..n : hits[k].from <= hits[n].from
    <3> SUFFICES ASSUME NEW k \in 1..n
                 PROVE  hits[k].from <= hits[n].from
      OBVIOUS
    <3>1. k = n \/ (k \in DOMAIN hits /\ k < n)
      BY <2>2
    <3> QED
      BY <3>1, <2>1, <2>2 DEF HitsInv
  <2>6. \A c \in Concepts : Outranks(c, hits[n].id) => Before(c, n)
    BY <2>1, <2>2 DEF HitsInv
  <2> QED
    BY <2>3, <2>4, <2>5, <2>6
<1> QED
  BY <1>1, AnswerInvariance, PTL

\* An answer of search_concepts that was read from one generation leaves out
\* nothing that fits and is found, unless the limit is reached, and then
\* nothing that is nearer to the query than a hit that is no keyword hit.
THEOREM AnswersAreComplete == SearchSpec => []AnswerIsComplete
<1>1. AnswerInv => AnswerIsComplete
  <2> SUFFICES ASSUME AnswerInv, phase = "answered", Len(read) = 1,
                      NEW c \in Concepts, Fits(read[1], c), ~Seen(c),
                      Matches(c) \/ c \in DOMAIN search.similarity
               PROVE  /\ Len(hits) = search.limit
                      /\ \A n \in DOMAIN hits :
                           \/ Matches(hits[n].id)
                           \/ search.similarity[hits[n].id]
                                >= search.similarity[c]
    BY DEF AnswerIsComplete
  <2>1. HitsType /\ HitsInv /\ StepInv
    BY DEF AnswerInv
  <2>2. /\ Len(hits) \in Nat /\ search.limit \in Nat
        /\ Len(hits) <= search.limit
        /\ \A d \in DOMAIN search.similarity : search.similarity[d] \in Int
    BY <2>1, SearchesAssumption DEF HitsType
  <2>3. CASE Matches(c)
    <3>1. ~AllMatches
      BY <2>3 DEF AllMatches
    <3>2. ~More /\ \A n \in DOMAIN hits : Matches(hits[n].id)
      BY <2>1, <3>1 DEF HitsInv
    <3> QED
      BY <2>2, <3>2 DEF More
  <2>4. CASE ~Matches(c)
    <3>1. c \in DOMAIN search.similarity
      BY <2>4
    <3>2. CASE ~More /\ KeywordsOnly
      BY <2>2, <3>2 DEF More, KeywordsOnly
    <3>3. CASE Offered /\ NearestFirst /\ (~More \/ candidates = {})
      <4>1. c \in candidates
        BY <3>1, <3>3 DEF Offered
      <4>2. Len(hits) = search.limit
        BY <2>2, <3>3, <4>1 DEF More
      <4>3. \A n \in DOMAIN hits :
              \/ Matches(hits[n].id)
              \/ search.similarity[hits[n].id] >= search.similarity[c]
        BY <2>2, <3>1, <3>3, <4>1 DEF NearestFirst
      <4> QED
        BY <4>2, <4>3
    <3> QED
      BY <2>1, <3>2, <3>3 DEF StepInv
  <2> QED
    BY <2>3, <2>4
<1> QED
  BY <1>1, AnswerInvariance, PTL
=============================================================================
