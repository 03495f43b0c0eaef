----------------------------- MODULE Traversal -----------------------------
(***************************************************************************)
(* follow_links of the index (okf_mcp.index): a breadth-first walk over    *)
(* the links of the concepts a session may see.                            *)
(*                                                                         *)
(* The links of a concept and the concepts of a frontier are walked in     *)
(* some order; which order decides only whose link a concept is said to be *)
(* reached by, and is left open.                                           *)
(***************************************************************************)
EXTENDS Integers, FiniteSets

CONSTANTS
  Concepts,     \* concept ids of the loaded bundles, all of them
  Others,       \* ids that are no concepts: indexes, logs, dangling links
  Bundles,      \* names a qualified link may carry
  Loaded,       \* the loaded bundles
  Here,         \* the link is not qualified
  Nowhere,      \* a qualified link into a bundle that is not loaded
  Targets,      \* the links that documents may carry
  start,        \* the concept the walk starts from
  NotReached,
  MaxDepth      \* bound: depth asked for

Ids == Concepts \cup Others
Depths == -1..MaxDepth

ASSUME IdsAssumption == Concepts \cap Others = {} /\ Nowhere \notin Ids
ASSUME LoadedAssumption == Loaded \subseteq Bundles /\ Here \notin Bundles
ASSUME TargetsAssumption ==
  Targets \subseteq [bundle : Bundles \cup {Here}, id : Ids]
ASSUME StartAssumption == start \in Concepts
ASSUME DepthAssumption == MaxDepth \in Nat
ASSUME NotReachedAssumption ==
  NotReached \notin [hop : Nat, via : Concepts]

VARIABLES
  visible,      \* the view: concepts the session may see
  links,        \* the links of each concept
  depth,        \* the depth asked for
  hop,          \* the hop being walked
  frontier,     \* concepts of the hop before, not walked yet
  nextFrontier, \* concepts reached at this hop
  seen,         \* ids met so far
  reached       \* for each concept the hop and the concept it is reached by

configVars == <<visible, links, depth>>
vars == <<configVars, hop, frontier, nextFrontier, seen, reached>>

-----------------------------------------------------------------------------
Loads(bundle) == bundle = Here \/ bundle \in Loaded

\* _resolve_link: a qualified id is looked up among the ids of all bundles.
Resolve(t) == IF Loads(t.bundle) THEN t.id ELSE Nowhere

\* Ids the links of a document lead to.
Linked(d) == {Resolve(t) : t \in links[d]} \ {Nowhere}

Reached(c) == reached[c] # NotReached
Hop(c) == IF c = start THEN 0 ELSE reached[c].hop
Met(c) == c = start \/ Reached(c)

\* range(1, max(depth, 0) + 1)
Done == hop > depth

Init ==
  /\ visible \in {v \in SUBSET Concepts : start \in v}
  /\ links \in [Concepts -> SUBSET Targets]
  /\ depth \in Depths
  /\ hop = 1
  /\ frontier = {start}
  /\ nextFrontier = {}
  /\ seen = {start}
  /\ reached = [c \in Concepts |-> NotReached]

\* Mutation of Walk: what is found is walked within the same hop.
WalkOn(d) ==
  /\ ~Done
  /\ d \in frontier
  /\ LET fresh == Linked(d) \ seen
         found == fresh \cap visible
     IN  /\ seen' = seen \cup fresh
         /\ frontier' = (frontier \ {d}) \cup found
         /\ reached' = [c \in Concepts |->
              IF c \in found THEN [hop |-> hop, via |-> d] ELSE reached[c]]
  /\ UNCHANGED <<configVars, hop, nextFrontier>>

\* Mutation of Walk: a link out of the view ends the links of the document.
WalkUpToHidden(d) ==
  /\ ~Done
  /\ d \in frontier
  /\ LET fresh == Linked(d) \ seen
         found == IF fresh \subseteq visible THEN fresh ELSE {}
     IN  /\ seen' = seen \cup found
         /\ nextFrontier' = nextFrontier \cup found
         /\ reached' = [c \in Concepts |->
              IF c \in found THEN [hop |-> hop, via |-> d] ELSE reached[c]]
  /\ frontier' = frontier \ {d}
  /\ UNCHANGED <<configVars, hop>>

\* The links of one document of the frontier.
Walk(d) ==
  /\ ~Done
  /\ d \in frontier
  /\ LET fresh == Linked(d) \ seen
         found == fresh \cap visible
     IN  /\ seen' = seen \cup fresh
         /\ nextFrontier' = nextFrontier \cup found
         /\ reached' = [c \in Concepts |->
              IF c \in found THEN [hop |-> hop, via |-> d] ELSE reached[c]]
  /\ frontier' = frontier \ {d}
  /\ UNCHANGED <<configVars, hop>>

NextHop ==
  /\ ~Done
  /\ frontier = {}
  /\ hop' = hop + 1
  /\ frontier' = nextFrontier
  /\ nextFrontier' = {}
  /\ UNCHANGED <<configVars, seen, reached>>

Next == NextHop \/ \E d \in frontier : Walk(d)
Spec == Init /\ [][Next]_vars

-----------------------------------------------------------------------------
\* A path of n links from the start to c, when nothing but the view exists.
Path(n, c) ==
  \E p \in [0..n -> visible] :
    /\ p[0] = start /\ p[n] = c
    /\ \A k \in 1..n : p[k] \in Linked(p[k - 1])

\* Every variable has its type; a walk is never at a hop beyond the last.
TypeOK ==
  /\ visible \in SUBSET Concepts
  /\ start \in visible
  /\ links \in [Concepts -> SUBSET Targets]
  /\ depth \in Depths
  /\ hop \in 1..MaxDepth + 1
  /\ frontier \in SUBSET Concepts
  /\ nextFrontier \in SUBSET Concepts
  /\ seen \in SUBSET Ids
  /\ reached \in [Concepts -> [hop : Nat, via : Concepts] \cup {NotReached}]

\* follow_links: nothing outside the view is reported or named as the one
\* whose link led on, at any moment of the walk.
OnlyVisible ==
  \A c \in Concepts : Reached(c) => c \in visible /\ reached[c].via \in visible

\* A concept reported at some hop is led to by a link of the concept it is
\* said to be reached by, which is the start or itself reported one hop
\* earlier: the report is a tree of shortest paths.
ViaIsALink ==
  \A c, d \in Concepts : Reached(c) /\ reached[c].via = d =>
    c \in Linked(d) /\ Met(d) /\ reached[c].hop = Hop(d) + 1

\* A qualified link leads somewhere only when its bundle is loaded: what is
\* reported is linked to without a bundle name or under that of a loaded one.
OnlyLoadedBundles ==
  \A c \in Concepts : Reached(c) =>
    \E t \in links[reached[c].via] :
      t.id = c /\ (t.bundle = Here \/ t.bundle \in Loaded)

\* Of a finished walk: a visible concept that a reported one (or the start)
\* links to is reported too, at most one hop further, unless the depth ends
\* there.  Hidden concepts, indexes and dangling links never end it early.
NothingMissed ==
  Done => \A d, c \in visible :
    Met(d) /\ Hop(d) < depth /\ c \in Linked(d)
      => Met(c) /\ Hop(c) <= Hop(d) + 1

\* What follow_links reports is a part of the view, led to by links that
\* resolve, hop by hop, with nothing left out.
ReportIsRight ==
  OnlyVisible /\ ViaIsALink /\ OnlyLoadedBundles /\ NothingMissed

\* A finished walk reports exactly what a path of at most depth links leads to
\* in the view, at the length of the shortest one: concepts outside the view
\* make no difference to what is reported, nor to the hops.
ShortestInView ==
  Done => \A c \in Concepts :
    /\ Reached(c) <=> c # start /\ \E n \in 1..depth : Path(n, c)
    /\ Reached(c) => /\ Path(reached[c].hop, c)
                     /\ \A n \in 1..reached[c].hop - 1 : ~Path(n, c)
=============================================================================
