----------------------------- MODULE MCReading -----------------------------
(***************************************************************************)
(* A small instance of Search, and Reading, for TLC.  Graphs, qualified    *)
(* links, scopes and searches vary one after the other, each over what     *)
(* three concepts allow, while the rest stays put.                         *)
(***************************************************************************)
EXTENDS Search, TLC

CONSTANTS a, b, c, i, here, away, x, y, board

InOrder == <<a, b, c>>
Tree == {<<>>, <<x>>, <<x, y>>}

\* Links between concepts; links to a concept and an index, qualified or not.
Plain == [bundle : {Here}, id : Concepts]
Qualified == [bundle : {Here, here, away}, id : {b, i}]
AllTargets == Plain \cup Qualified

AtTheRoot ==
  /\ where = [d \in Concepts |-> <<>>]
  /\ default = [d \in Directories |-> Absent]
  /\ caller = {}

\* Every graph of three concepts, every view with the start in it.
EveryGraph ==
  /\ AtTheRoot
  /\ scope \in {f \in [Concepts -> {{Public}, {board}}] : f[a] = {Public}}
  /\ links \in [Concepts -> SUBSET Plain]
  /\ depth \in 0..MaxDepth

\* Every way two concepts may carry qualified and dangling links.
EveryLink ==
  /\ AtTheRoot
  /\ scope = [d \in Concepts |-> Absent]
  /\ links \in {f \in [Concepts -> SUBSET Qualified] : f[c] = {}}
  /\ depth = 2

\* Every scope of two concepts, one of them anywhere in the directories.
EveryScope ==
  /\ where \in {f \in [Concepts -> Directories] : f[a] = <<>> /\ f[c] = <<>>}
  /\ scope \in {f \in [Concepts -> Fields] :
                 f[a] \in {Absent, {board}} /\ f[c] = Absent}
  /\ links = [d \in Concepts |-> {[bundle |-> Here, id |-> b]}]
  /\ depth = -1

\* Searches: what documents match, where the store has vectors, and another
\* generation in which one concept is other than it was.
Described ==
  {f \in [Concepts -> Match] : f[c] = [score |-> 0, fits |-> TRUE]}
Near == {a :> 2 @@ b :> 1 @@ c :> 3, a :> 1 @@ b :> 1 @@ c :> 1, a :> 1 @@ c :> 2, <<>>}
Newer(f) ==
  {[view |-> {a, c}, documents |-> f],
   [view |-> {a, b}, documents |-> [f EXCEPT ![a].fits = ~@]]}
AllSearches ==
  UNION {[documents : {f}, similarity : Near, limit : 1..3,
          reloads : {{}} \cup {{g} : g \in Newer(f)}] : f \in Described}

\* Every view of three concepts that are searched.
EverySearch ==
  /\ AtTheRoot
  /\ scope \in [Concepts -> {{Public}, {board}}]
  /\ links = [d \in Concepts |-> {}]
  /\ depth = 0

MCInit ==
  /\ \/ (EveryGraph \/ EveryLink \/ EveryScope) /\ tool = "follow_links"
     \/ EverySearch /\ tool = "search_concepts"
  /\ SearchInit
MCSpec == MCInit /\ [][SearchNext]_toolVars /\ SearchFairness
=============================================================================
