------------------------------ MODULE Serving ------------------------------
(***************************************************************************)
(* One server process (okf_mcp.server: ServedIndex and _current_index)     *)
(* over a knowledge root that publishes generations.  It loads an index    *)
(* from the generation CURRENT names when it starts and, with              *)
(* OKF_HOT_RELOAD, again when a tool call finds that the pointer moved.    *)
(* Publishing and pruning (Generations) go on between any two of its file  *)
(* system calls.                                                           *)
(*                                                                         *)
(* The token (mtime and size of the pointer file) is the number of flips:  *)
(* every flip gives the pointer a new mtime.  An index is what was read of *)
(* the markdown files of one tree; scopes are left out.  The files are     *)
(* looked for directory by directory while others are read already: of a   *)
(* tree that is being pruned some may be gone before they are seen.        *)
(***************************************************************************)
EXTENDS Generations

CONSTANTS
  HotReload,    \* OKF_HOT_RELOAD is set
  Twins         \* concepts whose id a concept of another bundle has

ASSUME HotReloadAssumption == HotReload \in BOOLEAN
ASSUME TwinsAssumption == Twins \subseteq Concepts

Pages == Concepts \cup {Index}

VARIABLES
  serving,      \* where the process is: down, ready, or in a build
  token,        \* ServedIndex._token
  newToken,     \* the token read before the build
  pin,          \* the tree the served index was built from, NoTree for none
  index,        \* ServedIndex.index
  at,           \* the pointer read by the build, then the tree it resolved to
  toRead,       \* files not read yet
  loaded        \* what the build has read

buildVars == <<at, toRead, loaded>>
servedVars == <<token, pin, index>>
serverVars == <<serving, newToken, buildVars, servedVars>>
allVars == <<vars, serverVars>>

-----------------------------------------------------------------------------
Flips == Cardinality(published)
NoPages == [f \in Pages |-> NoFile]

\* OkfIndex takes no concept id twice.
Loadable(pages) == \A f \in Twins : pages[f] = NoFile

ServingInit ==
  /\ Init
  /\ serving = "down"
  /\ token = 0 /\ newToken = 0
  /\ pin = NoTree
  /\ index = NoPages
  /\ at = 0
  /\ toRead = {}
  /\ loaded = NoPages

\* build_server: ServedIndex reads the token first.
Boot ==
  /\ serving = "down"
  /\ serving' = "resolve"
  /\ newToken' = Flips
  /\ UNCHANGED <<vars, buildVars, servedVars>>

\* ... unless the pointer moved.
Reload ==
  /\ serving = "ready"
  /\ HotReload
  /\ token # Flips
  /\ serving' = "resolve"
  /\ newToken' = Flips
  /\ UNCHANGED <<vars, buildVars, servedVars>>

\* current_generation_dir reads the pointer ...
ReadPointer ==
  /\ serving = "resolve"
  /\ at' = current
  /\ serving' = "look"
  /\ UNCHANGED <<vars, newToken, servedVars, toRead, loaded>>

\* ... and looks whether that directory is there; resolve_root takes the root
\* itself when it is not.
LookForDir ==
  /\ serving = "look"
  /\ at' = IF at \in dirs THEN at ELSE 0
  /\ serving' = "list"
  /\ UNCHANGED <<vars, newToken, servedVars, toRead, loaded>>

\* discover_bundles looks for the bundle's index.md ...
Discover ==
  /\ serving = "list"
  /\ HasBundle(at)
  /\ serving' = "walk"
  /\ UNCHANGED <<vars, newToken, buildVars, servedVars>>

\* ... and then load_bundle begins to look for its files: what was removed in
\* between is not missed.
List ==
  /\ serving = "walk"
  /\ toRead' = {f \in Pages : Has(at, f)}
  /\ loaded' = NoPages
  /\ serving' = "load"
  /\ UNCHANGED <<vars, newToken, servedVars, at>>

\* parse_document of one listed file.
ReadPage(f) ==
  /\ serving = "load"
  /\ f \in toRead
  /\ Has(at, f)
  /\ toRead' = toRead \ {f}
  /\ loaded' = [loaded EXCEPT ![f] = View(at)[f]]
  /\ UNCHANGED <<vars, serving, newToken, servedVars, at>>

\* A file is gone before its directory is listed: it is not missed either.
SkipPage(f) ==
  /\ serving = "load"
  /\ f \in toRead
  /\ ~Has(at, f)
  /\ toRead' = toRead \ {f}
  /\ UNCHANGED <<vars, serving, newToken, servedVars, at, loaded>>

\* Mutation of BuildFails: a server that could not start is ready.
BuildGivesNothing ==
  /\ \/ serving = "list" /\ ~HasBundle(at)
     \/ serving = "load" /\ \E f \in toRead : ~Has(at, f)
     \/ serving = "load" /\ toRead = {} /\ ~Loadable(loaded)
  /\ serving' = "ready"
  /\ toRead' = {}
  /\ loaded' = NoPages
  /\ UNCHANGED <<vars, newToken, servedVars, at>>

\* The build raises: no bundles there, a file went after it was listed, or an
\* id is there twice, which no run looks for before it publishes.  The process
\* ends when it was starting; else the call fails and nothing is swapped.
BuildFails ==
  /\ \/ serving = "list" /\ ~HasBundle(at)
     \/ serving = "load" /\ \E f \in toRead : ~Has(at, f)
     \/ serving = "load" /\ toRead = {} /\ ~Loadable(loaded)
  /\ serving' = IF pin = NoTree THEN "down" ELSE "ready"
  /\ toRead' = {}
  /\ loaded' = NoPages
  /\ UNCHANGED <<vars, newToken, servedVars, at>>

\* Mutation of Swap: the token is read after the build.
SwapThenToken ==
  /\ serving = "load"
  /\ toRead = {} /\ Loadable(loaded)
  /\ index' = loaded
  /\ pin' = at
  /\ token' = Flips
  /\ loaded' = NoPages
  /\ serving' = "ready"
  /\ UNCHANGED <<vars, newToken, at, toRead>>

\* The build returns: the index and its token are swapped in, and a call that
\* asked for them goes on with them.
Swap ==
  /\ serving = "load"
  /\ toRead = {} /\ Loadable(loaded)
  /\ index' = loaded
  /\ pin' = at
  /\ token' = newToken
  /\ loaded' = NoPages
  /\ serving' = "ready"
  /\ UNCHANGED <<vars, newToken, at, toRead>>

BuildStep ==
  \/ ReadPointer \/ LookForDir \/ Discover \/ List \/ BuildFails \/ Swap
  \/ \E f \in Pages : ReadPage(f) \/ SkipPage(f)

\* What the publisher does meanwhile.
Publisher ==
  /\ Next
  /\ UNCHANGED <<serving, newToken, servedVars, at, toRead, loaded>>

ServingNext == Publisher \/ Boot \/ Reload \/ BuildStep

ServingSpec == ServingInit /\ [][ServingNext]_allVars

-----------------------------------------------------------------------------
\* Every variable of the server has its type; it is ready only when an index
\* was built, and its token is never ahead of the pointer's.
ServingTypeOK ==
  /\ TypeOK
  /\ serving \in {"down", "ready", "resolve", "look", "list", "walk", "load"}
  /\ token \in 0..Flips /\ newToken \in token..Flips
  /\ pin \in Trees \cup {NoTree} /\ at \in Trees
  /\ index \in [Pages -> Contents \cup {Torn, NoFile}]
  /\ serving = "ready" => pin # NoTree
  /\ loaded \in [Pages -> Contents \cup {Torn, NoFile}]
  /\ toRead \subseteq Pages /\ (toRead # {} => serving = "load")

-----------------------------------------------------------------------------
\* The publisher's run goes on, a build goes on, the server is restarted when
\* it could not start, and tool calls keep coming.
ServingFairness ==
  /\ WF_allVars(Publisher /\ RunStep)
  /\ WF_allVars(Boot) /\ WF_allVars(BuildStep)
  /\ WF_allVars(Reload)

FairSpec == ServingSpec /\ ServingFairness

\* What a reader is promised of a page.  Of hard links only that it is there:
\* the next run writes into it (PublishedUntouched does not hold).
Anything == CHOOSE c \in Contents : TRUE
Promised(c) == IF hardLinks /\ c # NoFile THEN Anything ELSE c
Release(v) == [f \in Pages |-> Promised(v[f])]

\* Generations and a server implement a publication: a release stays what it
\* was when it was published; the server shows a release that is kept whole,
\* no page missing, none of another, none half written, and goes back only to
\* the plain root; what it shows of a release that was pruned meanwhile is of
\* that release, and never taken for the latest; however flips and prunes fall
\* between the steps of a build, it is never stuck behind CURRENT, taking
\* itself to be up to date with an older tree; and with hot reload, once runs
\* stop being started, it comes to show what CURRENT holds, if that can be
\* loaded.
Pub == INSTANCE Publication WITH
  Releases <- Trees,
  Nothing <- NoTree,
  releases <- [n \in {0} \cup published |-> Release(snap[n])],
  kept <- {0} \cup (published \ pruned),
  latest <- current,
  Clashing <- Twins,
  served <- pin,
  shown <- Release(index),
  fresh <- pin # NoTree /\ token = Flips

ImplementsPublication == Pub!Spec
=============================================================================
