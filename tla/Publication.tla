---------------------------- MODULE Publication ----------------------------
(***************************************************************************)
(* What publishing by generations gives a reader of the knowledge          *)
(* (docs/usage.md, "Generational publish"), without directories, pointers  *)
(* or file-system calls: releases that never change, of which the latest   *)
(* are kept, and a server that shows one of them at a time: a kept one     *)
(* whole, and of one that was dropped while it was taken any part.         *)
(***************************************************************************)
EXTENDS Naturals

CONSTANTS
  Releases,     \* numbers of the releases, 0 the tree there was before
  Pages,
  Contents,     \* what a page may hold
  NoFile,       \* the release has no such page
  Index,        \* the page without which nothing is shown
  Clashing,     \* pages with which nothing is shown
  Nothing       \* the server shows nothing yet

VARIABLES
  releases,     \* all releases there were
  kept,         \* those that are kept
  latest,
  served,       \* the release the server took
  shown,        \* what it shows
  fresh         \* it believes to be up to date

pubVars == <<releases, kept, latest, served, shown, fresh>>

Trees == [Pages -> Contents \cup {NoFile}]
Complete(tree) == tree[Index] # NoFile
Unique(tree) == \A f \in Clashing : tree[f] = NoFile
Servable(tree) == Complete(tree) /\ Unique(tree)

\* What is found of a tree whose pages are being removed.
PartOf(part, tree) == \A f \in Pages : part[f] \in {tree[f], NoFile}

Init ==
  /\ releases \in [{0} -> Trees]
  /\ kept = {0}
  /\ latest = 0
  /\ served = Nothing
  /\ shown = [f \in Pages |-> NoFile]
  /\ fresh = FALSE

\* A new release, and some old ones are not kept any longer.
Publish(r) ==
  /\ r > latest
  /\ latest' = r
  /\ \E tree \in Trees :
       /\ Complete(tree)
       /\ releases' = [n \in DOMAIN releases \cup {r} |->
                         IF n = r THEN tree ELSE releases[n]]
  /\ \E gone \in SUBSET (kept \ {0}) : kept' = (kept \ gone) \cup {r}
  /\ fresh' = FALSE
  /\ UNCHANGED <<served, shown>>

\* The server takes a release that is kept, whole.  It may come late, which it
\* then knows.
Take(n) ==
  /\ n \in kept
  /\ Servable(releases[n])
  /\ shown' = releases[n]
  /\ fresh' \in {FALSE, n = latest}

\* The release was dropped while the server took it: what it got of it, it
\* does not take for the latest.
TakeLeftovers(n) ==
  /\ n \in DOMAIN releases \ kept
  /\ \E part \in Trees :
       PartOf(part, releases[n]) /\ Unique(part) /\ shown' = part
  /\ fresh' = FALSE

Load(n) ==
  /\ ~fresh
  /\ n = 0 \/ served = Nothing \/ n >= served
  /\ served' = n
  /\ Take(n) \/ TakeLeftovers(n)
  /\ UNCHANGED <<releases, kept, latest>>

Next == \E n \in Releases : Publish(n) \/ Load(n)

\* When nothing more is published, the server comes to show the last release,
\* if it can be shown.
CatchesUp == <>[](Servable(releases[latest]) => fresh)

\* What a reader may rely on at any time, and what it may rely on in the end.
Safety == Init /\ [][Next]_pubVars
Spec == Safety /\ CatchesUp
=============================================================================
