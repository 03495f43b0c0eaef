------------------------- MODULE GenerationsProofs -------------------------
(***************************************************************************)
(* What generational publish keeps true, and what a hot-reloading server   *)
(* shows meanwhile, for every set of concepts and contents, every          *)
(* generations_keep and any number of runs, with hard links and without,   *)
(* checked by TLAPS: types, CURRENT, retention, and that publisher and     *)
(* server implement the safety of Publication.                             *)
(***************************************************************************)
EXTENDS Serving, FiniteSetTheorems, WellFoundedInduction, TLAPS

USE KeepAssumption, BoundsAssumption, LinkingAssumption, FilesAssumption,
    MarkersAssumption

Building == phase \in {"stage", "sync", "save", "validate", "publish"}

(* The strengthening: the tree under construction is the newest directory  *)
(* and was never published, only trees other than CURRENT are deleted, and *)
(* a tree about to be published has a bundle.                              *)
StagedInv ==
  /\ Building => staged = last /\ staged \in dirs /\ staged \notin published
  /\ current \in published \cup {0}
  /\ current \notin doomed
  /\ doomed # {} => phase = "remove"
  /\ phase = "idle" => staged = 0
  /\ staged \in doomed => doomed = {staged}
  /\ phase = "stage" => \A f \in toLink : Has(current, f)
  /\ phase = "publish" => HasBundle(staged)
  /\ CurrentResolves

IInv == TypeOK /\ StagedInv

(* Trees are numbers, the plain layout's among them, NoTree is none.       *)
LEMMA NatBounds ==
  /\ MaxGens \in Nat
  /\ Trees \subseteq Nat
  /\ NoTree \notin Trees
  /\ NoTree \in Nat
  /\ 0 \in Trees
BY DEF Trees, NoTree

(* resolve_root finds what CURRENT names.                                  *)
LEMMA BaseIsCurrent == IInv => Base = current
BY DEF IInv, TypeOK, StagedInv, CurrentResolves, Base, Trees

(* The files that are no concepts.                                         *)
LEMMA FilesMembers ==
  /\ Index \in Files /\ LedgerFile \in Files /\ Concepts \subseteq Files
  /\ NoFile \notin Files /\ Index # LedgerFile
BY DEF Files, Index, LedgerFile

-----------------------------------------------------------------------------
(* The invariant holds of a root that has never published.                 *)
LEMMA InitHolds == Init => IInv
BY NatBounds
   DEF Init, IInv, TypeOK, StagedInv, Building, CurrentResolves, Trees

(* Opening a file of the staged tree disturbs no other tree's paths. *)
LEMMA TruncateTypes ==
  ASSUME IInv, NEW f \in Files, Truncate(f), phase = "sync"
  PROVE  /\ data' \in [Trees -> [Files -> Contents \cup {Torn}]]
         /\ origin' \in [Trees -> [Files -> Trees \cup {NoTree}]]
         /\ origin'[staged][f] \in Trees
         /\ \A g \in Trees : g # staged => origin'[g] = origin[g]
         /\ \A h \in Files : h # f => origin'[staged][h] = origin[staged][h]
<1> DEFINE o == IF Has(staged, f) THEN origin[staged][f] ELSE staged
<1>1. staged \in Trees
  BY NatBounds DEF IInv, TypeOK, StagedInv, Building, Trees
<1>2. o \in Trees
  BY <1>1 DEF IInv, TypeOK, Has
<1>3. /\ origin' = [origin EXCEPT ![staged][f] = o]
      /\ data' = [data EXCEPT ![o][f] = Torn]
  BY DEF Truncate
<1> HIDE DEF o
<1> QED
  BY <1>1, <1>2, <1>3 DEF IInv, TypeOK

(* Every step keeps the inductive invariant. *)
LEMMA NextHolds == IInv /\ [Next]_vars => IInv'
<1> SUFFICES ASSUME IInv, [Next]_vars
             PROVE  IInv'
  OBVIOUS
<1> USE NatBounds
<1>0. staged \in Trees /\ current \in Trees /\ last \in Trees
  BY DEF IInv, TypeOK, Trees
<1>1. CASE Stage
  <2>1. last + 1 \in Trees /\ last + 1 \notin dirs /\ last + 1 \notin published
    BY <1>1 DEF Stage, IInv, TypeOK, Trees
  <2>2. TypeOK'
    BY <1>1, <2>1 DEF Stage, IInv, TypeOK, StagedInv, histVars, Trees
  <2>3. StagedInv'
    BY <1>1, <2>1, BaseIsCurrent
    DEF Stage, IInv, TypeOK, StagedInv, Building, CurrentResolves, HasBundle,
        Has, histVars, Trees
  <2> QED
    BY <2>2, <2>3 DEF IInv
<1>2. ASSUME NEW f \in Files, Link(f)
      PROVE  IInv'
  <2>1. Base = current /\ staged # current /\ origin[current][f] \in Trees
    BY <1>2, BaseIsCurrent
    DEF Link, IInv, TypeOK, StagedInv, Building, Has, Trees
  <2>2. TypeOK'
    <3>1. origin' \in [Trees -> [Files -> Trees \cup {NoTree}]]
      BY <1>0, <1>2, <2>1 DEF Link, IInv, TypeOK
    <3>2. data' \in [Trees -> [Files -> Contents \cup {Torn}]]
      <4>1. data \in [Trees -> [Files -> Contents \cup {Torn}]]
        BY DEF IInv, TypeOK
      <4>2. data[origin[Base][f]][f] \in Contents \cup {Torn}
        BY <2>1, <4>1
      <4> QED
        BY <1>0, <1>2, <4>1, <4>2 DEF Link
    <3>3. UNCHANGED <<dirs, current, last, phase, staged, writing, writes,
                      doomed, crashes, hardLinks, published, pruned, snap>>
      BY <1>2 DEF Link, histVars
    <3>4. phase = "stage" /\ writing = NoFile /\ toLink' \subseteq Files
      BY <1>2 DEF Link, IInv, TypeOK
    <3> QED
      BY <3>1, <3>2, <3>3, <3>4 DEF IInv, TypeOK
  <2>3. origin'[current] = origin[current]
    BY <1>0, <1>2, <2>1 DEF Link, IInv, TypeOK
  <2>4. StagedInv'
    BY <1>2, <2>1, <2>3
    DEF Link, IInv, TypeOK, StagedInv, Building, CurrentResolves, HasBundle,
        Has, histVars
  <2> QED
    BY <2>2, <2>4 DEF IInv
<1>3. ASSUME NEW f \in Files, Truncate(f), phase = "sync",
             phase' \in {"sync", "save"}, writes' \in 0..MaxWrites
      PROVE  IInv'
  <2>1. staged # current
    BY <1>3 DEF IInv, TypeOK, StagedInv, Building, Trees
  <2>2. TypeOK'
    <3>1. /\ data' \in [Trees -> [Files -> Contents \cup {Torn}]]
          /\ origin' \in [Trees -> [Files -> Trees \cup {NoTree}]]
          /\ origin'[staged][f] \in Trees
      BY <1>3, TruncateTypes
    <3>2. writing' = f /\ UNCHANGED <<dirs, current, last, staged, toLink,
                                     doomed, crashes, hardLinks, published,
                                     pruned, snap>>
      BY <1>3 DEF Truncate, histVars
    <3> QED
      BY <1>3, <3>1, <3>2 DEF IInv, TypeOK, Has
  <2>3. origin'[current] = origin[current]
    BY <1>0, <1>3, <2>1, TruncateTypes
  <2>4. StagedInv'
    BY <1>3, <2>1, <2>3
    DEF Truncate, IInv, TypeOK, StagedInv, Building, CurrentResolves,
        HasBundle, Has, histVars
  <2> QED
    BY <2>2, <2>4 DEF IInv
<1>4. ASSUME NEW f \in Concepts, WriteConcept(f)
      PROVE  IInv'
  <2>1. writes' \in 0..MaxWrites
    BY <1>4 DEF WriteConcept, IInv, TypeOK
  <2> QED
    BY <1>3, <1>4, <2>1, FilesMembers DEF WriteConcept
<1>5. CASE SaveLedger
  BY <1>3, <1>5, FilesMembers DEF SaveLedger, IInv, TypeOK
<1>6. ASSUME NEW c \in Contents, Fill(c)
      PROVE  IInv'
  <2>1. writing \in Files /\ origin[staged][writing] \in Trees
    BY <1>0, <1>6 DEF Fill, IInv, TypeOK, Has
  <2>2. TypeOK'
    BY <1>0, <1>6, <2>1 DEF Fill, IInv, TypeOK, Has, histVars
  <2>3. StagedInv'
    BY <1>6 DEF Fill, IInv, TypeOK, StagedInv, Building, CurrentResolves,
                HasBundle, Has, histVars
  <2> QED
    BY <2>2, <2>3 DEF IInv
<1>7. ASSUME NEW f \in Concepts, Unlink(f)
      PROVE  IInv'
  <2>1. f \in Files /\ staged # current
    BY <1>7, FilesMembers DEF Unlink, IInv, TypeOK, StagedInv, Building, Trees
  <2>2. TypeOK'
    BY <1>0, <1>7, <2>1 DEF Unlink, IInv, TypeOK, Has, histVars
  <2>3. origin'[current] = origin[current]
    BY <1>0, <1>7, <2>1 DEF Unlink, IInv, TypeOK
  <2>4. StagedInv'
    BY <1>7, <2>1, <2>3
    DEF Unlink, IInv, TypeOK, StagedInv, Building, CurrentResolves, HasBundle,
        Has, histVars
  <2> QED
    BY <2>2, <2>4 DEF IInv
<1>8. CASE BeginSync \/ SyncRefuses \/ Accept
  BY <1>8 DEF BeginSync, SyncRefuses, Accept, IInv, TypeOK, StagedInv,
              Building, CurrentResolves, HasBundle, Has, histVars
<1>9. CASE Raise \/ Reject
  <2>1. Discard /\ staged \in dirs /\ staged # current
    BY <1>9 DEF Raise, Reject, IInv, TypeOK, StagedInv, Building, Trees
  <2> QED
    BY <2>1 DEF Discard, IInv, TypeOK, StagedInv, Building, CurrentResolves,
                HasBundle, Has, histVars
<1>10. CASE Publish
  <2>1. /\ doomed' = DoomedIn(dirs, staged)
        /\ phase' \in {"idle", "remove"}
        /\ doomed' # {} => phase' = "remove" /\ staged' = staged
        /\ doomed' = {} => phase' = "idle" /\ staged' = 0
        /\ pruned' = pruned \cup doomed'
    BY <1>10 DEF Publish, PruneAfter
  <2>2. DoomedIn(dirs, staged) \subseteq dirs \ {staged}
    BY DEF DoomedIn
  <2>3. staged \in dirs /\ HasBundle(staged) /\ staged = last /\ staged # 0
    BY <1>10 DEF Publish, IInv, TypeOK, StagedInv, Building, Trees
  <2>4. View(staged) \in [Files -> Contents \cup {Torn, NoFile}]
    <3>1. \A f \in Files : Has(staged, f) => origin[staged][f] \in Trees
      BY <1>0 DEF Has, IInv, TypeOK
    <3> data \in [Trees -> [Files -> Contents \cup {Torn}]]
      BY DEF IInv, TypeOK
    <3>2. \A f \in Files : Has(staged, f) =>
            data[origin[staged][f]][f] \in Contents \cup {Torn}
      BY <3>1
    <3> QED
      BY <3>2 DEF View
  <2>5. snap' \in [Trees -> [Files -> Contents \cup {Torn, NoFile}]]
    BY <1>0, <1>10, <2>4 DEF Publish, IInv, TypeOK
  <2>6. TypeOK'
    <3>1. writing = NoFile
      BY <1>10 DEF Publish, IInv, TypeOK
    <3>2. /\ current' = staged /\ published' = published \cup {staged}
          /\ UNCHANGED <<data, origin, dirs, last, toLink, writing, writes,
                         crashes, hardLinks>>
      BY <1>10 DEF Publish
    <3> QED
      BY <2>1, <2>2, <2>3, <2>5, <3>1, <3>2 DEF IInv, TypeOK, Trees
  <2>7. StagedInv'
    BY <1>10, <2>1, <2>2, <2>3
    DEF Publish, IInv, TypeOK, StagedInv, Building, CurrentResolves,
        HasBundle, Has
  <2> QED
    BY <2>6, <2>7 DEF IInv
<1>11. ASSUME NEW g \in Gens, NEW f \in Files, RemoveFile(g, f)
       PROVE  IInv'
  <2>1. g \in Trees /\ g # current /\ writing = NoFile
    BY <1>11 DEF RemoveFile, IInv, TypeOK, StagedInv, Gens, Trees
  <2>2. origin' \in [Trees -> [Files -> Trees \cup {NoTree}]]
    BY <1>11, <2>1 DEF RemoveFile, IInv, TypeOK
  <2>3. TypeOK'
    BY <1>11, <2>1, <2>2
    DEF RemoveFile, IInv, TypeOK, Has, runVars, histVars
  <2>4. origin'[current] = origin[current]
    BY <1>0, <1>11, <2>1 DEF RemoveFile, IInv, TypeOK
  <2>5. StagedInv'
    BY <1>11, <2>4
    DEF RemoveFile, IInv, TypeOK, StagedInv, Building, CurrentResolves,
        HasBundle, Has, runVars, histVars
  <2> QED
    BY <2>3, <2>5 DEF IInv
<1>12. ASSUME NEW g \in Gens, RemoveDir(g)
       PROVE  IInv'
  <2>1. g # current /\ g \in doomed /\ phase = "remove" /\ writing = NoFile
    BY <1>12 DEF RemoveDir, IInv, TypeOK, StagedInv
  <2>2. phase' \in {"idle", "remove"}
    BY <1>12 DEF RemoveDir
  <2>3. TypeOK'
    BY <1>12, <2>1, <2>2
    DEF RemoveDir, IInv, TypeOK, StagedInv, Has, histVars, Trees
  <2>4. StagedInv'
    BY <1>12, <2>1, <2>2
    DEF RemoveDir, IInv, TypeOK, StagedInv, Building, CurrentResolves,
        HasBundle, Has, histVars
  <2> QED
    BY <2>3, <2>4 DEF IInv
<1>13. CASE Crash
  BY <1>13 DEF Crash, IInv, TypeOK, StagedInv, Building, CurrentResolves,
               HasBundle, Has, histVars
<1>14. CASE Rest \/ UNCHANGED vars
  BY <1>14 DEF Rest, IInv, TypeOK, StagedInv, Building, CurrentResolves,
               HasBundle, Has, vars, runVars, histVars
<1> QED
  BY <1>1, <1>2, <1>4, <1>5, <1>6, <1>7, <1>8, <1>9, <1>10, <1>11, <1>12,
     <1>13, <1>14 DEF Next, RunStep

(* The invariant holds of every reachable state.                           *)
LEMMA Inductive == Spec => []IInv
BY InitHolds, NextHolds, PTL DEF Spec

(* Every variable keeps its type. *)
THEOREM TypeCorrect == Spec => []TypeOK
BY Inductive, PTL DEF IInv

(* CURRENT always names a directory with a bundle: however a run stages,   *)
(* fails, is killed, publishes or prunes, a server that starts finds       *)
(* something to load (publish_generation, prune_generations).              *)
THEOREM CurrentAlwaysResolves == Spec => []CurrentResolves
BY Inductive, PTL DEF IInv, StagedInv

-----------------------------------------------------------------------------
(* What a reader may come to read was published, or is the plain layout;   *)
(* what prune has not picked is kept.                                      *)
Shown == published \cup {0}
Kept == (published \ pruned) \cup {0}

\* Where nothing is linked, each tree has inodes of its own.
OwnInodes == \A g \in Trees, f \in Files : origin[g][f] \in {g, NoTree}

\* No path of a published tree is made or, while it is kept, removed; and where
\* files are copied, none is written.
ShownInv ==
  /\ ~hardLinks => OwnInodes
  /\ doomed \cap Kept = {}
  /\ \A g \in Shown, f \in Files : Has(g, f) => snap[g][f] # NoFile
  /\ \A g \in Kept, f \in Files : snap[g][f] # NoFile => Has(g, f)
  /\ ~hardLinks =>
       \A g \in Shown, f \in Files : Has(g, f) => data[g][f] = snap[g][f]

(* Published trees are trees; the tree under construction is none of them.  *)
LEMMA ShownTrees ==
  IInv => /\ Kept \subseteq Shown /\ Shown \subseteq Trees
          /\ Building => staged \notin Shown
          /\ current \in Shown
BY NatBounds
DEF IInv, TypeOK, StagedInv, Building, Shown, Kept, Trees

(* What a path leads to is a file, whole or torn. *)
LEMMA ViewType ==
  ASSUME IInv, NEW g \in Trees
  PROVE  /\ View(g) \in [Files -> Contents \cup {Torn, NoFile}]
         /\ \A f \in Files : Has(g, f) => View(g)[f] # NoFile
<1>1. data \in [Trees -> [Files -> Contents \cup {Torn}]]
  BY DEF IInv, TypeOK
<1>2. \A f \in Files : Has(g, f) => origin[g][f] \in Trees
  BY DEF Has, IInv, TypeOK
<1>3. \A f \in Files :
        Has(g, f) => data[origin[g][f]][f] \in Contents \cup {Torn}
  BY <1>1, <1>2
<1> QED
  BY <1>3, MarkersAssumption DEF View

(* What the file system can do does not change, nor does what was recorded
   of a published tree.                                                    *)
LEMMA HistoryStays ==
  ASSUME IInv, [Next]_vars
  PROVE  /\ hardLinks' = hardLinks
         /\ \A g \in Shown : snap'[g] = snap[g]
         /\ Shown \subseteq Shown'
         /\ \A g \in Shown : g \in Kept' => g \in Kept
<1>1. CASE Publish
  <2>1. staged \notin Shown
    BY <1>1, ShownTrees DEF Publish, Building
  <2> QED
    BY <1>1, <2>1 DEF Publish, PruneAfter, Shown, Kept, IInv, TypeOK
<1>2. CASE ~Publish
  <2>1. UNCHANGED histVars
    BY <1>2
    DEF Next, RunStep, Stage, Link, BeginSync, WriteConcept, Unlink, Fill,
        SaveLedger, SyncRefuses, Raise, Reject, Accept, Discard, Truncate,
        RemoveFile, RemoveDir, Crash, Rest, vars
  <2> QED
    BY <2>1 DEF histVars, Shown, Kept
<1> QED
  BY <1>1, <1>2

(* Of a root that has never published.                                     *)
LEMMA ShownInit == Init => ShownInv
<1> SUFFICES ASSUME Init
             PROVE  ShownInv
  OBVIOUS
<1>1. OwnInodes /\ published = {} /\ doomed = {}
  BY NatBounds DEF Init, OwnInodes
<1>2. PICK present \in SUBSET Files, c \in Contents :
        /\ origin = [g \in Trees |-> [f \in Files |->
                       IF g = 0 /\ f \in present THEN 0 ELSE NoTree]]
        /\ data = [g \in Trees |-> [f \in Files |-> c]]
        /\ snap = [g \in Trees |-> [f \in Files |->
                       IF g = 0 /\ f \in present THEN c ELSE NoFile]]
  BY DEF Init
<1>3. \A f \in Files : /\ origin[0][f] = IF f \in present THEN 0 ELSE NoTree
                       /\ data[0][f] = c
                       /\ snap[0][f] = IF f \in present THEN c ELSE NoFile
  BY <1>2, NatBounds
<1>4. 0 # NoTree /\ c # NoFile
  BY NatBounds, MarkersAssumption
<1> QED
  BY <1>1, <1>3, <1>4 DEF ShownInv, Shown, Kept, Has

(* A step writes to the tree under construction, or to inodes it shares    *)
(* with it, and removes from doomed trees only.                            *)
LEMMA Frame ==
  ASSUME IInv, ShownInv, [Next]_vars
  PROVE  /\ ~hardLinks => OwnInodes'
         /\ \A g \in Kept : origin'[g] = origin[g]
         /\ \A g \in Shown, f \in Files :
              origin'[g][f] \in {origin[g][f], NoTree}
         /\ ~hardLinks => \A g \in Shown : data'[g] = data[g]
<1> USE NatBounds, ShownTrees
<1> DEFINE Kind == ~hardLinks => OwnInodes'
           Rows == \A g \in Shown : origin'[g] = origin[g]
           Data == ~hardLinks => \A g \in Shown : data'[g] = data[g]
<1>0. /\ staged \in Trees
      /\ origin \in [Trees -> [Files -> Trees \cup {NoTree}]]
      /\ data \in [Trees -> [Files -> Contents \cup {Torn}]]
  BY DEF IInv, TypeOK, Trees
<1>2. ASSUME NEW f \in Files, Link(f)
      PROVE  Kind /\ Rows /\ Data
  <2>1. staged \notin Shown
    BY <1>2 DEF Link, Building
  <2>2. PICK to \in Trees \cup {NoTree} :
          /\ origin' = [origin EXCEPT ![staged][f] = to]
          /\ ~hardLinks => to = staged
    <3>1. Base \in Trees
      BY BaseIsCurrent DEF IInv, TypeOK, Trees
    <3>2. CASE hardLinks
      <4>1. origin[Base][f] \in Trees \cup {NoTree}
        BY <1>0, <3>1
      <4> QED
        BY <1>2, <3>2, <4>1 DEF Link
    <3>3. CASE ~hardLinks
      BY <1>0, <1>2, <3>3 DEF Link
    <3> QED
      BY <3>2, <3>3
  <2>3. Data
    BY <1>0, <1>2, <2>1 DEF Link
  <2>4. Rows
    BY <1>0, <2>1, <2>2
  <2>5. Kind
    BY <1>0, <2>2 DEF ShownInv, OwnInodes
  <2> QED
    BY <2>3, <2>4, <2>5
<1>3. ASSUME NEW f \in Files, Truncate(f), phase = "sync"
      PROVE  Kind /\ Rows /\ Data
  <2>1. staged \notin Shown
    BY <1>3 DEF Building
  <2> DEFINE to == IF Has(staged, f) THEN origin[staged][f] ELSE staged
  <2>2. /\ ~hardLinks => to = staged
        /\ to \in Trees
    BY <1>0 DEF Has, ShownInv, OwnInodes
  <2>3. /\ origin' = [origin EXCEPT ![staged][f] = to]
        /\ data' = [data EXCEPT ![to][f] = Torn]
    BY <1>3 DEF Truncate
  <2> HIDE DEF to
  <2>4. Rows /\ Data
    BY <1>0, <2>1, <2>2, <2>3
  <2>5. Kind
    BY <1>0, <2>2, <2>3 DEF ShownInv, OwnInodes
  <2> QED
    BY <2>4, <2>5
<1>4. ASSUME NEW c \in Contents, Fill(c)
      PROVE  Kind /\ Rows /\ Data
  <2>1. /\ phase \in {"sync", "save"}
        /\ writing \in Files
        /\ Has(staged, writing)
    BY <1>4 DEF Fill, IInv, TypeOK
  <2>2. staged \notin Shown
    BY <2>1 DEF Building
  <2>3. ~hardLinks => origin[staged][writing] = staged
    BY <1>0, <2>1 DEF Has, ShownInv, OwnInodes
  <2> QED
    BY <1>0, <1>4, <2>2, <2>3 DEF Fill, ShownInv, OwnInodes
<1>5. ASSUME NEW f \in Concepts, Unlink(f)
      PROVE  Kind /\ Rows /\ Data
  <2>1. staged \notin Shown /\ f \in Files
    BY <1>5, FilesMembers DEF Unlink, Building
  <2> QED
    BY <1>0, <1>5, <2>1 DEF Unlink, ShownInv, OwnInodes
<1>6. ASSUME NEW g \in Gens, NEW f \in Files, RemoveFile(g, f)
      PROVE  /\ Kind /\ Data
             /\ \A h \in Kept : origin'[h] = origin[h]
             /\ \A h \in Shown, e \in Files :
                  origin'[h][e] \in {origin[h][e], NoTree}
  <2>1. g \notin Kept
    BY <1>6 DEF RemoveFile, ShownInv
  <2>2. origin' = [origin EXCEPT ![g][f] = NoTree] /\ data' = data
    BY <1>6 DEF RemoveFile
  <2>3. Kind /\ Data
    BY <1>0, <2>2 DEF ShownInv, OwnInodes
  <2> QED
    BY <1>0, <2>1, <2>2, <2>3
<1>7. CASE UNCHANGED <<origin, data>>
  BY <1>7 DEF ShownInv, OwnInodes
<1>8. Stage \/ BeginSync \/ SyncRefuses \/ Raise \/ Reject \/ Accept
        \/ Publish \/ Crash \/ Rest \/ UNCHANGED vars
        \/ (\E g \in Gens : RemoveDir(g)) => UNCHANGED <<origin, data>>
  BY DEF Stage, BeginSync, SyncRefuses, Raise, Reject, Accept, Publish, Crash,
         Rest, RemoveDir, Discard, vars
<1>9. ASSUME NEW f \in Concepts, WriteConcept(f)
      PROVE  Kind /\ Rows /\ Data
  BY <1>3, <1>9, FilesMembers DEF WriteConcept
<1>10. ASSUME SaveLedger
       PROVE  Kind /\ Rows /\ Data
  BY <1>3, <1>10, FilesMembers DEF SaveLedger
<1>11. Rows => /\ \A g \in Kept : origin'[g] = origin[g]
               /\ \A g \in Shown, f \in Files :
                    origin'[g][f] \in {origin[g][f], NoTree}
  OBVIOUS
<1> HIDE DEF Kind, Rows, Data
<1>12. Kind /\ Data /\ (\/ Rows
                        \/ /\ \A g \in Kept : origin'[g] = origin[g]
                           /\ \A g \in Shown, f \in Files :
                                origin'[g][f] \in {origin[g][f], NoTree})
  <2>1. CASE UNCHANGED <<origin, data>>
    BY <1>7, <2>1 DEF Kind, Rows, Data
  <2>2. CASE \/ \E f \in Files : Link(f)
             \/ \E f \in Concepts : WriteConcept(f) \/ Unlink(f)
             \/ SaveLedger \/ \E c \in Contents : Fill(c)
    BY <1>2, <1>4, <1>5, <1>9, <1>10, <2>2, Zenon
  <2>3. CASE \E g \in Gens, f \in Files : RemoveFile(g, f)
    BY <1>6, <2>3
  <2> QED
    BY <1>8, <2>1, <2>2, <2>3 DEF Next, RunStep
<1> QED
  BY <1>11, <1>12 DEF Kind, Data

(* Every step keeps it.                                                    *)
LEMMA ShownNext ==
  ASSUME IInv, ShownInv, [Next]_vars
  PROVE  ShownInv'
<1> USE NatBounds, ShownTrees, HistoryStays
<1>0. /\ origin \in [Trees -> [Files -> Trees \cup {NoTree}]]
      /\ hardLinks' = hardLinks /\ (~hardLinks => OwnInodes')
  BY Frame DEF IInv, TypeOK
<1>1. CASE Publish
  <2>1. /\ staged \in Trees /\ staged \notin Shown
        /\ published' = published \cup {staged}
        /\ snap' = [snap EXCEPT ![staged] = View(staged)]
        /\ doomed' = DoomedIn(dirs, staged) /\ pruned' = pruned \cup doomed'
        /\ UNCHANGED <<data, origin>>
    BY <1>1 DEF Publish, PruneAfter, IInv, TypeOK, Building, Trees
  <2>2. /\ Shown' = Shown \cup {staged} /\ Kept' \subseteq Kept \cup {staged}
        /\ \A g, f : Has(g, f)' = Has(g, f)
    BY <2>1 DEF Shown, Kept, Has
  <2>3. snap'[staged] = View(staged)
    BY <2>1 DEF IInv, TypeOK
  <2>4. \A f \in Files : (Has(staged, f) <=> snap'[staged][f] # NoFile)
    BY <2>1, <2>3, ViewType DEF View
  <2>5. ~hardLinks =>
          \A f \in Files : Has(staged, f) => data[staged][f] = snap'[staged][f]
    BY <2>1, <2>3 DEF View, Has, ShownInv, OwnInodes
  <2>6. doomed' \cap Kept' = {}
    BY <2>1 DEF DoomedIn, Kept, IInv, TypeOK
  <2>7. \A g \in Shown', f \in Files : Has(g, f)' => snap'[g][f] # NoFile
    BY <2>2, <2>4 DEF ShownInv
  <2>8. \A g \in Kept', f \in Files : snap'[g][f] # NoFile => Has(g, f)'
    BY <2>2, <2>4 DEF ShownInv
  <2>9. ~hardLinks => \A g \in Shown', f \in Files :
                        Has(g, f)' => data'[g][f] = snap'[g][f]
    BY <2>1, <2>2, <2>5 DEF ShownInv
  <2> QED
    BY <1>0, <2>6, <2>7, <2>8, <2>9 DEF ShownInv
<1>2. CASE ~Publish
  <2>1. UNCHANGED histVars
    BY <1>2
    DEF Next, RunStep, Stage, Link, BeginSync, WriteConcept, Unlink, Fill,
        SaveLedger, SyncRefuses, Raise, Reject, Accept, Discard, Truncate,
        RemoveFile, RemoveDir, Crash, Rest, vars
  <2>2. Shown' = Shown /\ Kept' = Kept /\ snap' = snap
    BY <2>1 DEF histVars, Shown, Kept
  <2>3. doomed' \cap Kept = {}
    <3>1. CASE Raise \/ Reject
      <4>1. staged \notin Kept
        BY <3>1 DEF Raise, Reject, Building
      <4> QED
        BY <3>1, <4>1 DEF Raise, Reject, Discard
    <3>2. ASSUME NEW g \in Gens, RemoveDir(g)
          PROVE  doomed' \cap Kept = {}
      BY <3>2 DEF RemoveDir, ShownInv
    <3>3. CASE Crash
      BY <3>3 DEF Crash
    <3>4. CASE UNCHANGED doomed
      BY <3>4 DEF ShownInv
    <3> QED
      BY <1>2, <3>1, <3>2, <3>3, <3>4
      DEF Next, RunStep, Stage, Link, BeginSync, WriteConcept, Unlink, Fill,
          SaveLedger, SyncRefuses, Accept, Truncate, RemoveFile, Rest, vars,
          runVars
  <2>4. \A g \in Shown, f \in Files : Has(g, f)' => Has(g, f)
    BY Frame DEF Has
  <2>5. \A g \in Kept, f \in Files : Has(g, f) => Has(g, f)'
    BY Frame DEF Has
  <2>6. ~hardLinks => \A g \in Shown : data'[g] = data[g]
    BY Frame
  <2> QED
    BY <1>0, <2>2, <2>3, <2>4, <2>5, <2>6 DEF ShownInv
<1> QED
  BY <1>1, <1>2

-----------------------------------------------------------------------------
(* What prune_generations relies on: between runs there are no more        *)
(* directories than it keeps, and one for every run that was killed; while *)
(* no run was, what is there has been published or is being built or       *)
(* removed, and what was pruned has enough publications after it.          *)
RetentionInv ==
  /\ Cardinality(dirs) <= Keep + crashes + 1
  /\ phase = "idle" => Cardinality(dirs) <= Keep + crashes
  /\ phase = "remove" => Cardinality(dirs \ doomed) <= Keep + crashes
  /\ crashes = 0 =>
       /\ dirs \subseteq published \cup (IF Building THEN {staged} ELSE doomed)
       /\ \A g \in pruned : Cardinality({h \in published : h > g}) >= Keep

(* A part of a finite set is finite and has at most as many members. *)
LEMMA PartOf ==
  ASSUME NEW S, IsFiniteSet(S), NEW T, T \subseteq S
  PROVE  /\ IsFiniteSet(T)
         /\ Cardinality(T) \in Nat /\ Cardinality(S) \in Nat
         /\ Cardinality(T) <= Cardinality(S)
BY FS_Subset, FS_CardinalityType

(* A finite set with one more member is finite and has at most one more. *)
LEMMA OneMore ==
  ASSUME NEW S, IsFiniteSet(S), NEW x
  PROVE  /\ IsFiniteSet(S \cup {x})
         /\ Cardinality(S \cup {x}) \in Nat
         /\ Cardinality(S \cup {x}) <= Cardinality(S) + 1
<1>1. /\ IsFiniteSet(S \cup {x})
      /\ \/ Cardinality(S \cup {x}) = Cardinality(S)
         \/ Cardinality(S \cup {x}) = Cardinality(S) + 1
  BY FS_AddElement, Zenon
<1>2. Cardinality(S) \in Nat /\ Cardinality(S \cup {x}) \in Nat
  BY <1>1, FS_CardinalityType
<1> QED
  BY <1>1, <1>2

(* Of a finite set of numbers, Latest(gens, n) has at most n.              *)
LEMMA LatestIsFew ==
  ASSUME NEW S \in SUBSET Nat, IsFiniteSet(S), NEW n \in Nat \ {0}
  PROVE  /\ IsFiniteSet(Latest(S, n))
         /\ Cardinality(Latest(S, n)) <= n
<1>1. IsFiniteSet(Latest(S, n)) /\ Latest(S, n) \in SUBSET S
  BY FS_Subset DEF Latest
<1>2. CASE Latest(S, n) = {}
  BY <1>1, <1>2, FS_EmptySet
<1>3. CASE Latest(S, n) # {}
  <2>1. PICK m \in Latest(S, n) :
          \A g \in Latest(S, n) : <<g, m>> \notin OpToRel(<, Nat)
    <3>1. Latest(S, n) \subseteq Nat
      BY <1>1
    <3> QED
      BY <1>3, <3>1, NatLessThanWellFounded, WFMin
  <2>2. m \in Nat /\ \A g \in Latest(S, n) : g \in S /\ g \in Nat /\ ~(g < m)
    <3>1. m \in Nat /\ \A g \in Latest(S, n) : g \in S /\ g \in Nat
      BY <1>1, <2>1
    <3>2. ASSUME NEW g \in Latest(S, n)
          PROVE  ~(g < m)
      <4>1. <<g, m>> \in Nat \X Nat
        BY <3>1, <2>1
      <4> QED
        BY <2>1, <4>1 DEF OpToRel
    <3> QED
      BY <3>1, <3>2
  <2> DEFINE above == {h \in S : h > m}
  <2>3. IsFiniteSet(above) /\ Cardinality(above) \in Nat
    BY FS_Subset, FS_CardinalityType
  <2>4. Cardinality(above) < n
    BY <2>1 DEF Latest
  <2>5. Latest(S, n) \in SUBSET (above \cup {m})
    <3>1. ASSUME NEW g \in Latest(S, n)
          PROVE  g \in above \cup {m}
      BY <2>2
    <3> QED
      BY <3>1
  <2> HIDE DEF above
  <2>6. /\ IsFiniteSet(above \cup {m})
        /\ Cardinality(above \cup {m}) <= Cardinality(above) + 1
    BY <2>3, OneMore
  <2>7. Cardinality(Latest(S, n)) <= Cardinality(above \cup {m})
    BY <2>5, <2>6, FS_Subset
  <2>8. /\ Cardinality(Latest(S, n)) \in Nat
        /\ Cardinality(above \cup {m}) \in Nat
    BY <1>1, <2>6, FS_CardinalityType
  <2> QED
    BY <1>1, <2>3, <2>4, <2>6, <2>7, <2>8
<1> QED
  BY <1>2, <1>3

(* The directories and the published generations are finite sets of numbers. *)
LEMMA FiniteDirs ==
  ASSUME IInv
  PROVE  /\ dirs \subseteq Nat /\ published \subseteq Nat
         /\ IsFiniteSet(dirs) /\ IsFiniteSet(published)
         /\ Cardinality(dirs) \in Nat /\ Cardinality(published) \in Nat
<1>1. last \in Nat /\ dirs \subseteq 1..last /\ published \subseteq 1..last
  BY NatBounds DEF IInv, TypeOK
<1>2. IsFiniteSet(1..last)
  BY <1>1, FS_Interval
<1>3. IsFiniteSet(dirs) /\ IsFiniteSet(published)
  BY <1>1, <1>2, FS_Subset
<1> QED
  BY <1>1, <1>3, FS_CardinalityType

(* When CURRENT flips, what prune_generations leaves are the latest. *)
LEMMA PruneLeaves ==
  ASSUME IInv, Publish
  PROVE  dirs \ doomed' = Latest(dirs, Keep)
<1>1. doomed' = DoomedIn(dirs, staged)
  BY DEF Publish, PruneAfter
<1>2. staged \in dirs /\ \A h \in dirs : ~(h > staged)
  BY NatBounds DEF Publish, IInv, TypeOK, StagedInv, Building
<1>3. {h \in dirs : h > staged} = {}
  BY <1>2
<1>4. Cardinality({h \in dirs : h > staged}) = 0
  BY <1>3, FS_EmptySet
<1>5. \A g \in dirs : Cardinality({h \in dirs : h > g}) \in Nat
  BY FiniteDirs, PartOf
<1>6. \A g \in dirs : g \in doomed' <=>
        Cardinality({h \in dirs : h > g}) >= Keep /\ g # staged
  BY <1>1 DEF DoomedIn
<1>7. \A g \in dirs : g \notin doomed' <=>
        Cardinality({h \in dirs : h > g}) < Keep
  <2> DEFINE above(g) == Cardinality({h \in dirs : h > g})
  <2>1. above(staged) < Keep /\ \A g \in dirs : above(g) \in Nat
    BY <1>4, <1>5
  <2>2. \A g \in dirs : g \in doomed' <=> above(g) >= Keep /\ g # staged
    BY <1>6
  <2> HIDE DEF above
  <2>3. \A g \in dirs : g \notin doomed' <=> above(g) < Keep
    BY <2>1, <2>2
  <2> QED
    BY <2>3 DEF above
<1> QED
  BY <1>7 DEF Latest

(* Every step keeps the directories few and the pruned ones old. *)
LEMMA RetentionNext ==
  ASSUME IInv, RetentionInv, [Next]_vars
  PROVE  RetentionInv'
<1> USE FiniteDirs
<1>0. crashes \in Nat /\ Keep \in Nat
  BY DEF IInv, TypeOK
<1>1. ASSUME published' \in {published, published \cup {staged}},
             NEW g \in Nat, Cardinality({h \in published : h > g}) >= Keep
      PROVE  Cardinality({h \in published' : h > g}) >= Keep
  <2>1. IsFiniteSet(published')
    BY <1>1, FS_AddElement
  <2>2. IsFiniteSet({h \in published' : h > g})
    BY <2>1, PartOf
  <2>3. {h \in published : h > g} \subseteq {h \in published' : h > g}
    BY <1>1
  <2> QED
    BY <1>0, <1>1, <2>2, <2>3, PartOf
<1>2. pruned \subseteq Nat
  BY DEF IInv, TypeOK
<1>3. CASE Stage
  <2>1. /\ dirs' = dirs \cup {last + 1} /\ staged' = last + 1
        /\ phase = "idle" /\ phase' = "stage"
        /\ UNCHANGED <<doomed, crashes, published, pruned>>
    BY <1>3 DEF Stage, histVars
  <2>2. /\ Cardinality(dirs') <= Cardinality(dirs) + 1
        /\ Cardinality(dirs') \in Nat
    BY <2>1, OneMore
  <2>3. doomed = {}
    BY <2>1 DEF IInv, StagedInv
  <2> QED
    BY <1>0, <2>1, <2>2, <2>3 DEF RetentionInv, Building
<1>4. CASE Publish
  <2>1. /\ dirs' = dirs /\ crashes' = crashes
        /\ published' = published \cup {staged}
        /\ pruned' = pruned \cup doomed'
        /\ doomed' = DoomedIn(dirs, staged)
        /\ phase' = IF doomed' = {} THEN "idle" ELSE "remove"
    BY <1>4 DEF Publish, PruneAfter
  <2>2. /\ Cardinality(dirs' \ doomed') <= Keep
        /\ Cardinality(dirs' \ doomed') \in Nat
    BY <1>4, <2>1, PruneLeaves, LatestIsFew, FS_CardinalityType
  <2>3. Building /\ ~Building'
    BY <1>4, <2>1 DEF Publish, Building
  <2>4. crashes = 0 => dirs \subseteq published'
    BY <2>1, <2>3 DEF RetentionInv
  <2>5. ASSUME crashes = 0, NEW g \in doomed'
        PROVE  Cardinality({h \in published' : h > g}) >= Keep
    <3>1. /\ Cardinality({h \in dirs : h > g}) >= Keep
          /\ g \in Nat
      BY <2>1, <2>5 DEF DoomedIn
    <3>2. {h \in dirs : h > g} \subseteq {h \in published' : h > g}
      BY <2>4, <2>5
    <3>3. IsFiniteSet(published')
      BY <2>1, FS_AddElement
    <3>4. IsFiniteSet({h \in published' : h > g})
      BY <3>3, PartOf
    <3> QED
      BY <1>0, <3>1, <3>2, <3>4, PartOf
  <2>6. crashes = 0 =>
          \A g \in pruned' : Cardinality({h \in published' : h > g}) >= Keep
    BY <1>1, <1>2, <2>1, <2>5 DEF RetentionInv
  <2>7. phase' = "idle" => dirs' \ doomed' = dirs'
    BY <2>1
  <2>8. /\ Cardinality(dirs') <= Keep + crashes' + 1
        /\ phase' = "idle" => Cardinality(dirs') <= Keep + crashes'
        /\ phase' = "remove" => Cardinality(dirs' \ doomed') <= Keep + crashes'
    <3>1. Cardinality(dirs) <= Keep + crashes + 1
      BY DEF RetentionInv
    <3>2. phase' = "idle" => Cardinality(dirs') <= Keep
      BY <2>2, <2>7
    <3> QED
      BY <1>0, <2>1, <2>2, <3>1, <3>2
  <2> QED
    BY <2>1, <2>3, <2>4, <2>6, <2>8 DEF RetentionInv
<1>5. ASSUME NEW g \in Gens, RemoveDir(g)
      PROVE  RetentionInv'
  <2>1. /\ dirs' = dirs \ {g} /\ doomed' = doomed \ {g} /\ g \in doomed
        /\ phase = "remove"
        /\ phase' = IF doomed' = {} THEN "idle" ELSE "remove"
        /\ UNCHANGED <<crashes, published, pruned>>
    BY <1>5 DEF RemoveDir, histVars
  <2>2. dirs' \ doomed' = dirs \ doomed
    BY <2>1
  <2>3. phase' = "idle" => dirs' = dirs \ doomed
    BY <2>1, <2>2
  <2>4. /\ Cardinality(dirs') <= Cardinality(dirs)
        /\ Cardinality(dirs') \in Nat
    BY <2>1, PartOf
  <2>5. ~Building /\ ~Building'
    BY <2>1 DEF Building
  <2>6. /\ Cardinality(dirs) <= Keep + crashes + 1
        /\ Cardinality(dirs \ doomed) <= Keep + crashes
    BY <2>1 DEF RetentionInv
  <2>7. /\ Cardinality(dirs') <= Keep + crashes' + 1
        /\ phase' = "idle" => Cardinality(dirs') <= Keep + crashes'
        /\ Cardinality(dirs' \ doomed') <= Keep + crashes'
    <3>1. crashes' = crashes
      BY <2>1
    <3>2. Cardinality(dirs') <= Keep + crashes + 1
      BY <1>0, <2>4, <2>6
    <3> QED
      BY <2>2, <2>3, <2>6, <3>1, <3>2
  <2> QED
    BY <2>1, <2>5, <2>7 DEF RetentionInv
<1>6. CASE Crash
  BY <1>0, <1>6 DEF Crash, RetentionInv, histVars
<1>7. CASE Raise \/ Reject
  <2>1. /\ Building /\ phase' = "remove" /\ doomed' = {staged}
        /\ UNCHANGED <<dirs, crashes, published, pruned>>
    BY <1>7 DEF Raise, Reject, Discard, Building, histVars
  <2>2. Cardinality(dirs \ {staged}) = Cardinality(dirs) - 1
    BY <2>1, FS_RemoveElement DEF IInv, StagedInv
  <2> QED
    BY <1>0, <2>1, <2>2 DEF RetentionInv, Building
<1>8. ASSUME UNCHANGED <<dirs, doomed, staged, crashes, published, pruned>>,
             phase' = phase \/ (Building /\ Building')
      PROVE  RetentionInv'
  BY <1>8 DEF RetentionInv, Building
<1>9. ASSUME (\E f \in Files : Link(f)) \/ BeginSync
               \/ (\E f \in Concepts : WriteConcept(f) \/ Unlink(f))
               \/ (\E c \in Contents : Fill(c))
               \/ SaveLedger \/ SyncRefuses \/ Accept
               \/ (\E g \in Gens, f \in Files : RemoveFile(g, f))
               \/ Rest \/ UNCHANGED vars
      PROVE  RetentionInv'
  <2>1. UNCHANGED <<dirs, doomed, staged, crashes, published, pruned>>
    BY <1>9 DEF Link, BeginSync, WriteConcept, Unlink, Fill, SaveLedger,
                SyncRefuses, Accept, RemoveFile, Rest, Truncate, vars, runVars,
                histVars
  <2>2. phase' = phase \/ (Building /\ Building')
    <3>1. ASSUME NEW c \in Contents, Fill(c)
          PROVE  phase' = phase \/ (Building /\ Building')
      BY <3>1 DEF Fill, Building
    <3> QED
      BY <1>9, <3>1
      DEF Link, BeginSync, WriteConcept, Unlink, SaveLedger, SyncRefuses,
          Accept, RemoveFile, Rest, vars, runVars, Building
  <2> QED
    BY <1>8, <2>1, <2>2
<1> QED
  BY <1>3, <1>4, <1>5, <1>6, <1>7, <1>9 DEF Next, RunStep

(* prune_generations bounds the disk and keeps what it must: between runs  *)
(* there are no more generations than generations_keep and the killed      *)
(* runs, and without one of those the latest published are all retained.   *)
THEOREM RetentionAlwaysHolds == Spec => []RetentionHolds
<1>1. Init => RetentionInv
  BY FS_EmptySet DEF Init, RetentionInv
<1>2. IInv /\ RetentionInv /\ [Next]_vars => RetentionInv'
  BY RetentionNext
<1>3. IInv /\ RetentionInv => RetentionHolds
  <2> SUFFICES ASSUME IInv, RetentionInv
               PROVE  RetentionHolds
    OBVIOUS
  <2>1. ASSUME crashes = 0, NEW g \in pruned
        PROVE  ~(Cardinality({h \in published : h > g}) < Keep)
    <3>1. Cardinality({h \in published : h > g}) \in Nat
      BY FiniteDirs, PartOf
    <3> QED
      BY <2>1, <3>1 DEF RetentionInv
  <2> QED
    BY <2>1 DEF RetentionInv, RetentionHolds, DiskBounded, RetainsPublished
<1> QED
  BY <1>1, <1>2, <1>3, Inductive, PTL DEF Spec

-----------------------------------------------------------------------------
(* The server. *)
USE HotReloadAssumption, TwinsAssumption

InBuild == serving \in {"resolve", "look", "list", "walk", "load"}

\* A server that is down has nothing.
ServedInv == ServingTypeOK /\ (serving = "down" => pin = NoTree)

\* A number that was picked once is never published again.
Fresh ==
  /\ current \notin pruned
  /\ Building => staged \notin pruned

\* A tree yet to come has no file.
NoneYet == \A g \in Trees, f \in Files : g > last => ~Has(g, f)

\* A release has no half written file; nor has the staged tree, but for the
\* file that is being written.
Clean ==
  /\ \A g \in Shown, f \in Files : snap[g][f] # Torn
  /\ Building => \A f \in Files \ {writing} :
       Has(staged, f) => data[staged][f] # Torn

\* ... where files are copied.
Whole == NoneYet /\ (~hardLinks => Clean)

\* A build reads one published tree, no older than the one that is served but
\* for the plain root, and the last one if its token is still the pointer's.
BuildInv ==
  /\ pin # NoTree => pin <= current
  /\ at <= current /\ at \in Shown
  /\ InBuild /\ pin # NoTree => token < newToken
  /\ serving \in {"look", "list", "walk", "load"} =>
       /\ at = 0 \/ pin = NoTree \/ at >= pin
       /\ newToken = Flips => at = current

\* What a build has read is of the release, and it misses nothing as long as
\* that is kept.
ReadInv ==
  /\ serving \in {"walk", "load"} /\ at \in Kept => Has(at, Index)
  /\ serving = "load" =>
       /\ \A f \in Pages : loaded[f] # NoFile =>
            snap[at][f] # NoFile /\ (~hardLinks => loaded[f] = snap[at][f])
       /\ at \in Kept => \A f \in Pages :
            (Has(at, f) <=> f \in toRead \/ loaded[f] # NoFile)

ServerInv == Fresh /\ Whole /\ BuildInv /\ ReadInv

-----------------------------------------------------------------------------
(* A server reads: what it does is a stutter of the publisher. *)
LEMMA PublisherSteps == [ServingNext]_allVars => [Next]_vars
BY DEF ServingNext, Publisher, Boot, Reload, BuildStep, ReadPointer,
       LookForDir, Discover, List, BuildFails, Swap, ReadPage, SkipPage,
       allVars

(* The token is a number, and a flip makes it a new one. *)
LEMMA FlipCounts ==
  ASSUME IInv, [Next]_vars
  PROVE  /\ Flips \in Nat
         /\ Publish =>
              published' = published \cup {staged} /\ Flips' = Flips + 1
         /\ ~Publish => published' = published /\ Flips' = Flips
<1>1. CASE Publish
  <2>1. published' = published \cup {staged} /\ staged \notin published
    BY <1>1 DEF Publish, IInv, StagedInv, Building
  <2>2. Cardinality(published \cup {staged}) = Cardinality(published) + 1
    BY <2>1, FiniteDirs, FS_AddElement, Zenon
  <2> QED
    BY <1>1, <2>1, <2>2, FiniteDirs DEF Flips
<1>2. CASE ~Publish
  <2>1. published' = published
    BY <1>2
    DEF Next, RunStep, Stage, Link, BeginSync, WriteConcept, Unlink, Fill,
        SaveLedger, SyncRefuses, Raise, Reject, Accept, Discard, Truncate,
        RemoveFile, RemoveDir, Crash, Rest, vars, histVars
  <2> QED
    BY <1>2, <2>1, FiniteDirs DEF Flips
<1> QED
  BY <1>1, <1>2

(* The pages are files. *)
LEMMA PagesAreFiles == Pages \subseteq Files /\ Index \in Pages
BY FilesMembers DEF Pages

(* The server's invariant holds before it is started. *)
LEMMA ServedInit == ServingInit => ServedInv
<1> SUFFICES ASSUME ServingInit
             PROVE  ServedInv
  OBVIOUS
<1>1. TypeOK /\ Flips = 0
  BY InitHolds, FS_EmptySet DEF ServingInit, Init, IInv, Flips
<1>2. NoPages \in [Pages -> Contents \cup {Torn, NoFile}]
  BY DEF NoPages
<1> QED
  BY <1>1, <1>2, NatBounds DEF ServingInit, ServedInv, ServingTypeOK

(* Every step of the publisher and of the server keeps it. *)
LEMMA ServedNext ==
  ASSUME IInv, ServedInv, [ServingNext]_allVars
  PROVE  ServedInv'
<1> USE NatBounds, PagesAreFiles
<1>0. /\ [Next]_vars /\ IInv' /\ TypeOK'
      /\ Flips \in Nat /\ Flips' \in {Flips, Flips + 1}
  BY PublisherSteps, NextHolds, FlipCounts DEF IInv
<1>1. CASE Publisher \/ UNCHANGED allVars
  <2>1. UNCHANGED <<serving, newToken, token, pin, index, at, toRead, loaded>>
    BY <1>1 DEF Publisher, allVars, serverVars, servedVars, buildVars
  <2> QED
    BY <1>0, <2>1 DEF ServedInv, ServingTypeOK
<1>2. ASSUME UNCHANGED vars
      PROVE  Flips' = Flips
  BY <1>2 DEF vars, histVars, Flips
<1>3. CASE Boot \/ Reload
  BY <1>0, <1>2, <1>3
  DEF Boot, Reload, ServedInv, ServingTypeOK, buildVars, servedVars
<1>4. CASE ReadPointer
  <2>1. current \in Trees
    BY DEF IInv, TypeOK, Trees
  <2> QED
    BY <1>0, <1>2, <1>4, <2>1
    DEF ReadPointer, ServedInv, ServingTypeOK, servedVars
<1>5. CASE LookForDir
  BY <1>0, <1>2, <1>5 DEF LookForDir, ServedInv, ServingTypeOK, servedVars
<1>6. CASE Discover \/ List
  <2>1. NoPages \in [Pages -> Contents \cup {Torn, NoFile}]
    BY DEF NoPages
  <2> QED
    BY <1>0, <1>2, <1>6, <2>1
    DEF Discover, List, ServedInv, ServingTypeOK, servedVars, buildVars
<1>10. ASSUME NEW f \in Pages, SkipPage(f)
       PROVE  ServedInv'
  BY <1>0, <1>2, <1>10 DEF SkipPage, ServedInv, ServingTypeOK, servedVars
<1>7. ASSUME NEW f \in Pages, ReadPage(f)
      PROVE  ServedInv'
  <2>1. View(at)[f] \in Contents \cup {Torn, NoFile} /\ View(at)[f] # NoFile
    BY <1>7, ViewType DEF ReadPage, ServedInv, ServingTypeOK
  <2> QED
    BY <1>0, <1>2, <1>7, <2>1
    DEF ReadPage, ServedInv, ServingTypeOK, servedVars
<1>8. CASE BuildFails
  <2>1. NoPages \in [Pages -> Contents \cup {Torn, NoFile}]
    BY DEF NoPages
  <2> QED
    BY <1>0, <1>2, <1>8, <2>1
    DEF BuildFails, ServedInv, ServingTypeOK, servedVars
<1>9. CASE Swap
  <2>1. NoPages \in [Pages -> Contents \cup {Torn, NoFile}]
    BY DEF NoPages
  <2> QED
    BY <1>0, <1>2, <1>9, <2>1 DEF Swap, ServedInv, ServingTypeOK
<1> QED
  BY <1>1, <1>3, <1>4, <1>5, <1>6, <1>7, <1>8, <1>9, <1>10
  DEF ServingNext, BuildStep

(* The server's variables keep their types: it is ready only when an index *)
(* was built (ServedIndex.__init__), and its token never runs ahead of the *)
(* pointer's.                                                              *)
THEOREM ServingTypeCorrect == ServingSpec => []ServingTypeOK
<1>1. ServingInit => IInv /\ ServedInv
  BY InitHolds, ServedInit DEF ServingInit
<1>2. IInv /\ ServedInv /\ [ServingNext]_allVars => IInv' /\ ServedInv'
  BY PublisherSteps, NextHolds, ServedNext
<1>3. ServedInv => ServingTypeOK
  BY DEF ServedInv
<1> QED
  BY <1>1, <1>2, <1>3, PTL DEF ServingSpec

-----------------------------------------------------------------------------
(* No step publishes what was picked for deletion before. *)
LEMMA FreshNext ==
  ASSUME IInv, Fresh, [Next]_vars
  PROVE  Fresh'
<1>1. CASE Stage
  <2>1. last + 1 \notin pruned
    BY NatBounds DEF IInv, TypeOK
  <2> QED
    BY <1>1, <2>1 DEF Stage, Fresh, histVars
<1>2. CASE Publish
  <2>1. /\ current' = staged /\ staged \notin pruned
        /\ pruned' = pruned \cup DoomedIn(dirs, staged)
        /\ phase' \in {"idle", "remove"}
    BY <1>2 DEF Publish, PruneAfter, Fresh, Building
  <2> QED
    BY <2>1 DEF DoomedIn, Fresh, Building
<1>3. ASSUME NEW g \in Gens, RemoveDir(g)
      PROVE  Fresh'
  <2>1. phase' \in {"idle", "remove"}
    BY <1>3 DEF RemoveDir
  <2> QED
    BY <1>3, <2>1 DEF RemoveDir, Fresh, Building, histVars
<1>4. CASE Raise \/ Reject
  BY <1>4 DEF Raise, Reject, Discard, Fresh, Building, histVars
<1>5. CASE Crash
  BY <1>5 DEF Crash, Fresh, Building, histVars
<1>6. ASSUME (\E f \in Files : Link(f)) \/ BeginSync
               \/ (\E f \in Concepts : WriteConcept(f) \/ Unlink(f))
               \/ (\E c \in Contents : Fill(c))
               \/ SaveLedger \/ SyncRefuses \/ Accept
               \/ (\E g \in Gens, f \in Files : RemoveFile(g, f))
               \/ Rest \/ UNCHANGED vars
      PROVE  Fresh'
  <2>1. UNCHANGED <<current, staged, pruned>>
    BY <1>6 DEF Link, BeginSync, WriteConcept, Unlink, Fill, SaveLedger,
                SyncRefuses, Accept, RemoveFile, Rest, Truncate, vars, runVars,
                histVars
  <2>2. Building' => Building
    BY <1>6 DEF Link, BeginSync, WriteConcept, Unlink, Fill, SaveLedger,
                SyncRefuses, Accept, RemoveFile, Rest, vars, runVars, Building
  <2> QED
    BY <2>1, <2>2 DEF Fresh
<1> QED
  BY <1>1, <1>2, <1>3, <1>4, <1>5, <1>6 DEF Next, RunStep

(* A tree that was not made yet has no file.                               *)
LEMMA NoneYetNext ==
  ASSUME IInv, NoneYet, [Next]_vars
  PROVE  NoneYet'
<1> USE NatBounds, FilesMembers
<1>0. /\ last \in Trees /\ (Building => staged = last)
      /\ origin \in [Trees -> [Files -> Trees \cup {NoTree}]]
  BY DEF IInv, TypeOK, StagedInv, Trees
<1> DEFINE Same == \A g \in Trees, f \in Files :
                     ~Has(g, f) => ~Has(g, f)' \/ (Building /\ g = staged)
<1>1. last' \in Nat /\ last' >= last /\ Same
  <2>1. ASSUME NEW f \in Files, Link(f) \/ Truncate(f), Building,
               last' = last
        PROVE  Same
    <3>1. \A g \in Trees : g # staged => origin'[g] = origin[g]
      BY <1>0, <2>1 DEF Link, Truncate
    <3> QED
      BY <2>1, <3>1 DEF Has
  <2>2. ASSUME NEW g \in Trees, NEW f \in Files,
               origin' = [origin EXCEPT ![g][f] = NoTree]
        PROVE  Same
    BY <1>0, <2>2 DEF Has
  <2>3. ASSUME UNCHANGED origin
        PROVE  Same
    BY <2>3 DEF Has
  <2>4. (\E f \in Files : Link(f)) \/ (\E f \in Concepts : WriteConcept(f))
          \/ SaveLedger =>
        \E f \in Files :
          (Link(f) \/ Truncate(f)) /\ Building /\ last' = last
    BY DEF Link, WriteConcept, SaveLedger, Truncate, Building
  <2>6. (\E f \in Concepts : Unlink(f))
          \/ (\E g \in Gens, f \in Files : RemoveFile(g, f)) =>
        \E g \in Trees, f \in Files :
          origin' = [origin EXCEPT ![g][f] = NoTree]
    <3>1. \A f \in Concepts : Unlink(f) => staged \in Trees /\ f \in Files
      BY <1>0 DEF Unlink, Building
    <3> QED
      BY <3>1 DEF Unlink, RemoveFile, Gens, Trees
  <2>7. Stage \/ BeginSync \/ (\E c \in Contents : Fill(c)) \/ SyncRefuses
          \/ Raise \/ Reject \/ Accept \/ Publish \/ Crash \/ Rest
          \/ UNCHANGED vars \/ (\E g \in Gens : RemoveDir(g)) =>
        UNCHANGED origin
    BY DEF Stage, BeginSync, Fill, SyncRefuses, Raise, Reject, Accept, Publish,
           Crash, Rest, RemoveDir, Discard, vars
  <2>5. last' \in {last, last + 1}
    BY DEF Next, RunStep, Stage, Link, BeginSync, WriteConcept, Unlink, Fill,
           SaveLedger, SyncRefuses, Raise, Reject, Accept, Discard, Truncate,
           RemoveFile, RemoveDir, Crash, Rest, Publish, vars, runVars
  <2>8. Same
    BY <2>1, <2>2, <2>3, <2>4, <2>6, <2>7 DEF Next, RunStep
  <2> QED
    BY <1>0, <2>5, <2>8
<1> QED
  BY <1>0, <1>1 DEF NoneYet

(* What was whole stays whole where files are copied: a run writes to the  *)
(* tree it stages.                                                         *)
LEMMA CleanNext ==
  ASSUME IInv, ShownInv, NoneYet, Clean, ~hardLinks, [Next]_vars
  PROVE  Clean'
<1> USE NatBounds, FilesMembers, MarkersAssumption
<1>0. /\ staged \in Trees /\ last \in Trees
      /\ Shown \subseteq Trees
      /\ Building => staged \notin Shown /\ staged = last
      /\ origin \in [Trees -> [Files -> Trees \cup {NoTree}]]
      /\ data \in [Trees -> [Files -> Contents \cup {Torn}]]
      /\ \A g \in Trees, f \in Files : Has(g, f) => origin[g][f] = g
  BY ShownTrees
  DEF IInv, TypeOK, StagedInv, Building, Trees, ShownInv, OwnInodes, Has
<1>1. CASE Publish
  <2>1. /\ Building /\ ~Building' /\ writing = NoFile
        /\ Shown' = Shown \cup {staged}
        /\ snap' = [snap EXCEPT ![staged] = View(staged)]
    BY <1>1 DEF Publish, PruneAfter, Building, IInv, TypeOK, Shown
  <2>2. /\ snap'[staged] = View(staged)
        /\ \A g \in Shown : snap'[g] = snap[g]
    BY <1>0, <2>1 DEF IInv, TypeOK
  <2>3. \A f \in Files : View(staged)[f] # Torn
    BY <1>0, <2>1 DEF Clean, View
  <2> QED
    BY <2>1, <2>2, <2>3 DEF Clean
<1>2. ASSUME UNCHANGED histVars,
             Building' => \A f \in Files \ {writing'} :
               Has(staged, f)' => data'[staged'][f] # Torn
      PROVE  Clean'
  BY <1>2 DEF Clean, histVars, Shown
<1>3. CASE Stage
  <2>1. /\ UNCHANGED <<origin, data, histVars>>
        /\ last' = last + 1 /\ staged' = last + 1 /\ last + 1 \in Trees
    BY <1>0, <1>3 DEF Stage, Trees
  <2> QED
    BY <1>0, <1>2, <2>1 DEF NoneYet, Has
<1>4. ASSUME NEW f \in Files, Link(f)
      PROVE  Clean'
  <2>1. /\ Building /\ Has(current, f) /\ Base = current
        /\ current \in Shown /\ origin[Base][f] = current
    BY <1>0, <1>4, BaseIsCurrent
    DEF Link, Building, IInv, StagedInv, Shown
  <2>2. data[origin[Base][f]][f] # Torn
    BY <1>0, <2>1 DEF Clean, ShownInv
  <2>3. /\ origin' = [origin EXCEPT ![staged][f] = staged]
        /\ data' = [data EXCEPT ![staged][f] = data[origin[Base][f]][f]]
        /\ UNCHANGED <<staged, writing, histVars, phase>>
    BY <1>4 DEF Link
  <2> QED
    BY <1>0, <1>2, <2>1, <2>2, <2>3 DEF Clean, Has, Building
<1>5. ASSUME NEW f \in Files, Truncate(f), phase = "sync"
      PROVE  Clean'
  <2>1. (IF Has(staged, f) THEN origin[staged][f] ELSE staged) = staged
    BY <1>0
  <2>2. /\ origin' = [origin EXCEPT ![staged][f] = staged]
        /\ data' = [data EXCEPT ![staged][f] = Torn]
        /\ writing = NoFile /\ writing' = f
        /\ UNCHANGED <<staged, histVars>>
    BY <1>5, <2>1 DEF Truncate
  <2>3. Building
    BY <1>5 DEF Building
  <2> QED
    BY <1>0, <1>2, <2>2, <2>3 DEF Clean, Has
<1>6. ASSUME NEW c \in Contents, Fill(c)
      PROVE  Clean'
  <2>1. Building /\ Has(staged, writing) /\ writing \in Files
    BY <1>6 DEF Fill, IInv, TypeOK, Building
  <2>2. /\ data' = [data EXCEPT ![staged][writing] = c] /\ c # Torn
        /\ writing' = NoFile
        /\ UNCHANGED <<origin, staged, histVars>>
    BY <1>0, <1>6, <2>1 DEF Fill
  <2> QED
    BY <1>0, <1>2, <2>1, <2>2 DEF Clean, Has
<1>7. ASSUME NEW g \in Trees, NEW f \in Files,
             origin' = [origin EXCEPT ![g][f] = NoTree],
             UNCHANGED <<data, staged, writing, histVars, phase>>
      PROVE  Clean'
  BY <1>0, <1>2, <1>7 DEF Clean, Has, Building
<1>8. /\ (\E f \in Concepts : Unlink(f)) => Clean'
      /\ (\E g \in Gens, f \in Files : RemoveFile(g, f)) => Clean'
  <2>1. ASSUME NEW f \in Concepts, Unlink(f)
        PROVE  Clean'
    <3>1. staged \in Trees /\ f \in Files
      BY <1>0
    <3> QED
      BY <1>7, <2>1, <3>1 DEF Unlink
  <2>2. ASSUME NEW g \in Gens, NEW f \in Files, RemoveFile(g, f)
        PROVE  Clean'
    <3>1. g \in Trees
      BY DEF Gens, Trees
    <3> QED
      BY <1>7, <2>2, <3>1 DEF RemoveFile, runVars
  <2> QED
    BY <2>1, <2>2
<1>9. ASSUME UNCHANGED <<origin, data, histVars>>,
             ~Building' \/ (Building /\ UNCHANGED <<staged, writing>>)
      PROVE  Clean'
  BY <1>2, <1>9 DEF Clean, Has
<1>10. CASE BeginSync \/ SyncRefuses \/ Accept \/ Raise \/ Reject \/ Crash
              \/ (\E g \in Gens : RemoveDir(g)) \/ Rest \/ UNCHANGED vars
  <2>1. UNCHANGED <<origin, data, histVars>>
    BY <1>10 DEF BeginSync, SyncRefuses, Accept, Raise, Reject, Discard,
                 Crash, RemoveDir, Rest, vars
  <2>2. ~Building' \/ (Building /\ UNCHANGED <<staged, writing>>)
    BY <1>10 DEF BeginSync, SyncRefuses, Accept, Raise, Reject, Discard,
                 Crash, RemoveDir, Rest, vars, runVars, Building
  <2> QED
    BY <1>9, <2>1, <2>2
<1>11. (\E f \in Concepts : WriteConcept(f)) \/ SaveLedger => Clean'
  BY <1>5 DEF WriteConcept, SaveLedger
<1> QED
  BY <1>1, <1>3, <1>4, <1>6, <1>8, <1>10, <1>11 DEF Next, RunStep

(* So does what a server may come to read. *)
LEMMA WholeNext ==
  ASSUME IInv, ShownInv, Whole, [Next]_vars
  PROVE  Whole'
BY NoneYetNext, CleanNext, HistoryStays DEF Whole

(* CURRENT only goes up, and a flip is the only step of a run that changes *)
(* what is published.                                                      *)
LEMMA FlipsUp ==
  ASSUME IInv, Fresh, [Next]_vars
  PROVE  /\ current \in Nat
         /\ Publish => current' = staged /\ staged > current
         /\ ~Publish => UNCHANGED <<current, histVars>>
<1>1. CASE Publish
  <2>1. /\ current' = staged /\ staged = last /\ staged \notin published
        /\ current \in published \cup {0} /\ staged \in dirs
    BY <1>1 DEF Publish, IInv, StagedInv, Building
  <2> QED
    BY <1>1, <2>1, NatBounds DEF IInv, TypeOK
<1>2. CASE ~Publish
  <2>1. UNCHANGED <<current, histVars>>
    BY <1>2
    DEF Next, RunStep, Stage, Link, BeginSync, WriteConcept, Unlink, Fill,
        SaveLedger, SyncRefuses, Raise, Reject, Accept, Discard, Truncate,
        RemoveFile, RemoveDir, Crash, Rest, vars
  <2> QED
    BY <1>2, <2>1, NatBounds DEF IInv, TypeOK
<1> QED
  BY <1>1, <1>2

(* Every step keeps the order of what a server reads and serves. *)
LEMMA BuildNext ==
  ASSUME IInv, ServedInv, Fresh, BuildInv, [ServingNext]_allVars
  PROVE  BuildInv'
<1>0. /\ [Next]_vars /\ Flips \in Nat /\ current \in Nat
      /\ current \in Shown
      /\ Shown \subseteq Nat /\ at \in Nat
      /\ pin # NoTree => pin \in Nat
      /\ token \in 0..Flips /\ newToken \in token..Flips
  BY PublisherSteps, FlipCounts, FlipsUp, FiniteDirs, NatBounds
  DEF IInv, StagedInv, ServedInv, ServingTypeOK, Shown
<1>1. CASE Publisher \/ UNCHANGED allVars
  <2>1. UNCHANGED <<serving, newToken, token, pin, index, at>>
    BY <1>1 DEF Publisher, allVars, serverVars, servedVars, buildVars
  <2>2. CASE Publish
    <3>1. /\ published' = published \cup {staged} /\ Flips' = Flips + 1
          /\ current' = staged /\ staged > current
      BY <1>0, <2>2, FlipCounts, FlipsUp
    <3>2. staged \in Nat
      BY NatBounds DEF IInv, TypeOK
    <3> QED
      BY <1>0, <2>1, <3>1, <3>2 DEF BuildInv, InBuild, Shown
  <2>3. CASE ~Publish
    <3>1. UNCHANGED <<published, Flips, current>>
      BY <1>0, <2>3, FlipCounts, FlipsUp
    <3> QED
      BY <2>1, <3>1 DEF BuildInv, InBuild, Shown
  <2> QED
    BY <2>2, <2>3
<1>2. ASSUME UNCHANGED vars
      PROVE  UNCHANGED <<current, Shown, Flips>>
  BY <1>2 DEF vars, histVars, Flips, Shown
<1>3. CASE Boot \/ Reload
  <2>1. token < Flips \/ pin = NoTree
    BY <1>0, <1>3 DEF Boot, Reload, ServedInv
  <2> QED
    BY <1>0, <1>2, <1>3, <2>1
    DEF Boot, Reload, BuildInv, InBuild, buildVars, servedVars
<1>4. CASE ReadPointer
  BY <1>0, <1>2, <1>4 DEF ReadPointer, BuildInv, InBuild, servedVars
<1>5. CASE LookForDir
  <2>1. current # 0 => current \in dirs
    BY DEF IInv, StagedInv, CurrentResolves
  <2> QED
    BY <1>0, <1>2, <1>5, <2>1
    DEF LookForDir, BuildInv, InBuild, servedVars, Shown
<1>6. CASE Discover \/ List
  BY <1>2, <1>6 DEF Discover, List, BuildInv, InBuild, servedVars, buildVars
<1>7. ASSUME NEW f \in Pages, ReadPage(f) \/ SkipPage(f)
      PROVE  BuildInv'
  BY <1>2, <1>7 DEF ReadPage, SkipPage, BuildInv, InBuild, servedVars
<1>8. CASE BuildFails
  BY <1>2, <1>8 DEF BuildFails, BuildInv, InBuild, servedVars
<1>9. CASE Swap
  BY <1>2, <1>9 DEF Swap, BuildInv, InBuild
<1> QED
  BY <1>1, <1>3, <1>4, <1>5, <1>6, <1>7, <1>8, <1>9 DEF ServingNext, BuildStep

(* Every step keeps what a build has read part of the release, and whole   *)
(* as long as that is kept.                                                *)
LEMMA ReadNext ==
  ASSUME IInv, ShownInv, ServedInv, BuildInv, ReadInv, [ServingNext]_allVars
  PROVE  ReadInv'
<1> USE MarkersAssumption, PagesAreFiles
<1>0. /\ [Next]_vars /\ at \in Trees /\ at \in Shown
      /\ loaded \in [Pages -> Contents \cup {Torn, NoFile}]
  BY PublisherSteps DEF BuildInv, ServedInv, ServingTypeOK
<1>1. CASE Publisher \/ UNCHANGED allVars
  <2>1. UNCHANGED <<serving, at, toRead, loaded>>
    BY <1>1 DEF Publisher, allVars, serverVars, servedVars, buildVars
  <2>2. /\ hardLinks' = hardLinks /\ snap'[at] = snap[at]
        /\ \A g \in Shown : g \in Kept' =>
             g \in Kept /\ \A f \in Files : Has(g, f)' <=> Has(g, f)
    BY <1>0, HistoryStays, Frame DEF Has
  <2> QED
    BY <1>0, <2>1, <2>2 DEF ReadInv
<1>2. ASSUME UNCHANGED vars
      PROVE  /\ Kept' = Kept /\ UNCHANGED <<hardLinks, snap>>
             /\ \A g : Has(g, Index)' <=> Has(g, Index)
             /\ \A g, f : Has(g, f)' <=> Has(g, f)
  BY <1>2 DEF vars, histVars, Kept, Has
<1>3. NoPages = [f \in Pages |-> NoFile]
  BY DEF NoPages
<1>4. CASE Boot \/ Reload \/ ReadPointer \/ LookForDir
  BY <1>4 DEF Boot, Reload, ReadPointer, LookForDir, ReadInv, buildVars
<1>5. CASE Discover
  BY <1>2, <1>5 DEF Discover, ReadInv, HasBundle, buildVars
<1>6. CASE List
  BY <1>2, <1>3, <1>6 DEF List, ReadInv
<1>7. ASSUME NEW f \in Pages, ReadPage(f)
      PROVE  ReadInv'
  <2>1. /\ View(at)[f] # NoFile /\ snap[at][f] # NoFile
        /\ ~hardLinks => View(at)[f] = snap[at][f]
    <3>1. Has(at, f) /\ (~hardLinks => origin[at][f] = at)
      BY <1>0, <1>7 DEF ReadPage, Has, ShownInv, OwnInodes
    <3>2. View(at)[f] = data[origin[at][f]][f]
      BY <3>1 DEF View
    <3> QED
      BY <1>0, <3>1, <3>2, ViewType DEF ShownInv
  <2>2. /\ serving = "load" /\ f \in toRead /\ toRead' = toRead \ {f}
        /\ loaded' = [loaded EXCEPT ![f] = View(at)[f]]
        /\ Has(at, f)
        /\ UNCHANGED <<vars, serving, at>>
    BY <1>7 DEF ReadPage
  <2> QED
    BY <1>0, <1>2, <2>1, <2>2 DEF ReadInv
<1>8. ASSUME NEW f \in Pages, SkipPage(f)
      PROVE  ReadInv'
  <2>1. /\ serving = "load" /\ f \in toRead /\ toRead' = toRead \ {f}
        /\ ~Has(at, f)
        /\ UNCHANGED <<vars, serving, at, loaded>>
    BY <1>8 DEF SkipPage
  <2>2. at \notin Kept
    BY <2>1 DEF ReadInv, ShownInv
  <2> QED
    BY <1>0, <1>2, <2>1, <2>2 DEF ReadInv
<1>9. CASE BuildFails \/ Swap
  BY <1>3, <1>9 DEF BuildFails, Swap, ReadInv
<1> QED
  BY <1>1, <1>4, <1>5, <1>6, <1>7, <1>8, <1>9 DEF ServingNext, BuildStep

-----------------------------------------------------------------------------
(* What is promised of a page is a page, and is promised of what is there. *)
LEMMA PromisedType ==
  ASSUME NEW c \in Contents \cup {Torn, NoFile}, hardLinks \/ c # Torn
  PROVE  /\ Promised(c) \in Contents \cup {NoFile}
         /\ Promised(c) = NoFile <=> c = NoFile
<1>1. Anything \in Contents
  BY LinkingAssumption DEF Anything
<1>2. CASE hardLinks /\ c # NoFile
  <2>1. Promised(c) = Anything
    BY <1>2 DEF Promised
  <2> QED
    BY <1>1, <1>2, <2>1, MarkersAssumption
<1>3. CASE ~(hardLinks /\ c # NoFile)
  <2>1. Promised(c) = c
    BY <1>3 DEF Promised
  <2> QED
    BY <1>3, <2>1
<1> QED
  BY <1>2, <1>3

(* So it is of all the pages of a tree. *)
LEMMA ReleaseType ==
  ASSUME NEW v, \A f \in Pages : /\ v[f] \in Contents \cup {Torn, NoFile}
                                 /\ hardLinks \/ v[f] # Torn
  PROVE  /\ Release(v) \in Pub!Trees
         /\ \A f \in Pages : Release(v)[f] = Promised(v[f])
         /\ \A f \in Pages : Release(v)[f] = NoFile <=> v[f] = NoFile
BY PromisedType DEF Release, Pub!Trees

(* A root that has never published and a server that is down show nothing. *)
LEMMA PubInit == ServingInit => Pub!Init
<1> SUFFICES ASSUME ServingInit
             PROVE  Pub!Init
  OBVIOUS
<1> USE MarkersAssumption, PagesAreFiles, NatBounds
<1>1. /\ current = 0 /\ published = {} /\ index = NoPages /\ pin = NoTree
  BY DEF ServingInit, Init
<1>2. \A f \in Pages : snap[0][f] \in Contents \cup {NoFile}
  BY DEF ServingInit, Init
<1>3. Release(snap[0]) \in Pub!Trees
  BY <1>2, ReleaseType
<1>4. [n \in {0} \cup published |-> Release(snap[n])] \in [{0} -> Pub!Trees]
  BY <1>1, <1>3
<1>5. Release(index) = [f \in Pages |-> NoFile]
  BY <1>1 DEF Release, Promised, NoPages
<1>6. {0} \cup (published \ pruned) = {0}
  BY <1>1
<1>7. (pin # NoTree /\ token = Flips) = FALSE
  BY <1>1
<1> QED
  BY <1>1, <1>4, <1>5, <1>6, <1>7 DEF Pub!Init

(* A flip of CURRENT publishes a release. *)
LEMMA FlipPublishes ==
  ASSUME IInv, ShownInv, ServedInv, Fresh, Whole, Publish,
         UNCHANGED serverVars
  PROVE  Pub!Publish(staged)
<1> USE MarkersAssumption, PagesAreFiles
<1>0. [Next]_vars
  BY DEF Next, RunStep
<1>1. /\ staged > current /\ current' = staged
      /\ Flips \in Nat /\ Flips' = Flips + 1
      /\ published' = published \cup {staged}
      /\ pruned' = pruned \cup DoomedIn(dirs, staged)
      /\ hardLinks' = hardLinks
      /\ staged \notin pruned'
  BY <1>0, FlipsUp, FlipCounts, HistoryStays
  DEF Publish, PruneAfter, Fresh, Building, DoomedIn
<1>2. /\ staged \in Trees /\ HasBundle(staged) /\ Building
      /\ writing = NoFile /\ staged \notin Shown
      /\ snap'[staged] = View(staged)
      /\ \A g \in Shown : snap'[g] = snap[g]
  BY <1>0, ShownTrees, HistoryStays
  DEF Publish, IInv, TypeOK, StagedInv, Building, Trees
<1>3. Release(View(staged)) \in Pub!Trees
        /\ Pub!Complete(Release(View(staged)))
  <2>1. View(staged) \in [Files -> Contents \cup {Torn, NoFile}]
    BY <1>2, ViewType
  <2>2. ~hardLinks => \A f \in Files : View(staged)[f] # Torn
    <3>1. ~hardLinks =>
            \A f \in Files : Has(staged, f) => origin[staged][f] = staged
      BY <1>2 DEF Has, ShownInv, OwnInodes
    <3>2. ~hardLinks =>
            \A f \in Files : Has(staged, f) => data[staged][f] # Torn
      BY <1>2, FilesMembers DEF Whole, Clean
    <3> QED
      BY <3>1, <3>2 DEF View
  <2>3. View(staged)[Index] # NoFile
    BY <1>2, ViewType, FilesMembers DEF HasBundle
  <2> QED
    BY <2>1, <2>2, <2>3, ReleaseType DEF Pub!Complete
<1>4. ASSUME NEW v
      PROVE  Release(v)' = Release(v)
  BY <1>1 DEF Release, Promised
<1>5. (pin # NoTree /\ token = Flips)' = FALSE
  <2>1. token' \in 0..Flips /\ token' \in Int
    BY <1>1 DEF ServedInv, ServingTypeOK, serverVars, servedVars
  <2> QED
    BY <1>1, <2>1
<1>6. pin' = pin /\ Release(index)' = Release(index)
  BY <1>1 DEF serverVars, servedVars, Release, Promised
<1> DEFINE gone == (published \ pruned) \cap DoomedIn(dirs, staged)
           kept == {0} \cup (published \ pruned)
           all == [n \in {0} \cup published |-> Release(snap[n])]
<1>7. gone \in SUBSET (kept \ {0}) /\ kept' = (kept \ gone) \cup {staged}
  <2>1. 0 \notin published /\ 0 \notin pruned'
    BY <1>1 DEF IInv, TypeOK, DoomedIn
  <2> QED
    BY <1>1, <2>1
<1>8. all' = [n \in DOMAIN all \cup {staged} |->
                IF n = staged THEN Release(View(staged)) ELSE all[n]]
  <2> DEFINE Rel(h, v) ==
        [f \in Pages |-> IF h /\ v[f] # NoFile THEN Anything ELSE v[f]]
  <2>1. all' = [n \in {0} \cup published' |-> Rel(hardLinks', snap'[n])]
    BY DEF Release, Promised
  <2>2. all = [n \in {0} \cup published |-> Rel(hardLinks, snap[n])]
    BY DEF Release, Promised
  <2>3. Release(View(staged)) = Rel(hardLinks, View(staged))
    BY DEF Release, Promised
  <2> HIDE DEF Rel, all
  <2> QED
    BY <1>1, <1>2, <2>1, <2>2, <2>3 DEF Shown
<1> HIDE DEF gone, kept, all
<1>9. /\ \E tree \in Pub!Trees :
           /\ Pub!Complete(tree)
           /\ all' = [n \in DOMAIN all \cup {staged} |->
                        IF n = staged THEN tree ELSE all[n]]
      /\ \E part \in SUBSET (kept \ {0}) :
           kept' = (kept \ part) \cup {staged}
  BY <1>3, <1>7, <1>8
<1> QED
  BY <1>1, <1>5, <1>6, <1>9 DEF Pub!Publish, all, kept

(* A swap takes one release: whole, or what was left of it when it was     *)
(* dropped meanwhile.                                                      *)
LEMMA SwapLoads ==
  ASSUME IInv, ShownInv, ServedInv, Fresh, Whole, BuildInv, ReadInv, Swap
  PROVE  Pub!Load(at)
<1> USE PagesAreFiles, MarkersAssumption
<1>1. /\ serving = "load" /\ toRead = {} /\ Loadable(loaded)
      /\ index' = loaded /\ pin' = at /\ token' = newToken
      /\ UNCHANGED <<current, published, pruned, hardLinks, snap>>
  BY DEF Swap, vars, histVars
<1>2. /\ loaded \in [Pages -> Contents \cup {Torn, NoFile}]
      /\ at \in Trees /\ at \in Shown /\ at # NoTree
      /\ \A f \in Pages : snap[at][f] \in Contents \cup {Torn, NoFile}
      /\ ~hardLinks => \A f \in Pages : snap[at][f] # Torn
  BY NatBounds
  DEF ServedInv, ServingTypeOK, BuildInv, IInv, TypeOK, Whole, Clean
<1>3. /\ Flips \in Nat /\ Flips' = Flips
      /\ token \in 0..Flips /\ newToken \in token..Flips
      /\ pin # NoTree => token < newToken
      /\ newToken = Flips => at = current
  BY <1>1, FiniteDirs
  DEF ServedInv, ServingTypeOK, BuildInv, InBuild, Flips
<1>4. /\ ~(pin # NoTree /\ token = Flips)
      /\ (pin # NoTree /\ token = Flips)' <=> newToken = Flips
  BY <1>1, <1>2, <1>3
<1>5. /\ at = 0 \/ pin = NoTree \/ at >= pin
      /\ Kept \subseteq Shown /\ current \in Kept
  BY <1>1, ShownTrees DEF BuildInv, Fresh, Kept, Shown
<1>6. \A f \in Pages : loaded[f] # NoFile =>
        snap[at][f] # NoFile /\ Promised(loaded[f]) = Promised(snap[at][f])
  BY <1>1 DEF ReadInv, Promised
<1>7. /\ Release(loaded) \in Pub!Trees
      /\ \A f \in Pages : /\ Release(loaded)[f] = Promised(loaded[f])
                          /\ Release(loaded)[f] = NoFile <=> loaded[f] = NoFile
  <2>1. ~hardLinks => \A f \in Pages : loaded[f] # Torn
    BY <1>1, <1>2 DEF ReadInv
  <2> QED
    BY <1>2, <2>1, ReleaseType
<1>8. /\ Release(snap[at]) \in Pub!Trees
      /\ \A f \in Pages :
           /\ Release(snap[at])[f] = Promised(snap[at][f])
           /\ Release(snap[at])[f] = NoFile <=> snap[at][f] = NoFile
  BY <1>2, ReleaseType
<1>9. Pub!Unique(Release(loaded))
  BY <1>1, <1>7, TwinsAssumption DEF Loadable, Pub!Unique, Pages
<1>10. Pub!PartOf(Release(loaded), Release(snap[at]))
  BY <1>6, <1>7, <1>8 DEF Pub!PartOf
<1>11. Release(index)' = Release(loaded)
  BY <1>1 DEF Release, Promised
<1> DEFINE kept == {0} \cup (published \ pruned)
           all == [n \in {0} \cup published |-> Release(snap[n])]
<1>12. UNCHANGED <<all, kept, current>>
  BY <1>1 DEF Release, Promised
<1>13. /\ kept = Kept /\ DOMAIN all = Shown
       /\ all[at] = Release(snap[at])
  BY <1>2 DEF Kept, Shown
<1> HIDE DEF kept, all
<1>14. CASE at \in Kept
  <2>1. \A f \in Pages : loaded[f] # NoFile <=> snap[at][f] # NoFile
    BY <1>1, <1>2, <1>14 DEF ReadInv, ShownInv
  <2>2. \A f \in Pages : Release(loaded)[f] = Release(snap[at])[f]
    BY <1>6, <1>7, <1>8, <2>1
  <2>3. Release(loaded) = Release(snap[at])
    BY <1>7, <1>8, <2>2 DEF Pub!Trees
  <2>4. Pub!Complete(Release(loaded))
    BY <1>1, <1>7, <1>14 DEF ReadInv, Pub!Complete
  <2>5. Pub!Servable(all[at])
    BY <1>9, <1>13, <2>3, <2>4 DEF Pub!Servable
  <2>6. (pin # NoTree /\ token = Flips)' \in {FALSE, at = current}
    BY <1>3, <1>4
  <2>7. Release(index)' = all[at]
    BY <1>11, <1>13, <2>3
  <2> QED
    BY <1>1, <1>4, <1>5, <1>12, <1>13, <1>14, <2>5, <2>6, <2>7
    DEF Pub!Load, Pub!Take, all, kept
<1>15. CASE at \notin Kept
  <2>1. (pin # NoTree /\ token = Flips)' = FALSE
    BY <1>3, <1>4, <1>5, <1>15
  <2>2. \E part \in Pub!Trees :
          /\ Pub!PartOf(part, all[at]) /\ Pub!Unique(part)
          /\ Release(index)' = part
    BY <1>7, <1>9, <1>10, <1>11, <1>13
  <2> QED
    BY <1>1, <1>2, <1>4, <1>5, <1>12, <1>13, <1>15, <2>1, <2>2
    DEF Pub!Load, Pub!TakeLeftovers, all, kept
<1> QED
  BY <1>14, <1>15

(* Every other step is invisible to a reader. *)
LEMMA OthersStutter ==
  ASSUME IInv, Fresh, [Next]_vars, ~Publish, UNCHANGED servedVars
  PROVE  UNCHANGED Pub!pubVars
<1>1. UNCHANGED <<current, hardLinks, published, pruned, snap, index, pin,
                  token>>
  BY FlipsUp DEF histVars, servedVars
<1> QED
  BY <1>1 DEF Pub!pubVars, Flips, Release, Promised

(* Publishing by generations, linked or copied (stage_generation,          *)
(* publish_generation, prune_generations), and a hot-reloading server      *)
(* (ServedIndex, discover_bundles, load_bundle) implement the safety of    *)
(* Publication: however flips and prunes fall between the steps of a       *)
(* build, the server shows the files of one release; all of them, unless   *)
(* that release was pruned meanwhile, in which case it knows better than   *)
(* to take it for the latest; as they were published, unless they are      *)
(* links; and none older than it showed but for the plain root.            *)
THEOREM ImplementsPublicationSafety == ServingSpec => Pub!Safety
<1> DEFINE Inv == IInv /\ ShownInv /\ ServedInv /\ ServerInv
<1>1. ServingInit => Inv
  <2> SUFFICES ASSUME ServingInit
               PROVE  Inv
    OBVIOUS
  <2>1. Init
    BY DEF ServingInit
  <2>2. Fresh /\ BuildInv
    BY <2>1, NatBounds
    DEF Init, ServingInit, Fresh, BuildInv, Building, InBuild, Shown
  <2>3. ReadInv
    BY DEF ServingInit, ReadInv
  <2>4. Whole
    BY <2>1, NatBounds, MarkersAssumption
    DEF Init, Whole, NoneYet, Clean, Building, Shown, Has
  <2> QED
    BY <2>1, <2>2, <2>3, <2>4, InitHolds, ShownInit, ServedInit DEF ServerInv
<1>2. Inv /\ [ServingNext]_allVars => Inv'
  BY PublisherSteps, NextHolds, ShownNext, ServedNext, FreshNext, WholeNext,
     BuildNext, ReadNext
  DEF ServerInv
<1>3. Inv /\ [ServingNext]_allVars => [Pub!Next]_(Pub!pubVars)
  <2> SUFFICES ASSUME Inv, [ServingNext]_allVars
               PROVE  [Pub!Next]_(Pub!pubVars)
    OBVIOUS
  <2>0. [Next]_vars
    BY PublisherSteps
  <2>1. CASE Publisher /\ Publish
    <3>1. Pub!Publish(staged) /\ staged \in Trees
      BY <2>1, FlipPublishes, NatBounds
      DEF ServerInv, Publisher, serverVars, buildVars, IInv, TypeOK, Trees
    <3> QED
      BY <3>1 DEF Pub!Next
  <2>2. CASE Swap
    <3>1. Pub!Load(at) /\ at \in Trees
      BY <2>2, SwapLoads DEF ServerInv, ServedInv, ServingTypeOK
    <3> QED
      BY <3>1 DEF Pub!Next
  <2>3. CASE ~(Publisher /\ Publish) /\ ~Swap
    <3>1. UNCHANGED servedVars /\ (UNCHANGED vars \/ ~Publish)
      BY <2>3 DEF ServingNext, Publisher, Boot, Reload, BuildStep, ReadPointer,
                  LookForDir, Discover, List, ReadPage, SkipPage, BuildFails,
                  allVars, serverVars
    <3>2. ~Publish
      BY <2>0, <3>1, FlipsUp DEF ServerInv, vars
    <3> QED
      BY <2>0, <3>1, <3>2, OthersStutter DEF ServerInv
  <2> QED
    BY <2>1, <2>2, <2>3
<1> QED
  BY <1>1, <1>2, <1>3, PubInit, PTL DEF ServingSpec, Pub!Safety
=============================================================================
