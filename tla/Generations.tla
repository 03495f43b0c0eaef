---------------------------- MODULE Generations ----------------------------
(***************************************************************************)
(* Generational publish (okf_mcp.ingest.generations and _sync_generation): *)
(* a run stages a copy of the CURRENT generation, syncs into it, validates *)
(* it, flips the CURRENT pointer and prunes old generations.               *)
(*                                                                         *)
(* Tree 0 is the plain layout under the root; tree g > 0 is the g-th       *)
(* directory ever made under generations/ (their ids grow with time).      *)
(* Staging hard-links the files of its base where os.link works, and       *)
(* copies them where it does not; a sync writes a file by truncating and   *)
(* refilling whatever inode the path names (Path.write_text).  An inode is *)
(* named by the tree and file it was made for: origin[g][f] is the tree    *)
(* whose inode of f the path of f in tree g leads to.                      *)
(*                                                                         *)
(* What a sync writes and removes is left open: any concepts, any content, *)
(* then the ledger (see Sync).  Runs are serialised (see SyncLock).        *)
(***************************************************************************)
EXTENDS Naturals, FiniteSets

CONSTANTS
  Concepts,     \* concept files
  Contents,     \* what a file may hold
  Torn,         \* what a file holds between its truncation and its write
  NoFile,       \* "no such file"
  Linking,      \* may os.link work: what hardLinks may be
  Keep,         \* generations_keep
  MaxGens,      \* bound: generation directories ever made
  MaxWrites,    \* bound: concepts written or removed by one run
  MaxCrashes    \* bound: runs that are killed

Index == "index.md"
LedgerFile == "ledger.yaml"
Files == Concepts \cup {Index, LedgerFile}

Gens == 1..MaxGens
Trees == 0..MaxGens
NoTree == MaxGens + 1

ASSUME KeepAssumption == Keep \in Nat \ {0}
ASSUME BoundsAssumption ==
  MaxGens \in Nat /\ MaxWrites \in Nat /\ MaxCrashes \in Nat
ASSUME LinkingAssumption == Linking \subseteq BOOLEAN /\ Contents # {}
ASSUME FilesAssumption == Index \notin Concepts /\ LedgerFile \notin Concepts
ASSUME MarkersAssumption ==
  Torn \notin Contents /\ NoFile \notin Contents \cup Files \cup {Torn}

VARIABLES
  data,         \* data[g][f]: what the inode made for f of tree g holds
  origin,       \* the inode each path leads to, NoTree when there is no file
  dirs,         \* generation directories that exist
  current,      \* the generation CURRENT names, 0 when there is no pointer
  last,         \* the last generation id made
  phase,        \* where the run is
  staged,       \* the generation the run builds, 0 for none
  toLink,       \* files of the base not linked yet
  writing,      \* the file truncated and not written yet, or NoFile
  writes,       \* concepts written or removed by this run
  doomed,       \* generations that are being deleted
  crashes,
  hardLinks,    \* the file system of this root has hard links
  published,    \* history: generations CURRENT has named
  pruned,       \* history: generations prune has picked
  snap          \* history: what each tree held when it was published

runVars == <<last, phase, staged, toLink, writing, writes, doomed, crashes>>
histVars == <<hardLinks, published, pruned, snap>>
vars == <<data, origin, dirs, current, runVars, histVars>>

-----------------------------------------------------------------------------
Has(g, f) == origin[g][f] # NoTree
View(g) ==
  [f \in Files |-> IF Has(g, f) THEN data[origin[g][f]][f] ELSE NoFile]

\* discover_bundles: the tree has a bundle with an index.md.
HasBundle(g) == Has(g, Index)

\* current_generation_dir(root), or root.
Base == IF current \in dirs THEN current ELSE 0

\* Generations beyond the `keep` latest ids; CURRENT is never pruned.
DoomedIn(ds, cur) ==
  {g \in ds : Cardinality({h \in ds : h > g}) >= Keep} \ {cur}

\* A root with a plain layout (or none) turns generations on.
Init ==
  /\ \E present \in SUBSET Files, c \in Contents :
       /\ origin = [g \in Trees |-> [f \in Files |->
                      IF g = 0 /\ f \in present THEN 0 ELSE NoTree]]
       /\ data = [g \in Trees |-> [f \in Files |-> c]]
       /\ snap = [g \in Trees |-> [f \in Files |->
                      IF g = 0 /\ f \in present THEN c ELSE NoFile]]
  /\ dirs = {}
  /\ current = 0
  /\ last = 0
  /\ phase = "idle"
  /\ staged = 0
  /\ toLink = {}
  /\ writing = NoFile
  /\ writes = 0
  /\ doomed = {}
  /\ crashes = 0
  /\ hardLinks \in Linking
  /\ published = {}
  /\ pruned = {}

-----------------------------------------------------------------------------
\* stage_generation makes the directory ...
Stage ==
  /\ phase = "idle"
  /\ last < MaxGens
  /\ last' = last + 1
  /\ staged' = last + 1
  /\ dirs' = dirs \cup {last + 1}
  /\ toLink' = {f \in Files : Has(Base, f)}
  /\ writes' = 0
  /\ phase' = "stage"
  /\ UNCHANGED <<data, origin, current, writing, doomed, crashes, histVars>>

\* ... and links each file of the base into it, or copies it.
Link(f) ==
  /\ phase = "stage"
  /\ f \in toLink
  /\ toLink' = toLink \ {f}
  /\ IF hardLinks
     THEN /\ origin' = [origin EXCEPT ![staged][f] = origin[Base][f]]
          /\ UNCHANGED data
     ELSE /\ origin' = [origin EXCEPT ![staged][f] = staged]
          /\ data' = [data EXCEPT ![staged][f] = data[origin[Base][f]][f]]
  /\ UNCHANGED <<dirs, current, last, phase, staged, writing, writes, doomed,
                 crashes, histVars>>

BeginSync ==
  /\ phase = "stage"
  /\ toLink = {}
  /\ phase' = "sync"
  /\ UNCHANGED <<data, origin, dirs, current, last, staged, toLink, writing,
                 writes, doomed, crashes, histVars>>

\* write_text opens a file of the staged tree: the inode its path leads to is
\* truncated, or a new one is made.
Truncate(f) ==
  LET g == IF Has(staged, f) THEN origin[staged][f] ELSE staged IN
  /\ writing = NoFile
  /\ writing' = f
  /\ origin' = [origin EXCEPT ![staged][f] = g]
  /\ data' = [data EXCEPT ![g][f] = Torn]
  /\ UNCHANGED <<dirs, current, last, staged, toLink, doomed, crashes,
                 histVars>>

\* The sync projects a document ...
WriteConcept(f) ==
  /\ phase = "sync"
  /\ HasBundle(staged)
  /\ writes < MaxWrites
  /\ writes' = writes + 1
  /\ Truncate(f)
  /\ UNCHANGED phase

\* ... and write_text's data reaches the file.
Fill(c) ==
  /\ writing # NoFile
  /\ writing' = NoFile
  /\ data' = [data EXCEPT ![origin[staged][writing]][writing] = c]
  /\ phase' = IF phase = "save" THEN "validate" ELSE phase
  /\ UNCHANGED <<origin, dirs, current, last, staged, toLink, writes, doomed,
                 crashes, histVars>>

\* The sweep unlinks the concept of a vanished document.
Unlink(f) ==
  /\ phase = "sync"
  /\ writing = NoFile
  /\ HasBundle(staged)
  /\ Has(staged, f)
  /\ writes < MaxWrites
  /\ writes' = writes + 1
  /\ origin' = [origin EXCEPT ![staged][f] = NoTree]
  /\ UNCHANGED <<data, dirs, current, last, phase, staged, toLink, writing,
                 doomed, crashes, histVars>>

\* ledger.save() ends the sync.
SaveLedger ==
  /\ phase = "sync"
  /\ HasBundle(staged)
  /\ Truncate(LedgerFile)
  /\ phase' = "save"
  /\ UNCHANGED writes

\* The sync returns 2 before it writes: a target bundle is not there.
SyncRefuses ==
  /\ phase = "sync"
  /\ writes = 0
  /\ writing = NoFile
  /\ phase' = "validate"
  /\ UNCHANGED <<data, origin, dirs, current, last, staged, toLink, writing,
                 writes, doomed, crashes, histVars>>

\* discard_generation: the staged tree is removed.
Discard ==
  /\ phase' = "remove"
  /\ doomed' = {staged}
  /\ writing' = NoFile
  /\ UNCHANGED <<data, origin, dirs, current, last, staged, toLink, writes,
                 crashes, histVars>>

\* The sync raises, a failing write_text included, or what _sync does after
\* ledger.save() raises.
Raise == phase \in {"sync", "save", "validate"} /\ Discard

\* validate_generation rejects a tree without a bundle.
Reject == phase = "validate" /\ ~HasBundle(staged) /\ Discard

\* Mutation of Accept: whatever the sync left is published.
AcceptAnything ==
  /\ phase = "validate"
  /\ phase' = "publish"
  /\ UNCHANGED <<data, origin, dirs, current, last, staged, toLink, writing,
                 writes, doomed, crashes, histVars>>

Accept ==
  /\ phase = "validate"
  /\ HasBundle(staged)
  /\ phase' = "publish"
  /\ UNCHANGED <<data, origin, dirs, current, last, staged, toLink, writing,
                 writes, doomed, crashes, histVars>>

\* Mutation of PruneAfter: one generation too many is deleted.
PruneOneMore ==
  LET ds == {g \in dirs : Cardinality({h \in dirs : h >= g}) >= Keep}
             \ {staged}
  IN /\ doomed' = ds
     /\ phase' = IF ds = {} THEN "idle" ELSE "remove"
     /\ staged' = IF ds = {} THEN 0 ELSE staged
     /\ pruned' = pruned \cup ds

\* prune_generations picks what it will delete.
PruneAfter ==
  LET ds == DoomedIn(dirs, staged)
  IN /\ doomed' = ds
     /\ phase' = IF ds = {} THEN "idle" ELSE "remove"
     /\ staged' = IF ds = {} THEN 0 ELSE staged
     /\ pruned' = pruned \cup ds

\* publish_generation: os.replace flips CURRENT.
Publish ==
  /\ phase = "publish"
  /\ current' = staged
  /\ published' = published \cup {staged}
  /\ snap' = [snap EXCEPT ![staged] = View(staged)]
  /\ PruneAfter
  /\ UNCHANGED <<data, origin, dirs, last, toLink, writing, writes, crashes,
                 hardLinks>>

\* shutil.rmtree, file by file ...
RemoveFile(g, f) ==
  /\ phase = "remove"
  /\ g \in doomed
  /\ \A h \in doomed : g <= h
  /\ Has(g, f)
  /\ origin' = [origin EXCEPT ![g][f] = NoTree]
  /\ UNCHANGED <<data, dirs, current, runVars, histVars>>

\* ... and then the directory.
RemoveDir(g) ==
  /\ phase = "remove"
  /\ g \in doomed
  /\ \A h \in doomed : g <= h
  /\ \A f \in Files : ~Has(g, f)
  /\ dirs' = dirs \ {g}
  /\ doomed' = doomed \ {g}
  /\ phase' = IF doomed' = {} THEN "idle" ELSE "remove"
  /\ staged' = IF doomed' = {} THEN 0 ELSE staged
  /\ UNCHANGED <<data, origin, current, last, toLink, writing, writes,
                 crashes, histVars>>

\* The run is killed, or staging or publishing raises: no discard runs, and
\* what is on disk stays as it is.
Crash ==
  /\ phase # "idle"
  /\ crashes < MaxCrashes
  /\ crashes' = crashes + 1
  /\ phase' = "idle"
  /\ staged' = 0
  /\ toLink' = {}
  /\ writing' = NoFile
  /\ doomed' = {}
  /\ UNCHANGED <<data, origin, dirs, current, last, writes, histVars>>

RunStep ==
  \/ \E f \in Files : Link(f)
  \/ BeginSync
  \/ \E f \in Concepts : WriteConcept(f) \/ Unlink(f)
  \/ \E c \in Contents : Fill(c)
  \/ SaveLedger \/ SyncRefuses \/ Raise \/ Reject \/ Accept \/ Publish
  \/ \E g \in Gens : RemoveDir(g) \/ \E f \in Files : RemoveFile(g, f)

\* The bound is reached: no further run.
Rest == phase = "idle" /\ last = MaxGens /\ UNCHANGED vars

Next == Stage \/ RunStep \/ Crash \/ Rest

Spec == Init /\ [][Next]_vars

-----------------------------------------------------------------------------
\* Every variable has its type: a run (_run_sync_generational) stages one
\* generation, and only directories that exist are linked, pruned or CURRENT.
TypeOK ==
  /\ data \in [Trees -> [Files -> Contents \cup {Torn}]]
  /\ origin \in [Trees -> [Files -> Trees \cup {NoTree}]]
  /\ dirs \subseteq 1..last
  /\ last \in Trees
  /\ current \in dirs \cup {0}
  /\ phase \in {"idle", "stage", "sync", "save", "validate", "publish",
                "remove"}
  /\ staged \in dirs \cup {0}
  /\ phase \notin {"idle", "remove"} => staged = last
  /\ toLink \subseteq Files
  /\ writing \in Files \cup {NoFile}
  /\ writing # NoFile => phase \in {"sync", "save"} /\ Has(staged, writing)
  /\ writes \in 0..MaxWrites
  /\ doomed \subseteq dirs
  /\ crashes \in 0..MaxCrashes
  /\ hardLinks \in BOOLEAN
  /\ published \subseteq 1..last /\ pruned \subseteq 1..last
  /\ snap \in [Trees -> [Files -> Contents \cup {Torn, NoFile}]]

\* CURRENT never dangles and never names a generation a server could not
\* load: its directory is there with a bundle, also while a run stages,
\* fails, is killed, publishes or prunes.
CurrentResolves == current # 0 => current \in dirs /\ HasBundle(current)

\* "the previous generation is untouched and keeps serving": a published
\* generation is there, and every file of it is what it was when it was
\* published, until prune picks it.
PublishedUntouched ==
  \A g \in published \ pruned : g \in dirs /\ View(g) = snap[g]

Latest(gens, n) == {g \in gens : Cardinality({h \in gens : h > g}) < n}

\* "Delete published generations beyond the most recent `keep`": the `keep`
\* latest published generations are retained, as long as no run was killed
\* (the directory it leaves is counted like a published one).
RetainsPublished ==
  crashes = 0 =>
    {g \in published : Cardinality({h \in published : h > g}) < Keep}
      \cap pruned = {}

\* Disk use is bounded: between runs there are no more generations than
\* `generations_keep`, and one for every run that was killed.
DiskBounded == phase = "idle" => Cardinality(dirs) <= Keep + crashes

\* prune_generations deletes enough, and not too much.
RetentionHolds == DiskBounded /\ RetainsPublished
=============================================================================
