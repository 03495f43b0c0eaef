-------------------------- MODULE SourceRunProofs --------------------------
(***************************************************************************)
(* What a run of one source reads and what it writes, for all documents,   *)
(* versions, kinds of source and bounds, checked by TLAPS.                 *)
(***************************************************************************)
EXTENDS SourceRun, TLAPS

-----------------------------------------------------------------------------
(* The invariant behind PulledIsUpstream, in named parts.  Nothing happened
   so far that a later pull cannot be trusted after, and this very one did not
   come upon a file that git was replacing:                                *)
Trusted == (Untrusted \ {"beside"}) \cap lapses = {}
Alone == "beside" \notin lapses

(* The pullers that are filling a clone they have just made. *)
Filling == {a \in Pullers : step[a] \in {"sparse", "checkout"}}

(* There is a clone, and whoever made it is done with it. *)
Ready == clone.git /\ ~clone.broken /\ Filling = {}

(* A clone is made once, so that it is filled by one puller at most; who
   pulls into it or reads from it finds one; it is locked while a file of it
   is replaced.                                                            *)
CloneInv ==
  /\ \A a, b \in Filling : a = b
  /\ Filling # {} => clone.git /\ ~clone.broken
  /\ \A a \in Pullers : step[a] = "pull" => clone.git
  /\ step["status"] = "merge" => clone.git /\ ~clone.broken /\ clone.lock
  /\ missing # {} => clone.git /\ clone.lock

(* Where the clone stands: HEAD is the branch unless the branch moved on, the
   index is locked only where a pull that has something to do is under way or
   was killed, the clone has what `paths` asks for, and the working tree is
   HEAD's.                                                                 *)
NeverMoved == remote # "moved"
HeadIsBranch ==
  clone.git /\ ~clone.broken /\ remote = "same" => clone.head = upstream
LockFails == clone.lock => remote \in {"ahead", "rewritten"}
SparseIsWanted ==
  clone.git /\ ~clone.broken /\ (\A a \in Pullers : step[a] # "sparse")
    => wanted \subseteq clone.sparse
TreeIsHead ==
  Ready /\ ~clone.lock => \A d \in clone.sparse : clone.tree[d] = clone.head[d]

GitInv ==
  NeverMoved /\ HeadIsBranch /\ LockFails /\ SparseIsWanted /\ TreeIsHead

(* What sync reads, while it clones, while it lists and reads, and once it
   has read.                                                               *)
FreshHead ==
  step["sync"] \in {"sparse", "checkout"}
    \/ (setup.kind = "git" /\ step["sync"] \in {"list", "read"})
    => \A d \in Paths : clone.head[d] \in during[d]
FreshTree ==
  setup.kind = "git" /\ step["sync"] \in {"list", "read"}
    => Ready /\ \A d \in wanted : clone.tree[d] \in during[d]
Rightly(d) == docs[d] \in IF d \in wanted THEN during[d] ELSE {Absent}
ReadRightly ==
  Alone =>
  /\ step["sync"] = "read" =>
       toRead \subseteq wanted /\ \A d \in Paths \ toRead : Rightly(d)
  /\ step["sync"] = "pulled" => \A d \in Paths : Rightly(d)

(* While `status` merges, a file is as it was or as it will be, and if sync
   reads meanwhile, either is from this pull.                              *)
MergeRightly ==
  step["status"] = "merge" =>
    /\ Ready
    /\ \A d \in clone.sparse : clone.tree[d] \in {clone.head[d], fetched[d]}
    /\ setup.kind = "git" /\ step["sync"] \in {"list", "read"}
         => \A d \in Paths : fetched[d] \in during[d]

NothingRead ==
  step["sync"] \in {"clone", "sparse", "checkout", "pull", "list"}
    => docs = Empty
DuringIsNow == \A d \in Paths : upstream[d] \in during[d]
AllWanted == setup.kind # "git" => wanted = Paths

TrustedInv == GitInv /\ FreshHead /\ FreshTree /\ ReadRightly /\ MergeRightly

PullInv ==
  /\ CloneInv
  /\ NothingRead /\ DuringIsNow /\ AllWanted
  /\ Trusted => TrustedInv

(* The invariant behind OutputIsGated and TypeOK: a document being
   transformed waits for its outcome, and what is about to be applied without
   needs_human has passed.                                                 *)
Waits == phase # "idle" => doing \in Docs /\ outcome[doing] = "waiting"
Passed ==
  /\ phase = "ask" => ~needsHuman
  /\ phase = "apply" /\ ~needsHuman => Check(draft) = {} /\ findings = {}

GateInv == Waits /\ Passed /\ OutputIsGated

-----------------------------------------------------------------------------
USE AbsentAssumption, PageAssumption, SetupsAssumption, DocsAssumption,
    TransformersAssumption, MaxRetriesAssumption, MaxErrorsAssumption,
    NoDocAssumption

Clones == [git : BOOLEAN, broken : BOOLEAN, lock : BOOLEAN,
           sparse : SUBSET Paths, head : Commits, index : Commits,
           tree : Commits]

(* What is made of commits are commits. *)
LEMMA OnlyType ==
  ASSUME NEW commit \in Commits, NEW paths
  PROVE  Only(commit, paths) \in Commits
BY DEF Only, Commits

LEMMA EmptyType == Empty \in Commits
BY DEF Empty, Commits

LEMMA WithType ==
  ASSUME NEW commit \in Commits, NEW files, NEW old \in Commits
  PROVE  /\ With(commit, files, old) \in Commits
         /\ \A d \in Paths : With(commit, files, old)[d] =
                              IF d \in files THEN commit[d] ELSE old[d]
BY DEF With, Commits

LEMMA NoCloneType == NoClone \in Clones
BY EmptyType DEF NoClone, Clones

(* A pull brings the clone from one commit to another. *)
LEMMA MergedType ==
  ASSUME ConnectorTypeOK
  PROVE  /\ Merged \in Clones
         /\ Merged.git = clone.git /\ Merged.broken = clone.broken
         /\ Merged.lock = clone.lock /\ Merged.sparse = clone.sparse
         /\ Merged.head = upstream
         /\ \A d \in Paths :
              Merged.tree[d] = IF d \in Changed(upstream) \cap clone.sparse
                               THEN upstream[d] ELSE clone.tree[d]
<1> DEFINE all == Changed(upstream)
           files == With(upstream, all \cap clone.sparse, clone.tree)
<1>1. clone \in Clones /\ upstream \in Commits
  BY DEF ConnectorTypeOK, Clones
<1>2. clone.index \in Commits /\ clone.tree \in Commits
  BY <1>1 DEF Clones
<1>3. With(upstream, all, clone.index) \in Commits
  BY <1>1, <1>2, WithType
<1>4. /\ files \in Commits
      /\ \A d \in Paths : files[d] = IF d \in all \cap clone.sparse
                                     THEN upstream[d] ELSE clone.tree[d]
  BY <1>1, <1>2, WithType
<1>5. Merged = [clone EXCEPT !.head = upstream,
                             !.index = With(upstream, all, clone.index),
                             !.tree = files]
  BY DEF Merged
<1> HIDE DEF files, all
<1>6. /\ Merged \in Clones
      /\ Merged.git = clone.git /\ Merged.broken = clone.broken
      /\ Merged.lock = clone.lock /\ Merged.sparse = clone.sparse
      /\ Merged.head = upstream /\ Merged.tree = files
  BY <1>1, <1>3, <1>4, <1>5 DEF Clones
<1> QED
  BY <1>4, <1>6 DEF all

(* Steps go from one state to another of one puller. *)
LEMMA GotoType ==
  ASSUME NEW a \in Pullers, NEW to \in Steps,
         ConnectorTypeOK, Goto(a, to)
  PROVE  step' \in [Pullers -> Steps]
BY DEF ConnectorTypeOK, Goto, Steps

(* Every step of the connector keeps the types. *)
LEMMA OutsideType == ConnectorTypeOK /\ Outside => ConnectorTypeOK'
<1> SUFFICES ASSUME ConnectorTypeOK, Outside
             PROVE  ConnectorTypeOK'
  OBVIOUS
<1> USE DEF ConnectorTypeOK, Commits, Lapses, mergeVars
<1>1. ASSUME Edits PROVE edits' \in 0..setup'.edits
  BY <1>1 DEF Edits
<1>2. ASSUME NEW d \in Paths, NEW v \in Versions \cup {Absent}, Upstream(d, v)
      PROVE  /\ upstream' \in [Paths -> Versions \cup {Absent}]
             /\ during' \in [Paths -> SUBSET (Versions \cup {Absent})]
  BY <1>2 DEF Upstream
<1>3. ASSUME NEW d \in Paths, NEW v \in Versions \cup {Absent},
             NEW how \in {"rewritten", "moved"}, Replace(d, v, how)
      PROVE  ConnectorTypeOK'
  BY <1>1, <1>2, <1>3 DEF Replace, Edits
<1>4. ASSUME NEW d \in Paths, NEW v \in Versions \cup {Absent}, Edit(d, v)
      PROVE  ConnectorTypeOK'
  BY <1>1, <1>2, <1>4 DEF Edit, Edits
<1>5. ASSUME NEW paths \in (SUBSET Paths) \ {{}}, Reconfigure(paths)
      PROVE  ConnectorTypeOK'
  BY <1>1, <1>5 DEF Reconfigure, Edits
<1> QED
  BY <1>3, <1>4, <1>5 DEF Outside, Rewrite, Repoint

LEMMA PullingType ==
  ASSUME ConnectorTypeOK, NEW a \in Pullers, StartPull(a) \/ Pulling(a)
  PROVE  ConnectorTypeOK'
<1> DEFINE Rest == /\ setup' \in Setups /\ upstream' \in Commits
                   /\ wanted' \in SUBSET Paths /\ edits' \in 0..setup'.edits
                   /\ faults' \in 0..setup'.faults
<1>1. ASSUME NEW from, NEW to \in Steps,
             Fine(a, from, to)
      PROVE  /\ Rest
             /\ step' \in [Pullers -> Steps]
  BY <1>1, GotoType DEF Fine, ConnectorTypeOK
<1>2. Listing(a) \in {"idle", "list"} /\ Listing(a) \in Steps
  BY DEF Listing, Steps
<1>3. clone \in Clones
  BY DEF ConnectorTypeOK, Clones
<1>4. ASSUME Rest, clone' \in Clones,
             step' \in [Pullers -> Steps],
             remote' \in {"same", "ahead", "rewritten", "moved"},
             UNCHANGED toRead, docs' \in Commits,
             fetched' \in Commits, missing' \in SUBSET Paths,
             during' \in [Paths -> SUBSET (Versions \cup {Absent})],
             lapses' \in SUBSET Lapses
      PROVE  ConnectorTypeOK'
  BY <1>4 DEF ConnectorTypeOK, Clones
<1>5. CASE StartPull(a)
  <2>1. during' \in [Paths -> SUBSET (Versions \cup {Absent})]
    BY <1>5 DEF StartPull, ConnectorTypeOK, Commits, pullVars
  <2>2. docs' \in Commits
    BY <1>5, EmptyType DEF StartPull, ConnectorTypeOK
  <2>3. lapses' \in SUBSET Lapses
    BY <1>5 DEF StartPull, ConnectorTypeOK
  <2>4. UNCHANGED <<clone, remote, fetched, missing, toRead>>
    BY <1>5 DEF StartPull, cloneVars, mergeVars
  <2>5. /\ Rest /\ step' \in [Pullers -> Steps]
    <3>1. \E to \in Steps : Fine(a, "idle", to)
      BY <1>5 DEF StartPull, Steps
    <3> QED
      BY <1>1, <3>1
  <2> QED
    BY <1>3, <1>4, <2>1, <2>2, <2>3, <2>4, <2>5 DEF ConnectorTypeOK
<1> USE DEF cloneVars, pullVars, mergeVars, Steps
<1>6. CASE Clone(a)
  <2>1. clone' \in Clones
    BY <1>6, NoCloneType DEF Clone, Clones, ConnectorTypeOK
  <2> QED
    BY <1>1, <1>4, <1>6, <2>1 DEF Clone, ConnectorTypeOK
<1>7. CASE CloneRefuses(a)
  BY <1>1, <1>3, <1>4, <1>7 DEF CloneRefuses, ConnectorTypeOK
<1>8. CASE SetSparse(a)
  <2>1. clone' \in Clones
    BY <1>3, <1>8 DEF SetSparse, Clones, ConnectorTypeOK
  <2> QED
    BY <1>1, <1>4, <1>8, <2>1 DEF SetSparse, ConnectorTypeOK
<1>9. CASE Checkout(a)
  <2>1. clone.head \in Commits /\ Only(clone.head, clone.sparse) \in Commits
    BY <1>3, OnlyType DEF Clones
  <2>2. clone' \in Clones
    BY <1>3, <1>9, <2>1 DEF Checkout, Clones
  <2> QED
    BY <1>1, <1>2, <1>4, <1>9, <2>2 DEF Checkout, ConnectorTypeOK
<1>10. CASE Pull(a)
  <2>1. clone' \in Clones
    BY <1>3, <1>10, MergedType DEF Pull
  <2>2. lapses' \in SUBSET Lapses
    BY <1>10 DEF Pull, Beside, ConnectorTypeOK, Lapses
  <2>3. remote' \in {"same", "ahead", "rewritten", "moved"}
    BY <1>10 DEF Pull, ConnectorTypeOK
  <2> QED
    BY <1>1, <1>2, <1>4, <1>10, <2>1, <2>2, <2>3 DEF Pull, ConnectorTypeOK
<1>11. CASE PullFails(a)
  BY <1>1, <1>3, <1>4, <1>11 DEF PullFails, ConnectorTypeOK
<1>12. CASE LockRefuses(a)
  <2>1. lapses' \in SUBSET Lapses
    BY <1>12 DEF LockRefuses, ConnectorTypeOK, Lapses
  <2> QED
    BY <1>1, <1>3, <1>4, <1>12, <2>1 DEF LockRefuses, ConnectorTypeOK
<1>13. CASE a = "status" /\ Merging
  <2>1. CASE StartMerge
    <3>1. clone' \in Clones /\ lapses' \in SUBSET Lapses
      BY <1>3, <2>1 DEF StartMerge, Beside, Clones, ConnectorTypeOK, Lapses
    <3> QED
      BY <1>1, <1>4, <1>13, <2>1, <3>1 DEF StartMerge, ConnectorTypeOK
  <2>2. ASSUME NEW d \in Paths, Unlinks(d)
        PROVE  ConnectorTypeOK'
    BY <1>1, <1>3, <1>4, <1>13, <2>2 DEF Unlinks, ConnectorTypeOK
  <2>3. ASSUME NEW d \in Paths, Writes(d)
        PROVE  ConnectorTypeOK'
    <3>1. [clone.tree EXCEPT ![d] = fetched[d]] \in Commits
      BY <1>3 DEF Clones, Commits, ConnectorTypeOK
    <3>2. clone' = [clone EXCEPT !.tree =
                      [clone.tree EXCEPT ![d] = fetched[d]]]
      BY <1>3, <2>3 DEF Writes, Clones
    <3>3. clone' \in Clones
      BY <1>3, <3>1, <3>2 DEF Clones
    <3> QED
      BY <1>1, <1>4, <1>13, <2>3, <3>3 DEF Writes, ConnectorTypeOK
  <2>4. CASE FinishMerge
    <3>1. With(fetched, Changed(fetched), clone.index) \in Commits
      BY <1>3, WithType DEF Clones, ConnectorTypeOK
    <3>2. clone' \in Clones
      BY <1>3, <2>4, <3>1 DEF FinishMerge, Clones, ConnectorTypeOK
    <3>3. remote' \in {"same", "ahead", "rewritten", "moved"}
      BY <2>4 DEF FinishMerge, ConnectorTypeOK
    <3> QED
      BY <1>1, <1>4, <1>13, <2>4, <3>2, <3>3, EmptyType
      DEF FinishMerge, ConnectorTypeOK
  <2> QED
    BY <1>13, <2>1, <2>2, <2>3, <2>4 DEF Merging
<1> QED
  BY <1>5, <1>6, <1>7, <1>8, <1>9, <1>10, <1>11, <1>12, <1>13 DEF Pulling

LEMMA ReadingType == ConnectorTypeOK /\ Reading => ConnectorTypeOK'
<1> SUFFICES ASSUME ConnectorTypeOK, Reading
             PROVE  ConnectorTypeOK'
  OBVIOUS
<1>1. ASSUME NEW from, NEW to \in {"idle", "read", "pulled"},
             Fine("sync", from, to)
      PROVE  /\ setup' \in Setups /\ upstream' \in Commits
             /\ wanted' \in SUBSET Paths /\ edits' \in 0..setup'.edits
             /\ faults' \in 0..setup'.faults
             /\ step' \in [Pullers -> Steps]
  BY <1>1, GotoType DEF Fine, ConnectorTypeOK, Pullers, Steps
<1> USE DEF cloneVars, pullVars, mergeVars
<1>2. ASSUME NEW kind, NEW there \in SUBSET Paths, Listed(kind, there),
             lapses' \in SUBSET Lapses
      PROVE  ConnectorTypeOK'
  BY <1>1, <1>2 DEF Listed, ConnectorTypeOK
<1>3. CASE ListTree \/ ListBucket \/ ListFolder
  <2>1. CASE ListTree
    <3>1. PICK half \in SUBSET missing :
            /\ Listed("git", wanted \cap ((Present(clone.tree) \ missing)
                                           \cup half))
            /\ CameUpon(wanted \cap missing)
      BY <2>1 DEF ListTree
    <3>2. lapses' \in SUBSET Lapses
      BY <3>1 DEF CameUpon, ConnectorTypeOK, Lapses
    <3>3. wanted \cap ((Present(clone.tree) \ missing) \cup half)
            \in SUBSET Paths
      BY DEF ConnectorTypeOK
    <3> QED
      BY <1>2, <3>1, <3>2, <3>3
  <2>2. CASE ListBucket
    BY <1>2, <2>2 DEF ListBucket, Present, ConnectorTypeOK
  <2>3. CASE ListFolder
    <3>1. PICK some \in SUBSET Present(upstream) :
            /\ Listed("gdrive", some)
            /\ lapses' = IF some = Present(upstream) THEN lapses
                         ELSE lapses \cup {"page"}
      BY <2>3 DEF ListFolder
    <3>2. some \in SUBSET Paths /\ lapses' \in SUBSET Lapses
      BY <3>1 DEF Present, ConnectorTypeOK, Lapses
    <3> QED
      BY <1>2, <3>1, <3>2
  <2> QED
    BY <1>3, <2>1, <2>2, <2>3
<1>4. ASSUME NEW d \in Paths, NEW content \in Versions \cup {Absent},
             Yield(d, content), lapses' \in SUBSET Lapses
      PROVE  ConnectorTypeOK'
  <2>1. docs' \in Commits /\ toRead' \in SUBSET Paths
    BY <1>4 DEF Yield, ConnectorTypeOK, Commits
  <2> QED
    BY <1>1, <1>4, <2>1 DEF Yield, ConnectorTypeOK
<1>7. ASSUME NEW d \in Paths
      PROVE  Holds(d) \in Versions \cup {Absent}
  BY DEF Holds, ConnectorTypeOK, Commits
<1>8. ASSUME NEW d \in Paths, ReadFile(d)
      PROVE  ConnectorTypeOK'
  <2>1. lapses' \in SUBSET Lapses
    BY <1>8 DEF ReadFile, CameUpon, ConnectorTypeOK, Lapses
  <2>2. PICK content \in Versions \cup {Absent} : Yield(d, content)
    BY <1>7, <1>8 DEF ReadFile
  <2> QED
    BY <1>4, <2>1, <2>2
<1>9. ASSUME NEW d \in Paths, ReadRemote(d)
      PROVE  ConnectorTypeOK'
  BY <1>4, <1>7, <1>9 DEF ReadRemote, ConnectorTypeOK
<1>5. CASE ReadFails
  BY <1>1, <1>5 DEF ReadFails, ConnectorTypeOK
<1>6. CASE Pulled
  BY <1>1, <1>6 DEF Pulled, ConnectorTypeOK
<1> QED
  BY <1>3, <1>5, <1>6, <1>8, <1>9 DEF Reading, Download, GetObject

LEMMA FaultsType == ConnectorTypeOK /\ Faults => ConnectorTypeOK'
<1> SUFFICES ASSUME ConnectorTypeOK, Faults
             PROVE  ConnectorTypeOK'
  OBVIOUS
<1>1. ASSUME NEW a \in Pullers, Fault(a, "idle")
      PROVE  /\ setup' \in Setups /\ upstream' \in Commits
             /\ wanted' \in SUBSET Paths /\ edits' \in 0..setup'.edits
             /\ faults' \in 0..setup'.faults
             /\ step' \in [Pullers -> Steps]
             /\ remote' = remote /\ toRead' = toRead /\ docs' = docs
             /\ during' = during /\ fetched' = fetched
             /\ missing' = missing
  BY <1>1, GotoType DEF Fault, ConnectorTypeOK, pullVars, mergeVars, Steps
<1>2. clone \in Clones
  BY DEF ConnectorTypeOK, Clones
<1>3. ASSUME NEW a \in Pullers, Fault(a, "idle"),
             clone' \in Clones, lapses' \in SUBSET Lapses
      PROVE  ConnectorTypeOK'
  BY <1>1, <1>3 DEF ConnectorTypeOK, Clones
<1>4. CASE ApiFails
  BY <1>2, <1>3, <1>4 DEF ApiFails, Pullers, ConnectorTypeOK
<1>5. ASSUME NEW a \in Pullers, NetworkFails(a)
      PROVE  ConnectorTypeOK'
  BY <1>2, <1>3, <1>5 DEF NetworkFails, Lapses, ConnectorTypeOK
<1>6. ASSUME NEW a \in Pullers, Kill(a)
      PROVE  ConnectorTypeOK'
  <2>1. CASE UNCHANGED <<clone, lapses>>
    BY <1>2, <1>3, <1>6, <2>1 DEF Kill, ConnectorTypeOK
  <2>2. CASE /\ clone' = [NoClone EXCEPT !.git = TRUE, !.broken = TRUE]
             /\ lapses' = lapses \cup {"junk"}
    <3>1. clone' \in Clones
      BY <2>2, NoCloneType DEF Clones
    <3> QED
      BY <1>3, <1>6, <2>2, <3>1 DEF Kill, ConnectorTypeOK, Lapses
  <2>3. CASE lapses' = lapses \cup {"unfinished"} /\ UNCHANGED clone
    BY <1>2, <1>3, <1>6, <2>3 DEF Kill, ConnectorTypeOK, Lapses
  <2>4. ASSUME NEW some \in SUBSET clone.sparse,
               clone' = [clone EXCEPT !.tree = Only(clone.head, some),
                                      !.lock = TRUE],
               lapses' = lapses \cup {"unfinished", "locked"}
        PROVE  ConnectorTypeOK'
    <3>1. Only(clone.head, some) \in Commits
      BY <1>2, OnlyType DEF Clones
    <3>2. clone' \in Clones
      BY <1>2, <2>4, <3>1 DEF Clones
    <3> QED
      BY <1>3, <1>6, <2>4, <3>2 DEF Kill, ConnectorTypeOK, Lapses
  <2>5. ASSUME NEW some,
               clone' = [clone EXCEPT !.lock = TRUE,
                                      !.tree = With(upstream, some, @)],
               lapses' = lapses \cup {"locked"}
        PROVE  ConnectorTypeOK'
    <3>1. With(upstream, some, clone.tree) \in Commits
      BY <1>2, WithType DEF Clones, ConnectorTypeOK
    <3>2. clone' \in Clones
      BY <1>2, <2>5, <3>1 DEF Clones
    <3> QED
      BY <1>3, <1>6, <2>5, <3>2 DEF Kill, ConnectorTypeOK, Lapses
  <2>6. CASE lapses' = lapses \cup {"locked"} /\ UNCHANGED clone
    BY <1>2, <1>3, <1>6, <2>6 DEF Kill, ConnectorTypeOK, Lapses
  <2> QED
    BY <1>6, <2>1, <2>2, <2>3, <2>4, <2>5, <2>6 DEF Kill
<1> QED
  BY <1>4, <1>5, <1>6 DEF Faults

-----------------------------------------------------------------------------
(* Drafts are drafts, and findings are findings. *)
LEMMA DraftTypes ==
  /\ NoDraft \in Draft
  /\ \A d : Check(d) \in SUBSET Findings
BY DEF NoDraft, Draft, Check, Findings

LEMMA GateInitHolds == GateInit => GateTypeOK /\ GateInv
<1> SUFFICES ASSUME GateInit
             PROVE  GateTypeOK /\ GateInv
  OBVIOUS
<1>1. GateTypeOK
  <2>1. needsHuman \in BOOLEAN
    BY Zenon DEF GateInit
  <2>2. findings \in SUBSET Findings
    BY DEF GateInit
  <2> QED
    BY <2>1, <2>2, DraftTypes DEF GateInit, GateTypeOK
<1>2. Waits /\ Passed
  BY DraftTypes DEF GateInit, Waits, Passed
<1>3. OutputIsGated
  BY DEF GateInit, OutputIsGated
<1> QED
  BY <1>1, <1>2, <1>3 DEF GateInv

(* Every step of _apply and of the worker keeps the types: the loop asks
   until the attempts are used up.                                         *)
LEMMA GateTypeStep ==
  ASSUME GateTypeOK, Waits, GateStep
  PROVE  GateTypeOK'
<1>1. ASSUME NEW d \in Docs, Transform(d)
      PROVE  GateTypeOK'
  <2>1. needsHuman' \in BOOLEAN
    BY <1>1, Zenon DEF Transform
  <2>2. findings' \in SUBSET Findings
    BY <1>1 DEF Transform, Findings
  <2>3. attempt' \in 0..MaxRetries + 1 /\ attempt' <= MaxRetries
    <3>1. attempt' = 0
      BY <1>1 DEF Transform
    <3>2. 0 \in 0..MaxRetries + 1 /\ 0 <= MaxRetries
      OBVIOUS
    <3> QED
      BY <3>1, <3>2
  <2> QED
    BY <1>1, <2>1, <2>2, <2>3, DraftTypes DEF Transform, GateTypeOK
<1>2. ASSUME TryAgain, attempt' = attempt + 1, phase = "ask"
      PROVE  /\ needsHuman' \in BOOLEAN /\ phase' \in {"ask", "apply"}
             /\ attempt' \in 0..MaxRetries + 1
             /\ phase' = "ask" => attempt' <= MaxRetries
  <2>1. needsHuman' \in BOOLEAN
    BY <1>2, Zenon DEF TryAgain
  <2> QED
    BY <1>2, <2>1 DEF TryAgain, GateTypeOK
<1>3. CASE Unparseable
  BY <1>2, <1>3 DEF Unparseable, Called, Findings, GateTypeOK
<1>4. ASSUME NEW d \in Draft, Answer(d)
      PROVE  GateTypeOK'
  <2>1. draft' \in Draft /\ findings' \in SUBSET Findings
    BY <1>4, DraftTypes DEF Answer
  <2>2. CASE TryAgain
    BY <1>2, <1>4, <2>1, <2>2 DEF Answer, Called, GateTypeOK
  <2>3. CASE phase' = "apply" /\ UNCHANGED needsHuman
    BY <1>4, <2>1, <2>3 DEF Answer, Called, GateTypeOK
  <2> QED
    BY <1>4, <2>2, <2>3 DEF Answer
<1>5. CASE Decline
  <2>1. needsHuman' \in BOOLEAN
    BY <1>5, Zenon DEF Decline, Idle
  <2>2. findings' \in SUBSET Findings
    BY <1>5 DEF Decline, Idle
  <2>3. outcome' \in [Docs -> {"none", "waiting", "synced", "quarantined"}]
    BY <1>5 DEF Decline, GateTypeOK
  <2> QED
    BY <1>5, <2>1, <2>2, <2>3, DraftTypes DEF Decline, Idle, GateTypeOK
<1>6. CASE Raise
  BY <1>6 DEF Raise, GateTypeOK
<1>7. CASE Apply
  <2>1. [draft |-> draft, needsHuman |-> needsHuman \/ draft.flagged,
         findings |-> findings] \in Output
    <3>1. (needsHuman \/ draft.flagged) \in BOOLEAN
      BY Zenon DEF GateTypeOK, Draft
    <3> QED
      BY <3>1 DEF Output, GateTypeOK
  <2>2. /\ tree' \in [Docs -> Output \cup {Old}]
        /\ outcome' \in [Docs -> {"none", "waiting", "synced", "quarantined"}]
    BY <1>7, <2>1 DEF Apply, GateTypeOK
  <2>3. needsHuman' \in BOOLEAN
    BY <1>7, Zenon DEF Apply, Idle
  <2>4. findings' \in SUBSET Findings
    BY <1>7 DEF Apply, Idle
  <2> QED
    BY <1>7, <2>2, <2>3, <2>4, DraftTypes DEF Apply, Idle, GateTypeOK
<1> QED
  BY <1>1, <1>3, <1>4, <1>5, <1>6, <1>7 DEF GateStep

(* What the loop hands on without needs_human has passed the gate. *)
LEMMA PassedStep ==
  ASSUME GateTypeOK, Waits, Passed, GateStep
  PROVE  Waits' /\ Passed'
<1>1. ASSUME NEW d \in Docs, Transform(d)
      PROVE  Waits' /\ Passed'
  BY <1>1, DraftTypes DEF Transform, GateTypeOK, Waits, Passed
<1>2. CASE Unparseable
  BY <1>2 DEF Unparseable, Called, TryAgain, Waits, Passed
<1>3. ASSUME NEW d \in Draft, Answer(d)
      PROVE  Waits' /\ Passed'
  <2>1. Waits'
    BY <1>3 DEF Answer, Called, TryAgain, Waits
  <2>2. findings' = Check(draft')
    BY <1>3 DEF Answer
  <2>3. CASE TryAgain
    <3>1. \/ phase' = "ask" /\ ~needsHuman'
          \/ phase' = "apply" /\ needsHuman'
      BY <2>3, Zenon DEF TryAgain
    <3> QED
      BY <2>1, <2>2, <3>1 DEF Passed
  <2>4. CASE findings' = {} /\ phase' = "apply"
    <3>1. Check(draft') = {}
      BY <2>2, <2>4
    <3> QED
      BY <2>1, <2>2, <2>4, <3>1 DEF Passed
  <2> QED
    BY <1>3, <2>1, <2>3, <2>4 DEF Answer
<1>4. CASE Decline
  BY <1>4, DraftTypes DEF Decline, Idle, Waits, Passed
<1>5. CASE Raise
  BY <1>5 DEF Raise, Waits, Passed
<1>6. CASE Apply
  BY <1>6, DraftTypes DEF Apply, Idle, Waits, Passed
<1> QED
  BY <1>1, <1>2, <1>3, <1>4, <1>5, <1>6 DEF GateStep

(* And so nothing else gets into the tree. *)
LEMMA OutputStep ==
  ASSUME GateTypeOK, GateInv, GateStep
  PROVE  OutputIsGated'
<1>1. CASE UNCHANGED tree
  BY <1>1 DEF GateInv, OutputIsGated
<1>2. ASSUME Apply,
             tree' = [tree EXCEPT ![doing] =
                        [draft |-> draft,
                         needsHuman |-> needsHuman \/ draft.flagged,
                         findings |-> findings]]
      PROVE  OutputIsGated'
  <2> SUFFICES ASSUME NEW d \in Docs, tree'[d] # Old, ~tree'[d].needsHuman
               PROVE  Check(tree'[d].draft) = {} /\ tree'[d].findings = {}
    BY DEF OutputIsGated
  <2>1. CASE d = doing
    <3>1. tree'[d] = [draft |-> draft,
                      needsHuman |-> needsHuman \/ draft.flagged,
                      findings |-> findings]
      BY <1>2, <2>1 DEF GateTypeOK
    <3>2. /\ tree'[d].draft = draft /\ tree'[d].findings = findings
          /\ tree'[d].needsHuman = (needsHuman \/ draft.flagged)
      BY <3>1
    <3>3. phase = "apply"
      BY <1>2 DEF Apply
    <3> QED
      BY <3>2, <3>3, Zenon DEF GateInv, Passed
  <2>2. CASE d # doing
    <3>1. tree'[d] = tree[d]
      BY <1>2, <2>2 DEF GateTypeOK
    <3> QED
      BY <3>1 DEF GateInv, OutputIsGated
  <2> QED
    BY <2>1, <2>2
<1> QED
  BY <1>1, <1>2 DEF GateStep, Transform, Unparseable, Answer, Called, Decline,
                    Raise, Apply

-----------------------------------------------------------------------------
(* Every step of the connector and of the world around it. *)
ConnectorStep ==
  \/ \E a \in Pullers : StartPull(a) \/ Pulling(a)
  \/ Reading \/ Outside \/ Faults

LEMMA ConnectorType == ConnectorTypeOK /\ ConnectorStep => ConnectorTypeOK'
BY PullingType, ReadingType, OutsideType, FaultsType DEF ConnectorStep

(* It does not move a run that applies what it pulled. *)
LEMMA ApplyingStays ==
  ASSUME ConnectorTypeOK, ConnectorStep, step["sync"] = "apply"
  PROVE  step'["sync"] = "apply"
<1> USE DEF ConnectorTypeOK
<1>1. ASSUME NEW a \in Pullers, NEW from, NEW to, Fine(a, from, to),
             from # "apply"
      PROVE  step'["sync"] = "apply"
  BY <1>1 DEF Fine, Goto, Pullers
<1>2. ASSUME NEW a \in Pullers, NEW to, Fault(a, to), step[a] # "apply"
      PROVE  step'["sync"] = "apply"
  BY <1>2 DEF Fault, Goto, Pullers
<1>3. ASSUME NEW a \in Pullers, StartPull(a) \/ Pulling(a)
      PROVE  step'["sync"] = "apply"
  BY <1>1, <1>3 DEF StartPull, Pulling, Clone, CloneRefuses, SetSparse,
                    Checkout, LockRefuses, Pull, PullFails, Merging,
                    StartMerge, Unlinks, Writes, FinishMerge
<1>4. CASE Reading
  BY <1>1, <1>4
     DEF Reading, ListTree, ListBucket, ListFolder, ReadFails, Pulled,
                    ReadFile, ReadRemote, Download, GetObject, Listed, Yield,
                    Pullers
<1>5. CASE Outside
  BY <1>5 DEF Outside, Edit, Rewrite, Repoint, Replace, Reconfigure, Edits
<1>6. CASE Faults
  BY <1>2, <1>6 DEF Faults, ApiFails, NetworkFails, Kill, Pullers
<1> QED
  BY <1>3, <1>4, <1>5, <1>6 DEF ConnectorStep

(* A step of a run is the connector's, or the gate's, or one of _sync. *)
LEMMA RunSteps ==
  ASSUME [Next]_vars
  PROVE  \/ ConnectorStep /\ UNCHANGED <<gateVars, runVars>>
         \/ PassThrough \/ AskWorker \/ Work \/ AllDecided \/ RunDies \/ Finish
         \/ UNCHANGED <<connectorVars, gateVars, runVars>>
BY DEF Next, Run, Connect, ConnectorStep, Pullers, vars

(* A step of _sync outside the connector moves nothing of the connector's. *)
LEMMA ApplyingType ==
  ASSUME ConnectorTypeOK, NEW from, NEW to \in {"idle", "apply", "applied"},
         Applying(from, to)
  PROVE  /\ ConnectorTypeOK'
         /\ step["sync"] = from /\ step'["sync"] = to
         /\ UNCHANGED <<setup, upstream, wanted, clone, remote, fetched,
                        missing, toRead, docs, during, lapses>>
         /\ step' = [step EXCEPT !["sync"] = to]
BY GotoType
   DEF Applying, Fine, Goto, ConnectorTypeOK, cloneVars, mergeVars, pullVars,
       Pullers, Steps

(* Every step keeps the types, and what comes out of the gate. *)
LEMMA TypeStep == TypeOK /\ GateInv /\ [Next]_vars => TypeOK' /\ GateInv'
<1> SUFFICES ASSUME TypeOK, GateInv, [Next]_vars
             PROVE  TypeOK' /\ GateInv'
  OBVIOUS
<1>1. /\ ConnectorTypeOK /\ GateTypeOK
      /\ concepts \in Commits /\ entries \in Commits
  BY DEF TypeOK
<1>2. docs \in Commits
  BY <1>1 DEF ConnectorTypeOK
<1>3. ASSUME UNCHANGED gateVars
      PROVE  GateTypeOK' /\ GateInv'
  BY <1>1, <1>3
  DEF gateVars, workVars, GateTypeOK, GateInv, Waits, Passed, OutputIsGated
<1>4. ASSUME UNCHANGED <<tree, workVars, errors>>, phase = "idle",
             outcome' \in [Docs -> {"none", "waiting", "synced",
                                    "quarantined"}]
      PROVE  GateTypeOK' /\ GateInv'
  BY <1>1, <1>4
  DEF workVars, GateTypeOK, GateInv, Waits, Passed, OutputIsGated
<1>5. CASE ConnectorStep /\ UNCHANGED <<gateVars, runVars>>
  <2>1. ConnectorTypeOK' /\ GateTypeOK' /\ GateInv'
    BY <1>1, <1>3, <1>5, ConnectorType
  <2>2. phase' # "idle" => step'["sync"] = "apply"
    BY <1>1, <1>5, ApplyingStays DEF TypeOK, gateVars, workVars
  <2> QED
    BY <1>1, <1>5, <2>1, <2>2 DEF TypeOK, runVars
<1>6. CASE PassThrough
  <2>1. phase = "idle" /\ ConnectorTypeOK'
    BY <1>1, <1>6, ApplyingType DEF PassThrough, TypeOK
  <2>2. concepts' \in Commits /\ entries' \in Commits
    BY <1>1, <1>2, <1>6 DEF PassThrough, Commits
  <2>3. outcome' \in [Docs -> {"none", "waiting", "synced", "quarantined"}]
    BY <1>6 DEF PassThrough
  <2> QED
    BY <1>4, <1>6, <2>1, <2>2, <2>3 DEF PassThrough, TypeOK, workVars
<1>7. CASE AskWorker
  <2>1. phase = "idle" /\ ConnectorTypeOK'
    BY <1>1, <1>7, ApplyingType DEF AskWorker, TypeOK
  <2>2. outcome' \in [Docs -> {"none", "waiting", "synced", "quarantined"}]
    BY <1>7 DEF AskWorker
  <2> QED
    BY <1>1, <1>4, <1>7, <2>1, <2>2 DEF AskWorker, TypeOK, workVars, runVars
<1>8. CASE Work
  <2>1. GateTypeOK' /\ GateInv'
    BY <1>1, <1>8, GateTypeStep, PassedStep, OutputStep DEF Work, GateInv
  <2>2. ConnectorTypeOK' /\ step'["sync"] = "apply"
    BY <1>1, <1>8
    DEF Work, connectorVars, cloneVars, mergeVars, pullVars, ConnectorTypeOK
  <2>3. concepts' \in Commits /\ entries' \in Commits
    BY <1>1, <1>2, <1>8 DEF Work, Commits
  <2> QED
    BY <2>1, <2>2, <2>3 DEF TypeOK
<1>9. CASE AllDecided
  <2>1. phase = "idle" /\ ConnectorTypeOK'
    BY <1>1, <1>9, ApplyingType DEF AllDecided, GateInv, Waits
  <2> QED
    BY <1>1, <1>3, <1>9, <2>1
    DEF AllDecided, TypeOK, runVars, gateVars, workVars
<1>10. CASE RunDies
  <2>1. ConnectorTypeOK'
    BY <1>1, <1>10, ApplyingType DEF RunDies
  <2>2. GateTypeOK' /\ Waits' /\ Passed'
    <3>1. needsHuman' \in BOOLEAN /\ ~needsHuman'
      BY <1>10, Zenon DEF RunDies, Idle
    <3>2. findings' \in SUBSET Findings /\ attempt' \in 0..MaxRetries + 1
      BY <1>10 DEF RunDies, Idle
    <3> QED
      BY <1>1, <1>10, <3>1, <3>2, DraftTypes
      DEF RunDies, Idle, GateTypeOK, Waits, Passed
  <2>3. OutputIsGated'
    BY <1>10 DEF RunDies, GateInv, OutputIsGated
  <2> QED
    BY <1>1, <1>10, <2>1, <2>2, <2>3
       DEF RunDies, Idle, GateInv, TypeOK, runVars
<1>11. CASE Finish
  <2>1. phase = "idle" /\ ConnectorTypeOK'
    BY <1>1, <1>11, ApplyingType DEF Finish, TypeOK
  <2>2. concepts' \in Commits /\ entries' \in Commits
    BY <1>1, <1>2, <1>11 DEF Finish, Commits
  <2> QED
    BY <1>3, <1>11, <2>1, <2>2 DEF Finish, TypeOK, gateVars, workVars
<1>12. CASE UNCHANGED <<connectorVars, gateVars, runVars>>
  BY <1>1, <1>3, <1>12
  DEF TypeOK, connectorVars, cloneVars, mergeVars, pullVars, ConnectorTypeOK,
      gateVars, workVars, runVars
<1> QED
  BY <1>5, <1>6, <1>7, <1>8, <1>9, <1>10, <1>11, <1>12, RunSteps

LEMMA TypeInit == Init => TypeOK /\ GateInv
<1> SUFFICES ASSUME Init
             PROVE  TypeOK /\ GateInv
  OBVIOUS
<1>1. GateTypeOK /\ GateInv
  BY GateInitHolds DEF Init
<1>2. ConnectorTypeOK
  <2>1. clone \in Clones
    BY NoCloneType DEF Init, ConnectorInit
  <2>2. setup \in Setups /\ upstream \in Commits /\ edits \in 0..setup.edits
        /\ faults \in 0..setup.faults
    BY DEF Init, ConnectorInit
  <2>3. during \in [Paths -> SUBSET (Versions \cup {Absent})]
    BY <2>2 DEF Init, ConnectorInit, Commits
  <2> QED
    BY <2>1, <2>2, <2>3, EmptyType
    DEF Init, ConnectorInit, ConnectorTypeOK, Clones, Lapses, Steps
<1> QED
  BY <1>1, <1>2, EmptyType DEF Init, TypeOK, GateInit

(* The variables of a run always have their types, the worker is asked at
   most MaxRetries + 1 times for a document, and it is asked only while its
   source is applied (_apply_source, LlmTransformer).                      *)
THEOREM RunTypeCorrect == Spec => []TypeOK
BY TypeInit, TypeStep, PTL DEF Spec

(* Whatever the worker answers, however often it is asked, and whenever its
   client raises, nothing that has not passed the gate gets into the tree
   without needs_human.                                                    *)
THEOREM OutputGated == Spec => []OutputIsGated
<1>1. GateInv => OutputIsGated
  BY DEF GateInv
<1> QED
  BY TypeInit, TypeStep, <1>1, PTL DEF Spec

-----------------------------------------------------------------------------
(* PullInv, step by step.  A lapse is never forgotten, but for what an earlier
   run of sync came upon.                                                  *)
LEMMA LapsesLast ==
  ASSUME ConnectorStep
  PROVE  /\ Trusted' => Trusted
         /\ Alone' => Alone \/ StartPull("sync")
<1>1. ASSUME NEW a \in Pullers, StartPull(a)
      PROVE  \/ lapses' = lapses
             \/ lapses' = lapses \ {"beside"} /\ StartPull("sync")
  BY <1>1 DEF StartPull, Pullers
<1>2. ASSUME NEW a \in Pullers, Pulling(a)
      PROVE  lapses \subseteq lapses'
  <2>1. lapses \subseteq Beside
    BY DEF Beside
  <2> QED
    BY <1>2, <2>1
    DEF Pulling, Clone, CloneRefuses, SetSparse, Checkout, LockRefuses, Pull,
        PullFails, Merging, StartMerge, Unlinks, Writes, FinishMerge
<1>3. ASSUME Reading
      PROVE  lapses \subseteq lapses'
  <2>1. \A files : CameUpon(files) => lapses \subseteq lapses'
    BY DEF CameUpon
  <2> QED
    BY <1>3, <2>1
    DEF Reading, ListTree, ListBucket, ListFolder, ReadFails, Pulled, ReadFile,
        ReadRemote, Download, GetObject
<1>4. CASE Outside \/ Faults
  <2>1. lapses \subseteq lapses'
    BY <1>4
    DEF Outside, Edit, Rewrite, Repoint, Replace, Reconfigure, Faults,
        ApiFails, NetworkFails, Kill
  <2> QED
    BY <2>1 DEF Trusted, Alone
<1> QED
  BY <1>1, <1>2, <1>3, <1>4 DEF ConnectorStep, Trusted, Alone

(* The owner and the operator: the branch moves on, `paths` changes. *)
LEMMA OutsideKeeps ==
  ASSUME ConnectorTypeOK, PullInv, Outside
  PROVE  PullInv'
<1> USE DEF PullInv, TrustedInv, ConnectorTypeOK
<1>1. UNCHANGED <<setup, clone, step, toRead, docs, fetched, missing>>
  BY DEF Outside, Edit, Rewrite, Repoint, Replace, Reconfigure, Edits,
         mergeVars
<1>2. CloneInv' /\ NothingRead' /\ Filling' = Filling /\ Ready' = Ready
  BY <1>1 DEF CloneInv, NothingRead, Filling, Ready
<1>3. (Trusted' => TrustedInv) /\ (Alone' => Alone)
  <2>1. lapses \subseteq lapses'
    BY DEF Outside, Edit, Rewrite, Repoint, Replace, Reconfigure
  <2> QED
    BY <2>1 DEF Trusted, Alone, TrustedInv
<1>4. ASSUME NEW d \in Paths, NEW v \in Versions \cup {Absent}, Upstream(d, v),
             UNCHANGED wanted,
             clone.git /\ remote = "same" => remote' # "same",
             Trusted' => remote' # "moved",
             remote \in {"ahead", "rewritten"} => remote' # "same"
      PROVE  PullInv'
  <2>1. /\ \A e \in Paths : during[e] \subseteq during'[e]
        /\ DuringIsNow'
    BY <1>4 DEF Upstream, DuringIsNow, Commits
  <2>2. AllWanted'
    BY <1>1, <1>4 DEF AllWanted
  <2>3. ASSUME Trusted'
        PROVE  GitInv'
    <3>1. NeverMoved' /\ LockFails'
      BY <1>1, <1>3, <1>4, <2>3
      DEF GitInv, NeverMoved, LockFails, Outside, Edit, Rewrite,
          Repoint, Replace, Reconfigure
    <3>2. HeadIsBranch'
      BY <1>1, <1>3, <1>4, <2>3
      DEF GitInv, HeadIsBranch, Outside, Edit, Rewrite, Repoint,
          Replace, Reconfigure
    <3> QED
      BY <1>1, <1>2, <1>3, <1>4, <2>3, <3>1, <3>2
      DEF GitInv, SparseIsWanted, TreeIsHead
  <2>4. ASSUME Trusted'
        PROVE  FreshHead' /\ FreshTree' /\ ReadRightly' /\ MergeRightly'
    <3>1. FreshHead' /\ FreshTree' /\ MergeRightly'
      BY <1>1, <1>2, <1>3, <1>4, <2>1, <2>4
      DEF FreshHead, FreshTree, MergeRightly
    <3>2. ReadRightly'
      BY <1>1, <1>3, <1>4, <2>1, <2>4 DEF ReadRightly, Rightly
    <3> QED
      BY <3>1, <3>2
  <2> QED
    BY <1>2, <2>1, <2>2, <2>3, <2>4
<1>5. ASSUME NEW d \in Paths, NEW v \in Versions \cup {Absent}, Edit(d, v)
      PROVE  PullInv'
  BY <1>3, <1>4, <1>5 DEF Edit, TrustedInv, GitInv, NeverMoved
<1>6. ASSUME NEW d \in Paths, NEW v \in Versions \cup {Absent}, Rewrite(d, v)
      PROVE  PullInv'
  BY <1>3, <1>4, <1>6 DEF Rewrite, Replace, TrustedInv, GitInv, NeverMoved
<1>7. ASSUME NEW d \in Paths, NEW v \in Versions \cup {Absent}, Repoint(d, v)
      PROVE  PullInv'
  BY <1>3, <1>4, <1>7
  DEF Repoint, Replace, Trusted, Untrusted
<1>8. ASSUME NEW paths \in (SUBSET Paths) \ {{}}, Reconfigure(paths)
      PROVE  PullInv'
  <2>1. /\ step["sync"] = "idle" /\ setup.kind = "git"
        /\ UNCHANGED <<upstream, remote, during>>
    BY <1>8 DEF Reconfigure, Pullers
  <2>2. DuringIsNow' /\ AllWanted'
    BY <1>1, <2>1 DEF DuringIsNow, AllWanted
  <2>3. ASSUME Trusted'
        PROVE  GitInv'
    <3>1. SparseIsWanted'
      BY <1>1, <1>8, <2>3 DEF SparseIsWanted, Reconfigure, Trusted, Untrusted
    <3> QED
      BY <1>1, <1>2, <1>3, <2>1, <2>3, <3>1
      DEF GitInv, NeverMoved, HeadIsBranch, LockFails, TreeIsHead
  <2>4. FreshHead' /\ FreshTree' /\ ReadRightly'
    BY <1>1, <2>1 DEF FreshHead, FreshTree, ReadRightly
  <2>5. MergeRightly'
    BY <1>8 DEF Reconfigure, MergeRightly, Pullers, Edits
  <2> QED
    BY <1>2, <2>2, <2>3, <2>4, <2>5
<1> QED
  BY <1>5, <1>6, <1>7, <1>8 DEF Outside

(* The steps of a puller.  Those that leave the clone alone, and neither
   begin a pull nor end one.                                               *)
LEMMA IdleKeeps ==
  ASSUME ConnectorTypeOK, PullInv, Trusted' => Trusted, Alone' => Alone,
         NEW a \in Pullers, step' = [step EXCEPT ![a] = "idle"],
         Trusted' => a \notin Filling,
         UNCHANGED <<setup, upstream, wanted, clone, remote, fetched, missing,
                     during, docs>>,
         UNCHANGED toRead \/ a = "sync"
  PROVE  PullInv'
<1> USE DEF PullInv, TrustedInv, ConnectorTypeOK
<1>1. \A b \in Pullers : step'[b] = IF b = a THEN "idle" ELSE step[b]
  OBVIOUS
<1>2. Filling' = Filling \ {a}
  BY <1>1 DEF Filling
<1>3. CloneInv'
  BY <1>1, <1>2 DEF CloneInv, Pullers
<1>4. NothingRead' /\ DuringIsNow' /\ AllWanted'
  BY <1>1 DEF NothingRead, DuringIsNow, AllWanted, Pullers
<1>5. ASSUME Trusted'
      PROVE  TrustedInv'
  <2>1. Filling' = Filling /\ Ready' = Ready
    BY <1>2, <1>5 DEF Ready
  <2>2. \A b \in Pullers : step[b] = "sparse" => step'[b] = "sparse"
    BY <1>1, <1>5 DEF Filling
  <2>3. GitInv'
    BY <1>5, <2>1, <2>2
    DEF GitInv, NeverMoved, HeadIsBranch, LockFails, SparseIsWanted, TreeIsHead
  <2>4. FreshHead' /\ FreshTree' /\ MergeRightly'
    BY <1>1, <1>5, <2>1
    DEF FreshHead, FreshTree, MergeRightly, Pullers
  <2>5. ReadRightly'
    BY <1>1, <1>5 DEF ReadRightly, Rightly, Pullers
  <2> QED
    BY <2>3, <2>4, <2>5
<1> QED
  BY <1>3, <1>4, <1>5

LEMMA StartKeeps ==
  ASSUME ConnectorTypeOK, PullInv, Trusted' => Trusted,
         NEW a \in Pullers, StartPull(a)
  PROVE  PullInv'
<1> USE DEF PullInv, TrustedInv, ConnectorTypeOK, cloneVars, mergeVars
<1> DEFINE to == IF setup.kind # "git" THEN "list"
                 ELSE IF clone.git THEN "pull" ELSE "clone"
<1>1. /\ step[a] = "idle"
      /\ UNCHANGED <<setup, upstream, wanted, clone, remote, fetched, missing>>
      /\ \A b \in Pullers : step'[b] = IF b = a THEN to ELSE step[b]
      /\ setup.kind = "git" \/ a = "sync"
  BY DEF StartPull, Fine, Goto
<1>2. Filling' = Filling /\ Ready' = Ready
  BY <1>1 DEF Filling, Ready
<1>3. CloneInv'
  BY <1>1, <1>2 DEF CloneInv, Pullers
<1>4. NothingRead' /\ DuringIsNow' /\ AllWanted'
  BY <1>1 DEF StartPull, NothingRead, DuringIsNow, AllWanted, Pullers
<1>5. ASSUME Trusted'
      PROVE  TrustedInv'
  <2>1. GitInv'
    BY <1>1, <1>2, <1>5
    DEF GitInv, NeverMoved, HeadIsBranch, LockFails, SparseIsWanted, TreeIsHead
  <2>2. CASE a = "sync"
    BY <1>1, <1>2, <1>5, <2>1, <2>2
    DEF FreshHead, FreshTree, ReadRightly, MergeRightly, Pullers
  <2>3. CASE a # "sync"
    <3>1. /\ UNCHANGED <<during, docs, toRead, lapses>>
          /\ step'["sync"] = step["sync"] /\ step'["status"] # "merge"
      BY <1>1, <2>3 DEF StartPull, Pullers
    <3> QED
      BY <1>1, <1>2, <1>5, <2>1, <3>1
      DEF FreshHead, FreshTree, ReadRightly, Rightly, MergeRightly, Alone
  <2> QED
    BY <2>2, <2>3
<1> QED
  BY <1>3, <1>4, <1>5

(* The clone is made, once. *)
LEMMA CloneKeeps ==
  ASSUME ConnectorTypeOK, PullInv, Trusted' => Trusted, Alone' => Alone,
         NEW a \in Pullers, Clone(a)
  PROVE  PullInv'
<1> USE DEF PullInv, TrustedInv, ConnectorTypeOK, pullVars, mergeVars
<1>1. /\ ~clone.git /\ step[a] = "clone" /\ remote' = "same"
      /\ UNCHANGED <<setup, upstream, wanted, fetched, missing, toRead, docs,
                     during>>
      /\ \A b \in Pullers : step'[b] = IF b = a THEN "sparse" ELSE step[b]
  BY DEF Clone, Fine, Goto
<1>2. /\ clone'.git /\ ~clone'.broken /\ ~clone'.lock
      /\ clone'.head = upstream
  BY DEF Clone, NoClone
<1>3. Filling = {} /\ ~Ready
  BY <1>1 DEF CloneInv, Ready
<1>4. Filling' = {a}
  BY <1>1, <1>3 DEF Filling
<1>5. CloneInv'
  BY <1>1, <1>2, <1>4 DEF CloneInv, Pullers
<1>6. NothingRead' /\ DuringIsNow' /\ AllWanted'
  BY <1>1 DEF NothingRead, DuringIsNow, AllWanted, Pullers
<1>7. ASSUME Trusted'
      PROVE  TrustedInv'
  <2>1. GitInv'
    BY <1>1, <1>2, <1>4
    DEF GitInv, NeverMoved, HeadIsBranch, LockFails, SparseIsWanted,
        TreeIsHead, Ready
  <2>2. FreshHead'
    BY <1>1, <1>2 DEF FreshHead, DuringIsNow
  <2>3. FreshTree'
    BY <1>1, <1>3, <1>7 DEF FreshTree, Pullers
  <2>4. ReadRightly'
    BY <1>1, <1>7 DEF ReadRightly, Rightly, Pullers
  <2>5. MergeRightly'
    BY <1>1 DEF MergeRightly, CloneInv, Pullers
  <2> QED
    BY <2>1, <2>2, <2>3, <2>4, <2>5
<1> QED
  BY <1>5, <1>6, <1>7

(* It gets its paths, and its files. *)
LEMMA SetSparseKeeps ==
  ASSUME ConnectorTypeOK, PullInv, Trusted' => Trusted, Alone' => Alone,
         NEW a \in Pullers, SetSparse(a)
  PROVE  PullInv'
<1> USE DEF PullInv, TrustedInv, ConnectorTypeOK, pullVars, mergeVars
<1>1. /\ step[a] = "sparse"
      /\ UNCHANGED <<setup, upstream, wanted, remote, fetched, missing, toRead,
                     docs, during>>
      /\ \A b \in Pullers : step'[b] = IF b = a THEN "checkout" ELSE step[b]
      /\ ~clone.lock
  BY DEF SetSparse, Fine, Goto
<1>2. /\ clone'.git = clone.git /\ clone'.broken = clone.broken
      /\ clone'.lock = clone.lock /\ clone'.head = clone.head
      /\ clone'.sparse = wanted
  BY DEF SetSparse
<1>3. a \in Filling /\ Filling' = Filling /\ ~Ready
  BY <1>1 DEF Filling, Ready
<1>4. CloneInv'
  BY <1>1, <1>2, <1>3 DEF CloneInv, Pullers
<1>5. NothingRead' /\ DuringIsNow' /\ AllWanted'
  BY <1>1 DEF NothingRead, DuringIsNow, AllWanted, Pullers
<1>6. ASSUME Trusted'
      PROVE  TrustedInv'
  <2>1. GitInv'
    BY <1>1, <1>2, <1>3, <1>6
    DEF GitInv, NeverMoved, HeadIsBranch, LockFails, SparseIsWanted,
        TreeIsHead, Ready
  <2>2. FreshHead' /\ FreshTree' /\ ReadRightly'
    BY <1>1, <1>2, <1>3, <1>6
    DEF FreshHead, FreshTree, ReadRightly, Rightly, Pullers
  <2>3. MergeRightly'
    BY <1>1 DEF MergeRightly, CloneInv, Pullers
  <2> QED
    BY <2>1, <2>2, <2>3
<1> QED
  BY <1>4, <1>5, <1>6

LEMMA CheckoutKeeps ==
  ASSUME ConnectorTypeOK, PullInv, Trusted' => Trusted, Alone' => Alone,
         NEW a \in Pullers, Checkout(a)
  PROVE  PullInv'
<1> USE DEF PullInv, TrustedInv, ConnectorTypeOK, pullVars, mergeVars
<1>1. /\ step[a] = "checkout"
      /\ UNCHANGED <<setup, upstream, wanted, remote, fetched, missing, toRead,
                     docs, during>>
      /\ \A b \in Pullers : step'[b] = IF b = a THEN Listing(a) ELSE step[b]
      /\ ~clone.lock
  BY DEF Checkout, Fine, Goto
<1>2. /\ clone'.git = clone.git /\ clone'.broken = clone.broken
      /\ clone'.lock = clone.lock /\ clone'.head = clone.head
      /\ clone'.sparse = clone.sparse
      /\ \A d \in clone.sparse : clone'.tree[d] = clone.head[d]
  <2>1. clone' = [clone EXCEPT !.index = clone.head,
                               !.tree = Only(clone.head, clone.sparse)]
    BY DEF Checkout
  <2>2. clone.sparse \subseteq Paths
    OBVIOUS
  <2> QED
    BY <2>1, <2>2 DEF Only
<1>3. a \in Filling /\ clone.git /\ ~clone.broken
  BY <1>1 DEF Filling, CloneInv
<1>4. Filling' = {} /\ \A b \in Pullers : step[b] # "sparse"
  <2>1. \A b \in Pullers : b \in Filling => b = a
    BY <1>3 DEF CloneInv
  <2>2. Listing(a) \notin {"sparse", "checkout"}
    BY DEF Listing
  <2> QED
    BY <1>1, <2>1, <2>2 DEF Filling
<1>5. CloneInv'
  BY <1>1, <1>2, <1>3, <1>4 DEF CloneInv, Listing, Pullers
<1>6. NothingRead' /\ DuringIsNow' /\ AllWanted'
  BY <1>1 DEF NothingRead, DuringIsNow, AllWanted, Pullers, Listing
<1>7. ASSUME Trusted'
      PROVE  TrustedInv'
  <2>1. wanted \subseteq clone.sparse
    BY <1>3, <1>4, <1>7 DEF GitInv, SparseIsWanted
  <2>2. GitInv'
    BY <1>1, <1>2, <1>7, <2>1
    DEF GitInv, NeverMoved, HeadIsBranch, LockFails, SparseIsWanted, TreeIsHead
  <2>3. FreshHead'
    BY <1>1, <1>2, <1>7 DEF FreshHead, Listing
  <2>4. FreshTree'
    <3>1. Ready' /\ ~Ready
      BY <1>2, <1>3, <1>4 DEF Ready
    <3>2. CASE a = "sync"
      BY <1>1, <1>2, <1>7, <2>1, <3>1, <3>2 DEF FreshHead, FreshTree
    <3>3. CASE a # "sync"
      BY <1>1, <1>7, <3>1, <3>3 DEF FreshTree, Pullers
    <3> QED
      BY <3>2, <3>3
  <2>5. ReadRightly'
    BY <1>1, <1>7 DEF ReadRightly, Rightly, Pullers, Listing
  <2>6. MergeRightly'
    BY <1>1 DEF MergeRightly, CloneInv, Pullers, Listing
  <2> QED
    BY <2>2, <2>3, <2>4, <2>5, <2>6
<1> QED
  BY <1>5, <1>6, <1>7

(* A pull brings the working tree to the branch. *)
LEMMA PullKeeps ==
  ASSUME ConnectorTypeOK, PullInv, Trusted' => Trusted, Alone' => Alone,
         NEW a \in Pullers, Pull(a)
  PROVE  PullInv'
<1> USE DEF PullInv, TrustedInv, ConnectorTypeOK, pullVars, mergeVars
<1>1. /\ step[a] = "pull" /\ ~CannotPull /\ clone.git
      /\ UNCHANGED <<setup, upstream, wanted, fetched, missing, toRead, docs,
                     during>>
      /\ \A b \in Pullers : step'[b] = IF b = a THEN Listing(a) ELSE step[b]
  BY DEF Pull, Fine, Goto, CloneInv
<1>2. Filling' = Filling
  BY <1>1 DEF Filling, Listing
<1>3. /\ clone'.git /\ ~clone'.broken /\ ~clone.broken
      /\ clone'.lock = clone.lock
      /\ clone'.sparse = clone.sparse
  <2>1. clone' = Merged \/ clone' = clone
    BY DEF Pull
  <2> QED
    BY <1>1, <2>1, MergedType DEF CannotPull
<1>4. CloneInv'
  BY <1>1, <1>2, <1>3 DEF CloneInv, Listing, Pullers
<1>5. NothingRead' /\ DuringIsNow' /\ AllWanted'
  BY <1>1 DEF NothingRead, DuringIsNow, AllWanted, Pullers, Listing
<1>6. ASSUME Trusted'
      PROVE  TrustedInv'
  <2>1. Filling = {}
    BY <1>6 DEF Pull, Beside, Trusted, Untrusted, Filling
  <2>2. Ready /\ Ready'
    BY <1>1, <1>2, <1>3, <2>1 DEF Ready
  <2>3. ~clone.lock /\ remote \in {"same", "ahead"}
    BY <1>1, <1>6 DEF CannotPull, Mergeable, GitInv, NeverMoved, LockFails
  <2>4. wanted \subseteq clone.sparse
    BY <1>1, <1>3, <1>6, <2>1 DEF GitInv, SparseIsWanted, Filling
  <2>5. \A d \in clone.sparse : clone.tree[d] = clone.head[d]
    BY <1>6, <2>2, <2>3 DEF GitInv, TreeIsHead
  <2>6. clone.sparse \subseteq Paths
    OBVIOUS
  <2>7. /\ clone'.head = upstream /\ remote' = "same"
        /\ \A d \in clone.sparse : clone'.tree[d] = upstream[d]
    <3>1. CASE remote = "same"
      BY <1>1, <1>3, <1>6, <2>5, <3>1 DEF Pull, GitInv, HeadIsBranch
    <3>2. CASE remote = "ahead"
      <4>1. clone' = Merged /\ remote' = "same"
        BY <3>2 DEF Pull
      <4> QED
        BY <2>5, <2>6, <4>1, MergedType DEF Changed
    <3> QED
      BY <2>3, <3>1, <3>2
  <2>8. GitInv'
    BY <1>1, <1>3, <2>3, <2>4, <2>7
    DEF GitInv, NeverMoved, HeadIsBranch, LockFails, SparseIsWanted, TreeIsHead
  <2>9. FreshHead'
    BY <1>1, <2>7 DEF FreshHead, DuringIsNow
  <2>10. FreshTree'
    BY <1>1, <2>2, <2>4, <2>6, <2>7 DEF FreshTree, DuringIsNow
  <2>11. ReadRightly'
    BY <1>1, <1>6 DEF ReadRightly, Rightly, Pullers, Listing
  <2>12. MergeRightly'
    BY <1>1, <2>3 DEF MergeRightly, CloneInv, Pullers, Listing
  <2> QED
    BY <2>8, <2>9, <2>10, <2>11, <2>12
<1> QED
  BY <1>4, <1>5, <1>6

(* So does the pull of `status`, file by file. *)
LEMMA MergingKeeps ==
  ASSUME ConnectorTypeOK, PullInv, Trusted' => Trusted, Alone' => Alone,
         Merging
  PROVE  PullInv'
<1> USE DEF PullInv, TrustedInv, ConnectorTypeOK, pullVars, mergeVars
<1>1. /\ step["status"] \in {"pull", "merge"}
      /\ UNCHANGED <<setup, upstream, wanted, toRead, docs, during>>
      /\ step'["status"] \in {"merge", "idle"}
      /\ step'["sync"] = step["sync"]
  BY DEF Merging, StartMerge, Unlinks, Writes, FinishMerge, Fine, Goto, Pullers
<1>2. Filling' = Filling
  BY <1>1 DEF Filling, Pullers
<1>3. NothingRead' /\ DuringIsNow' /\ AllWanted'
  BY <1>1 DEF NothingRead, DuringIsNow, AllWanted
<1>4. ASSUME NEW files \in Commits, UNCHANGED <<remote, fetched>>,
             step["status"] = "merge", step'["status"] = "merge",
             clone' = [clone EXCEPT !.tree = files],
             \A d \in Paths : files[d] \in {clone.tree[d], fetched[d]}
      PROVE  PullInv'
  <2>1. /\ clone'.git = clone.git /\ clone'.broken = clone.broken
        /\ clone'.lock = clone.lock /\ clone'.head = clone.head
        /\ clone'.sparse = clone.sparse /\ clone'.tree = files
        /\ clone.sparse \subseteq Paths
        /\ clone.git /\ ~clone.broken /\ clone.lock
    BY <1>4 DEF CloneInv
  <2>2. CloneInv' /\ Ready' = Ready
    BY <1>1, <1>2, <1>4, <2>1 DEF CloneInv, Ready, Pullers
  <2>3. ASSUME Trusted'
        PROVE  TrustedInv'
    <3>1. GitInv'
      BY <1>1, <1>4, <2>1, <2>2, <2>3
      DEF GitInv, NeverMoved, HeadIsBranch, LockFails, SparseIsWanted,
          TreeIsHead, Pullers
    <3>2. FreshHead' /\ ReadRightly'
      BY <1>1, <2>1, <2>3 DEF FreshHead, ReadRightly, Rightly
    <3>3. MergeRightly'
      BY <1>1, <1>4, <2>1, <2>2, <2>3 DEF MergeRightly
    <3>4. FreshTree'
      BY <1>1, <1>4, <2>1, <2>2, <2>3 DEF FreshTree, MergeRightly
    <3> QED
      BY <3>1, <3>2, <3>3, <3>4
  <2> QED
    BY <1>3, <2>2, <2>3
<1>5. CASE StartMerge
  <2>1. /\ clone'.git = clone.git /\ clone'.broken = clone.broken
        /\ clone'.lock /\ clone'.head = clone.head
        /\ clone'.sparse = clone.sparse /\ clone'.tree = clone.tree
        /\ fetched' = upstream /\ UNCHANGED <<remote, missing>>
        /\ step["status"] = "pull" /\ step'["status"] = "merge"
        /\ clone.git /\ ~clone.broken /\ ~clone.lock /\ remote = "ahead"
    BY <1>5
    DEF StartMerge, Fine, Goto, CannotPull, Mergeable, CloneInv, Pullers
  <2>2. CloneInv' /\ Ready' = Ready
    BY <1>1, <1>2, <2>1 DEF CloneInv, Ready, Pullers
  <2>3. ASSUME Trusted'
        PROVE  TrustedInv'
    <3>1. Filling = {}
      BY <1>5, <2>3 DEF StartMerge, Beside, Trusted, Untrusted, Filling
    <3>2. Ready /\ \A d \in clone.sparse : clone.tree[d] = clone.head[d]
      BY <2>1, <2>3, <3>1 DEF Ready, GitInv, TreeIsHead
    <3>3. GitInv'
      BY <1>1, <2>1, <2>2, <2>3
      DEF GitInv, NeverMoved, HeadIsBranch, LockFails, SparseIsWanted,
          TreeIsHead, Pullers
    <3>4. FreshHead' /\ FreshTree' /\ ReadRightly'
      BY <1>1, <2>1, <2>2, <2>3 DEF FreshHead, FreshTree, ReadRightly, Rightly
    <3>5. MergeRightly'
      BY <1>1, <2>1, <2>2, <3>2 DEF MergeRightly, DuringIsNow
    <3> QED
      BY <3>3, <3>4, <3>5
  <2> QED
    BY <1>3, <2>2, <2>3
<1>6. ASSUME NEW d \in Paths, Unlinks(d)
      PROVE  PullInv'
  <2>1. clone' = [clone EXCEPT !.tree = clone.tree] /\ clone.tree \in Commits
    BY <1>6 DEF Unlinks
  <2> QED
    BY <1>4, <1>6, <2>1 DEF Unlinks, Fine, Goto, Pullers
<1>7. ASSUME NEW d \in Paths, Writes(d)
      PROVE  PullInv'
  <2> DEFINE files == [clone.tree EXCEPT ![d] = fetched[d]]
  <2>1. files \in Commits /\ clone' = [clone EXCEPT !.tree = files]
    BY <1>7 DEF Writes, Commits
  <2>2. \A e \in Paths : files[e] \in {clone.tree[e], fetched[e]}
    OBVIOUS
  <2> HIDE DEF files
  <2> QED
    BY <1>4, <1>7, <2>1, <2>2 DEF Writes, Fine, Goto, Pullers
<1>8. CASE FinishMerge
  <2>1. /\ clone'.git = clone.git /\ clone'.broken = clone.broken
        /\ ~clone'.lock /\ clone'.head = fetched
        /\ clone'.sparse = clone.sparse /\ clone'.tree = clone.tree
        /\ missing' = {} /\ step["status"] = "merge"
        /\ step'["status"] = "idle"
        /\ remote' = IF remote = "ahead" /\ upstream = fetched THEN "same"
                     ELSE remote
        /\ clone.lock /\ clone.sparse \subseteq Paths
    BY <1>8 DEF FinishMerge, Fine, Goto, CloneInv, Pullers
  <2>2. CloneInv' /\ Ready' = Ready
    BY <1>1, <1>2, <2>1 DEF CloneInv, Ready, Pullers
  <2>3. ASSUME Trusted'
        PROVE  TrustedInv'
    <3>1. Ready /\ \A d \in clone.sparse : clone.tree[d] = fetched[d]
      BY <1>8, <2>1, <2>3 DEF FinishMerge, ToReplace, Changed, MergeRightly
    <3>2. GitInv'
      BY <1>1, <2>1, <2>2, <2>3, <3>1
      DEF GitInv, NeverMoved, HeadIsBranch, LockFails, SparseIsWanted,
          TreeIsHead, Pullers
    <3>3. FreshHead' /\ FreshTree' /\ ReadRightly' /\ MergeRightly'
      BY <1>1, <2>1, <2>2, <2>3, <3>1
      DEF FreshHead, FreshTree, ReadRightly, Rightly, MergeRightly, Ready,
          Filling, Pullers
    <3> QED
      BY <3>2, <3>3
  <2> QED
    BY <1>3, <2>2, <2>3
<1> QED
  BY <1>5, <1>6, <1>7, <1>8 DEF Merging

LEMMA PullingKeeps ==
  ASSUME ConnectorTypeOK, PullInv, NEW a \in Pullers,
         StartPull(a) \/ Pulling(a)
  PROVE  PullInv'
<1>1. Trusted' => Trusted
  BY LapsesLast DEF ConnectorStep
<1>2. CASE StartPull(a)
  BY <1>1, <1>2, StartKeeps
<1>3. ASSUME Pulling(a), ~StartPull("sync")
      PROVE  PullInv'
  <2>1. Alone' => Alone
    BY <1>3, LapsesLast DEF ConnectorStep
  <2>2. CASE CloneRefuses(a) \/ PullFails(a)
    <3>1. step[a] \in {"clone", "pull"} /\ a \notin Filling
      BY <2>2 DEF CloneRefuses, PullFails, Fine, Filling
    <3> QED
      BY <1>1, <2>1, <2>2, <3>1, IdleKeeps
      DEF CloneRefuses, PullFails, Fine, Goto, cloneVars, mergeVars, pullVars
  <2>3. CASE LockRefuses(a)
    <3>1. Trusted' => FALSE
      BY <2>3 DEF LockRefuses, Trusted, Untrusted
    <3> QED
      BY <1>1, <2>1, <2>3, <3>1, IdleKeeps
      DEF LockRefuses, Fine, Goto, cloneVars, mergeVars, pullVars
  <2> QED
    BY <1>1, <1>3, <2>1, <2>2, <2>3, CloneKeeps, SetSparseKeeps, CheckoutKeeps,
       PullKeeps, MergingKeeps
    DEF Pulling
<1> QED
  BY <1>2, <1>3, StartKeeps, <1>1, Zenon DEF Pullers

(* The network and kills: a clone that cannot be trusted is a lapse, or one
   that no pull mends.                                                     *)
LEMMA FaultsKeep ==
  ASSUME ConnectorTypeOK, PullInv, Faults
  PROVE  PullInv'
<1>1. (Trusted' => Trusted) /\ (Alone' => Alone)
  <2>1. lapses \subseteq lapses'
    BY DEF Faults, ApiFails, NetworkFails, Kill
  <2> QED
    BY <2>1 DEF Trusted, Alone
<1>2. ASSUME NEW a \in Pullers, Fault(a, "idle"), UNCHANGED clone,
             a \in Filling => "unfinished" \in lapses'
      PROVE  PullInv'
  BY <1>1, <1>2, IdleKeeps
  DEF Fault, Goto, pullVars, mergeVars, Trusted, Untrusted
<1>3. CASE ApiFails
  BY <1>2, <1>3 DEF ApiFails, Filling, Pullers
<1>4. ASSUME NEW a \in Pullers, NetworkFails(a)
      PROVE  PullInv'
  BY <1>2, <1>4 DEF NetworkFails, Filling
<1>5. ASSUME NEW a \in Pullers, Kill(a)
      PROVE  PullInv'
  <2> USE DEF PullInv, TrustedInv, ConnectorTypeOK
  <2>1. /\ Fault(a, "idle")
        /\ UNCHANGED <<setup, upstream, wanted, remote, fetched, missing,
                       toRead, docs, during>>
        /\ \A b \in Pullers : step'[b] = IF b = a THEN "idle" ELSE step[b]
    BY <1>5 DEF Kill, Fault, Goto, pullVars, mergeVars
  <2>2. Filling' = Filling \ {a}
    BY <2>1 DEF Filling
  <2>3. NothingRead' /\ DuringIsNow' /\ AllWanted'
    BY <2>1 DEF NothingRead, DuringIsNow, AllWanted, Pullers
  <2>4. CASE step[a] \notin {"sparse", "checkout"} /\ UNCHANGED clone
    BY <1>2, <2>1, <2>4 DEF Filling
  <2>5. CASE step[a] \in {"sparse", "checkout"}
             /\ lapses' = lapses \cup {"unfinished"} /\ UNCHANGED clone
    BY <1>2, <2>1, <2>5
  <2>6. CASE /\ ~clone.git
             /\ clone' = [NoClone EXCEPT !.git = TRUE, !.broken = TRUE]
    <3>1. clone'.git /\ clone'.broken /\ ~clone'.lock
      BY <2>6 DEF NoClone
    <3>2. Filling = {} /\ ~Ready
      BY <2>6 DEF CloneInv, Ready
    <3>3. CloneInv' /\ ~Ready'
      BY <2>1, <2>2, <2>6, <3>1, <3>2 DEF CloneInv, Ready, Pullers
    <3>4. ASSUME Trusted'
          PROVE  GitInv'
      BY <1>1, <2>1, <3>1, <3>3, <3>4
      DEF GitInv, NeverMoved, HeadIsBranch, LockFails, SparseIsWanted,
          TreeIsHead
    <3>5. ASSUME Trusted'
          PROVE  FreshHead'
      BY <1>1, <2>1, <2>2, <3>2, <3>5
      DEF FreshHead, FreshTree, Filling, Pullers
    <3>6. ASSUME Trusted'
          PROVE  FreshTree' /\ ReadRightly' /\ MergeRightly'
      BY <1>1, <2>1, <2>6, <3>2, <3>6
      DEF FreshTree, ReadRightly, Rightly, MergeRightly, CloneInv, Pullers
    <3> QED
      BY <2>3, <3>3, <3>4, <3>5, <3>6
  <2>7. ASSUME NEW some \in SUBSET clone.sparse, step[a] = "checkout",
               clone' = [clone EXCEPT !.tree = Only(clone.head, some),
                                      !.lock = TRUE],
               lapses' = lapses \cup {"unfinished", "locked"}
        PROVE  PullInv'
    <3>1. ~Trusted'
      BY <2>7 DEF Trusted, Untrusted
    <3>2. /\ clone'.git = clone.git /\ clone'.broken = clone.broken
          /\ clone'.lock
      BY <2>7
    <3>3. CloneInv'
      BY <2>1, <2>2, <3>2 DEF CloneInv, Pullers
    <3> QED
      BY <2>3, <3>1, <3>3
  <2>8. ASSUME NEW some, a = "sync", step[a] = "pull", remote = "ahead",
               ~clone.lock,
               clone' = [clone EXCEPT !.lock = TRUE,
                                      !.tree = With(upstream, some, @)]
        PROVE  PullInv'
    <3>1. /\ clone'.git = clone.git /\ clone'.broken = clone.broken
          /\ clone'.head = clone.head /\ clone'.sparse = clone.sparse
          /\ clone'.lock
          /\ \A d \in Paths : clone'.tree[d] \in {upstream[d], clone.tree[d]}
      <4> DEFINE files == With(upstream, some, clone.tree)
      <4>1. clone' = [clone EXCEPT !.lock = TRUE, !.tree = files]
        BY <2>8
      <4>2. \A d \in Paths : files[d] \in {upstream[d], clone.tree[d]}
        BY WithType
      <4> HIDE DEF files
      <4> QED
        BY <4>1, <4>2
    <3>2. Filling' = Filling /\ Ready' = Ready
      BY <2>2, <2>8, <3>1 DEF Filling, Ready
    <3>3. CloneInv'
      BY <2>1, <3>1, <3>2 DEF CloneInv, Pullers
    <3>4. ASSUME Trusted'
          PROVE  GitInv'
      BY <1>1, <2>1, <2>8, <3>1, <3>4
      DEF GitInv, NeverMoved, HeadIsBranch, LockFails, SparseIsWanted,
          TreeIsHead
    <3>5. ASSUME Trusted'
          PROVE  FreshHead' /\ ReadRightly'
      BY <1>1, <2>1, <3>1, <3>5
      DEF FreshHead, ReadRightly, Rightly, Pullers
    <3>6. ASSUME Trusted'
          PROVE  FreshTree'
      BY <1>1, <2>1, <3>1, <3>2, <3>6 DEF FreshTree, DuringIsNow, Pullers
    <3>7. MergeRightly'
      BY <2>1, <2>8 DEF MergeRightly, CloneInv, Pullers
    <3> QED
      BY <2>3, <3>3, <3>4, <3>5, <3>6, <3>7
  <2> QED
    BY <1>5, <2>4, <2>5, <2>6, <2>7, <2>8 DEF Kill, Mergeable
<1> QED
  BY <1>3, <1>4, <1>5 DEF Faults

(* What is listed and read is what was there while sync ran. *)
LEMMA ReadingKeeps ==
  ASSUME ConnectorTypeOK, PullInv, Reading
  PROVE  PullInv'
<1> USE DEF PullInv, TrustedInv, ConnectorTypeOK, cloneVars, mergeVars,
            pullVars
<1>1. (Trusted' => Trusted) /\ (Alone' => Alone)
  <2>1. \A files : CameUpon(files) => lapses \subseteq lapses'
    BY DEF CameUpon
  <2>2. lapses \subseteq lapses'
    BY <2>1
    DEF Reading, ListTree, ListBucket, ListFolder, ReadFails, Pulled, ReadFile,
        ReadRemote, Download, GetObject
  <2> QED
    BY <2>2 DEF Trusted, Alone
<1>2. CASE ReadFails
  BY <1>1, <1>2, IdleKeeps DEF ReadFails, Fine, Goto, Filling, Pullers
<1>3. ASSUME NEW from \in {"list", "read"}, NEW to \in {"read", "pulled"},
             Fine("sync", from, to),
             UNCHANGED <<clone, remote, fetched, missing, during>>,
             from = "list" \/ to = "pulled" \/ from = to,
             Trusted' => ReadRightly'
      PROVE  PullInv'
  <2>1. /\ UNCHANGED <<setup, upstream, wanted>> /\ step["sync"] = from
        /\ \A b \in Pullers : step'[b] = IF b = "sync" THEN to ELSE step[b]
    BY <1>3 DEF Fine, Goto, Pullers
  <2>2. Filling' = Filling /\ Ready' = Ready
    BY <1>3, <2>1 DEF Filling, Ready
  <2>3. CloneInv'
    BY <1>3, <2>1, <2>2 DEF CloneInv, Pullers
  <2>4. NothingRead' /\ DuringIsNow' /\ AllWanted'
    BY <1>3, <2>1 DEF NothingRead, DuringIsNow, AllWanted, Pullers
  <2>5. ASSUME Trusted'
        PROVE  GitInv' /\ FreshHead' /\ FreshTree' /\ MergeRightly'
    <3>1. GitInv'
      BY <1>1, <1>3, <2>1, <2>2, <2>5
      DEF GitInv, NeverMoved, HeadIsBranch, LockFails, SparseIsWanted,
          TreeIsHead
    <3>2. FreshHead' /\ FreshTree' /\ MergeRightly'
      BY <1>1, <1>3, <2>1, <2>2, <2>5
      DEF FreshHead, FreshTree, MergeRightly, Pullers
    <3> QED
      BY <3>1, <3>2
  <2> QED
    BY <1>3, <2>3, <2>4, <2>5
<1>4. ASSUME NEW kind, NEW there \in SUBSET wanted, Listed(kind, there),
             Trusted' /\ Alone' =>
               \A d \in wanted \ there : Absent \in during[d]
      PROVE  PullInv'
  <2>1. docs = Empty /\ UNCHANGED <<wanted, docs, during>> /\ toRead' = there
        /\ step'["sync"] = "read"
    BY <1>4 DEF Listed, Fine, Goto, NothingRead, Pullers
  <2>2. ASSUME Trusted'
        PROVE  ReadRightly'
    BY <1>4, <2>1, <2>2 DEF ReadRightly, Rightly, Empty
  <2> QED
    BY <1>3, <1>4, <2>2 DEF Listed
<1>5. CASE ListTree
  <2>1. PICK half \in SUBSET missing :
          /\ Listed("git", wanted \cap ((Present(clone.tree) \ missing)
                                         \cup half))
          /\ CameUpon(wanted \cap missing)
    BY <1>5 DEF ListTree
  <2> DEFINE there == wanted \cap ((Present(clone.tree) \ missing) \cup half)
  <2>2. ASSUME Trusted', Alone', NEW d \in wanted \ there
        PROVE  Absent \in during[d]
    <3>1. wanted \cap missing = {}
      BY <2>1, <2>2 DEF CameUpon, Alone
    <3>2. clone.tree[d] = Absent
      BY <2>2, <3>1 DEF Present
    <3> QED
      BY <1>1, <2>1, <2>2, <3>2 DEF FreshTree, Listed, Fine
  <2> QED
    BY <1>4, <2>1, <2>2
<1>6. ASSUME NEW kind \in {"s3", "gdrive"}, Listed(kind, Present(upstream))
      PROVE  PullInv'
  <2>1. wanted = Paths /\ Present(upstream) \in SUBSET wanted
    BY <1>6 DEF Listed, AllWanted, Present
  <2>2. \A d \in wanted \ Present(upstream) : Absent \in during[d]
    BY <2>1 DEF Present, DuringIsNow
  <2> QED
    BY <1>4, <1>6, <2>1, <2>2
<1>7. CASE ListFolder
  <2>1. PICK some \in SUBSET Present(upstream) :
          /\ Listed("gdrive", some)
          /\ lapses' = IF some = Present(upstream) THEN lapses
                       ELSE lapses \cup {"page"}
    BY <1>7 DEF ListFolder
  <2>2. CASE some = Present(upstream)
    BY <1>6, <2>1, <2>2
  <2>3. CASE some # Present(upstream)
    <3>1. ~Trusted'
      BY <2>1, <2>3 DEF Trusted, Untrusted
    <3> QED
      BY <1>3, <2>1, <3>1 DEF Listed
  <2> QED
    BY <2>2, <2>3
<1>8. ASSUME NEW d \in Paths, NEW content \in Versions \cup {Absent},
             Yield(d, content),
             Trusted' /\ Alone' =>
               \/ content = Holds(d)
               \/ setup.kind = "git" /\ content = clone.head[d]
      PROVE  PullInv'
  <2>1. /\ step["sync"] = "read" /\ step'["sync"] = "read" /\ d \in toRead
        /\ toRead' = toRead \ {d} /\ docs' = [docs EXCEPT ![d] = content]
        /\ UNCHANGED <<wanted, during, clone>>
    BY <1>8 DEF Yield, Fine, Goto, Pullers
  <2>2. ASSUME Trusted', Alone'
        PROVE  ReadRightly'
    <3>1. toRead \subseteq wanted /\ \A e \in Paths \ toRead : Rightly(e)
      BY <1>1, <2>1, <2>2 DEF ReadRightly
    <3>2. content \in during[d]
      BY <1>1, <1>8, <2>1, <2>2, <3>1
      DEF Holds, FreshHead, FreshTree, DuringIsNow
    <3>3. docs \in [Paths -> Versions \cup {Absent}]
      BY DEF Commits
    <3> QED
      BY <2>1, <3>1, <3>2, <3>3 DEF ReadRightly, Rightly
  <2> QED
    BY <1>3, <1>8, <2>2 DEF Yield, ReadRightly
<1>10. ASSUME NEW d \in Paths, ReadFile(d)
       PROVE  PullInv'
  <2>1. CASE d \notin missing
    <3>1. CASE Yield(d, Holds(d))
      BY <1>8, <3>1 DEF Holds, Commits
    <3>2. CASE setup.kind = "git" /\ clone.head[d] = Absent /\ Yield(d, Absent)
      BY <1>8, <3>2
    <3> QED
      BY <1>10, <2>1, <3>1, <3>2 DEF ReadFile
  <2>2. CASE d \in missing
    <3>1. ~Alone'
      BY <1>10, <2>2 DEF ReadFile, CameUpon, Alone
    <3> QED
      BY <1>8, <1>10, <2>2, <3>1 DEF ReadFile
  <2> QED
    BY <2>1, <2>2
<1>11. ASSUME NEW d \in Paths, ReadRemote(d)
       PROVE  PullInv'
  BY <1>8, <1>11 DEF ReadRemote, Holds, Commits
<1>9. CASE Pulled
  <2>1. ASSUME Trusted'
        PROVE  ReadRightly'
    BY <1>1, <1>9, <2>1
    DEF Pulled, Fine, Goto, ReadRightly, Rightly, Pullers
  <2> QED
    BY <1>3, <1>9, <2>1 DEF Pulled
<1> QED
  BY <1>2, <1>5, <1>6, <1>7, <1>9, <1>10, <1>11
  DEF Reading, ListBucket, Download, GetObject

(* What a run does with what it pulled is no matter to the pull. *)
LEMMA ApplyingKeeps ==
  ASSUME ConnectorTypeOK, PullInv, NEW from \in {"pulled", "apply", "applied"},
         NEW to \in {"idle", "apply", "applied"}, Applying(from, to)
  PROVE  PullInv'
<1> USE DEF PullInv, TrustedInv, ConnectorTypeOK
<1>1. /\ step["sync"] = from
      /\ UNCHANGED <<setup, upstream, wanted, clone, remote, fetched, missing,
                     toRead, docs, during, lapses>>
      /\ \A b \in Pullers : step'[b] = IF b = "sync" THEN to ELSE step[b]
  BY ApplyingType DEF Pullers
<1>2. Filling' = Filling /\ Ready' = Ready /\ Trusted' = Trusted
  BY <1>1 DEF Filling, Ready, Trusted
<1>3. CloneInv'
  BY <1>1, <1>2 DEF CloneInv, Pullers
<1>4. NothingRead' /\ DuringIsNow' /\ AllWanted'
  BY <1>1 DEF NothingRead, DuringIsNow, AllWanted, Pullers
<1>5. ASSUME Trusted'
      PROVE  TrustedInv'
  <2>1. GitInv'
    BY <1>1, <1>2, <1>5
    DEF GitInv, NeverMoved, HeadIsBranch, LockFails, SparseIsWanted, TreeIsHead
  <2>2. FreshHead' /\ FreshTree' /\ ReadRightly'
    BY <1>1 DEF FreshHead, FreshTree, ReadRightly, Pullers
  <2>3. MergeRightly'
    BY <1>1, <1>2, <1>5 DEF MergeRightly, Pullers
  <2> QED
    BY <2>1, <2>2, <2>3
<1> QED
  BY <1>3, <1>4, <1>5

LEMMA PullNext == TypeOK /\ PullInv /\ [Next]_vars => PullInv'
<1> SUFFICES ASSUME TypeOK, PullInv, [Next]_vars
             PROVE  PullInv'
  OBVIOUS
<1>1. ConnectorTypeOK
  BY DEF TypeOK
<1>2. ASSUME UNCHANGED connectorVars
      PROVE  PullInv'
  <2>1. UNCHANGED <<setup, upstream, wanted, clone, remote, fetched, missing,
                    step, toRead, docs, during, lapses>>
    BY <1>2 DEF connectorVars, cloneVars, mergeVars, pullVars
  <2>2. Filling' = Filling /\ Ready' = Ready /\ Trusted' = Trusted
    BY <2>1 DEF Filling, Ready, Trusted
  <2>3. CloneInv' /\ NothingRead' /\ DuringIsNow' /\ AllWanted'
    BY <2>1, <2>2 DEF PullInv, CloneInv, NothingRead, DuringIsNow, AllWanted
  <2>4. Trusted => TrustedInv'
    BY <2>1, <2>2
    DEF PullInv, TrustedInv, GitInv, NeverMoved, HeadIsBranch, LockFails,
        SparseIsWanted, TreeIsHead, FreshHead, FreshTree, ReadRightly, Rightly,
        MergeRightly, Alone
  <2> QED
    BY <2>2, <2>3, <2>4 DEF PullInv
<1>3. CASE ConnectorStep
  BY <1>1, <1>3, PullingKeeps, ReadingKeeps, OutsideKeeps, FaultsKeep
  DEF ConnectorStep
<1>4. CASE PassThrough \/ AskWorker \/ AllDecided \/ RunDies \/ Finish
  BY <1>1, <1>4, ApplyingKeeps
  DEF PassThrough, AskWorker, AllDecided, RunDies, Finish
<1>5. CASE Work
  BY <1>2, <1>5 DEF Work
<1> QED
  BY <1>2, <1>3, <1>4, <1>5, RunSteps

LEMMA PullInit == Init => PullInv
<1> SUFFICES ASSUME Init
             PROVE  PullInv
  OBVIOUS
<1>1. /\ \A a \in Pullers : step[a] = "idle"
      /\ ~clone.git /\ ~clone.lock /\ remote = "same" /\ missing = {}
  BY DEF Init, ConnectorInit, NoClone
<1>2. Filling = {}
  BY <1>1 DEF Filling
<1>3. CloneInv /\ NothingRead /\ DuringIsNow /\ AllWanted
  BY <1>1, <1>2
  DEF Init, ConnectorInit, CloneInv, NothingRead, DuringIsNow, AllWanted,
      Pullers
<1>4. GitInv
  BY <1>1
  DEF GitInv, NeverMoved, HeadIsBranch, LockFails, SparseIsWanted, TreeIsHead,
      Ready
<1>5. FreshHead /\ FreshTree /\ ReadRightly /\ MergeRightly
  BY <1>1 DEF FreshHead, FreshTree, ReadRightly, MergeRightly, Pullers
<1> QED
  BY <1>3, <1>4, <1>5 DEF PullInv, TrustedInv

(* A pull that does not raise (list(source.documents()) in _pull_source) has
   every document that `paths` matches as it was at some moment of the pull,
   and no other, for any number of documents and versions, any interleaving
   with the owner, the operator and `status`, and any faults: but for the
   lapses that Untrusted names, that git was replacing a listed or read file
   for a `status` among them.                                              *)
THEOREM PulledHolds == Spec => []PulledIsUpstream
<1>1. PullInv => PulledIsUpstream
  <2> SUFFICES ASSUME PullInv, step["sync"] = "pulled",
                      Untrusted \cap lapses = {}
               PROVE  \A d \in Paths : Rightly(d)
    BY DEF PulledIsUpstream, Rightly
  <2>1. Trusted /\ Alone
    BY DEF Trusted, Alone, Untrusted
  <2> QED
    BY <2>1 DEF PullInv, TrustedInv, ReadRightly
<1> QED
  BY TypeInit, TypeStep, PullInit, PullNext, <1>1, PTL DEF Spec
=============================================================================
