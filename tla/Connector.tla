----------------------------- MODULE Connector -----------------------------
(***************************************************************************)
(* How a source is pulled: GitSource over its cached sparse clone          *)
(* (okf_mcp.ingest.sources), DriveSource and S3Source over a listing       *)
(* (drive, s3), and _pull_source, which reads the whole list before        *)
(* anything is applied.  `sync` pulls under the lock of the knowledge      *)
(* root; `status` pulls the same sources, into the same clone, without it. *)
(*                                                                         *)
(* A commit is what each document holds in it; what git does with the      *)
(* clone is modelled for the commands the connector runs.                  *)
(***************************************************************************)
EXTENDS Naturals, FiniteSets

CONSTANTS
  Paths,        \* documents the source may hold
  Versions,     \* what a document may say
  Absent,       \* there is no such document
  PageSize,     \* files in one answer of Drive's files.list
  Setups        \* kinds of source to consider, each with its bounds

Kinds == {"git", "gdrive", "s3"}
Pullers == {"sync", "status"}
Steps == {"idle", "clone", "sparse", "checkout", "pull", "merge", "list",
          "read", "pulled", "apply", "applied"}
Commits == [Paths -> Versions \cup {Absent}]
Empty == [d \in Paths |-> Absent]

ASSUME AbsentAssumption == Absent \notin Versions
ASSUME PageAssumption == PageSize \in Nat \ {0}
ASSUME SetupsAssumption ==
  \A s \in Setups :
    /\ s.kind \in Kinds
    /\ s.pullers \subseteq Pullers /\ "sync" \in s.pullers
    /\ s.edits \in Nat       \* bound: edits upstream and of the configuration
    /\ s.faults \in Nat      \* bound: errors of the network, and kills

VARIABLES
  setup,        \* the kind of source, and its bounds
  upstream,     \* what the source holds
  wanted,       \* the documents `paths` matches
  clone,        \* the cached clone of a git source
  remote,       \* its origin's branch, seen from HEAD
  fetched,      \* the commit that `status` is bringing into the working tree
  missing,      \* the file that git is replacing for it, as long as it does
  step,         \* where each puller is
  toRead,       \* listed documents that sync has not read yet
  docs,         \* what sync has read
  during,       \* history: what each document was upstream since sync began
  lapses,       \* history: what a pull cannot be trusted after
  edits,
  faults

mergeVars == <<fetched, missing>>
cloneVars == <<clone, remote, mergeVars>>
pullVars == <<toRead, docs, during>>
connectorVars == <<setup, upstream, wanted, cloneVars, step, pullVars, lapses,
                   edits, faults>>

Lapses == {"unfinished", "locked", "junk", "rewritten", "moved", "reconfigured",
           "page", "beside"}

-----------------------------------------------------------------------------
Only(commit, paths) ==
  [d \in Paths |-> IF d \in paths THEN commit[d] ELSE Absent]
Present(commit) == {d \in Paths : commit[d] # Absent}

\* No clone yet: (clone / ".git").exists() is false.
NoClone == [git |-> FALSE, broken |-> FALSE, lock |-> FALSE, sparse |-> {},
            head |-> Empty, index |-> Empty, tree |-> Empty]

ConnectorInit ==
  /\ setup \in Setups
  /\ upstream \in Commits
  /\ wanted \in (SUBSET Paths) \ {{}}
  /\ setup.kind # "git" => wanted = Paths
  /\ clone = NoClone
  /\ remote = "same"
  /\ fetched = Empty
  /\ missing = {}
  /\ step = [p \in Pullers |-> "idle"]
  /\ toRead = {}
  /\ docs = Empty
  /\ during = [d \in Paths |-> {upstream[d]}]
  /\ lapses = {}
  /\ edits = 0
  /\ faults = 0

-----------------------------------------------------------------------------
\* Outside: the owner, the operator, the network.

Edits ==
  /\ edits < setup.edits
  /\ edits' = edits + 1
  /\ UNCHANGED <<setup, clone, mergeVars, step, toRead, docs, faults>>

Upstream(d, v) ==
  /\ upstream[d] # v
  /\ upstream' = [upstream EXCEPT ![d] = v]
  /\ during' = [during EXCEPT ![d] = @ \cup {v}]

\* The owner changes, adds or removes a document ...
Edit(d, v) ==
  /\ Edits
  /\ Upstream(d, v)
  /\ remote' = IF clone.git /\ remote = "same" THEN "ahead" ELSE remote
  /\ UNCHANGED <<wanted, lapses>>

\* ... or does so by rewriting the branch; or the operator configures the
\* `url` of another repository, which the clone of the old one is not told.
Replace(d, v, how) ==
  /\ Edits
  /\ setup.kind = "git" /\ clone.git
  /\ Upstream(d, v)
  /\ remote' = IF remote = "moved" THEN remote ELSE how
  /\ lapses' = lapses \cup {how}
  /\ UNCHANGED wanted
Rewrite(d, v) == Replace(d, v, "rewritten")
Repoint(d, v) == (\A p \in Pullers : step[p] = "idle") /\ Replace(d, v, "moved")

\* The operator configures other `paths`.
Reconfigure(paths) ==
  /\ Edits
  /\ setup.kind = "git"
  /\ \A p \in Pullers : step[p] = "idle"
  /\ paths # wanted
  /\ wanted' = paths
  /\ lapses' = IF clone.git /\ ~(paths \subseteq clone.sparse)
               THEN lapses \cup {"reconfigured"} ELSE lapses
  /\ UNCHANGED <<upstream, remote, during>>

Goto(p, s) == step' = [step EXCEPT ![p] = s]

\* A step fails, or the process is killed in it.
Fault(p, next) ==
  /\ faults < setup.faults
  /\ faults' = faults + 1
  /\ Goto(p, next)
  /\ UNCHANGED <<setup, upstream, wanted, remote, mergeVars, pullVars, edits>>

\* The step goes well.
Fine(p, from, to) ==
  /\ step[p] = from
  /\ Goto(p, to)
  /\ UNCHANGED <<setup, upstream, wanted, edits, faults>>

\* After the checkout `sync` lists what is there; what `status` does with its
\* documents changes nothing.
Listing(p) == IF p = "sync" THEN "list" ELSE "idle"

-----------------------------------------------------------------------------
\* documents(): a new clone, a pull into the one there is, or a listing.  What
\* an earlier run of sync missed is no matter to this one.
StartPull(p) ==
  /\ p \in setup.pullers
  /\ setup.kind = "git" \/ p = "sync"
  /\ Fine(p, "idle", IF setup.kind # "git" THEN "list"
                     ELSE IF clone.git THEN "pull" ELSE "clone")
  /\ IF p = "sync"
     THEN /\ during' = [d \in Paths |-> {upstream[d]}]
          /\ docs' = Empty
          /\ lapses' = lapses \ {"beside"}
     ELSE UNCHANGED <<during, docs, lapses>>
  /\ UNCHANGED <<cloneVars, toRead>>

\* git clone --no-checkout: all history, an empty working tree, no index.  It
\* refuses a directory that another process has cloned into by now.
Clone(p) ==
  /\ ~clone.git
  /\ Fine(p, "clone", "sparse")
  /\ clone' = [NoClone EXCEPT !.git = TRUE, !.head = upstream]
  /\ remote' = "same"
  /\ UNCHANGED <<mergeVars, pullVars, lapses>>

CloneRefuses(p) ==
  /\ clone.git
  /\ Fine(p, "clone", "idle")
  /\ UNCHANGED <<cloneVars, pullVars, lapses>>

\* git sparse-checkout init and set.
SetSparse(p) ==
  /\ ~clone.lock
  /\ Fine(p, "sparse", "checkout")
  /\ clone' = [clone EXCEPT !.sparse = wanted]
  /\ UNCHANGED <<remote, mergeVars, pullVars, lapses>>

\* git checkout fetches the blobs and fills the working tree.
Checkout(p) ==
  /\ ~clone.lock
  /\ Fine(p, "checkout", Listing(p))
  /\ clone' = [clone EXCEPT !.index = clone.head,
                            !.tree = Only(clone.head, clone.sparse)]
  /\ UNCHANGED <<remote, mergeVars, pullVars, lapses>>

\* Another git has index.lock: SourceError, and the clone stays as it is.
LockRefuses(p) ==
  /\ clone.lock
  /\ \E from \in {"sparse", "checkout"} : Fine(p, from, "idle")
  /\ lapses' = lapses \cup {"unfinished"}
  /\ UNCHANGED <<cloneVars, pullVars>>

\* git pull --ff-only: what a commit changed since HEAD, and whether git can
\* bring it into the working tree.
Changed(commit) == {d \in Paths : commit[d] # clone.head[d]}
Mergeable ==
  /\ ~clone.lock
  /\ \A d \in Changed(upstream) \cap Present(upstream) :
       clone.index[d] = Absent => clone.head[d] = Absent /\ clone.tree[d] = Absent
With(commit, files, old) ==
  [d \in Paths |-> IF d \in files THEN commit[d] ELSE old[d]]
\* Mutation of Merged: the branch is fetched, and the working tree stays.
Fetched == [clone EXCEPT !.head = upstream]

Merged ==
  [clone EXCEPT !.head = upstream,
                !.index = With(upstream, Changed(upstream), @),
                !.tree = With(upstream, Changed(upstream) \cap clone.sparse,
                              @)]

CannotPull ==
  clone.broken \/ remote = "rewritten" \/ (remote = "ahead" /\ ~Mergeable)

\* Mutation of PullFails: what the clone holds is listed all the same.
PullFailsListed(p) ==
  /\ CannotPull
  /\ Fine(p, "pull", Listing(p))
  /\ UNCHANGED <<cloneVars, pullVars, lapses>>

\* It cannot: SourceError.
PullFails(p) ==
  /\ CannotPull
  /\ Fine(p, "pull", "idle")
  /\ UNCHANGED <<cloneVars, pullVars, lapses>>

\* Another process may not have finished its first checkout here.
Beside == IF \E q \in Pullers : step[q] \in {"sparse", "checkout"}
          THEN lapses \cup {"unfinished"} ELSE lapses

\* Already up to date, or fast-forwarded.  Nobody reads the working tree while
\* sync pulls.
Pull(p) ==
  /\ ~CannotPull
  /\ p = "sync" \/ remote # "ahead"
  /\ Fine(p, "pull", Listing(p))
  /\ clone' = IF remote = "ahead" THEN Merged ELSE clone
  /\ remote' = IF remote = "ahead" THEN "same" ELSE remote
  /\ lapses' = Beside
  /\ UNCHANGED <<mergeVars, pullVars>>

\* When `status` pulls, sync may be listing or reading: git takes index.lock,
\* replaces one file after the other, by unlinking and writing it again, and
\* moves the index and HEAD on.
StartMerge ==
  /\ ~CannotPull /\ remote = "ahead"
  /\ Fine("status", "pull", "merge")
  /\ fetched' = upstream
  /\ clone' = [clone EXCEPT !.lock = TRUE]
  /\ lapses' = Beside
  /\ UNCHANGED <<remote, missing, pullVars>>

ToReplace == {d \in Changed(fetched) \cap clone.sparse :
                clone.tree[d] # fetched[d]}

Unlinks(d) ==
  /\ missing = {}
  /\ d \in ToReplace
  /\ Fine("status", "merge", "merge")
  /\ missing' = {d}
  /\ UNCHANGED <<clone, remote, fetched, pullVars, lapses>>

Writes(d) ==
  /\ d \in missing
  /\ Fine("status", "merge", "merge")
  /\ clone' = [clone EXCEPT !.tree[d] = fetched[d]]
  /\ missing' = {}
  /\ UNCHANGED <<remote, fetched, pullVars, lapses>>

FinishMerge ==
  /\ missing = {} /\ ToReplace = {}
  /\ Fine("status", "merge", "idle")
  /\ clone' = [clone EXCEPT !.lock = FALSE, !.head = fetched,
                            !.index = With(fetched, Changed(fetched), @)]
  /\ remote' = IF remote = "ahead" /\ upstream = fetched THEN "same"
               ELSE remote
  /\ fetched' = Empty
  /\ UNCHANGED <<missing, pullVars, lapses>>

\* The network fails.  git clone removes what it made; a clone whose blobs
\* cannot be checked out stays, and so does what a pull started from.
NetworkFails(p) ==
  /\ step[p] \in {"clone", "checkout", "pull"}
  /\ Fault(p, "idle")
  /\ lapses' = IF step[p] = "checkout" THEN lapses \cup {"unfinished"} ELSE lapses
  /\ UNCHANGED clone

\* The process is killed while it pulls, which leaves a clone without a branch,
\* one without a working tree, or half of one and the lock of the index.
Kill(p) ==
  /\ step[p] \notin {"idle", "pulled", "apply", "applied"}
  /\ Fault(p, "idle")
  /\ \/ step[p] \notin {"sparse", "checkout", "merge"}
        /\ UNCHANGED <<clone, lapses>>
     \/ /\ step[p] = "clone" /\ ~clone.git
        /\ clone' = [NoClone EXCEPT !.git = TRUE, !.broken = TRUE]
        /\ lapses' = lapses \cup {"junk"}
     \/ /\ step[p] \in {"sparse", "checkout"}
        /\ lapses' = lapses \cup {"unfinished"}
        /\ UNCHANGED clone
     \/ \E some \in SUBSET clone.sparse :
        /\ step[p] = "checkout"
        /\ clone' = [clone EXCEPT !.tree = Only(clone.head, some), !.lock = TRUE]
        /\ lapses' = lapses \cup {"unfinished", "locked"}
     \/ \E some \in SUBSET (Changed(upstream) \cap clone.sparse) :
        /\ p = "sync" /\ step[p] = "pull" /\ ~clone.broken
        /\ remote = "ahead" /\ Mergeable
        /\ clone' = [clone EXCEPT !.lock = TRUE,
                                  !.tree = With(upstream, some, @)]
        /\ lapses' = lapses \cup {"locked"}
     \/ /\ step[p] = "merge"
        /\ lapses' = lapses \cup {"locked"}
        /\ UNCHANGED clone

-----------------------------------------------------------------------------
\* What is there is listed, and then read one by one.
Listed(kind, there) ==
  /\ setup.kind = kind
  /\ Fine("sync", "list", "read")
  /\ toRead' = there
  /\ UNCHANGED <<cloneVars, docs, during>>

\* sync came upon a file that git is replacing.
CameUpon(files) ==
  lapses' = IF files = {} THEN lapses ELSE lapses \cup {"beside"}

\* The files of the working tree that `paths` matches; one that git is
\* replacing may be there or not.
ListTree ==
  \E half \in SUBSET missing :
    /\ Listed("git", wanted \cap ((Present(clone.tree) \ missing) \cup half))
    /\ CameUpon(wanted \cap missing)

\* The objects of the bucket, page after page.
ListBucket ==
  /\ Listed("s3", Present(upstream))
  /\ UNCHANGED lapses

\* Of the folder, the files that Drive's first answer names.
ListFolder ==
  \E some \in SUBSET Present(upstream) :
    /\ \/ Cardinality(some) = PageSize
       \/ Cardinality(some) < PageSize /\ some = Present(upstream)
    /\ Listed("gdrive", some)
    /\ lapses' = IF some = Present(upstream) THEN lapses ELSE lapses \cup {"page"}

Holds(d) == IF setup.kind = "git" THEN clone.tree[d] ELSE upstream[d]

Yield(d, content) ==
  /\ d \in toRead
  /\ Fine("sync", "read", "read")
  /\ toRead' = toRead \ {d}
  /\ docs' = [docs EXCEPT ![d] = content]
  /\ UNCHANGED <<cloneVars, during>>

\* A file of the working tree; one that is gone by now is left out, so is one
\* whose commit HEAD has not been moved to (`git log` knows none), and one that
\* git is replacing is left out, or read as far as it is written.
ReadFile(d) ==
  /\ setup.kind = "git"
  /\ CameUpon({d} \cap missing)
  /\ \/ d \notin missing /\ Yield(d, Holds(d))
     \/ d \notin missing /\ clone.head[d] = Absent /\ Yield(d, Absent)
     \/ /\ d \in missing
        /\ \E content \in Versions \cup {Absent} : Yield(d, content)

\* A file of the folder, exported or downloaded; an object of the bucket.
ReadRemote(d) == Holds(d) # Absent /\ Yield(d, Holds(d)) /\ UNCHANGED lapses
Download(d) == setup.kind = "gdrive" /\ ReadRemote(d)
GetObject(d) == setup.kind = "s3" /\ ReadRemote(d)

\* What was listed is gone: a SourceError, or for a file that goes between
\* is_file and read_text an error of the file system.
ReadFails ==
  /\ \E d \in toRead : Holds(d) = Absent \/ d \in missing
  /\ Fine("sync", "read", "idle")
  /\ toRead' = {}
  /\ UNCHANGED <<cloneVars, docs, during, lapses>>

\* The API answers with an error, to the listing or in the middle of it.
ApiFails ==
  /\ setup.kind # "git"
  /\ step["sync"] \in {"list", "read"}
  /\ Fault("sync", "idle")
  /\ UNCHANGED <<clone, lapses>>

\* list(source.documents()) is complete.
Pulled ==
  /\ toRead = {}
  /\ Fine("sync", "read", "pulled")
  /\ UNCHANGED <<cloneVars, pullVars, lapses>>

Merging ==
  \/ StartMerge \/ FinishMerge
  \/ \E d \in Paths : Unlinks(d) \/ Writes(d)

Pulling(p) ==
  \/ Clone(p) \/ CloneRefuses(p)
  \/ SetSparse(p) \/ Checkout(p) \/ LockRefuses(p)
  \/ Pull(p) \/ PullFails(p)
  \/ p = "status" /\ Merging

Reading ==
  \/ ListTree \/ ListBucket \/ ListFolder \/ ReadFails \/ Pulled
  \/ \E d \in Paths : ReadFile(d) \/ Download(d) \/ GetObject(d)

Outside ==
  \/ \E d \in Paths, v \in Versions \cup {Absent} :
       Edit(d, v) \/ Rewrite(d, v) \/ Repoint(d, v)
  \/ \E paths \in (SUBSET Paths) \ {{}} : Reconfigure(paths)

Faults == ApiFails \/ \E p \in Pullers : NetworkFails(p) \/ Kill(p)

-----------------------------------------------------------------------------
ConnectorTypeOK ==
  /\ setup \in Setups /\ upstream \in Commits /\ wanted \in SUBSET Paths
  /\ clone \in [git : BOOLEAN, broken : BOOLEAN, lock : BOOLEAN,
                sparse : SUBSET Paths, head : Commits, index : Commits,
                tree : Commits]
  /\ remote \in {"same", "ahead", "rewritten", "moved"}
  /\ fetched \in Commits /\ missing \in SUBSET Paths
  /\ step \in [Pullers -> Steps]
  /\ toRead \in SUBSET Paths /\ docs \in Commits
  /\ during \in [Paths -> SUBSET (Versions \cup {Absent})]
  /\ lapses \in SUBSET Lapses
  /\ edits \in 0..setup.edits /\ faults \in 0..setup.faults

\* A pull that does not raise has the source as it was at some moment of the
\* pull, document by document, with none left out: an error never passes for
\* documents that vanished, which the sweep would then remove.  It cannot be
\* trusted where a first clone was not finished (retried as a pull, it finds
\* `.git` and takes the empty working tree for the source), where `paths` grew
\* or `url` changed after the clone was made, where a folder has more files
\* than Drive names in one answer, and where this very run listed or read a
\* file while the git of a `status` was replacing it.
Untrusted == {"unfinished", "reconfigured", "moved", "page", "beside"}
PulledIsUpstream ==
  step["sync"] = "pulled" /\ Untrusted \cap lapses = {}
    => \A d \in Paths :
         docs[d] \in IF d \in wanted THEN during[d] ELSE {Absent}
=============================================================================
