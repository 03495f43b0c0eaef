-------------------------------- MODULE Sync --------------------------------
(***************************************************************************)
(* The sync engine (okf_mcp.ingest.cli._sync and what it calls), run in    *)
(* place over a knowledge tree: pull every due source, apply each pulled   *)
(* document, sweep what vanished, save the ledger.  Upstream documents     *)
(* change at any time, also during a run.  Runs are serialised here; what  *)
(* the lock file really gives is the subject of SyncLock.                  *)
(*                                                                         *)
(* A concept file is the content it was projected from, or None; Torn is a *)
(* file a kill left half-written.  Files are opened (and truncated) before *)
(* they are written: a half-written ledger is the empty one, which load    *)
(* takes for a ledger.  A run whose target bundle is missing returns       *)
(* before it changes anything and is a step that changes nothing.          *)
(***************************************************************************)
EXTENDS Ledger

CONSTANTS
  None,         \* "no document" upstream, "no file" in the tree
  Torn,         \* a concept file that was opened and never written
  SourceOf,     \* the source a URI belongs to
  PathOf,       \* the concept path a new document gets: target / its path
  Fragile,      \* contents whose transform or check may fail
  Reserved,     \* URIs whose file name is index.md or log.md
  Writes,       \* <<uri, content>>: what may be written upstream
  MaxEdits,     \* bound: upstream edits
  MaxDeaths,    \* bound: runs that die half way
  MaxManual     \* bound: manual syncs

ASSUME NoneAssumption == {None, Torn} \cap Contents = {} /\ None # Torn
ASSUME OwnerAssumption == SourceOf \in [Uris -> Sources]
ASSUME PathAssumption == PathOf \in [Uris -> Concepts]
ASSUME WritesAssumption == Writes \subseteq Uris \X (Contents \cup {None})
ASSUME BoundsAssumption ==
  MaxEdits \in Nat /\ MaxDeaths \in Nat /\ MaxManual \in Nat

VARIABLES
  upstream,     \* the document each URI has upstream, or None
  tree,         \* the concept files
  ledgerFile,   \* the ledger on disk
  phase,        \* where the run is: idle, pull, apply or save
  ledger,       \* the run's ledger
  toPull,       \* due sources not pulled yet
  ok,           \* sources pulled without an error
  toApply,      \* pulled sources not applied and swept yet
  current,      \* the source being applied ({} or one source)
  todo,         \* its documents not applied yet
  docs,         \* the documents pulled by this run
  since,        \* the run has a --since window
  allowEmpty,   \* the run has --allow-empty
  waiting,      \* a manual sync has loaded the ledger and wants the lock
  preloaded,    \* the ledger it loaded
  edits, deaths, manual,    \* counters of the bounds
  lapses        \* history: what made the ledger and the tree disagree

upstreamVars == <<upstream, edits>>
diskVars == <<tree, ledgerFile>>
runVars == <<phase, ledger, toPull, ok, toApply, current, todo, docs, since,
             allowEmpty>>
manualVars == <<waiting, preloaded, manual>>
vars == <<upstreamVars, diskVars, runVars, manualVars, deaths, lapses>>

-----------------------------------------------------------------------------
NoDocs == [u \in Uris |-> None]
CurrentUris == {u \in Uris : docs[u] # None}
DocsOf(s) == {u \in CurrentUris : SourceOf[u] = s}

\* Another document is known, and served, under this concept path.
Shared(led, u, concept) ==
  \E w \in Uris \ {u} : Active(led, w) /\ led[w].concept = concept

Init ==
  /\ upstream \in {up \in [Uris -> Contents \cup {None}] :
                     \A u \in Uris : up[u] = None \/ <<u, up[u]>> \in Writes}
  /\ tree = [c \in Concepts |-> None]
  /\ ledgerFile = EmptyLedger
  /\ phase = "idle"
  /\ ledger = EmptyLedger
  /\ toPull = {} /\ ok = {} /\ toApply = {} /\ current = {} /\ todo = {}
  /\ docs = NoDocs
  /\ since = FALSE /\ allowEmpty = FALSE
  /\ waiting = FALSE /\ preloaded = EmptyLedger
  /\ edits = 0 /\ deaths = 0 /\ manual = 0
  /\ lapses = {}

-----------------------------------------------------------------------------
\* The owner of a source creates, changes or deletes a document.
Edit(u, c) ==
  /\ edits < MaxEdits
  /\ <<u, c>> \in Writes
  /\ upstream[u] # c
  /\ upstream' = [upstream EXCEPT ![u] = c]
  /\ edits' = edits + 1
  /\ UNCHANGED <<diskVars, runVars, manualVars, deaths, lapses>>

\* The start of a run over the sources `due` with the ledger `led`.
Start(due, led, window, empty) ==
  /\ phase = "idle"
  /\ phase' = "pull"
  /\ ledger' = led
  /\ toPull' = due
  /\ since' = window
  /\ allowEmpty' = empty
  /\ UNCHANGED <<upstreamVars, diskVars, ok, toApply, current, todo, docs,
                 deaths>>

\* A watch tick loads the ledger once it holds the lock.
Tick(due, empty) ==
  /\ due # {}
  /\ Start(due, ledgerFile, FALSE, empty)
  /\ UNCHANGED <<manualVars, lapses>>

\* `okf-ingest sync` loads the ledger first (main), whether or not a tick is
\* running ...
Preload ==
  /\ ~waiting
  /\ manual < MaxManual
  /\ waiting' = TRUE
  /\ preloaded' = ledgerFile
  /\ manual' = manual + 1
  /\ UNCHANGED <<upstreamVars, diskVars, runVars, deaths, lapses>>

\* ... and then takes the lock and syncs every source with what it loaded,
\* which is stale when a tick has saved in between.
ManualSync(window, empty) ==
  /\ waiting
  /\ Start(Sources, preloaded, window, empty)
  /\ waiting' = FALSE
  /\ preloaded' = EmptyLedger
  /\ lapses' = IF preloaded = ledgerFile THEN lapses ELSE lapses \cup {"stale"}
  /\ UNCHANGED manual

\* LockHeld.
GiveUp ==
  /\ waiting
  /\ phase # "idle"
  /\ waiting' = FALSE
  /\ preloaded' = EmptyLedger
  /\ UNCHANGED <<upstreamVars, diskVars, runVars, manual, deaths, lapses>>

\* Phase 1: one source materialised ...
PullOk(s) ==
  /\ phase = "pull"
  /\ s \in toPull
  /\ toPull' = toPull \ {s}
  /\ ok' = ok \cup {s}
  /\ toApply' = toApply \cup {s}
  /\ docs' = [u \in Uris |-> IF SourceOf[u] = s THEN upstream[u] ELSE docs[u]]
  /\ UNCHANGED <<upstreamVars, diskVars, manualVars, phase, ledger, current,
                 todo, since, allowEmpty, deaths, lapses>>

\* ... or SKIPPED (SourceUnconfiguredError) or FAILED (SourceError).
PullFails(s) ==
  /\ phase = "pull"
  /\ s \in toPull
  /\ toPull' = toPull \ {s}
  /\ UNCHANGED <<upstreamVars, diskVars, manualVars, phase, ledger, ok,
                 toApply, current, todo, docs, since, allowEmpty, deaths,
                 lapses>>

Pulled ==
  /\ phase = "pull"
  /\ toPull = {}
  /\ phase' = "apply"
  /\ UNCHANGED <<upstreamVars, diskVars, manualVars, ledger, toPull, ok,
                 toApply, current, todo, docs, since, allowEmpty, deaths,
                 lapses>>

\* Mutation of ApplySource: the documents of every source are applied.
ApplyEverything(s) ==
  /\ phase = "apply"
  /\ current = {}
  /\ s \in toApply
  /\ current' = {s}
  /\ todo' = CurrentUris
  /\ UNCHANGED <<upstreamVars, diskVars, manualVars, phase, ledger, toPull, ok,
                 toApply, docs, since, allowEmpty, deaths, lapses>>

\* Phase 2: the next pulled source.
ApplySource(s) ==
  /\ phase = "apply"
  /\ current = {}
  /\ s \in toApply
  /\ current' = {s}
  /\ todo' = DocsOf(s)
  /\ UNCHANGED <<upstreamVars, diskVars, manualVars, phase, ledger, toPull, ok,
                 toApply, docs, since, allowEmpty, deaths, lapses>>

-----------------------------------------------------------------------------
\* One document of the source being applied (the loop body of _apply_source).

\* Mutation of Gone: an unchanged hash is enough to leave a document alone.
NeverGone(u) == FALSE

\* The concept of the document is not in the tree.
Gone(u) == ledger[u].removed \/ tree[ledger[u].concept] = None

Unchanged(u) == Classify(ledger, u, docs[u]) = "unchanged" /\ ~Gone(u)

\* Mutation of Targets: a modified document goes where its path says.
TargetsByPath(u) ==
  LET matches == MatchBySha(ledger, docs[u], CurrentUris) IN
  IF ~Known(ledger, u) /\ matches # {}
  THEN {[led |-> Adopt(ledger, v, u), concept |-> ledger[v].concept] :
          v \in matches}
  ELSE {[led |-> ledger, concept |-> PathOf[u]]}

\* The concept path a document that must be applied goes to, and the ledger
\* by then: an adoption changes it before _apply is called.
Targets(u) ==
  LET matches == MatchBySha(ledger, docs[u], CurrentUris) IN
  IF Known(ledger, u)
  THEN {[led |-> ledger, concept |-> ledger[u].concept]}
  ELSE IF matches # {}
  THEN {[led |-> Adopt(ledger, v, u), concept |-> ledger[v].concept] :
          v \in matches}
  ELSE {[led |-> ledger, concept |-> PathOf[u]]}

InTurn(u) == phase = "apply" /\ u \in todo

Done(u) == todo' = todo \ {u}

\* Deferred by --since: any served entry may be inside the window.
Defer(u) ==
  /\ InTurn(u)
  /\ since /\ Active(ledger, u)
  /\ Done(u)
  /\ UNCHANGED <<upstreamVars, diskVars, manualVars, phase, ledger, toPull, ok,
                 toApply, current, docs, since, allowEmpty, deaths, lapses>>

\* Unchanged and in the tree: the document is only marked seen.
Seen(u) ==
  /\ InTurn(u)
  /\ Unchanged(u)
  /\ ledger' = MarkSeen(ledger, u)
  /\ Done(u)
  /\ UNCHANGED <<upstreamVars, diskVars, manualVars, phase, toPull, ok,
                 toApply, current, docs, since, allowEmpty, deaths, lapses>>

\* _apply succeeds: the concept file is written and the entry recorded.
Project(u) ==
  /\ InTurn(u)
  /\ ~Unchanged(u)
  /\ u \notin Reserved
  /\ \E t \in Targets(u) :
       /\ tree' = [tree EXCEPT ![t.concept] = docs[u]]
       /\ ledger' = Record(t.led, u, SourceOf[u], t.concept, docs[u])
       /\ lapses' = IF Shared(t.led, u, t.concept)
                    THEN lapses \cup {"shared"} ELSE lapses
  /\ Done(u)
  /\ UNCHANGED <<upstreamVars, ledgerFile, manualVars, phase, toPull, ok,
                 toApply, current, docs, since, allowEmpty, deaths>>

\* _apply fails: reserved name, transform error or failed check.  The output
\* is quarantined and the tree is untouched, but an adoption stays made.
Quarantine(u) ==
  /\ InTurn(u)
  /\ ~Unchanged(u)
  /\ u \in Reserved \/ docs[u] \in Fragile
  /\ \E t \in Targets(u) :
       /\ ledger' = t.led
       /\ lapses' = IF t.led # ledger
                    THEN lapses \cup {"adopted"} ELSE lapses
  /\ Done(u)
  /\ UNCHANGED <<upstreamVars, diskVars, manualVars, phase, toPull, ok,
                 toApply, current, docs, since, allowEmpty, deaths>>

\* Mutation of Swept: no guard.
SweptAlways(s) == TRUE

\* Mutation of Swept: --allow-empty taken for --allow-removal.
SweptOnRequest(s) == allowEmpty

\* The empty-source guard lets s be swept.
Swept(s) == DocsOf(s) # {} \/ ActiveCount(ledger, s) = 0 \/ allowEmpty

\* The removal sweep of a source whose documents are all applied.  A source
\* that came back empty is not swept, unless --allow-empty.
Sweep(s) ==
  /\ phase = "apply"
  /\ current = {s}
  /\ todo = {}
  /\ LET vanished == IF Swept(s) THEN Vanished(ledger, DocsOf(s), s) ELSE {}
     IN /\ ledger' = IF Swept(s) THEN SweepRemoved(ledger, DocsOf(s), s)
                     ELSE ledger
        /\ tree' = [c \in Concepts |->
                      IF \E u \in vanished : ledger[u].concept = c
                      THEN None ELSE tree[c]]
  /\ toApply' = toApply \ {s}
  /\ current' = {}
  /\ UNCHANGED <<upstreamVars, ledgerFile, manualVars, phase, toPull, ok, todo,
                 docs, since, allowEmpty, deaths, lapses>>

\* Nothing of a run survives it but the tree and the ledger on disk.
Forget ==
  /\ phase' = "idle"
  /\ toPull' = {} /\ ok' = {} /\ toApply' = {} /\ current' = {} /\ todo' = {}
  /\ docs' = NoDocs
  /\ since' = FALSE /\ allowEmpty' = FALSE

\* ledger.save(), the only write of the ledger, at the very end of the run,
\* first truncates the file ...
SaveOpens ==
  /\ phase = "apply"
  /\ toApply = {}
  /\ phase' = "save"
  /\ ledgerFile' = EmptyLedger
  /\ UNCHANGED <<upstreamVars, tree, manualVars, ledger, toPull, ok, toApply,
                 current, todo, docs, since, allowEmpty, deaths, lapses>>

\* ... and then writes it.
SaveWrites ==
  /\ phase = "save"
  /\ ledgerFile' = ledger
  /\ Forget
  /\ UNCHANGED <<upstreamVars, tree, ledger, manualVars, deaths, lapses>>

\* A kill, or an exception no handler of _sync catches (any connector error
\* that is not a SourceError, any transformer error that is not an LlmError):
\* the ledger is not saved, and what was written stays written.  A kill in
\* the save of a ledger that had not changed loses that ledger too.
Die ==
  /\ deaths < MaxDeaths
  /\ phase # "idle"
  /\ deaths' = deaths + 1
  /\ lapses' = IF ledger = ledgerFile THEN lapses ELSE lapses \cup {"torn"}
  /\ ledger' = ledgerFile
  /\ Forget
  /\ UNCHANGED <<upstreamVars, diskVars, manualVars>>

\* A run that dies with the tree changed and the ledger in memory not.
DieTearing ==
  /\ deaths < MaxDeaths
  /\ deaths' = deaths + 1
  /\ lapses' = lapses \cup {"torn"}
  /\ ledger' = ledgerFile
  /\ Forget
  /\ UNCHANGED <<upstreamVars, ledgerFile, manualVars>>

\* A kill while _apply writes the concept of u, or before it is recorded.
DieWriting(u) ==
  /\ InTurn(u)
  /\ ~Unchanged(u)
  /\ u \notin Reserved
  /\ \E t \in Targets(u), left \in {docs[u], Torn} :
       tree' = [tree EXCEPT ![t.concept] = left]
  /\ DieTearing

\* A kill among the unlinks of a sweep.
DieSweeping(s) ==
  /\ phase = "apply"
  /\ current = {s}
  /\ todo = {}
  /\ Swept(s)
  /\ \E gone \in SUBSET {ledger[u].concept : u \in
                           Vanished(ledger, DocsOf(s), s)} :
       tree' = [c \in Concepts |-> IF c \in gone THEN None ELSE tree[c]]
  /\ DieTearing

RunStep ==
  \/ \E s \in Sources : PullOk(s) \/ PullFails(s) \/ ApplySource(s) \/ Sweep(s)
  \/ \E u \in Uris : Defer(u) \/ Seen(u) \/ Project(u) \/ Quarantine(u)
  \/ Pulled \/ SaveOpens \/ SaveWrites

Next ==
  \/ \E u \in Uris, c \in Contents \cup {None} : Edit(u, c)
  \/ \E due \in SUBSET Sources, empty \in BOOLEAN : Tick(due, empty)
  \/ Preload \/ GiveUp
  \/ \E window, empty \in BOOLEAN : ManualSync(window, empty)
  \/ RunStep
  \/ Die
  \/ \E u \in Uris : DieWriting(u)
  \/ \E s \in Sources : DieSweeping(s)

Spec == Init /\ [][Next]_vars

-----------------------------------------------------------------------------
\* Every variable has its type, and a run (_sync) applies only documents of
\* sources it pulled without an error, one source at a time.
TypeOK ==
  /\ upstream \in [Uris -> Contents \cup {None}]
  /\ tree \in [Concepts -> Contents \cup {None, Torn}]
  /\ ledgerFile \in Ledgers
  /\ phase \in {"idle", "pull", "apply", "save"}
  /\ ledger \in Ledgers
  /\ toPull \subseteq Sources /\ ok \subseteq Sources /\ toApply \subseteq ok
  /\ current \subseteq toApply /\ (phase # "apply" => current = {})
  /\ todo \subseteq {u \in CurrentUris : SourceOf[u] \in current}
  /\ \A u \in CurrentUris : SourceOf[u] \in ok
  /\ docs \in [Uris -> Contents \cup {None}]
  /\ since \in BOOLEAN /\ allowEmpty \in BOOLEAN /\ waiting \in BOOLEAN
  /\ preloaded \in Ledgers
  /\ edits \in 0..MaxEdits /\ deaths \in 0..MaxDeaths
  /\ manual \in 0..MaxManual
  /\ lapses \subseteq {"shared", "torn", "stale", "adopted"}

\* Every document the ledger holds for served has its content in the tree ...
Truthful(led) ==
  \A u \in Uris : Active(led, u) => tree[led[u].concept] = led[u].sha

\* ... under a concept of its own ...
Distinct(led) ==
  \A u, v \in Uris : Active(led, u) /\ Active(led, v) /\ u # v
                       => led[u].concept # led[v].concept

\* ... and is owned by the source it comes from.
Owned(led) == \A u \in Uris : Known(led, u) => led[u].source = SourceOf[u]

\* Between runs the ledger on disk tells the truth about the tree, for every
\* mix of edits, renames, failing sources and documents, skipped sweeps and
\* --since windows, unless one of four things ever happened: two documents
\* were projected to one concept, a run died with its ledger unsaved, a sync
\* ran with a ledger loaded before a tick saved another, or a document failed
\* after it had adopted another's entry.
LedgerTellsTruth ==
  lapses = {} /\ phase = "idle" =>
    Truthful(ledgerFile) /\ Distinct(ledgerFile) /\ Owned(ledgerFile)

\* Readable(s): this run has seen enough of s to judge what vanished from it.
Readable(s) == s \in ok /\ (DocsOf(s) # {} \/ allowEmpty)

\* A run never changes the concept of a document it cannot see: one whose
\* source failed, is unconfigured, is not due, or came back empty.  (Another
\* source may adopt the entry, with the very same content.)
UnseenStays ==
  \A u \in Uris :
    /\ phase = "apply" /\ lapses' = {}
    /\ Active(ledger, u) /\ ~Readable(ledger[u].source)
    => tree'[ledger[u].concept] = tree[ledger[u].concept]

KeepsWhatItCannotSee == [][UnseenStays]_vars

\* A run never removes the concept of a document it has just seen upstream,
\* whichever source is being swept.
PresentStays ==
  \A u \in CurrentUris :
    /\ phase = "apply" /\ lapses' = {} /\ Active(ledger, u)
    => /\ Active(ledger', u)
       /\ tree'[ledger[u].concept] # None

SweepSparesPresent == [][PresentStays]_vars

\* Identity follows content: in a run no entry is dropped, and none changes
\* its concept; when a URI loses its entry, a URI that had none takes over
\* the concept with the very same content.
IdentityMoves ==
  phase = "apply" =>
    \A u \in Uris : Known(ledger, u) =>
      \/ Known(ledger', u) /\ ledger'[u].concept = ledger[u].concept
      \/ phase' = "idle"
      \/ \E v \in Uris :
           /\ ~Known(ledger, v) /\ Known(ledger', v)
           /\ ledger'[v].concept = ledger[u].concept
           /\ ledger'[v].sha = ledger[u].sha

IdentityFollowsContent == [][IdentityMoves]_vars

-----------------------------------------------------------------------------
\* Every run comes to its end; every source becomes due again and again (its
\* interval elapses and the watch loop ticks) and answers again and again.
Due(s) ==
  \E due \in SUBSET Sources, empty \in BOOLEAN : s \in due /\ Tick(due, empty)

Fairness ==
  /\ WF_vars(RunStep)
  /\ \A s \in Sources : SF_vars(Due(s)) /\ SF_vars(PullOk(s))

FairSpec == Spec /\ Fairness

\* The tree mirrors source s: each of its documents is served under its
\* concept (but index.md and log.md, which are no concepts), and no other.
Mirrored(s) ==
  \A u \in Uris \ Reserved : SourceOf[u] = s =>
    IF upstream[u] = None THEN ~Active(ledgerFile, u)
    ELSE /\ Active(ledgerFile, u)
         /\ ledgerFile[u].sha = upstream[u]
         /\ tree[ledgerFile[u].concept] = upstream[u]

NoOrphans ==
  \A c \in Concepts : tree[c] # None =>
    \E u \in Uris : Active(ledgerFile, u) /\ ledgerFile[u].concept = c

Empty(s) == \A u \in Uris : SourceOf[u] = s => upstream[u] = None

\* "mirror sources into the knowledge tree: add new concepts, replace modified
\* ones in place, remove what the owner removed": once the owners stop
\* editing, the tree comes to mirror every source that is not empty and stays
\* so, but for the moments in which the ledger is being written, unless one
\* of the lapses above happened.  (An empty source is not swept.)
Converges ==
  <>[](\/ lapses # {} \/ phase = "save"
       \/ NoOrphans /\ \A s \in Sources : Empty(s) \/ Mirrored(s))
=============================================================================
