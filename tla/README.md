# A TLA+ development of okf-corporate-bundle

The repository serves a company's knowledge as bundles of markdown concepts.
`okf-ingest` mirrors documents of many sources into a knowledge root, by hand
(`sync`) or on a schedule (`watch`); `okf-mcp` serves the root's concepts to
agents, each session within its scopes.  This directory models the parts of it
in which the order of steps, failures and shared files matter, checks them with
TLC, and proves with TLAPS what can be proved for every size.

Paths below are relative to `src/okf_mcp/` of the repository, those under `docs/`
to the repository itself.

## 1. The system

| Component | Code | State it keeps | Operations | Must hold |
|---|---|---|---|---|
| Lock file | `ingest/scheduler.py` `SyncLock` | `ingest/.sync.lock` with a pid and a time | acquire, release, reclaim a stale file | one sync at a time per root; an abandoned lock does not stay |
| Ledger | `ingest/ledger.py` | `ingest/ledger.yaml`: URI to concept, hash, owner, `removed_at` | load, classify, adopt, record, sweep, save | agrees with the tree |
| Sync run | `ingest/cli.py` `_sync` | the concept files under `bundles/`; a ledger in memory | pull, apply each document, sweep, save, hook | mirrors upstream; a failure stays where it is; nothing unseen is removed |
| Generations | `ingest/generations.py`, `cli.py` `_sync_generation` | `generations/<id>/`, the pointer `CURRENT` | stage, validate, publish, discard, prune | a published tree keeps its pages; CURRENT always resolves |
| Root lookup | `knowledge.py` | none | resolve CURRENT, list bundles | finds the published tree |
| Served index | `server.py` `ServedIndex` | an index in memory, the pointer's token | load, hot reload, use | one generation per call; never stuck on an old one |
| Watch loop | `ingest/scheduler.py` `run_watch`, `run_tick` | last sync of each source, in memory and in `schedule_state.json` | tick, sleep, stop | every source in its interval, none too early |
| Embedding store | `embeddings.py` | sqlite rows `(hash, model)` to concept and vector | import, reuse, embed, look up | every concept found by its own current text, one model |
| LLM transformer | `ingest/llm.py` | draft and findings of the attempts | draft, strip, check, retry | what passes unflagged passed the gate |
| Write-back | `writeback.py`, `server.py` `propose_upstream` | branches and worktrees of sector repositories, suggestion files, audit log | propose, commit, push, record, audit | answered is audited; allowed arrives; denied leaves nothing |
| Traversal | `index.py` `follow_links` | none | breadth-first walk | the view's concepts, at their shortest distance |
| Scopes | `scopes.py`, `index.py` `visible_to` | none | resolve, derive a view | the nearest setting decides |
| Search | `index.py` `search`, `server.py` `search_concepts` | none | keyword ranking, semantic top-up | ranked, within the view and the limit; nothing nearer is left out |
| Connectors | `ingest/sources.py`, `drive.py`, `s3.py` | the cached clone of a git source | clone, set the sparse patterns, check out, pull; list, read | what a pull returns is what the source holds; a failed pull is made up for |
| Passthrough transformer, draft loop | `ingest/transform.py`, `core.py` | draft files | transform, write | – |
| Validator, parser | `validator.py`, `parser.py` | none | findings, documents | – |
| Authentication, authorization | `auth.py`, `authz.py` | tables read once, audit file | authenticate, allow, record | every call is audited |

How they meet: a watch tick or a manual sync takes the **lock**, loads the
**ledger** (a manual sync has loaded it before), runs a **sync**, in place or
inside a staged **generation**, saves the ledger, and calls the **embedding**
hook.  A server resolves the root, loads its **index** from the tree CURRENT
names, derives the session's view by its **scopes**, and answers tool calls from
it; only **write-back** leaves anything behind.  Each sync pulls its sources through
the **connectors**, and so does `status`, beside it.  Everything they share is in
files: the lock, the ledger, the clones, the concept files, the pointer, the
store, the sectors' repositories.  Nothing else coordinates the processes.

What is hard here: processes interleave at every file-system call; runs die
between two writes; sources fail one by one, or are not due; hard links make two
trees share one inode; a server reads a tree that a prune deletes, and a call may see two
generations; a clone outlives the run, and the configuration, that made it; identity is
guessed from content, so copies and renames meet; exceptions outside the one
expected class end more than the step they arise in.

## 2. Modules

| Module | Models | Its actions |
|---|---|---|
| `SyncLock` | the lock, by a set of processes | one per file-system call of `acquire` (`Create`, `Stamp`, `Read`, `Probe`, `Reclaim`), `Release`; `Crash`, `Reuse` of a pid, `Age` of a stamp |
| `Ledger` | the ledger's operations, as operators on a function from URIs to entries | – |
| `Sync` (extends `Ledger`) | runs of `_sync`, by ticks and by hand | `Edit` upstream; `Tick`, `Preload`, `ManualSync`, `GiveUp`; `PullOk`, `PullFails`, `Pulled`; `ApplySource`; for each document `Defer`, `Seen`, `Project` or `Quarantine`; `Sweep`; `SaveOpens`/`SaveWrites`; `Die`, `DieWriting`, `DieSweeping` |
| `Generations` | runs of `_sync_generation` | `Stage`, `Link`, `Truncate`/`Fill`, `Unlink`, `SaveLedger`, `Accept`/`Reject`/`Raise`, `Publish`, `RemoveFile`/`RemoveDir` of pruned trees, `Crash` |
| `Publication` | what publishing promises a reader: releases that stay, one of them shown at a time, whole while it is kept | `Publish`, `Load` (`Take` a kept release, or `TakeLeftovers` of one dropped meanwhile) |
| `Serving` (extends `Generations`) | a server beside those runs; the two implement `Publication` | `Boot`, `Reload`, the calls of one build (`ReadPointer`, `LookForDir`, `Discover`, `List`, `ReadPage`/`SkipPage`, `BuildFails`), `Swap` |
| `Watch` | one watch worker, looping or run once from a timer, restarted when it ends | `Launch`, `Tick`, `Lock`/`LockHeld`, `SyncReturns`/`SyncRaises`, `SaveOpens`/`SaveWrites`, `AfterTick`, `WakeUp`, `Signal`, `Kill`; a manual sync's lock (`OtherTakes`, `OtherReleases`); a timer's `watch --once` beside it (`TimerLaunches`, `TimerSkips`, `TimerSyncs`, `TimerReturns`, `TimerOpens`/`TimerWrites`, `TimerDies`); `Pass`ing time |
| `Embeddings` (extends `Ledger`) | the hook and the store over a changing ledger and tree | the outcomes of a sync for a document (`Defer`, `Project`, `FailTransform`, `Rename`, `AdoptThenFail`, `Withdraw`) and of a run that is killed (`DieWriting`, `DieSweeping`, `DieSaving`); `TurnOn` of generations, `SwitchModel`; `Begin`, `Import`, `Reuse`, `Queue`, `Encode`, `Store`, `Finish`, `Die` |
| `Connector` | the pull of one source of any kind, by `sync` and by `status` | `StartPull`; `Clone`, `CloneRefuses`, `SetSparse`, `Checkout`, `LockRefuses`, `Pull`, `PullFails`, `NetworkFails`; the pull of `status` file by file (`StartMerge`, `Unlinks`, `Writes`, `FinishMerge`); `ListTree`/`ListFolder`/`ListBucket`, `ReadFile`/`Download`/`GetObject`, `ReadFails`, `ApiFails`, `Pulled`; `Kill`; `Edit`, `Rewrite` upstream, `Repoint`, `Reconfigure` |
| `LlmGate` | documents through the LLM transformer and `_apply` | `Transform`, `Answer`, `Unparseable`, `Decline`, `Raise`, `Apply` |
| `SourceRun` (extends `Connector`, `LlmGate`) | runs of one source, from the pull to the sweep | those of both; `PassThrough`, `AskWorker`, `Work`, `AllDecided`, `RunDies`, `Finish` |
| `WriteBack` | concurrent sessions' proposals | `Propose`, `Resolve`, `Locate`; one per git command (`Clone`, `AddWorktree`, `Commit`, `RemoveWorktree`, `Push`, `CleanUp`); `OpenSuggestion`, `Suggest`; `Refuse`, `Allow`; `Fault`, `Kill` |
| `Traversal` | `follow_links` | `Walk` one document of the frontier, `NextHop` |
| `Reading` (extends `Traversal`) | one read of a session: `effective_scopes`, `visible_to`, and the walk on the view they give | `Take` a document, `Climb` a directory, `Found`, `VisibleTo`, `Call`, `Follow` |
| `Search` (extends `Reading`) | the other tool on that view: `search_concepts`, while generations change | `Rank`, `Augment`, `Skip`/`Fetch` a candidate, `Answer`, `Raise` |

`Sync` and `Embeddings` are built on `Ledger`; `Serving` composes the publisher
of `Generations` with a reader; `SourceRun` composes a connector with a
transformer and the application of what they give; `Reading` composes the load of
a bundle with the walk of `Traversal`, and `Search` gives a session both tools.
`Sync` has the ledger in full and several sources, which either answer or fail;
`SourceRun` has one source with all its ways to fail, and a ledger that is a
version of each document.  `MC<module>` holds the definitions that instantiate a
module for TLC, and `MC<module>.cfg` or `MC<module>_<question>.cfg` one question;
`<module>Proofs` holds its theorems (those of `Serving` are in `GenerationsProofs`,
those of `Connector` and `LlmGate` in `SourceRunProofs`, those of `Traversal` in
`ReadingProofs`).
Definitions named for another one (`CreateWithoutExcl`, `SweptAlways`, ...) are
mutations: plausible mistakes that the properties must notice.  No specification
uses them.

What is abstracted: contents, documents and vectors are values that are only
compared; text, formatting and logging are left out; a search knows of a document
its score and whether it fits the facets, and of a vector its similarity to the
query; a commit is what each document holds in it; time is an age up to a
horizon; the revision of a document decides nothing and is left out; entries
written before hashes existed are not modelled.

Several histories are kept in variables only the properties read: `lapses` in
`SyncLock` (why a live process lost its lock file) and in `Sync` (the four
things after which the ledger can be wrong), `published`, `pruned` and `snap` in
`Generations`, `pin` (what the served index was built from) in `Serving`, `truth`, `lost` and `clash` in `Watch`, `held`
(the contents a concept had), `passed` (under which hash another content came in
or was written), `bare` (live documents left without a file) and `fresh` (no sync
since the last hook) in `Embeddings`, `during` (what each document was upstream since the run began) and
`lapses` (what a pull cannot be trusted after) in `Connector`.  In `Search`,
`read` keeps the generations a call has read.

**The refinement.**  `Publication` knows nothing of directories, pointers or
file-system calls.  `Serving` implements it (`ImplementsPublication`) under this
mapping: the `releases` are the plain root and the published generations, each
with the tree that was published; those prune has not picked yet are `kept`;
`latest` is CURRENT; `served` and `shown` are what the index was built from and
what it holds; the server believes itself `fresh` when the token it keeps is the
pointer's.  Of a page that may be a hard link only its presence is mapped
(`Promised`), since the next run writes into it.  Every step of staging, writing,
validating, pruning and building is a stutter; the flip is `Publish` and the swap
is `Load`, which the abstract specification allows of a kept release whole, or,
without `fresh`, of what is left of one that was dropped while the server read
it; never of one older than what is shown but the plain root, and never with
`fresh` unless it is the latest.  Its liveness, `CatchesUp`, is implemented too:
with hot reload an index that lacks pages does not stay.

## 3. Runs

| Run | Bounds | Shows |
|---|---|---|
| `lock` | 2 processes, 2 kills, pids reused | As long as no live acquirer lost its file, at most one process syncs; the pid probe never steals; release is never the first thing to go wrong; acquire always returns; an abandoned lock is reclaimed, even if its pid is alive again (`LockProgress`) |
| `sync` | 2 sources, 3 documents, 2 contents of which one fails to transform, 2 edits, 1 death (anywhere: while a concept is written, among the removals of a sweep, in the save of the ledger) | The ledger tells the truth between runs until a lapse happens; documents that could not be seen keep their concepts; documents that are there are never swept; identity follows content |
| `sync_converge` | 3 documents with contents of their own, one of a reserved name, 1 edit, 1 death, 1 manual sync | The tree comes to mirror every source and stays so, unless a lapse happened |
| `generations` | 4 generations, keep 2, 1 kill, every file a hard link | CURRENT resolves; the disk is bounded; without kills the last published generations stay |
| `serving` | 2 generations, keep 1, linked or copied, 2 concepts of which one has a twin in another bundle, a hot-reloading server | Publisher and server implement `Publication`: an index is one published tree, whole unless that tree was pruned under the build, and then the server knows that it is behind; it keeps what it has where a release cannot be loaded, and catches up |
| `watch` | 2 sources, intervals 3 and 2, tick 1, 2 kills or exceptions, two other processes, each a manual sync or a timer's tick with the state file in its memory | No source is synced early, unless two watchers overlap; no stamp claims a sync that was not; a request to stop is answered; every source comes round again and again |
| `embeddings` | 2 documents, 2 contents, 2 models, 4 edits (deferred, applied, failed before or after an adoption, renamed, withdrawn, or killed half way), 1 switch of model, 1 death, generations may be turned on | A row is of the model of its key, and of its text or of one that is named with its cause; when a hook ends every entry it has a text of has a row, and its concept is found by a vector of its own (`FindsItsOwn`), whatever deaths came before |
| `source` | 2 documents, 2 versions, Drive pages of 1 file; sources of each kind in turn, with at most 2 edits and 1 fault (git, S3), 1 edit, 1 fault and a `status` that replaces files one by one beside the sync (git), 1 edit and 1 fault (Drive), or 3 attempts of a worker that answers anything and raises once (S3) | Unless a lapse happened, a pull returns each document as the source had it during the pull; what has no `needs_human` passed the gate; the tree comes to be what the source holds; every document is decided |
| `writeback` | 2 sessions, 3 calls, 6 upstreams: clones with and without an origin, a url, and three documents without branches of which two share the name of their suggestions; 1 exception, 1 kill, 1 worktree that stays | Answers are audited once; what an answer names is kept; a denied call leaves no commit and worktrees are temporary (`NothingLeftBehind`) |
| `reading` | of 3 concepts every graph and view, at depths 0 to 3; every set of qualified and dangling links of two of them; every way to fill the scope fields of one, and to put it anywhere in 3 nested directories, beside one with or without a field; every score (up to 2) and fit of two of them, 4 stores of vectors, limits 1 to 3, up to one newer generation of two | The nearest setting decides what a session sees; follow_links reports the view's concepts within the depth, at their shortest distances, and nothing else; search_concepts ranks keyword hits first, then the nearest, within limit and view, and leaves nothing nearer out; the call ends, however often the index is swapped under it |

### Where the code and its documentation part

Two runs end in a violation.  Each checks one sentence of the repository against
what the code does, and PROJECT.json quotes the sentence under `findings`:

- `sync_copies`: two sources that hold the same document and are due at different
  times trade one concept for ever (`ingest/cli.py:346`).
- `generations_untouched`: staged files are hard links to published ones and are
  rewritten in place, so a run changes the generation that is being served
  (`ingest/generations.py:87`).

The other places where the models do something the documentation rules out are
named by the properties themselves, as the lapse or the condition that excuses
them:

| Code | What it does | The documentation | Where it is excused |
|---|---|---|---|
| `ingest/scheduler.py:238`, `:260` | An unstamped lock counts as stale, and a judged lock may have been replaced when it is unlinked: two syncs overlap | `docs/usage.md:527-528` "two syncs never race the same knowledge root" | `lapses` in `GuardedExclusion` |
| `ingest/ledger.py:109` | A document of one source adopts the entry of a failed one | `docs/usage.md:211-213` "one source raising an error never blocks or corrupts another source's update" | `KeepsWhatItCannotSee` allows adoption |
| `ingest/cli.py:357` | A new document at a renamed one's path shares its file | `ingest/cli.py:5-7` "mirror sources into the knowledge tree" | lapse of `Sync` |
| `ingest/cli.py:555` | The ledger is saved once, at the end: a file written by a run that died can be nobody's | the same | lapse `torn` of `Sync`; `passed` and `bare` of `Embeddings` |
| `ingest/ledger.py:61` | The save truncates `ledger.yaml` before it writes: a kill in between leaves an empty ledger, which `load` takes for a valid one (`:52`), and concepts nobody owns | the same | lapse `torn`; `DieSaving` of `Embeddings` |
| `ingest/cli.py:348` | A failed document keeps the entry it adopted | `ingest/cli.py:365` "ledger keeps the old state" | lapse of `Sync` |
| `ingest/cli.py:784` | A manual sync loads the ledger before it takes the lock, and saves over a tick | `ingest/cli.py:810-811` the lock "serializes `sync` against any concurrent `watch` tick" | lapse of `Sync` |
| `ingest/generations.py:87` | The first generation is staged by links to the plain layout, which the run then writes through | `ingest/cli.py:608-609` "nothing under `root` outside `generations/` is written" | `Promised` of `Serving`: of linked pages only that they are there |
| `ingest/generations.py:152` | Directories of killed runs count among the kept, and published ones go | `ingest/generations.py:144` "beyond the most recent `keep`" | `RetainsPublished` (of `RetentionHolds`) asks for no crash |
| `knowledge.py:71` | A generation pruned during the lookup resolves to the plain root | `knowledge.py:75-78` "the CURRENT generation when `root` publishes generationally" | `Publication` lets the plain root be shown, but never as `fresh`: the next call recovers |
| `knowledge.py:91`, `parser.py:81` | A generation pruned after its `index.md` was seen is walked all the same: an index without some pages, or with none, is built and served, and without hot reload it stays for the life of the process | `server.py:90-92` "pinned to whatever `generations/CURRENT` resolves to at that moment" | `TakeLeftovers` of `Publication`, never `fresh` |
| `ingest/generations.py:120`, `index.py:51` | A staged tree in which a concept id is there twice is published; every start, and with hot reload every call, then raises | `docs/usage.md:453-458` a run that fails the check "is discarded before the pointer is ever touched: the previous generation is untouched and keeps serving" | `Servable` in `CatchesUp` of `Publication` |
| `ingest/scheduler.py:451` | A timer and a loop on one root each save their own memory over the other's stamps, outside the lock: sources are synced early | `docs/usage.md:535-536` "retried on its own next cadence" | `clash` in `NeverEarly` |
| `ingest/scheduler.py:384` | An exception that is neither `LockHeld` nor `SourceError` ends the loop | `ingest/scheduler.py:4-5` "one source's failure never stalls the schedule" | `EverySourceSynced`: `MaxLosses` bounds them |
| `embeddings.py:357` | A document whose new content failed, or that `--since` deferred (`ingest/cli.py:319-328`), stores its new vector under the old hash | `embeddings.py:332` "a mismatched vector never enters the store" | `passed` in `RowsKeepContent` (of `RowsKeepKey`) and `FoundIsOwn` |
| `embeddings.py:371` | A removed entry that a document adopts before its transform fails (`ingest/cli.py:348`), and one whose sweep was killed, is live without a file, and has no row | `docs/usage.md:360-361` "embeds every synced concept's body" | `bare` in `NoText` |
| `ingest/llm.py:46` | A `pii_flag`, `needs_human` or `gate_findings` that the worker writes itself is not stripped, and reaches the tree | `ingest/llm.py:184` "stamped by code, never by the model"; `writeback.py:34-35` "Fields only the pipeline may set" | `flagged` in `Draft`: `OutputIsGated` reads what the loop found, not what the worker says |
| `ingest/cli.py:556` | With generations the hook reads bodies from the plain layout, which no run writes | `docs/usage.md:360-361` "embeds every synced concept's body" | `NoText`, `generational` |
| `embeddings.py:369` | With generations, the text of a concept's earlier content is embedded under the hash of its new one, and the row is reused for another concept that has this content: it is found by text it never had | `embeddings.py:332` "a mismatched vector never enters the store" | `generational` in `RowsKeepContent`, `FoundIsOwn` |
| `embeddings.py:237` | Rows of earlier contents keep their concept, and the last inserted wins: after a document goes back, a stale vector is found | `docs/usage.md:364-365` "reuse their existing vector" | `FoundIsOwn` (of `FindsItsOwn`): a content the concept *has or had* |
| `embeddings.py:369` | One row has one concept: of two documents with one content only one is found | `docs/usage.md:360-361` | `OwnContentFound` (of `FindsItsOwn`) |
| `server.py:149` | The server asks for the default model, whatever is configured | `docs/usage.md:365-366` "re-embeds everything under the new model's own key" | `model = Served` |
| `ingest/cli.py:390` | Any other exception of the LLM client ends the run, and the rest of the source is undecided | `ingest/cli.py:380-382` "Returns a failure line, or None on success" | `EveryDocDecided` lets a later run decide |
| `ingest/cli.py:399` | A draft without a `type` is quarantined when the attempts are exhausted | `docs/usage.md:333-334` "then the output is synced" | `Apply` |
| `server.py:396` | A call that ends in any other exception leaves no entry | `docs/usage.md:629` "every call — allow or deny — is audit-logged" | `AnsweredIsAudited` |
| `writeback.py:147` | For a URL source a failed push is answered, and the branch is deleted with the clone | `server.py:375-376` "the proposal becomes a branch in the sector's repo" | `AnswersAreKept` |
| `writeback.py:141` | A worktree that cannot be removed denies a call that has committed | `writeback.py:39-40` | `stuck` in `DeniedLeavesNoCommit` (of `NothingLeftBehind`) |
| `writeback.py:126` | A post-checkout hook that fails leaves the branch and the worktree it ran in | the same | `stuck`, by `AddWorktree` |
| `writeback.py:166` | Two URIs that differ in separators only share a file name: within one second the later suggestion takes the place of the earlier, whose answer names it | `server.py:378` "non-git sources get a recorded suggestion artifact" | `OnFile` asks for a suggestion of that name, `Reopened` for none while the file is opened again |
| `ingest/sources.py:208` | A first clone that was killed, or whose patterns could not be set, has a `.git`: the next run pulls into it, and takes what its HEAD, index and sparse patterns then give | `docs/usage.md:535-536` "simply retried on its own next cadence" | lapses `unfinished` and `locked` of `Connector` |
| `ingest/sources.py:210` | The clone keeps the url and the patterns it was made with when `url` or `paths` are configured anew | `ingest/sources.py:209-210` "Partial-clone filter and sparse-checkout patterns persist in the clone's config" | lapses `moved`, `reconfigured` |
| `ingest/sources.py:211` | After the branch was rewritten every pull fails, until someone removes the clone | `docs/usage.md:535-536` | lapse `rewritten` |
| `ingest/drive.py:135` | Only the first page of a folder is listed: the rest look removed, and are swept | `ingest/drive.py:3-4` "a configured Drive folder is enumerated" | lapse `page` |
| `ingest/cli.py:579` | `status` pulls into the same clone without the lock: a sync that lists or reads while git replaces a file misses it, and sweeps its concept | `docs/usage.md:527-528` | `during` admits what either pulled; lapse `beside` of `Connector` |
| `server.py:286` | With hot reload one search reads several generations, or raises in the middle | `server.py:94-96` "in-flight tool calls that already read `self.index` keep the object they read" | `from` in `AnswerHolds`; `Len(read) = 1` in `AnswerIsComplete` |

### Why the bounds are enough

Two processes make every race of the lock (the proof holds for any number).  Two
documents make every collision of concepts, a third one in another source every
collision across sources; two contents make a change and a copy.  Two edits
suffice for a rename and the re-creation of the old name, since an edit may fall
between any two steps of a run and runs are not bounded.  The `sync` run stops
at the first lapse (`NoLapseYet`), after which its properties claim nothing.
Four generations are two more than are kept, so that pruning goes on after a
kill; with keep 1 a second flip prunes what a server reads, at any step of a build.  A run writes one
concept, so a release with the twin follows one without it, and the other way
round; the plain layout has the other concept where files are copied and not
where they are linked, and a concept of the first generation is linked into the
second either way.  Three calls let one suggestion be opened again by another session's call and once
more after that.  Three concepts make every cycle, diamond and second hop a walk can meet;
a third directory puts a default between two others.  Graphs, links, scopes and
searches vary one after the other in `reading`, since a tool reads the load's
result only as a set; a limit of 3 leaves nothing out, limits of 1 and 2 are
reached, by keywords or by candidates.  In `source` two edits make a document
change and come back, or change after the configuration did; one fault is enough
to leave a clone at every step of its making, since what follows it is
unbounded; a page of one file overflows with the second.  Versions are compared
per document only, so that documents may start alike (in `sync_converge`, the one
that may change starts with the first of its two contents or without), and a gate's answers vary
only where the listing does not.  Kills, deaths, faults and losses are bounded
by counters because each one only starts a run over; the counters are constants
named `Max...`.  Symmetry is used for sets whose members the module never tells
apart, and never in a run with liveness.

Deadlock is checked everywhere but where the system does stop: a read and a
fixed number of proposals come to an end (`CHECK_DEADLOCK FALSE` in
`MCReading.cfg` and `MCWriteBack.cfg`).

### Fairness

`SyncLock`: every live process goes on (the system's scheduler), watch loops
keep ticking, and stamps age.  `Sync`: a run goes on; sources become due and
answer infinitely often (the loop's interval, and a source that never answers
again cannot be mirrored).  `SourceRun`: runs are started again and again and go
on, the git commands of a `status` too, and a call to the worker returns or
raises. `Serving`: a run that began goes on, builds go on, the server is
restarted and calls keep coming; no run has to be started.  `Watch`: the loop's
steps, its restart by the service manager and time go on, and other processes
release the lock.  `Search`: the load and the call go on.  No fairness is asked
of edits, signals, kills, failures or new generations.

## 4. Proofs

TLC shows a property on the instances above; the theorems say it for every value
of the constants: any number of processes, documents, contents, generations,
sessions and concepts, any bounds.

| Theorem | Says |
|---|---|
| `SyncLockProofs!TypeCorrect`, `GuardedExclusionHolds`, `LossesAreLapsesHolds` | The safety of the lock, for any set of processes, kills and reused pids |
| `SyncProofs!TypeCorrect`, `LedgerIsTruthful` | The ledger on disk agrees with the tree until one of the four lapses |
| `SyncProofs!UnseenIsKept`, `PresentIsSpared`, `IdentityIsKept` | The action properties of a run: which steps may touch the concept of a document it cannot see, or has just pulled, and when an entry may lose its concept |
| `GenerationsProofs!TypeCorrect`, `CurrentAlwaysResolves` | CURRENT names a directory with a bundle, however runs stage, fail, die and prune |
| `GenerationsProofs!RetentionAlwaysHolds` | The disk is bounded for any `generations_keep`, and without kills the last published generations stay |
| `GenerationsProofs!ServingTypeCorrect`, `ImplementsPublicationSafety` | The server's variables keep their types; runs and a hot-reloading server implement `Publication!Safety`, with hard links and with copies |
| `WatchProofs!TypeCorrect`, `NeverYoungerHolds`, `NeverEarlyHolds` | The schedule: no stamp without its sync, no source early, for any sources, intervals, kills and other processes |
| `EmbeddingsProofs!TypeCorrect`, `RowsHold`, `EmbedsEveryEntry`, `LookupsFindTheirOwn` | The store: what a row holds besides the text of its key and why, what an ended hook leaves, what a lookup finds |
| `SourceRunProofs!RunTypeCorrect`, `OutputGated`, `PulledHolds` | What gets past the gate, and what a pull returns, for every kind of source, a `status` that replaces files meanwhile included |
| `WriteBackProofs!TypeCorrect`, `AnswersAreAudited`, `AnswersHold`, `LeavesNothingBehind` | The answers, the audit log, the suggestion files and the sectors, for any number of concurrent calls and whatever documents share a file name |
| `ReadingProofs!TypeCorrect`, `ReportIsRightHolds`, `DistancesHold` | What follow_links reports is in the view, led to hop by hop, misses nothing, and is at its shortest distance, over any graph, view and depth |
| `ReadingProofs!ReadingTypeCorrect`, `ScopesDecide`, `ViewReportIsRight`, `ViewDistancesHold` | The same of a session: the nearest scope decides what it sees, and the walk and its distances are right on that view |
| `ReadingProofs!AnswersHold`, `AnswersAreComplete` | What search_concepts answers, for any bundle, scores, vectors and limit, with any number of generations read on the way |

They rest on the named assumptions of the modules and on nothing else: markers
like `None`, `Absent` or `Nothing` are none of the values they stand beside
(`FieldAssumption`, `NothingAssumption`), bounds are numbers (`BoundsAssumption`),
a root's documents are finitely many (`UrisAssumption`), directories are
sequences of names, with each one's parent (`DirectoriesAssumption`).  TLC
evaluates them in every run.

The inductive invariants:

- **Lock.** `GuardedExclusion` is not inductive: a process that is about to
  reclaim must be known to have judged the file that is still there. `IInv` adds
  whose file is linked and in which state its creator left it (`LinkedFile`),
  what each step of acquire knows (`Locals`), and that what was read of a file
  that is still the same is still true (`ReadStillHolds`).
- **Sync.** `LedgerTellsTruth` speaks of the file between runs.  `SInv` says that
  the ledger in memory agrees with the tree after *every* step of a run, and is
  the one on disk between runs; agreement needs that entries have concepts of
  their own (`Distinct`) and owners that match (`Owned`), or a sweep of one
  source could remove another's file.  The action properties follow step by step
  from `SInv`: what a sweep removes belongs to a source that answered with some
  document, and what is written belongs to a document of the source being applied.
- **Generations.** `StagedInv`: the tree under construction is the newest and
  was never published, what is being deleted is never CURRENT, and what is about
  to be published has a bundle.  `RetentionInv` counts: a run adds one directory,
  a prune leaves `Keep`, a kill leaves one more; while there was no kill every
  directory was published or is being worked on, so that whatever is pruned has
  `Keep` publications after it.
- **Serving.** `ShownInv`: what is kept is not being deleted, and a kept tree has
  just the paths it was published with; where files are copied each tree has
  inodes of its own, so that a published one also keeps its contents.  The lemma
  `Frame` says which trees a step can write to.  Over it, `Whole`: copied trees
  have no half-written file but the one being written; `Fresh`: no number is
  published twice; `BuildInv`: a build reads one published tree, not older than
  what is served but for the plain root, and CURRENT's if its token is still the
  pointer's; `ReadInv`: what it has read is of that tree, and it misses no page as
  long as the tree is kept.  A tree that was pruned is not the one CURRENT names,
  so that a build that may have missed pages never ends with a fresh token.  Then
  each step is mapped: the flip to `Publish`, the swap to `Load`, every other step
  to a stutter.
- **Watch.** `NeverEarly` needs to know that memory, file and tick agree with what
  really happened (`truth`) as long as no two watchers have met and nothing was
  lost (`Accord`), and which steps the agreement is suspended for: the file
  between a sync and its save, the sources being synced themselves.
- **Source run.** `PullInv`: how HEAD, index, sparse patterns and working tree of
  the clone stand to the remote between any two git commands (`GitInv`), which
  pullers are at work in it (`CloneInv`), and that what sync has read so far the
  source had during the pull (`FreshHead`, `FreshTree`, `ReadRightly`), the last
  three only until a lapse.  While a `status` merges, each file is HEAD's or the
  fetched commit's, and if sync reads meanwhile both are of this pull
  (`MergeRightly`); a file that is being replaced is nobody's, which is the lapse
  `beside` for the sync that comes upon it.  `GateInv`: an unflagged document that is about to be
  applied has passed with no finding left over from an earlier attempt.
- **Write-back.** `CallsInv` keeps calls apart (nothing is audited before it is
  answered), `WorkInv` says for each git step what the branch holds and whether
  an exception is on its way, and `LeftInv` counts the worktrees nobody is going
  to remove, by the kills and the worktrees that failed.  `FilesInv`: a suggestion
  file belongs to the call that made it, what is in it was written by a call of
  its name, and one that is empty was opened by a call that is about to write it
  or was cut short.
- **Embeddings.** `LedgerInv`: live entries have concepts of their own, an
  entry's file and document have its content or one that `passed` names under its
  hash, and without generations an entry without a file is `bare`; `RowsInv`: a
  row is of a content its concept has or had, or of one that passed for it, and
  the rows are finitely many with ids up to their number, so that the last
  inserted is well defined; `DoneInv`: an entry the hook has come to has a row,
  or is queued, or has no text, which is `EveryEntryEmbedded` when the queue is
  empty; `QueueInv` relates entries, texts and queue.
- **Reading.** Where every met concept stands: those of the frontier one hop
  back, those of the next frontier at this hop (`Frontiers`), those seen are
  those met (`SeenIsMet`), and the visible targets of what has been walked were
  met in time (`Walked`), which is `NothingMissed` once the walk is done.  Of the
  load, `ClimbInv`: no directory below the one looked at has a say on the
  document, so that what the climb finds is of the deepest one that has
  (`ScopesOf`, `ResolvedInv`), and the root, where it stops, has none above it.
  For the distances, `DistanceInv`: every met concept is at the end of a path of
  as many links as its hop, and no path shorter than this hop ends at a concept
  not met; a path is cut off at its first unmet concept to show it.
- **Search.** `AnswerInv`: every hit fits in the generation it was read from, the
  reads only grow, and a hit that is none of the keywords is there only when all
  of those are (`HitsInv`); as long as one generation was read, every concept of
  the store that fits is still a candidate or already a hit (`Offered`), and no
  candidate left is nearer to the query than a hit that was taken
  (`NearestFirst`).

The proofs changed the models in places.  `FoundIsOwn` was false with generations
on, one edit beyond the bound of its run: the property now excuses it (the table
in section 3) and the run has four edits.  The types of directories, of searches
and of stores and the markers' distinctness, which the instances had anyway, are
now assumptions.  Two definitions are stated without recursion over data, which
the prover cannot follow: `ShortestInView` compares with the paths of the view,
and `Ranked` is what the code's sort guarantees, a sequence of all that has a
score in which each is ahead of what follows.

Only model-checked, and why:

- liveness (`LockProgress`, `Converges`, `EverySourceSynced`, `RequestStops`,
  `Recovers`, `EveryDocDecided`, `CallEnds`, and `CatchesUp` of `Publication`):
  fairness and ENABLED are out of the prover's reach;
- the two properties the code violates.

## 5. Not modelled

The draft loop of proposals, authentication, the text checks of the validator,
the parser, prompts and PII patterns: stateless, or input and output.  Of the
connectors, a `url` that is itself a local checkout (read in place, never
pulled) and sidecar files beside documents (what they carry is imported in
`Embeddings`).  Hazards that no property covers (PROJECT.json,
`hazards`): a clock that steps back, and a stale vector that is found after a
document went back (`embeddings.py:237`), which the code does not prevent.  The bundles of a root are one in the
models, but for the concepts another one may hold as well (`Twins` in
`Serving`); two loops are a loop and the ticks of a timer.  Smaller hazards are
not listed there: a ledger at a configured path, a schedule of zero (taken for
none, `ingest/scheduler.py:128`), and LLM findings of an answer that did not parse
beside the draft of the one before (`ingest/llm.py:109`).  Coarser than the code:
a root links all files of a generation or copies all (`_hardlink_or_copy` decides
for each); a ledger a kill left half-written is an empty one, not a part of the
YAML, which may also not parse and then fails every run; a document that was
written half by a killed run is some content to the embedding hook.

## 6. Plan

The order was: what guards everything (`SyncLock`), what everything is about
(`Ledger`, `Sync`), what is published and read (`Generations`, `Serving`), when
it happens (`Watch`), then the store, the transformer, write-back and reading,
and after these what a source may do to a run (`Connector`, `SourceRun`), what a
reader is promised (`Publication`), and the search (`Search`).

Next, in the proofs, the most useful first:

1. A mutual exclusion with revocation, as an abstract specification, and its
   safety implemented by `SyncLock`: who holds the right to sync, and which
   steps take it away.
2. A mirror, as an abstract specification, and its safety implemented by `Sync`
   between lapses: after a run the tree holds what the applied sources had.
3. `CallsInv` of `WriteBack` as an action property: a session's steps change
   nothing of another session's call.

Next, in the model: several target bundles of one run; a clock that steps back.
