----------------------------- MODULE Embeddings -----------------------------
(***************************************************************************)
(* The embedding store (okf_mcp.embeddings), the hook a sync runs right    *)
(* after it saved its ledger, and what the server looks up in the store.   *)
(*                                                                         *)
(* A row is keyed by content hash and model and names one concept.  A      *)
(* vector is modelled by the model that made it and the content it was     *)
(* made of.  A lookup for concept ids reads rows in the order they were    *)
(* first inserted, and a later row of the same concept wins.               *)
(*                                                                         *)
(* What a sync does to the ledger and to the tree is given as the outcome  *)
(* for one document at a time (the steps of a run are in Sync), that of a  *)
(* run that is killed before or while it saves its ledger included.  No    *)
(* two live documents project to one concept here (that they can is shown  *)
(* in Sync).  A generational run that dies is thrown away whole (see       *)
(* Generations) and is left out.                                           *)
(***************************************************************************)
EXTENDS Ledger

CONSTANTS
  HomeOf,       \* the concept a new document projects to
  Models,       \* embedding models
  Served,       \* the model the server asks the store for
  HardLinks,    \* a generation is staged by hard links
  NoRow,        \* "no row under this key"
  None,         \* no document, no file, no vector
  MayTurnOn,    \* the operator may turn generations on
  MaxEdits,     \* bound: documents changed upstream
  MaxSwitches,  \* bound: changes of the configured model
  MaxDeaths     \* bound: syncs and hooks that are killed, hooks that raise

VARIABLES
  docs,         \* the documents of the latest pull that came to a hook
  ledger,       \* the ledger the latest sync saved
  tree,         \* the concept files the latest sync wrote
  plain,        \* the concept files under the root's own bundles/
  shared,       \* concepts whose file in both is one inode
  generational, \* generations are turned on
  model,        \* the model of the embeddings: block
  rows,         \* the store
  phase,        \* where the hook is: idle, walk or store
  todo,         \* entries the walk has not come to
  batch,        \* texts to encode, with the key and concept of each
  quarantined,  \* documents with an artifact under quarantine/vectors
  fresh,        \* history: the latest hook ended and nothing changed since
  held,         \* history: the contents each concept has had
  passed,       \* history: <<hash, content>> of an entry whose document was
                \* pulled, or whose file was written, with another content
  bare,         \* history: live documents left without a file
  edits, switches, deaths    \* counters of the bounds

treeVars == <<docs, ledger, tree, plain, shared, held, passed, bare, edits>>
hookVars == <<phase, todo, batch>>
vars == <<treeVars, generational, model, rows, hookVars, quarantined, fresh,
          switches, deaths>>

-----------------------------------------------------------------------------
Vector == [model : Models, of : Contents]
Row == [concept : Concepts, vector : Vector, id : Nat]

ASSUME ServedAssumption == Served \in Models
ASSUME HomeAssumption == HomeOf \in [Uris -> Concepts]
ASSUME MarkerAssumption ==
  NoRow \notin Row /\ None \notin Contents \cup Vector

ASSUME BoundsAssumption ==
  MaxEdits \in Nat /\ MaxSwitches \in Nat /\ MaxDeaths \in Nat

Live == {u \in Uris : Active(ledger, u)}
Has(sha, m) == rows[sha][m] # NoRow
RowCount == Cardinality({k \in Contents \X Models : Has(k[1], k[2])})

\* The insert or replace of EmbeddingStore.upsert; a row keeps its place.
Upsert(sha, m, concept, vector) ==
  rows' = [rows EXCEPT ![sha][m] =
             [concept |-> concept, vector |-> vector,
              id |-> IF Has(sha, m) THEN rows[sha][m].id ELSE RowCount + 1]]

SetConcept(sha, m, concept) ==
  rows' = [rows EXCEPT ![sha][m].concept = concept]

\* EmbeddingStore.vectors_for, for one concept.
RowsOf(m, concept) ==
  {sha \in Contents : Has(sha, m) /\ rows[sha][m].concept = concept}
VectorFor(m, concept) ==
  IF RowsOf(m, concept) = {} THEN None
  ELSE LET last == CHOOSE sha \in RowsOf(m, concept) :
                     \A other \in RowsOf(m, concept) :
                       rows[other][m].id <= rows[sha][m].id
       IN  rows[last][m].vector

\* The hook is called with the true root, also when generations are on.
HookTree == IF generational THEN plain ELSE tree

\* _read_body: the text of the concept of a document, if its file is there.
Body(u) == HookTree[ledger[u].concept]

Init ==
  /\ docs = [u \in Uris |-> None]
  /\ ledger = EmptyLedger
  /\ tree = [c \in Concepts |-> None]
  /\ plain = tree
  /\ shared = {}
  /\ generational = FALSE
  /\ model = Served
  /\ rows = [sha \in Contents |-> [m \in Models |-> NoRow]]
  /\ phase = "idle"
  /\ todo = {}
  /\ batch = {}
  /\ quarantined = {}
  /\ fresh = FALSE
  /\ held = {}
  /\ passed = {}
  /\ bare = {}
  /\ edits = 0
  /\ switches = 0
  /\ deaths = 0

-----------------------------------------------------------------------------
\* The outcomes of a sync, document by document.

\* Path.write_text truncates the inode the path leads to.
WriteConcept(c, sha) ==
  /\ tree' = [tree EXCEPT ![c] = sha]
  /\ plain' = IF generational /\ c \notin shared THEN plain
              ELSE [plain EXCEPT ![c] = sha]
  /\ held' = held \cup {<<c, sha>>}

EditOnly ==
  /\ phase = "idle"
  /\ edits < MaxEdits
  /\ edits' = edits + 1
  /\ fresh' = FALSE
  /\ UNCHANGED <<generational, model, rows, hookVars, quarantined, switches>>

\* The run ends; its hook is next.
Edit == EditOnly /\ UNCHANGED deaths

\* The run is killed: what it did to the ledger is lost.
Killed ==
  /\ EditOnly
  /\ ~generational
  /\ deaths < MaxDeaths
  /\ deaths' = deaths + 1

Taken(u, c) == \E w \in Uris \ {u} : Active(ledger, w) /\ ledger[w].concept = c
HasFile(u) == tree[ledger[u].concept] # None

\* The prior entries that a document may take over.
Priors(u, sha) ==
  IF Known(ledger, u) THEN {}
  ELSE MatchBySha(ledger, sha, {w \in Uris : docs[w] # None})

\* Neither deferred nor unchanged.
Due(u, sha) ==
  Active(ledger, u) => ledger[u].sha # sha \/ ~HasFile(u)

Home(u) == IF Known(ledger, u) THEN ledger[u].concept ELSE HomeOf[u]

\* The latest pull has this content for the document.
Pulled(u, sha) == docs' = [docs EXCEPT ![u] = sha]

\* Its entry keeps the hash it had.
PassOver(u, sha) ==
  passed' = IF Known(ledger, u) /\ ledger[u].sha # sha
            THEN passed \cup {<<ledger[u].sha, sha>>} ELSE passed

\* Nothing to do, or --since puts it off: neither entry nor tree is touched,
\* while a vector the document came with is passed on to the hook.
Defer(u, sha) ==
  /\ Edit
  /\ Active(ledger, u)
  /\ Pulled(u, sha)
  /\ PassOver(u, sha)
  /\ UNCHANGED <<ledger, tree, plain, shared, held, bare>>

\* A document is new, changed, back or without a file: it is applied and
\* recorded.
Project(u, sha) ==
  /\ Edit
  /\ Due(u, sha)
  /\ Priors(u, sha) = {}
  /\ ~Taken(u, Home(u))
  /\ Pulled(u, sha)
  /\ \E s \in Sources : ledger' = Record(ledger, u, s, Home(u), sha)
  /\ WriteConcept(Home(u), sha)
  /\ bare' = bare \ {u}
  /\ UNCHANGED <<shared, passed>>

\* ... or its transform fails: last known good.
FailTransform(u, sha) ==
  /\ Edit
  /\ Due(u, sha)
  /\ Priors(u, sha) = {}
  /\ Pulled(u, sha)
  /\ PassOver(u, sha)
  /\ UNCHANGED <<ledger, tree, plain, shared, held, bare>>

\* A known document comes back, or goes on, under a new URI, which takes over
\* the entry ...
TakeOver(old, u) ==
  /\ Edit
  /\ ~Known(ledger, u)
  /\ Known(ledger, old)
  /\ old \in MatchBySha(ledger, ledger[old].sha,
                        {w \in Uris \ {old} : docs[w] # None})
  /\ docs' = [docs EXCEPT ![old] = None, ![u] = ledger[old].sha]
  /\ ~Taken(old, ledger[old].concept)
  /\ ledger' = Adopt(ledger, old, u)
  /\ UNCHANGED <<shared, passed>>

\* ... and is applied.
Rename(old, u) ==
  /\ TakeOver(old, u)
  /\ WriteConcept(ledger[old].concept, ledger[old].sha)
  /\ bare' = bare \ {old}

\* ... or fails to be: the entry is live, with the file it had, or with none
\* if it was removed.
AdoptThenFail(old, u) ==
  /\ TakeOver(old, u)
  /\ bare' = IF HasFile(old) THEN bare ELSE (bare \ {old}) \cup {u}
  /\ UNCHANGED <<tree, plain, held>>

\* The document is gone; the sweep takes its concept out of the tree.
Unlink(c) ==
  /\ tree' = [tree EXCEPT ![c] = None]
  /\ plain' = IF generational THEN plain ELSE [plain EXCEPT ![c] = None]
  /\ shared' = shared \ {c}

Withdraw(u) ==
  /\ Edit
  /\ Active(ledger, u)
  /\ Pulled(u, None)
  /\ ledger' = [ledger EXCEPT ![u].removed = TRUE]
  /\ Unlink(ledger[u].concept)
  /\ bare' = bare \ {u}
  /\ UNCHANGED <<held, passed>>

\* The run is killed after, or while, it wrote the file of a document: text is
\* what has reached it.
DieWriting(u, sha, text) ==
  /\ Killed
  /\ Due(u, sha)
  /\ \E c \in {Home(u)} \cup {ledger[w].concept : w \in Priors(u, sha)} :
       /\ ~Taken(u, c)
       /\ WriteConcept(c, text)
       /\ passed' = passed \cup
            {<<ledger[w].sha, text>> :
               w \in {v \in Uris : Known(ledger, v) /\ ledger[v].concept = c}}
  /\ UNCHANGED <<docs, ledger, shared, bare>>

\* ... after it removed the file of one,
DieSweeping(u) ==
  /\ Killed
  /\ Active(ledger, u)
  /\ Unlink(ledger[u].concept)
  /\ bare' = bare \cup {u}
  /\ UNCHANGED <<docs, ledger, held, passed>>

\* ... or with the ledger truncated and not yet written: load takes the empty
\* file for an empty ledger.
DieSaving ==
  /\ Killed
  /\ ledger' = EmptyLedger
  /\ bare' = {}
  /\ UNCHANGED <<docs, tree, plain, shared, held, passed>>

\* The operator writes generations: true; the next run stages the tree.
TurnOn ==
  /\ phase = "idle"
  /\ MayTurnOn
  /\ ~generational
  /\ generational' = TRUE
  /\ shared' = IF HardLinks THEN {c \in Concepts : tree[c] # None} ELSE {}
  /\ UNCHANGED <<docs, ledger, tree, plain, held, passed, bare, edits, model,
                 rows, hookVars, quarantined, fresh, switches, deaths>>

\* The operator changes the model of the embeddings: block.
SwitchModel ==
  /\ phase = "idle"
  /\ switches < MaxSwitches
  /\ switches' = switches + 1
  /\ model' \in Models \ {model}
  /\ fresh' = FALSE
  /\ UNCHANGED <<treeVars, generational, rows, hookVars, quarantined, deaths>>

-----------------------------------------------------------------------------
\* sync_embeddings.

\* Mutation of Begin: removed entries are walked too.
BeginWithRemoved ==
  /\ phase = "idle"
  /\ phase' = "walk"
  /\ todo' = {u \in Uris : Known(ledger, u)}
  /\ batch' = {}
  /\ fresh' = FALSE
  /\ UNCHANGED <<treeVars, generational, model, rows, quarantined, switches,
                 deaths>>

\* Every sync that saves its ledger runs the hook.
Begin ==
  /\ phase = "idle"
  /\ phase' = "walk"
  /\ todo' = Live
  /\ batch' = {}
  /\ fresh' = FALSE
  /\ UNCHANGED <<treeVars, generational, model, rows, quarantined, switches,
                 deaths>>

Visit(u) ==
  /\ phase = "walk"
  /\ u \in todo
  /\ todo' = todo \ {u}
  /\ UNCHANGED <<treeVars, generational, model, phase, fresh, switches,
                 deaths>>

\* Mutation of Import: the vector of any model is taken.
ImportAnyModel(u) ==
  /\ Visit(u)
  /\ docs[u] # None
  /\ \E m \in Models :
       Upsert(ledger[u].sha, model, ledger[u].concept,
              [model |-> m, of |-> docs[u]])
  /\ UNCHANGED <<batch, quarantined>>

\* The document came with a vector of the configured model.
Import(u) ==
  /\ Visit(u)
  /\ docs[u] # None
  /\ Upsert(ledger[u].sha, model, ledger[u].concept,
            [model |-> model, of |-> docs[u]])
  /\ UNCHANGED <<batch, quarantined>>

\* It came with none, or with one of another model or malformed: that one
\* is quarantined, and the document is embedded here like any other.
Sidecar(u) ==
  \/ UNCHANGED quarantined
  \/ docs[u] # None /\ quarantined' = quarantined \cup {u}

\* Mutation of Reuse: the row keeps the concept it was made for.
ReuseKeepsConcept(u) ==
  /\ Visit(u)
  /\ Sidecar(u)
  /\ Has(ledger[u].sha, model)
  /\ UNCHANGED <<batch, rows>>

Reuse(u) ==
  /\ Visit(u)
  /\ Sidecar(u)
  /\ Has(ledger[u].sha, model)
  /\ SetConcept(ledger[u].sha, model, ledger[u].concept)
  /\ UNCHANGED batch

\* Mutation of Queue: a quarantined document is left alone.
QueueUnlessQuarantined(u) ==
  /\ Visit(u)
  /\ Sidecar(u)
  /\ ~Has(ledger[u].sha, model)
  /\ batch' = IF Body(u) = None \/ u \in quarantined'
              THEN batch
              ELSE batch \cup {[sha |-> ledger[u].sha,
                                concept |-> ledger[u].concept,
                                text |-> Body(u)]}
  /\ UNCHANGED rows

\* There is no row: the text of the concept is queued, if the file is there.
Queue(u) ==
  /\ Visit(u)
  /\ Sidecar(u)
  /\ ~Has(ledger[u].sha, model)
  /\ batch' = IF Body(u) = None THEN batch
              ELSE batch \cup {[sha |-> ledger[u].sha,
                                concept |-> ledger[u].concept,
                                text |-> Body(u)]}
  /\ UNCHANGED rows

\* One call for all queued texts.
Encode ==
  /\ phase = "walk"
  /\ todo = {}
  /\ phase' = "store"
  /\ UNCHANGED <<treeVars, generational, model, rows, todo, batch,
                 quarantined, fresh, switches, deaths>>

\* Mutation of Store: vectors and texts are matched in another order.
StoreOutOfOrder(item) ==
  /\ phase = "store"
  /\ item \in batch
  /\ batch' = batch \ {item}
  /\ \E other \in batch :
       Upsert(item.sha, model, item.concept,
              [model |-> model, of |-> other.text])
  /\ UNCHANGED <<treeVars, generational, model, phase, todo, quarantined,
                 fresh, switches, deaths>>

\* Each row is a transaction of its own.
Store(item) ==
  /\ phase = "store"
  /\ item \in batch
  /\ batch' = batch \ {item}
  /\ Upsert(item.sha, model, item.concept,
            [model |-> model, of |-> item.text])
  /\ UNCHANGED <<treeVars, generational, model, phase, todo, quarantined,
                 fresh, switches, deaths>>

Finish ==
  /\ phase = "store"
  /\ batch = {}
  /\ phase' = "idle"
  /\ fresh' = TRUE
  /\ UNCHANGED <<treeVars, generational, model, rows, todo, batch,
                 quarantined, switches, deaths>>

\* The encoder raises, or the process is killed: rows written so far stay.
Die ==
  /\ phase # "idle"
  /\ ~generational
  /\ deaths < MaxDeaths
  /\ deaths' = deaths + 1
  /\ phase' = "idle"
  /\ todo' = {}
  /\ batch' = {}
  /\ UNCHANGED <<treeVars, generational, model, rows, quarantined, fresh,
                 switches>>

Hook ==
  \/ Begin \/ Encode \/ Finish
  \/ \E u \in Uris : Import(u) \/ Reuse(u) \/ Queue(u)
  \/ \E item \in batch : Store(item)

Sync ==
  \/ \E u \in Uris, sha \in Contents :
       \/ Defer(u, sha) \/ Project(u, sha) \/ FailTransform(u, sha)
       \/ \E text \in Contents : DieWriting(u, sha, text)
  \/ \E old, u \in Uris : Rename(old, u) \/ AdoptThenFail(old, u)
  \/ \E u \in Uris : Withdraw(u) \/ DieSweeping(u)
  \/ DieSaving

Next ==
  \/ Sync
  \/ TurnOn \/ SwitchModel
  \/ Hook \/ Die

Spec == Init /\ [][Next]_vars

-----------------------------------------------------------------------------
\* Every variable has its type, and a queued text is that of a live entry.
TypeOK ==
  /\ docs \in [Uris -> Contents \cup {None}]
  /\ ledger \in Ledgers
  /\ tree \in [Concepts -> Contents \cup {None}]
  /\ plain \in [Concepts -> Contents \cup {None}]
  /\ shared \in SUBSET Concepts
  /\ generational \in BOOLEAN
  /\ model \in Models
  /\ rows \in [Contents -> [Models -> Row \cup {NoRow}]]
  /\ phase \in {"idle", "walk", "store"}
  /\ todo \in SUBSET Live
  /\ batch \in SUBSET [sha : {ledger[u].sha : u \in Live},
                       concept : {ledger[u].concept : u \in Live},
                       text : Contents]
  /\ quarantined \in SUBSET Uris
  /\ fresh \in BOOLEAN
  /\ held \in SUBSET (Concepts \X Contents)
  /\ passed \in SUBSET (Contents \X Contents)
  /\ bare \in SUBSET Uris
  /\ edits \in 0..MaxEdits
  /\ switches \in 0..MaxSwitches
  /\ deaths \in 0..MaxDeaths

\* A row holds a vector of the model it is keyed by: sync_embeddings never
\* lets a vector of another embedding space into the store, whatever the
\* sidecars carry and however the configured model changes.
RowsKeepModel ==
  \A sha \in Contents, m \in Models :
    Has(sha, m) => rows[sha][m].vector.model = m

\* A row holds a vector of the content it is keyed by, so that whoever comes
\* back to this content may reuse it without an encode.  Three things break it:
\* a document that came with a vector while its entry kept an older hash (its
\* transform failed, or --since put it off); a run that was killed after it
\* wrote the file and before it saved the ledger; and a hook that reads the
\* plain layout while generations are on.
RowsKeepContent ==
  \A sha \in Contents, m \in Models :
    Has(sha, m) => \/ rows[sha][m].vector.of = sha
                   \/ <<sha, rows[sha][m].vector.of>> \in passed
                   \/ generational

\* Whatever row a server or a later hook finds, it is of the space and the
\* text it asked for.
RowsKeepKey == RowsKeepModel /\ RowsKeepContent

\* The hook leaves this entry out: it has no text for it.  That is so for a
\* concept the plain layout does not have, when generations are on; for a
\* removed entry that a document took over before its transform failed; and for
\* one whose sweep was killed.
NoText(u) == Body(u) = None /\ (generational \/ u \in bare)

\* When the hook has ended, every live entry it has a text of has a row under
\* its hash and the configured model, and it has one of every entry but those:
\* mismatched and malformed sidecars fall back to the local encoder.
EveryEntryEmbedded ==
  fresh => \A u \in Live : Has(ledger[u].sha, model) \/ NoText(u)

\* When the hook has ended, a server that asks for the configured model finds
\* a vector for every live concept whose content no other live entry has.
OwnContentFound ==
  fresh /\ model = Served => \A u \in Live :
    (\A w \in Live \ {u} : ledger[w].sha # ledger[u].sha)
      => VectorFor(Served, ledger[u].concept) # None \/ NoText(u)

\* The vector the server finds for a concept is one of a content that this
\* very concept has or had, or that was passed for a document with such a
\* content, never just that of another concept, as long as generations are off:
\* with them, the text of a concept's earlier content may be embedded for its
\* new one, and that row reused for another concept which has this content.
FoundIsOwn ==
  \A c \in Concepts :
    VectorFor(Served, c) # None =>
      \/ <<c, VectorFor(Served, c).of>> \in held
      \/ \E sha \in Contents :
           <<c, sha>> \in held /\ <<sha, VectorFor(Served, c).of>> \in passed
      \/ generational

\* What the server finds for a concept is its own, and is found.
FindsItsOwn == OwnContentFound /\ FoundIsOwn
=============================================================================
