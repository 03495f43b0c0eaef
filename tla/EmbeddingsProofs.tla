-------------------------- MODULE EmbeddingsProofs --------------------------
(***************************************************************************)
(* What the embedding store holds and what a server finds in it, for all   *)
(* documents, contents, models and any number of syncs, switches of the    *)
(* model and deaths of the hook, checked by TLAPS.                         *)
(***************************************************************************)
EXTENDS Embeddings, FiniteSetTheorems, WellFoundedInduction, TLAPS

-----------------------------------------------------------------------------
(* A content that may stand under a hash: its own, or one that was passed. *)
Under(sha, content) == content = sha \/ <<sha, content>> \in passed

(* The inductive invariant, in named parts.  Live entries have concepts of
   their own; every entry's concept had the entry's content; its file has
   that, or one that was passed, unless another entry took the concept over;
   so has the document.  As long as generations are off the plain layout is
   the tree, and what has no file is bare.                                  *)
Apart == \A u, w \in Live : u # w => ledger[u].concept # ledger[w].concept
Kept(u) == <<ledger[u].concept, ledger[u].sha>> \in held
Filed(u) ==
  \/ tree[ledger[u].concept] = None
  \/ Under(ledger[u].sha, tree[ledger[u].concept])
  \/ Taken(u, ledger[u].concept)
Drawn(u) == docs[u] = None \/ Under(ledger[u].sha, docs[u])
Plain ==
  ~generational =>
    /\ plain = tree
    /\ \A u \in Live : tree[ledger[u].concept] = None => u \in bare

LedgerInv ==
  /\ Apart
  /\ \A u \in Uris : Known(ledger, u) => Kept(u) /\ Filed(u)
  /\ \A u \in Live : Drawn(u)
  /\ Plain

(* What is queued is of a live entry, and there is a queue only in a hook. *)
QueueInv ==
  /\ phase = "idle" => todo = {} /\ batch = {}
  /\ phase = "store" => todo = {}
  /\ fresh => phase = "idle"
  /\ \A item \in batch : \E u \in Live :
       item = [sha |-> ledger[u].sha, concept |-> ledger[u].concept,
               text |-> Body(u)]

Keys == {k \in Contents \X Models : Has(k[1], k[2])}
OwnContent(c, content) ==
  \/ <<c, content>> \in held
  \/ \E sha \in Contents : <<c, sha>> \in held /\ <<sha, content>> \in passed
  \/ generational
OwnRow(row) == OwnContent(row.concept, row.vector.of)
RowsInv ==
  /\ IsFiniteSet(Keys)
  /\ \A sha \in Contents, m \in Models :
       Has(sha, m) => rows[sha][m].id <= RowCount /\ OwnRow(rows[sha][m])

(* The hook has come to an entry: there is a row, or there will be one. *)
Queued(u) == \E item \in batch : item.sha = ledger[u].sha
Handled(u) == Has(ledger[u].sha, model) \/ Queued(u) \/ NoText(u)
Own(u) == \A w \in Live \ {u} : ledger[w].sha # ledger[u].sha
Named(u) ==
  \/ /\ Has(ledger[u].sha, model)
     /\ rows[ledger[u].sha][model].concept = ledger[u].concept
  \/ Queued(u) \/ NoText(u)
DoneInv ==
  \A u \in Live : fresh \/ (phase # "idle" /\ u \notin todo)
                    => Handled(u) /\ (Own(u) => Named(u))

IInv == TypeOK /\ LedgerInv /\ QueueInv /\ RowsInv /\ RowsKeepKey /\ DoneInv

-----------------------------------------------------------------------------
LEMMA KnownFields ==
  ASSUME TypeOK, NEW u \in Uris, Known(ledger, u)
  PROVE  /\ ledger[u] \in Entry /\ ledger[u] # NoEntry
         /\ ledger[u].sha \in Contents /\ ledger[u].concept \in Concepts
         /\ ledger[u].source \in Sources /\ ledger[u].removed \in BOOLEAN
<1>1. ledger[u] \in Entry /\ ledger[u] # NoEntry
  BY DEF TypeOK, Ledgers, Known
<1> QED
  BY <1>1 DEF Entry

LEMMA EntryFields ==
  ASSUME TypeOK, NEW u \in Live
  PROVE  /\ u \in Uris /\ Known(ledger, u) /\ ledger[u] \in Entry
         /\ ledger[u] # NoEntry /\ ledger[u].removed = FALSE
         /\ ledger[u].sha \in Contents /\ ledger[u].concept \in Concepts
<1>1. u \in Uris /\ Known(ledger, u) /\ ~ledger[u].removed
  BY DEF Live, Active
<1> QED
  BY <1>1, KnownFields

(* Writing a concept leaves the types, and the plain layout as the tree. *)
LEMMA WriteType ==
  ASSUME TypeOK, Plain,
         NEW c \in Concepts, NEW sha \in Contents, WriteConcept(c, sha)
  PROVE  /\ tree' \in [Concepts -> Contents \cup {None}]
         /\ plain' \in [Concepts -> Contents \cup {None}]
         /\ held' \in SUBSET (Concepts \X Contents)
         /\ ~generational => plain' = tree'
         /\ tree'[c] = sha /\ <<c, sha>> \in held' /\ held \subseteq held'
         /\ \A d \in Concepts \ {c} : tree'[d] = tree[d]
<1>1. /\ tree' = [tree EXCEPT ![c] = sha]
      /\ held' = held \cup {<<c, sha>>}
      /\ \/ plain' = plain /\ generational
         \/ plain' = [plain EXCEPT ![c] = sha]
  BY DEF WriteConcept
<1> QED
  BY <1>1 DEF TypeOK, Plain

(* So does removing one. *)
LEMMA UnlinkType ==
  ASSUME TypeOK, Plain, NEW c \in Concepts, Unlink(c)
  PROVE  /\ tree' \in [Concepts -> Contents \cup {None}]
         /\ plain' \in [Concepts -> Contents \cup {None}]
         /\ shared' \in SUBSET Concepts
         /\ ~generational => plain' = tree'
         /\ tree'[c] = None
         /\ \A d \in Concepts \ {c} : tree'[d] = tree[d]
<1>1. /\ tree' = [tree EXCEPT ![c] = None]
      /\ shared' = shared \ {c}
      /\ \/ plain' = plain /\ generational
         \/ plain' = [plain EXCEPT ![c] = None]
  BY DEF Unlink
<1> QED
  BY <1>1 DEF TypeOK, Plain

(* What is to be shown of a sync's step: the hook rests, rows do not change,
   and all there is to say of them stays so, for history only grows.        *)
LEMMA EditInv ==
  ASSUME IInv, EditOnly, deaths' \in 0..MaxDeaths,
         docs' \in [Uris -> Contents \cup {None}], ledger' \in Ledgers,
         tree' \in [Concepts -> Contents \cup {None}],
         plain' \in [Concepts -> Contents \cup {None}],
         shared' \in SUBSET Concepts,
         held' \in SUBSET (Concepts \X Contents), held \subseteq held',
         passed' \in SUBSET (Contents \X Contents), passed \subseteq passed',
         bare' \in SUBSET Uris,
         LedgerInv'
  PROVE  IInv'
<1> USE DEF IInv
<1>1. /\ phase = "idle" /\ fresh' = FALSE
      /\ UNCHANGED <<generational, model, rows, phase, todo, batch>>
  BY DEF EditOnly, hookVars
<1>2. QueueInv'
  BY <1>1 DEF QueueInv
<1>3. Keys' = Keys /\ RowCount' = RowCount
  BY <1>1 DEF Keys, RowCount, Has
<1>4. RowsInv'
  BY <1>1, <1>3 DEF RowsInv, OwnRow, OwnContent, Has
<1>5. RowsKeepKey'
  BY <1>1 DEF RowsKeepKey, RowsKeepModel, RowsKeepContent, Has
<1>6. DoneInv'
  BY <1>1 DEF DoneInv
<1>7. TypeOK'
  <2>1. todo' = {} /\ batch' = {} /\ phase' = "idle"
    BY <1>1 DEF QueueInv
  <2>2. /\ edits' \in 0..MaxEdits
        /\ UNCHANGED <<generational, model, rows, quarantined, switches>>
    BY BoundsAssumption DEF EditOnly, TypeOK
  <2>3. fresh' \in BOOLEAN
    BY <1>1, Zenon
  <2> QED
    BY <2>1, <2>2, <2>3 DEF TypeOK
<1> QED
  BY <1>2, <1>4, <1>5, <1>6, <1>7

LEMMA EditCounts ==
  ASSUME TypeOK
  PROVE  /\ Edit => EditOnly /\ deaths' \in 0..MaxDeaths
         /\ Killed => EditOnly /\ ~generational /\ deaths' \in 0..MaxDeaths
BY BoundsAssumption DEF Edit, Killed, TypeOK

(* The entry of u is new, or took over the one of old; the others stay.     *)
Replaced(old, u) ==
  /\ Active(ledger, u)'
  /\ ledger' \in Ledgers
  /\ \A w \in Uris : Known(ledger, w)' =>
       w = u \/ (w \notin {old, u} /\ ledger'[w] = ledger[w])
  /\ \A w \in Uris \ {old, u} : ledger'[w] = ledger[w]

(* So live concepts stay apart, and what was taken over is still, or again. *)
LEMMA ReplacedApart ==
  ASSUME TypeOK, Apart, NEW old \in Uris, NEW u \in Uris, Replaced(old, u),
         ~Known(ledger, u) \/ u = old,
         ~Taken(old, ledger'[u].concept),
         Known(ledger, old) => ledger[old].concept = ledger'[u].concept
  PROVE  /\ Apart'
         /\ \A w \in Live' :
              w = u \/ (/\ w \in Live /\ w \notin {old, u}
                       /\ ledger'[w] = ledger[w]
                       /\ ledger[w].concept # ledger'[u].concept)
         /\ \A w \in Uris : Known(ledger, w)' => w = u \/
              /\ Known(ledger, w) /\ ledger'[w] = ledger[w]
              /\ ledger[w].concept = ledger'[u].concept
                   => Taken(w, ledger[w].concept)'
              /\ Taken(w, ledger[w].concept) => Taken(w, ledger[w].concept)'
<1> DEFINE c == ledger'[u].concept
<1>1. \A w \in Live' : w = u \/ (w \in Live /\ w \notin {old, u}
                                  /\ ledger'[w] = ledger[w])
  BY DEF Replaced, Live, Active, Known
<1>2. \A w \in Live : w # old => ledger[w].concept # c
  BY DEF Taken, Live
<1>3. Apart'
  <2> SUFFICES ASSUME NEW v \in Live', NEW w \in Live', v # w
               PROVE  ledger'[v].concept # ledger'[w].concept
    BY DEF Apart
  <2> HIDE DEF c
  <2>1. CASE v = u
    BY <1>1, <1>2, <2>1 DEF c
  <2>2. CASE w = u
    BY <1>1, <1>2, <2>2 DEF c
  <2>3. CASE v # u /\ w # u
    BY <1>1, <2>3 DEF Apart
  <2> QED
    BY <2>1, <2>2, <2>3
<1>4. ASSUME NEW w \in Uris, Known(ledger, w)', w # u
      PROVE  /\ Known(ledger, w) /\ ledger'[w] = ledger[w]
             /\ ledger[w].concept = c => Taken(w, ledger[w].concept)'
             /\ Taken(w, ledger[w].concept) => Taken(w, ledger[w].concept)'
  <2>1. w # old /\ ledger'[w] = ledger[w] /\ Known(ledger, w)
    BY <1>4 DEF Replaced, Known
  <2>2. ledger[w].concept = c => Taken(w, ledger[w].concept)'
    BY <1>4, <2>1 DEF Taken, Replaced
  <2>3. ASSUME Taken(w, ledger[w].concept), ledger[w].concept # c
        PROVE  Taken(w, ledger[w].concept)'
    <3>1. PICK v \in Uris \ {w} :
            Active(ledger, v) /\ ledger[v].concept = ledger[w].concept
      BY <2>3 DEF Taken
    <3>2. v \notin {old, u}
      BY <2>3, <3>1 DEF Active
    <3>3. ledger'[v] = ledger[v]
      BY <3>2 DEF Replaced
    <3>4. Active(ledger, v)'
      BY <3>1, <3>3 DEF Active, Known
    <3> QED
      BY <2>1, <3>1, <3>3, <3>4 DEF Taken
  <2> QED
    BY <2>1, <2>2, <2>3
<1> QED
  BY <1>1, <1>2, <1>3, <1>4

LEMMA ProjectInv ==
  ASSUME IInv, NEW u \in Uris, NEW sha \in Contents, Project(u, sha)
  PROVE  IInv'
<1> DEFINE c == Home(u)
<1>1. PICK s \in Sources : ledger' = Record(ledger, u, s, c, sha)
  BY DEF Project
<1>2. /\ Edit /\ ~Taken(u, c) /\ WriteConcept(c, sha)
      /\ docs' = [docs EXCEPT ![u] = sha] /\ bare' = bare \ {u}
      /\ UNCHANGED <<shared, passed>>
  BY DEF Project, Pulled
<1>3. /\ c \in Concepts /\ TypeOK /\ Apart /\ Plain
      /\ Known(ledger, u) => ledger[u].concept = c
  BY KnownFields, HomeAssumption DEF Home, IInv, LedgerInv
<1> HIDE DEF c
<1> DEFINE new == [source |-> s, concept |-> c, sha |-> sha, removed |-> FALSE]
<1>4. /\ new \in Entry /\ new # NoEntry /\ new.concept = c /\ new.sha = sha
      /\ new.removed = FALSE
  <2>1. new \in Entry
    BY <1>3 DEF Entry
  <2> QED
    BY <2>1, NoEntryAssumption
<1>5. ledger' = [ledger EXCEPT ![u] = new]
  BY <1>1 DEF Record
<1> HIDE DEF new
<1>6. /\ ledger' \in Ledgers /\ ledger'[u] = new
      /\ \A w \in Uris \ {u} : ledger'[w] = ledger[w]
  BY <1>3, <1>4, <1>5 DEF TypeOK, Ledgers
<1>7. Replaced(u, u)
  BY <1>4, <1>6 DEF Replaced, Active, Known
<1>8. /\ Apart'
      /\ \A w \in Live' : w = u \/ (w \in Live /\ w # u
                                     /\ ledger'[w] = ledger[w]
                                     /\ ledger[w].concept # c)
      /\ \A w \in Uris : Known(ledger, w)' => w = u \/
           /\ Known(ledger, w) /\ ledger'[w] = ledger[w]
           /\ ledger[w].concept = c => Taken(w, ledger[w].concept)'
           /\ Taken(w, ledger[w].concept) => Taken(w, ledger[w].concept)'
  BY <1>2, <1>3, <1>4, <1>6, <1>7, ReplacedApart
<1>9. /\ tree' \in [Concepts -> Contents \cup {None}]
      /\ plain' \in [Concepts -> Contents \cup {None}]
      /\ held' \in SUBSET (Concepts \X Contents)
      /\ ~generational => plain' = tree'
      /\ tree'[c] = sha /\ <<c, sha>> \in held' /\ held \subseteq held'
      /\ \A d \in Concepts \ {c} : tree'[d] = tree[d]
  BY <1>2, <1>3, WriteType
<1>10. /\ docs' \in [Uris -> Contents \cup {None}] /\ docs'[u] = sha
       /\ \A w \in Uris \ {u} : docs'[w] = docs[w]
  BY <1>2, <1>3 DEF TypeOK
<1>11. \A w \in Uris : Known(ledger, w)' => Kept(w)' /\ Filed(w)'
  <2> SUFFICES ASSUME NEW w \in Uris, Known(ledger, w)'
               PROVE  Kept(w)' /\ Filed(w)'
    OBVIOUS
  <2>1. CASE w = u
    BY <1>4, <1>6, <1>9, <2>1 DEF Kept, Filed, Under
  <2>2. CASE w # u
    <3>1. Known(ledger, w) /\ ledger'[w] = ledger[w]
      BY <1>8, <2>2
    <3>2. Kept(w) /\ Filed(w) /\ ledger[w].concept \in Concepts
      BY <3>1, KnownFields DEF IInv, LedgerInv
    <3> QED
      BY <1>2, <1>8, <1>9, <2>2, <3>1, <3>2 DEF Kept, Filed, Under
  <2> QED
    BY <2>1, <2>2
<1>12. \A w \in Live' : Drawn(w)'
  BY <1>2, <1>4, <1>6, <1>8, <1>10 DEF Drawn, Under, IInv, LedgerInv, Live
<1>13. Plain'
  <2>1. \A w \in Live : ledger[w].concept \in Concepts
    BY <1>3, EntryFields
  <2>2. sha # None
    BY MarkerAssumption
  <2>3. generational' = generational
    BY <1>2 DEF Edit, EditOnly
  <2> QED
    BY <1>2, <1>3, <1>4, <1>6, <1>8, <1>9, <2>1, <2>2, <2>3 DEF Plain
<1>14. LedgerInv'
  BY <1>8, <1>11, <1>12, <1>13 DEF LedgerInv
<1> QED
  BY <1>2, <1>3, <1>6, <1>9, <1>10, <1>14, EditInv, EditCounts DEF TypeOK

(* A document took over an entry: what that entry is now. *)
LEMMA TakenOver ==
  ASSUME IInv, NEW old \in Uris, NEW u \in Uris, TakeOver(old, u)
  PROVE  /\ u # old /\ ~Known(ledger, u) /\ Known(ledger, old)
         /\ ledger'[u].concept = ledger[old].concept
         /\ ledger'[u].sha = ledger[old].sha
         /\ Replaced(old, u) /\ ~Taken(old, ledger[old].concept)
         /\ docs' \in [Uris -> Contents \cup {None}]
         /\ docs'[u] = ledger[old].sha
         /\ \A w \in Uris \ {old, u} : docs'[w] = docs[w]
<1> DEFINE new == [ledger[old] EXCEPT !.removed = FALSE]
<1>1. /\ ~Known(ledger, u) /\ Known(ledger, old) /\ u # old
      /\ ~Taken(old, ledger[old].concept) /\ ledger' = Adopt(ledger, old, u)
      /\ docs' = [docs EXCEPT ![old] = None, ![u] = ledger[old].sha]
  BY DEF TakeOver
<1>2. /\ ledger[old] \in Entry /\ ledger[old].sha \in Contents
  BY <1>1, KnownFields DEF IInv
<1>3. /\ new \in Entry /\ new # NoEntry /\ new.removed = FALSE
      /\ new.concept = ledger[old].concept /\ new.sha = ledger[old].sha
  BY <1>2, NoEntryAssumption DEF Entry
<1> HIDE DEF new
<1>4. /\ ledger' \in Ledgers /\ ledger'[u] = new /\ ledger'[old] = NoEntry
      /\ \A w \in Uris \ {u, old} : ledger'[w] = ledger[w]
  BY <1>1, <1>2, <1>3 DEF Adopt, IInv, TypeOK, Ledgers, new
<1>5. Replaced(old, u)
  BY <1>1, <1>3, <1>4 DEF Replaced, Active, Known
<1>6. /\ docs' \in [Uris -> Contents \cup {None}]
      /\ docs'[u] = ledger[old].sha
      /\ \A w \in Uris \ {old, u} : docs'[w] = docs[w]
  BY <1>1, <1>2 DEF IInv, TypeOK
<1> QED
  BY <1>1, <1>3, <1>4, <1>5, <1>6

LEMMA TakeOverInv ==
  ASSUME IInv, NEW old \in Uris, NEW u \in Uris,
         Rename(old, u) \/ AdoptThenFail(old, u)
  PROVE  IInv'
<1> DEFINE c == ledger[old].concept
<1> DEFINE sha == ledger[old].sha
<1>1. /\ TakeOver(old, u) /\ Edit /\ UNCHANGED <<shared, passed>>
      /\ bare \ {old} \subseteq bare' /\ bare' \subseteq bare \cup {u}
      /\ \/ WriteConcept(c, sha)
         \/ UNCHANGED <<tree, plain, held>> /\ (tree[c] = None => u \in bare')
  BY DEF Rename, AdoptThenFail, TakeOver, HasFile
<1>2. /\ u # old /\ ~Known(ledger, u) /\ Known(ledger, old)
      /\ ledger'[u].concept = c /\ ledger'[u].sha = sha
      /\ Replaced(old, u) /\ ~Taken(old, c)
      /\ docs' \in [Uris -> Contents \cup {None}] /\ docs'[u] = sha
      /\ \A w \in Uris \ {old, u} : docs'[w] = docs[w]
  BY <1>1, TakenOver
<1>3. /\ c \in Concepts /\ sha \in Contents /\ TypeOK /\ Apart /\ Plain
      /\ Kept(old) /\ Filed(old)
  BY <1>2, KnownFields DEF IInv, LedgerInv
<1>4. /\ Apart'
      /\ \A w \in Live' : w = u \/ (w \in Live /\ w \notin {old, u}
                                     /\ ledger'[w] = ledger[w]
                                     /\ ledger[w].concept # c)
      /\ \A w \in Uris : Known(ledger, w)' => w = u \/
           /\ Known(ledger, w) /\ ledger'[w] = ledger[w]
           /\ ledger[w].concept = c => Taken(w, ledger[w].concept)'
           /\ Taken(w, ledger[w].concept) => Taken(w, ledger[w].concept)'
  BY <1>2, <1>3, ReplacedApart
<1>5. /\ tree' \in [Concepts -> Contents \cup {None}]
      /\ plain' \in [Concepts -> Contents \cup {None}]
      /\ held' \in SUBSET (Concepts \X Contents) /\ held \subseteq held'
      /\ ~generational => plain' = tree'
      /\ <<c, sha>> \in held'
      /\ tree'[c] = None \/ Under(sha, tree'[c])
      /\ ~generational => (tree'[c] = None => u \in bare')
      /\ \A d \in Concepts \ {c} : tree'[d] = tree[d]
  <2>1. CASE WriteConcept(c, sha)
    <3>1. sha # None
      BY <1>3, MarkerAssumption
    <3> QED
      BY <1>3, <2>1, <3>1, WriteType DEF Under
  <2>2. CASE UNCHANGED <<tree, plain, held>> /\ (tree[c] = None => u \in bare')
    BY <1>2, <1>3, <2>2 DEF TypeOK, Plain, Kept, Filed
  <2> QED
    BY <1>1, <2>1, <2>2
<1> HIDE DEF c, sha
<1>6. \A w \in Uris : Known(ledger, w)' => Kept(w)' /\ Filed(w)'
  <2> SUFFICES ASSUME NEW w \in Uris, Known(ledger, w)'
               PROVE  Kept(w)' /\ Filed(w)'
    OBVIOUS
  <2>1. CASE w = u
    BY <1>1, <1>2, <1>5, <2>1 DEF Kept, Filed, Under
  <2>2. CASE w # u
    <3>1. Known(ledger, w) /\ ledger'[w] = ledger[w]
      BY <1>4, <2>2
    <3>2. Kept(w) /\ Filed(w) /\ ledger[w].concept \in Concepts
      BY <3>1, KnownFields DEF IInv, LedgerInv
    <3> QED
      BY <1>1, <1>4, <1>5, <2>2, <3>1, <3>2 DEF Kept, Filed, Under
  <2> QED
    BY <2>1, <2>2
<1>7. \A w \in Live' : Drawn(w)'
  BY <1>1, <1>2, <1>4 DEF Drawn, Under, IInv, LedgerInv, Live
<1>8. Plain'
  <2>1. \A w \in Live : ledger[w].concept \in Concepts
    BY <1>3, EntryFields
  <2>2. generational' = generational
    BY <1>1 DEF Edit, EditOnly
  <2> QED
    BY <1>1, <1>2, <1>3, <1>4, <1>5, <2>1, <2>2 DEF Plain
<1>9. LedgerInv'
  BY <1>4, <1>6, <1>7, <1>8 DEF LedgerInv
<1>10. ledger' \in Ledgers
  BY <1>2 DEF Replaced
<1> QED
  BY <1>1, <1>2, <1>3, <1>5, <1>9, <1>10, EditInv, EditCounts DEF TypeOK

(* Only the document and what was passed changes. *)
LEMMA PassInv ==
  ASSUME IInv, NEW u \in Uris, NEW sha \in Contents,
         Defer(u, sha) \/ FailTransform(u, sha)
  PROVE  IInv'
<1>1. /\ Edit /\ docs' = [docs EXCEPT ![u] = sha] /\ PassOver(u, sha)
      /\ UNCHANGED <<ledger, tree, plain, shared, held, bare>>
  BY DEF Defer, FailTransform, Pulled
<1>2. /\ passed \subseteq passed' /\ passed' \in SUBSET (Contents \X Contents)
      /\ Known(ledger, u) => Under(ledger[u].sha, sha)'
  BY <1>1, KnownFields DEF PassOver, Under, IInv, TypeOK
<1>3. /\ docs' \in [Uris -> Contents \cup {None}] /\ docs'[u] = sha
      /\ \A w \in Uris \ {u} : docs'[w] = docs[w]
  BY <1>1 DEF IInv, TypeOK
<1>4. Live' = Live /\ \A w \in Live : w \in Uris /\ Known(ledger, w)
  BY <1>1 DEF Live, Active, Known
<1>5. generational' = generational
  BY <1>1 DEF Edit, EditOnly
<1>6. LedgerInv'
  <2>1. Apart' /\ Plain'
    BY <1>1, <1>4, <1>5 DEF Apart, Plain, IInv, LedgerInv
  <2>2. \A w \in Uris : Known(ledger, w)' => Kept(w)' /\ Filed(w)'
    BY <1>1, <1>2
    DEF Kept, Filed, Under, Taken, Active, Known, IInv, LedgerInv
  <2>3. \A w \in Live' : Drawn(w)'
    BY <1>1, <1>2, <1>3, <1>4 DEF Drawn, Under, IInv, LedgerInv
  <2> QED
    BY <2>1, <2>2, <2>3 DEF LedgerInv
<1> QED
  BY <1>1, <1>2, <1>3, <1>6, EditInv, EditCounts DEF IInv, TypeOK

LEMMA WithdrawInv ==
  ASSUME IInv, NEW u \in Uris, Withdraw(u)
  PROVE  IInv'
<1> DEFINE c == ledger[u].concept
<1>1. /\ Edit /\ u \in Live /\ docs' = [docs EXCEPT ![u] = None]
      /\ ledger' = [ledger EXCEPT ![u].removed = TRUE] /\ Unlink(c)
      /\ bare' = bare \ {u} /\ UNCHANGED <<held, passed>>
  BY DEF Withdraw, Pulled, Live
<1>2. c \in Concepts /\ ledger[u] \in Entry /\ TypeOK /\ Plain
  BY <1>1, EntryFields DEF IInv, LedgerInv
<1>3. /\ ledger' \in Ledgers
      /\ ledger'[u].concept = c /\ ledger'[u].sha = ledger[u].sha
      /\ ledger'[u].removed
      /\ \A w \in Uris \ {u} : ledger'[w] = ledger[w]
  BY <1>1, <1>2 DEF TypeOK, Ledgers, Entry
<1> HIDE DEF c
<1>4. /\ tree' \in [Concepts -> Contents \cup {None}]
      /\ plain' \in [Concepts -> Contents \cup {None}]
      /\ shared' \in SUBSET Concepts
      /\ ~generational => plain' = tree'
      /\ tree'[c] = None
      /\ \A d \in Concepts \ {c} : tree'[d] = tree[d]
  BY <1>1, <1>2, UnlinkType
<1>5. /\ docs' \in [Uris -> Contents \cup {None}]
      /\ \A w \in Uris \ {u} : docs'[w] = docs[w]
  BY <1>1, <1>2 DEF TypeOK
<1>6. /\ \A w \in Live' : w \in Live /\ w # u /\ w \in Uris
      /\ \A w \in Live : w # u => ledger[w].concept \in Concepts \ {c}
  BY <1>1, <1>2, <1>3, EntryFields
  DEF Live, Active, Known, IInv, LedgerInv, Apart, c
<1>7. \A w \in Uris : Known(ledger, w)' => Kept(w)' /\ Filed(w)'
  <2> SUFFICES ASSUME NEW w \in Uris, Known(ledger, w)'
               PROVE  Kept(w)' /\ Filed(w)'
    OBVIOUS
  <2>1. /\ Known(ledger, w) /\ Kept(w) /\ Filed(w)
        /\ ledger'[w].concept = ledger[w].concept
        /\ ledger'[w].sha = ledger[w].sha
        /\ ledger[w].concept \in Concepts
    BY <1>1, <1>2, <1>3, KnownFields
    DEF Known, IInv, LedgerInv, Live, Active, c
  <2>2. CASE ledger[w].concept = c
    BY <1>1, <1>4, <2>1, <2>2 DEF Kept, Filed
  <2>3. CASE ledger[w].concept # c
    <3> DEFINE d == ledger[w].concept
    <3>0. /\ d # c /\ ledger[u].concept = c
      BY <2>3 DEF c
    <3> HIDE DEF d
    <3>1. ledger'[w].concept = d /\ ledger[w].concept = d /\ d \in Concepts
      BY <2>1 DEF d
    <3>2. ASSUME Taken(w, ledger[w].concept)
          PROVE  \E v \in Uris \ {w} :
                   Active(ledger, v)' /\ ledger'[v].concept = d
      <4>1. PICK v \in Uris \ {w} :
              Active(ledger, v) /\ ledger[v].concept = d
        BY <3>1, <3>2 DEF Taken
      <4>2. v # u
        BY <4>1, <3>0
      <4>3. ledger'[v] = ledger[v]
        BY <1>3, <4>2
      <4> QED
        BY <4>1, <4>3 DEF Active, Known
    <3>3. tree'[d] = tree[d]
      BY <1>4, <3>0, <3>1
    <3>4. Filed(w)'
      <4>1. CASE tree[ledger[w].concept] = None
        BY <3>1, <3>3, <4>1 DEF Filed
      <4>2. CASE Under(ledger[w].sha, tree[ledger[w].concept])
        BY <1>1, <2>1, <3>1, <3>3, <4>2 DEF Filed, Under
      <4>3. CASE Taken(w, ledger[w].concept)
        BY <3>1, <3>2, <4>3 DEF Filed, Taken, Active, Known
      <4> QED
        BY <2>1, <4>1, <4>2, <4>3 DEF Filed
    <3> QED
      BY <1>1, <2>1, <3>4 DEF Kept
  <2> QED
    BY <2>2, <2>3
<1>8. generational' = generational
  BY <1>1 DEF Edit, EditOnly
<1>9. LedgerInv'
  <2>1. Apart' /\ Plain'
    BY <1>1, <1>2, <1>3, <1>4, <1>6, <1>8 DEF Apart, Plain, IInv, LedgerInv
  <2>2. \A w \in Live' : Drawn(w)'
    BY <1>1, <1>3, <1>5, <1>6 DEF Drawn, Under, IInv, LedgerInv
  <2> QED
    BY <1>7, <2>1, <2>2 DEF LedgerInv
<1> QED
  BY <1>1, <1>2, <1>3, <1>4, <1>5, <1>9, EditInv, EditCounts DEF TypeOK

(* A run that is killed leaves the ledger as it was ... *)
LEMMA DieWritingInv ==
  ASSUME IInv, NEW u \in Uris, NEW sha \in Contents, NEW text \in Contents,
         DieWriting(u, sha, text)
  PROVE  IInv'
<1>1. PICK c \in {Home(u)} \cup {ledger[w].concept : w \in Priors(u, sha)} :
        /\ ~Taken(u, c) /\ WriteConcept(c, text)
        /\ passed' = passed \cup
             {<<ledger[w].sha, text>> :
                w \in {v \in Uris : Known(ledger, v) /\ ledger[v].concept = c}}
  BY DEF DieWriting
<1>2. Killed /\ UNCHANGED <<docs, ledger, shared, bare>>
  BY DEF DieWriting
<1>3. TypeOK /\ Plain /\ c \in Concepts
  <2>1. Home(u) \in Concepts
    BY KnownFields, HomeAssumption DEF Home, IInv
  <2>2. \A w \in Priors(u, sha) : w \in Uris /\ Known(ledger, w)
    BY DEF Priors, MatchBySha
  <2>3. \A w \in Priors(u, sha) : ledger[w].concept \in Concepts
    BY <2>2, KnownFields DEF IInv
  <2> QED
    BY <2>1, <2>3 DEF IInv, LedgerInv
<1>4. /\ tree' \in [Concepts -> Contents \cup {None}]
      /\ plain' \in [Concepts -> Contents \cup {None}]
      /\ held' \in SUBSET (Concepts \X Contents)
      /\ ~generational => plain' = tree'
      /\ tree'[c] = text /\ held \subseteq held'
      /\ \A d \in Concepts \ {c} : tree'[d] = tree[d]
  BY <1>1, <1>3, WriteType
<1>5. /\ passed \subseteq passed' /\ passed' \in SUBSET (Contents \X Contents)
      /\ \A w \in Uris : Known(ledger, w) /\ ledger[w].concept = c
                           => <<ledger[w].sha, text>> \in passed'
  BY <1>1, <1>3, KnownFields DEF TypeOK
<1>6. Live' = Live
  BY <1>2 DEF Live
<1>7. \A w \in Uris : Known(ledger, w)' => Kept(w)' /\ Filed(w)'
  <2> SUFFICES ASSUME NEW w \in Uris, Known(ledger, w)
               PROVE  Kept(w)' /\ Filed(w)'
    BY <1>2 DEF Known
  <2>1. Kept(w) /\ Filed(w) /\ ledger[w].concept \in Concepts
    BY <1>3, KnownFields DEF IInv, LedgerInv
  <2>2. CASE ledger[w].concept = c
    BY <1>2, <1>4, <1>5, <2>1, <2>2 DEF Kept, Filed, Under
  <2>3. CASE ledger[w].concept # c
    BY <1>2, <1>4, <1>5, <2>1, <2>3
    DEF Kept, Filed, Under, Taken, Active, Known
  <2> QED
    BY <2>2, <2>3
<1>8. Apart' /\ \A w \in Live' : Drawn(w)'
  BY <1>2, <1>5, <1>6 DEF Apart, Drawn, Under, IInv, LedgerInv
<1>9. Plain'
  <2>1. \A w \in Live : ledger[w].concept \in Concepts
    BY <1>3, EntryFields
  <2>2. text # None
    BY MarkerAssumption
  <2>3. generational' = generational
    BY <1>2 DEF Killed, EditOnly
  <2> QED
    BY <1>2, <1>3, <1>4, <1>6, <2>1, <2>2, <2>3 DEF Plain
<1>10. LedgerInv'
  BY <1>7, <1>8, <1>9 DEF LedgerInv
<1> QED
  BY <1>2, <1>3, <1>4, <1>5, <1>10, EditInv, EditCounts DEF TypeOK

LEMMA DieSweepingInv ==
  ASSUME IInv, NEW u \in Uris, DieSweeping(u)
  PROVE  IInv'
<1> DEFINE c == ledger[u].concept
<1>1. /\ Killed /\ u \in Live /\ Unlink(c) /\ bare' = bare \cup {u}
      /\ UNCHANGED <<docs, ledger, held, passed>>
  BY DEF DieSweeping, Live
<1>2. c \in Concepts /\ TypeOK /\ Plain
  BY <1>1, EntryFields DEF IInv, LedgerInv
<1> HIDE DEF c
<1>3. /\ tree' \in [Concepts -> Contents \cup {None}]
      /\ plain' \in [Concepts -> Contents \cup {None}]
      /\ shared' \in SUBSET Concepts
      /\ ~generational => plain' = tree'
      /\ tree'[c] = None
      /\ \A d \in Concepts \ {c} : tree'[d] = tree[d]
  BY <1>1, <1>2, UnlinkType
<1>4. Live' = Live
  BY <1>1 DEF Live
<1>5. \A w \in Uris : Known(ledger, w)' => Kept(w)' /\ Filed(w)'
  <2> SUFFICES ASSUME NEW w \in Uris, Known(ledger, w)
               PROVE  Kept(w)' /\ Filed(w)'
    BY <1>1 DEF Known
  <2>1. Kept(w) /\ Filed(w) /\ ledger[w].concept \in Concepts
    BY <1>2, KnownFields DEF IInv, LedgerInv
  <2>2. CASE ledger[w].concept = c
    BY <1>1, <1>3, <2>1, <2>2 DEF Kept, Filed
  <2>3. CASE ledger[w].concept # c
    BY <1>1, <1>3, <2>1, <2>3 DEF Kept, Filed, Under, Taken, Active, Known
  <2> QED
    BY <2>2, <2>3
<1>6. Apart' /\ \A w \in Live' : Drawn(w)'
  BY <1>1, <1>4 DEF Apart, Drawn, Under, IInv, LedgerInv
<1>7. Plain'
  <2>1. \A w \in Live : ledger[w].concept \in Concepts
    BY <1>2, EntryFields
  <2>2. \A w \in Live : ledger[w].concept = c => w = u
    BY <1>1 DEF IInv, LedgerInv, Apart, c
  <2>3. generational' = generational
    BY <1>1 DEF Killed, EditOnly
  <2> QED
    BY <1>1, <1>2, <1>3, <1>4, <2>1, <2>2, <2>3 DEF Plain
<1>8. LedgerInv'
  BY <1>5, <1>6, <1>7 DEF LedgerInv
<1>9. bare' \in SUBSET Uris
  BY <1>1, <1>2 DEF TypeOK
<1> QED
  BY <1>1, <1>2, <1>3, <1>8, <1>9, EditInv, EditCounts DEF TypeOK

(* ... or empty. *)
LEMMA DieSavingInv ==
  ASSUME IInv, DieSaving
  PROVE  IInv'
<1>1. /\ Killed /\ ledger' = EmptyLedger /\ bare' = {}
      /\ UNCHANGED <<docs, tree, plain, shared, held, passed>>
  BY DEF DieSaving
<1>2. /\ ledger' \in Ledgers /\ \A w \in Uris : ~Known(ledger, w)'
      /\ Live' = {}
  BY <1>1 DEF Ledgers, EmptyLedger, Known, Live, Active
<1>3. generational' = generational
  BY <1>1 DEF Killed, EditOnly
<1>4. LedgerInv'
  BY <1>1, <1>2, <1>3 DEF IInv, LedgerInv, Apart, Plain
<1> QED
  BY <1>1, <1>2, <1>4, EditInv, EditCounts DEF IInv, TypeOK

LEMMA TurnOnInv ==
  ASSUME IInv, TurnOn
  PROVE  IInv'
<1>1. /\ phase = "idle" /\ generational' = TRUE /\ ~generational
      /\ shared' \in SUBSET Concepts
      /\ UNCHANGED <<docs, ledger, tree, plain, held, passed, bare, edits,
                     model, rows, phase, todo, batch, quarantined, fresh,
                     switches, deaths>>
  BY DEF TurnOn, hookVars
<1>2. generational' \in BOOLEAN
  BY <1>1, Zenon
<1>3. Live' = Live /\ Keys' = Keys /\ RowCount' = RowCount
  BY <1>1 DEF Live, Keys, RowCount, Has
<1>4. TypeOK'
  BY <1>1, <1>2, <1>3 DEF IInv, TypeOK
<1>5. LedgerInv'
  BY <1>1, <1>3
  DEF IInv, LedgerInv, Apart, Kept, Filed, Taken, Active, Known, Under, Drawn,
      Plain
<1>6. QueueInv'
  BY <1>1 DEF IInv, QueueInv
<1>7. RowsInv' /\ RowsKeepKey'
  BY <1>1, <1>3
  DEF IInv, RowsInv, OwnRow, OwnContent, Has, RowsKeepKey, RowsKeepModel,
      RowsKeepContent
<1>8. DoneInv'
  BY <1>1, <1>3 DEF IInv, DoneInv, Handled, Named, Own, Queued, NoText, Has,
                    Body, HookTree, QueueInv, LedgerInv, Plain
<1> QED
  BY <1>4, <1>5, <1>6, <1>7, <1>8 DEF IInv

LEMMA SwitchInv ==
  ASSUME IInv, SwitchModel
  PROVE  IInv'
<1>1. /\ phase = "idle" /\ fresh' = FALSE /\ model' \in Models
      /\ switches < MaxSwitches /\ switches' = switches + 1
      /\ UNCHANGED <<docs, ledger, tree, plain, shared, held, passed, bare,
                     edits, generational, rows, phase, todo, batch,
                     quarantined, deaths>>
  BY DEF SwitchModel, treeVars, hookVars
<1>2. fresh' \in BOOLEAN
  BY <1>1, Zenon
<1>3. Live' = Live /\ Keys' = Keys /\ RowCount' = RowCount
  BY <1>1 DEF Live, Keys, RowCount, Has
<1>4. TypeOK'
  BY <1>1, <1>2, <1>3, BoundsAssumption DEF IInv, TypeOK
<1>5. LedgerInv'
  BY <1>1, <1>3
  DEF IInv, LedgerInv, Apart, Kept, Filed, Taken, Active, Known, Under, Drawn,
      Plain
<1>6. QueueInv'
  BY <1>1 DEF IInv, QueueInv
<1>7. RowsInv' /\ RowsKeepKey'
  BY <1>1, <1>3
  DEF IInv, RowsInv, OwnRow, OwnContent, Has, RowsKeepKey, RowsKeepModel,
      RowsKeepContent
<1>8. DoneInv'
  BY <1>1, <1>3 DEF DoneInv
<1> QED
  BY <1>4, <1>5, <1>6, <1>7, <1>8 DEF IInv

-----------------------------------------------------------------------------
(* What the steps of the hook leave alone. *)
HookFrame ==
  UNCHANGED <<docs, ledger, tree, plain, shared, held, passed, bare, edits,
              generational, model, switches>>

LEMMA HookKeeps ==
  ASSUME IInv, HookFrame
  PROVE  /\ Live' = Live /\ LedgerInv'
         /\ \A u : Body(u)' = Body(u) /\ (NoText(u)' <=> NoText(u))
         /\ \A u : Own(u)' <=> Own(u)
<1>1. Live' = Live
  BY DEF HookFrame, Live
<1>2. \A u : Body(u)' = Body(u)
  BY DEF HookFrame, Body, HookTree
<1>3. LedgerInv'
  BY <1>1
  DEF HookFrame, IInv, LedgerInv, Apart, Kept, Filed, Taken, Active, Known,
      Under, Drawn, Plain
<1> QED
  BY <1>1, <1>2, <1>3 DEF HookFrame, NoText, Own

(* A step of the hook that does not touch the rows. *)
LEMMA RowsRest ==
  ASSUME IInv, HookFrame, rows' = rows
  PROVE  /\ RowsInv' /\ RowsKeepKey'
         /\ \A sha, m : Has(sha, m)' <=> Has(sha, m)
<1>1. Keys' = Keys /\ RowCount' = RowCount
  BY DEF Keys, RowCount, Has
<1> QED
  BY <1>1 DEF HookFrame, IInv, RowsInv, OwnRow, OwnContent, Has, RowsKeepKey,
     RowsKeepModel, RowsKeepContent

(* A text may stand under the hash of its entry, unless generations are on. *)
LEMMA TextIsContent ==
  ASSUME IInv, NEW u \in Live
  PROVE  /\ Body(u) \in Contents \cup {None}
         /\ ~generational /\ Body(u) # None => Under(ledger[u].sha, Body(u))
         /\ Body(u) = None => NoText(u)
<1>1. /\ ledger[u].concept \in Concepts /\ ledger[u].sha \in Contents
      /\ u \in Uris /\ Known(ledger, u)
  BY EntryFields DEF IInv
<1>2. Body(u) \in Contents \cup {None}
  BY <1>1 DEF Body, HookTree, IInv, TypeOK
<1>3. ~generational => Body(u) = tree[ledger[u].concept]
  BY DEF Body, HookTree, IInv, LedgerInv, Plain
<1>4. ~Taken(u, ledger[u].concept) /\ Filed(u)
  BY <1>1 DEF Taken, IInv, LedgerInv, Apart, Live
<1>5. ~generational /\ Body(u) = None => u \in bare
  BY <1>3 DEF IInv, LedgerInv, Plain
<1> QED
  BY <1>2, <1>3, <1>4, <1>5 DEF NoText, Filed

(* What may stand under the hash of an entry is a content of its concept. *)
LEMMA UnderIsOwn ==
  ASSUME IInv, NEW u \in Live, NEW content,
         Under(ledger[u].sha, content) \/ generational
  PROVE  OwnContent(ledger[u].concept, content)
<1>1. ledger[u].sha \in Contents /\ Kept(u)
  BY EntryFields DEF IInv, LedgerInv
<1> QED
  BY <1>1 DEF Under, OwnContent, Kept

-----------------------------------------------------------------------------
(* What an insert or replace makes of the rows: theirs stay but one, and no
   key is lost.                                                            *)
OneRow(sha, m) ==
  /\ rows' \in [Contents -> [Models -> Row \cup {NoRow}]]
  /\ rows'[sha][m] # NoRow
  /\ \A x \in Contents, y \in Models :
       ~(x = sha /\ y = m) => rows'[x][y] = rows[x][y]
  /\ IsFiniteSet(Keys') /\ RowCount \in Nat /\ RowCount' \in Nat
  /\ RowCount <= RowCount' /\ rows'[sha][m].id <= RowCount'

LEMMA Upserted ==
  ASSUME TypeOK, RowsInv, NEW sha \in Contents, NEW m \in Models,
         NEW concept \in Concepts, NEW vector \in Vector,
         Upsert(sha, m, concept, vector)
  PROVE  /\ OneRow(sha, m) /\ rows'[sha][m].concept = concept
         /\ rows'[sha][m].vector = vector
<1> DEFINE id == IF Has(sha, m) THEN rows[sha][m].id ELSE RowCount + 1
<1> DEFINE row == [concept |-> concept, vector |-> vector, id |-> id]
<1>1. IsFiniteSet(Keys) /\ RowCount = Cardinality(Keys) /\ RowCount \in Nat
  BY FS_CardinalityType DEF RowsInv, RowCount, Keys
<1>2. /\ rows[sha][m] \in Row \cup {NoRow}
      /\ Has(sha, m) => rows[sha][m].id \in Nat /\ rows[sha][m].id <= RowCount
  BY DEF TypeOK, RowsInv, Has, Row
<1>3. id \in Nat /\ (Has(sha, m) => id <= RowCount)
      /\ (~Has(sha, m) => id = RowCount + 1)
  BY <1>1, <1>2
<1>4. rows' = [rows EXCEPT ![sha][m] = row]
  BY DEF Upsert
<1> HIDE DEF id
<1>5. /\ row \in Row /\ row.concept = concept /\ row.vector = vector
      /\ row.id = id
  BY <1>3 DEF Row
<1> HIDE DEF row
<1>6. row # NoRow
  BY <1>5, MarkerAssumption
<1>7. /\ rows' \in [Contents -> [Models -> Row \cup {NoRow}]]
      /\ rows'[sha][m] = row
      /\ \A x \in Contents, y \in Models :
           ~(x = sha /\ y = m) => rows'[x][y] = rows[x][y]
  BY <1>4, <1>5 DEF TypeOK
<1>8. Keys' = Keys \cup {<<sha, m>>}
  <2>1. \A k \in Contents \X Models :
          Has(k[1], k[2])' <=> k = <<sha, m>> \/ Has(k[1], k[2])
    BY <1>6, <1>7 DEF Has
  <2> QED
    BY <2>1 DEF Keys
<1>9. /\ IsFiniteSet(Keys')
      /\ Cardinality(Keys') = IF <<sha, m>> \in Keys THEN Cardinality(Keys)
                                                    ELSE Cardinality(Keys) + 1
  <2>1. /\ IsFiniteSet(Keys \cup {<<sha, m>>})
        /\ Cardinality(Keys \cup {<<sha, m>>}) =
              IF <<sha, m>> \in Keys THEN Cardinality(Keys)
                                     ELSE Cardinality(Keys) + 1
    BY <1>1, FS_AddElement, Zenon
  <2> QED
    BY <1>8, <2>1
<1>10. <<sha, m>> \in Keys <=> Has(sha, m)
  BY DEF Keys
<1>11. RowCount' = Cardinality(Keys')
  BY DEF RowCount, Keys
<1> QED
  BY <1>1, <1>3, <1>5, <1>6, <1>7, <1>9, <1>10, <1>11 DEF OneRow

LEMMA ConceptSet ==
  ASSUME TypeOK, RowsInv, NEW sha \in Contents, NEW m \in Models,
         NEW concept \in Concepts, Has(sha, m), SetConcept(sha, m, concept)
  PROVE  /\ OneRow(sha, m) /\ rows'[sha][m].concept = concept
         /\ rows'[sha][m].vector = rows[sha][m].vector
<1> DEFINE row == [rows[sha][m] EXCEPT !.concept = concept]
<1>1. IsFiniteSet(Keys) /\ RowCount = Cardinality(Keys) /\ RowCount \in Nat
  BY FS_CardinalityType DEF RowsInv, RowCount, Keys
<1>2. rows[sha][m] \in Row /\ rows[sha][m].id <= RowCount
  BY DEF TypeOK, RowsInv, Has
<1>3. rows' = [rows EXCEPT ![sha][m] = row]
  BY DEF SetConcept
<1>4. /\ row \in Row /\ row.concept = concept
      /\ row.vector = rows[sha][m].vector /\ row.id = rows[sha][m].id
  BY <1>2 DEF Row
<1> HIDE DEF row
<1>5. row # NoRow
  BY <1>4, MarkerAssumption
<1>6. /\ rows' \in [Contents -> [Models -> Row \cup {NoRow}]]
      /\ rows'[sha][m] = row
      /\ \A x \in Contents, y \in Models :
           ~(x = sha /\ y = m) => rows'[x][y] = rows[x][y]
  BY <1>3, <1>4 DEF TypeOK
<1>7. Keys' = Keys
  <2>1. \A k \in Contents \X Models : Has(k[1], k[2])' <=> Has(k[1], k[2])
    BY <1>5, <1>6 DEF Has
  <2> QED
    BY <2>1 DEF Keys
<1>8. RowCount' = Cardinality(Keys')
  BY DEF RowCount, Keys
<1> QED
  BY <1>1, <1>2, <1>4, <1>5, <1>6, <1>7, <1>8 DEF OneRow

(* The row that a step of the hook made is right, so all are. *)
LEMMA RowsStay ==
  ASSUME IInv, HookFrame, NEW sha \in Contents, OneRow(sha, model),
         rows'[sha][model].vector.model = model,
         Under(sha, rows'[sha][model].vector.of) \/ generational,
         OwnRow(rows'[sha][model])
  PROVE  RowsInv' /\ RowsKeepKey'
<1>1. model \in Models
  BY DEF IInv, TypeOK
<1>2. ASSUME NEW x \in Contents, NEW m \in Models, Has(x, m)'
      PROVE  /\ rows'[x][m].id <= RowCount' /\ OwnRow(rows'[x][m])
             /\ rows'[x][m].vector.model = m
             /\ Under(x, rows'[x][m].vector.of) \/ generational
  <2>1. CASE x = sha /\ m = model
    BY <2>1 DEF OneRow
  <2>2. CASE ~(x = sha /\ m = model)
    <3>1. rows'[x][m] = rows[x][m]
      BY <2>2 DEF OneRow
    <3>2. Has(x, m)
      BY <1>2, <3>1 DEF Has
    <3>3. rows[x][m].id \in Nat
      BY <3>2 DEF IInv, TypeOK, Has, Row
    <3>4. rows[x][m].id <= RowCount /\ OwnRow(rows[x][m])
      BY <3>2 DEF IInv, RowsInv
    <3>5. rows[x][m].vector.model = m
      BY <3>2 DEF IInv, RowsKeepKey, RowsKeepModel
    <3>6. Under(x, rows[x][m].vector.of) \/ generational
      BY <3>2 DEF IInv, RowsKeepKey, RowsKeepContent, Under
    <3>7. rows'[x][m].id <= RowCount'
      BY <3>1, <3>3, <3>4 DEF OneRow
    <3> QED
      BY <3>1, <3>4, <3>5, <3>6, <3>7
  <2> QED
    BY <2>1, <2>2
<1>3. UNCHANGED <<held, passed, generational>>
  BY DEF HookFrame
<1>4. RowsInv'
  BY <1>2, <1>3 DEF RowsInv, OneRow, OwnRow, OwnContent
<1>5. RowsKeepKey'
  BY <1>2, <1>3 DEF RowsKeepKey, RowsKeepModel, RowsKeepContent, Under
<1> QED
  BY <1>4, <1>5

-----------------------------------------------------------------------------
(* A visit to one entry: what was true of the others stays true of them. *)
LEMMA VisitFrame ==
  ASSUME IInv, NEW u \in todo, Visit(u)
  PROVE  /\ HookFrame /\ phase = "walk" /\ phase' = "walk" /\ ~fresh
         /\ fresh' = fresh /\ deaths' = deaths /\ todo' = todo \ {u}
         /\ u \in Live
BY DEF Visit, HookFrame, treeVars, IInv, TypeOK, QueueInv

LEMMA VisitInv ==
  ASSUME IInv, NEW u \in todo, Visit(u),
         RowsInv', RowsKeepKey', batch \subseteq batch',
         rows' \in [Contents -> [Models -> Row \cup {NoRow}]],
         quarantined' \in SUBSET Uris,
         \A x \in Contents : Has(x, model) => Has(x, model)',
         \A x \in Contents \ {ledger[u].sha} :
           rows'[x][model] = rows[x][model],
         \A item \in batch' \ batch :
           item = [sha |-> ledger[u].sha, concept |-> ledger[u].concept,
                   text |-> Body(u)] /\ Body(u) # None,
         Handled(u)', Named(u)'
  PROVE  IInv'
<1>1. /\ HookFrame /\ phase = "walk" /\ phase' = "walk" /\ ~fresh
      /\ fresh' = fresh /\ deaths' = deaths /\ todo' = todo \ {u}
      /\ u \in Live
  BY VisitFrame
<1>2. /\ Live' = Live /\ LedgerInv'
      /\ \A w : Body(w)' = Body(w) /\ (NoText(w)' <=> NoText(w))
      /\ \A w : Own(w)' <=> Own(w)
  BY <1>1, HookKeeps
<1>3. /\ ledger[u].sha \in Contents /\ model \in Models
      /\ Body(u) \in Contents \cup {None}
  BY <1>1, EntryFields, TextIsContent DEF IInv, TypeOK
<1>4. ledger' = ledger /\ model' = model
  BY <1>1 DEF HookFrame
<1>5. TypeOK'
  <2>1. batch' \in SUBSET [sha : {ledger'[w].sha : w \in Live'},
                           concept : {ledger'[w].concept : w \in Live'},
                           text : Contents]
    <3>1. \A item \in batch :
            item \in [sha : {ledger[w].sha : w \in Live},
                     concept : {ledger[w].concept : w \in Live},
                     text : Contents]
      BY DEF IInv, TypeOK
    <3>2. \A item \in batch' \ batch :
            item \in [sha : {ledger[w].sha : w \in Live},
                     concept : {ledger[w].concept : w \in Live},
                     text : Contents]
      BY <1>1, <1>3
    <3> QED
      BY <1>2, <1>4, <3>1, <3>2
  <2>2. todo' \in SUBSET Live'
    BY <1>1, <1>2 DEF IInv, TypeOK
  <2>3. deaths' \in 0..MaxDeaths /\ fresh' \in BOOLEAN
    BY <1>1 DEF IInv, TypeOK
  <2> QED
    BY <1>1, <2>1, <2>2, <2>3 DEF IInv, TypeOK, HookFrame
<1>6. QueueInv'
  <2>1. \A item \in batch' : \E w \in Live' :
          item = [sha |-> ledger'[w].sha, concept |-> ledger'[w].concept,
                  text |-> Body(w)']
    <3> SUFFICES ASSUME NEW item \in batch'
                 PROVE  \E w \in Live :
                          item = [sha |-> ledger[w].sha,
                                  concept |-> ledger[w].concept,
                                  text |-> Body(w)]
      BY <1>2, <1>4
    <3>1. CASE item \in batch
      BY <3>1 DEF IInv, QueueInv
    <3>2. CASE item \notin batch
      BY <1>1, <3>2
    <3> QED
      BY <3>1, <3>2
  <2> QED
    BY <1>1, <2>1 DEF QueueInv
<1>7. DoneInv'
  <2> SUFFICES ASSUME NEW w \in Live, w \notin todo'
               PROVE  Handled(w)' /\ (Own(w) => Named(w)')
    BY <1>1, <1>2 DEF DoneInv
  <2>1. CASE w = u
    BY <2>1
  <2>2. CASE w # u
    <3>1. Handled(w) /\ (Own(w) => Named(w))
      BY <1>1, <2>2 DEF IInv, DoneInv
    <3>2. ledger[w].sha \in Contents
      BY EntryFields DEF IInv
    <3>3. Queued(w) => Queued(w)'
      BY <1>4 DEF Queued
    <3>4. Handled(w)'
      BY <1>2, <1>4, <3>1, <3>2, <3>3 DEF Handled, Has
    <3>5. Own(w) => ledger[w].sha # ledger[u].sha
      BY <1>1, <2>2 DEF Own
    <3>6. Own(w) => Named(w)'
      BY <1>2, <1>4, <3>1, <3>2, <3>3, <3>5 DEF Named, Has
    <3> QED
      BY <3>4, <3>6
  <2> QED
    BY <2>1, <2>2
<1> QED
  BY <1>2, <1>5, <1>6, <1>7 DEF IInv

(* A visit that makes or renames the row of its entry. *)
LEMMA RowVisit ==
  ASSUME IInv, NEW u \in todo, Visit(u), OneRow(ledger[u].sha, model),
         rows'[ledger[u].sha][model].concept = ledger[u].concept,
         batch' = batch, quarantined' \in SUBSET Uris,
         RowsInv', RowsKeepKey'
  PROVE  IInv'
<1>1. HookFrame /\ u \in Live
  BY VisitFrame
<1>2. ledger[u].sha \in Contents /\ model \in Models
  BY <1>1, EntryFields DEF IInv, TypeOK
<1>3. ledger' = ledger /\ model' = model
  BY <1>1 DEF HookFrame
<1>4. \A x \in Contents : Has(x, model) => Has(x, model)'
  <2> SUFFICES ASSUME NEW x \in Contents, Has(x, model)
               PROVE  rows'[x][model] # NoRow
    BY <1>3 DEF Has
  <2> QED
    BY <1>2 DEF OneRow, Has
<1>5. \A x \in Contents \ {ledger[u].sha} : rows'[x][model] = rows[x][model]
  BY <1>2 DEF OneRow
<1>6. Handled(u)' /\ Named(u)'
  BY <1>2, <1>3 DEF Handled, Named, Has, OneRow
<1> QED
  BY <1>4, <1>5, <1>6, VisitInv DEF OneRow

LEMMA ImportInv ==
  ASSUME IInv, NEW u \in Uris, Import(u)
  PROVE  IInv'
<1>1. u \in todo /\ Visit(u)
  BY DEF Import, Visit
<1>2. HookFrame /\ u \in Live
  BY <1>1, VisitFrame
<1> DEFINE vector == [model |-> model, of |-> docs[u]]
<1>3. /\ ledger[u].sha \in Contents /\ ledger[u].concept \in Concepts
      /\ model \in Models
  BY <1>2, EntryFields DEF IInv, TypeOK
<1>4. docs[u] \in Contents /\ Under(ledger[u].sha, docs[u])
  BY <1>2 DEF Import, IInv, TypeOK, LedgerInv, Drawn
<1>5. vector \in Vector /\ vector.model = model /\ vector.of = docs[u]
  BY <1>3, <1>4 DEF Vector
<1>6. Upsert(ledger[u].sha, model, ledger[u].concept, vector)
      /\ UNCHANGED <<batch, quarantined>>
  BY DEF Import
<1> HIDE DEF vector
<1>7. /\ OneRow(ledger[u].sha, model)
      /\ rows'[ledger[u].sha][model].concept = ledger[u].concept
      /\ rows'[ledger[u].sha][model].vector = vector
  BY <1>3, <1>5, <1>6, Upserted DEF IInv
<1>8. OwnRow(rows'[ledger[u].sha][model])
  BY <1>2, <1>4, <1>5, <1>7, UnderIsOwn DEF OwnRow
<1>9. RowsInv' /\ RowsKeepKey'
  BY <1>2, <1>3, <1>4, <1>5, <1>7, <1>8, RowsStay
<1>10. quarantined' \in SUBSET Uris
  BY <1>6 DEF IInv, TypeOK
<1> QED
  BY <1>1, <1>6, <1>7, <1>9, <1>10, RowVisit

LEMMA SidecarType ==
  ASSUME IInv, NEW u \in Uris, Sidecar(u)
  PROVE  quarantined' \in SUBSET Uris
BY DEF Sidecar, IInv, TypeOK

LEMMA ReuseInv ==
  ASSUME IInv, NEW u \in Uris, Reuse(u)
  PROVE  IInv'
<1>1. u \in todo /\ Visit(u)
  BY DEF Reuse, Visit
<1>2. HookFrame /\ u \in Live
  BY <1>1, VisitFrame
<1> DEFINE sha == ledger[u].sha
<1>3. sha \in Contents /\ ledger[u].concept \in Concepts /\ model \in Models
  BY <1>2, EntryFields DEF IInv, TypeOK
<1>4. /\ Has(sha, model) /\ SetConcept(sha, model, ledger[u].concept)
      /\ batch' = batch
  BY DEF Reuse
<1> HIDE DEF sha
<1>5. /\ OneRow(sha, model)
      /\ rows'[sha][model].concept = ledger[u].concept
      /\ rows'[sha][model].vector = rows[sha][model].vector
  BY <1>3, <1>4, ConceptSet DEF IInv
<1>6. rows[sha][model].vector.model = model
  BY <1>3, <1>4 DEF IInv, RowsKeepKey, RowsKeepModel
<1>7. Under(sha, rows[sha][model].vector.of) \/ generational
  BY <1>3, <1>4 DEF IInv, RowsKeepKey, RowsKeepContent, Under
<1>8. OwnRow(rows'[sha][model])
  BY <1>2, <1>5, <1>7, UnderIsOwn DEF OwnRow, sha
<1>9. RowsInv' /\ RowsKeepKey'
  BY <1>2, <1>3, <1>5, <1>6, <1>7, <1>8, RowsStay
<1>10. quarantined' \in SUBSET Uris
  BY SidecarType DEF Reuse
<1> QED
  BY <1>1, <1>4, <1>5, <1>9, <1>10, RowVisit DEF sha

LEMMA QueueStepInv ==
  ASSUME IInv, NEW u \in Uris, Queue(u)
  PROVE  IInv'
<1>1. u \in todo /\ Visit(u) /\ rows' = rows
  BY DEF Queue, Visit
<1>2. HookFrame /\ u \in Live
  BY <1>1, VisitFrame
<1>3. /\ RowsInv' /\ RowsKeepKey'
      /\ \A sha, m : Has(sha, m)' <=> Has(sha, m)
  BY <1>1, <1>2, RowsRest
<1> DEFINE new == [sha |-> ledger[u].sha, concept |-> ledger[u].concept,
                   text |-> Body(u)]
<1>4. \/ Body(u) = None /\ batch' = batch
      \/ Body(u) # None /\ batch' = batch \cup {new}
  BY DEF Queue
<1>5. /\ batch \subseteq batch'
      /\ \A item \in batch' \ batch : item = new /\ Body(u) # None
  BY <1>4
<1>6. /\ ledger' = ledger /\ model' = model
      /\ NoText(u)' <=> NoText(u)
  BY <1>2, HookKeeps DEF HookFrame
<1>7. Handled(u)' /\ Named(u)'
  <2>1. CASE Body(u) = None
    <3>1. NoText(u)'
      BY <1>2, <1>6, <2>1, TextIsContent
    <3> QED
      BY <3>1 DEF Handled, Named
  <2>2. CASE Body(u) # None
    <3>1. new \in batch' /\ new.sha = ledger[u].sha
      BY <1>4, <2>2
    <3> HIDE DEF new
    <3>2. Queued(u)'
      BY <1>6, <3>1 DEF Queued
    <3> QED
      BY <3>2 DEF Handled, Named
  <2> QED
    BY <2>1, <2>2
<1>8. quarantined' \in SUBSET Uris
  BY SidecarType DEF Queue
<1>9. rows' \in [Contents -> [Models -> Row \cup {NoRow}]]
  BY <1>1 DEF IInv, TypeOK
<1>10. /\ \A x \in Contents : Has(x, model) => Has(x, model)'
       /\ \A x \in Contents \ {ledger[u].sha} :
            rows'[x][model] = rows[x][model]
  BY <1>1, <1>6 DEF Has
<1> QED
  BY <1>1, <1>3, <1>5, <1>7, <1>8, <1>9, <1>10, VisitInv

-----------------------------------------------------------------------------
LEMMA StoreInv ==
  ASSUME IInv, NEW item \in batch, Store(item)
  PROVE  IInv'
<1>1. /\ HookFrame /\ phase = "store" /\ phase' = "store" /\ todo' = todo
      /\ batch' = batch \ {item}
      /\ UNCHANGED <<quarantined, fresh, deaths>>
      /\ Upsert(item.sha, model, item.concept,
                [model |-> model, of |-> item.text])
  BY DEF Store, HookFrame, treeVars
<1>2. PICK u \in Live :
        item = [sha |-> ledger[u].sha, concept |-> ledger[u].concept,
                text |-> Body(u)]
  BY DEF IInv, QueueInv
<1> DEFINE sha == ledger[u].sha
<1> DEFINE vector == [model |-> model, of |-> item.text]
<1>3. /\ item.sha = sha /\ item.concept = ledger[u].concept
      /\ item.text = Body(u) /\ item.text \in Contents
  BY <1>2 DEF IInv, TypeOK
<1>4. sha \in Contents /\ ledger[u].concept \in Concepts /\ model \in Models
  BY EntryFields DEF IInv, TypeOK
<1>5. vector \in Vector /\ vector.model = model /\ vector.of = item.text
  BY <1>3, <1>4 DEF Vector
<1>6. Under(sha, vector.of) \/ generational
  BY <1>3, <1>5, TextIsContent, MarkerAssumption
<1>7. Upsert(sha, model, ledger[u].concept, vector)
  BY <1>1, <1>3
<1> HIDE DEF sha, vector
<1>8. /\ OneRow(sha, model)
      /\ rows'[sha][model].concept = ledger[u].concept
      /\ rows'[sha][model].vector = vector
  BY <1>4, <1>5, <1>7, Upserted DEF IInv
<1>9. OwnRow(rows'[sha][model])
  BY <1>6, <1>8, UnderIsOwn DEF OwnRow, sha
<1>10. RowsInv' /\ RowsKeepKey'
  BY <1>1, <1>4, <1>5, <1>6, <1>8, <1>9, RowsStay
<1>11. /\ Live' = Live /\ LedgerInv'
       /\ \A w : Body(w)' = Body(w) /\ (NoText(w)' <=> NoText(w))
       /\ \A w : Own(w)' <=> Own(w)
  BY <1>1, HookKeeps
<1>12. ledger' = ledger /\ model' = model
  BY <1>1 DEF HookFrame
<1>13. TypeOK'
  BY <1>1, <1>8, <1>11, <1>12 DEF IInv, TypeOK, HookFrame, OneRow
<1>14. QueueInv'
  BY <1>1, <1>11, <1>12 DEF IInv, QueueInv
<1>15. DoneInv'
  <2> SUFFICES ASSUME NEW w \in Live
               PROVE  Handled(w)' /\ (Own(w) => Named(w)')
    BY <1>11 DEF DoneInv
  <2>1. Handled(w) /\ (Own(w) => Named(w))
    BY <1>1 DEF IInv, DoneInv, QueueInv
  <2>2. ledger[w].sha \in Contents
    BY EntryFields DEF IInv
  <2>3. CASE ledger[w].sha = sha
    <3>1. Handled(w)'
      BY <1>8, <1>12, <2>3 DEF Handled, Has, OneRow
    <3>2. Own(w) => w = u
      BY <2>3 DEF Own, sha
    <3>3. Own(w) => Named(w)'
      BY <1>8, <1>12, <2>3, <3>2 DEF Named, Has, OneRow
    <3> QED
      BY <3>1, <3>3
  <2>4. CASE ledger[w].sha # sha
    <3>1. rows'[ledger[w].sha][model] = rows[ledger[w].sha][model]
      BY <1>4, <1>8, <2>2, <2>4 DEF OneRow
    <3>2. Queued(w) => Queued(w)'
      BY <1>1, <1>3, <1>12, <2>4 DEF Queued
    <3> QED
      BY <1>11, <1>12, <2>1, <3>1, <3>2 DEF Handled, Named, Has
  <2> QED
    BY <2>3, <2>4
<1> QED
  BY <1>10, <1>11, <1>13, <1>14, <1>15 DEF IInv

LEMMA BeginInv ==
  ASSUME IInv, Begin
  PROVE  IInv'
<1>1. /\ HookFrame /\ phase = "idle" /\ phase' = "walk" /\ todo' = Live
      /\ batch' = {} /\ fresh' = FALSE
      /\ UNCHANGED <<rows, quarantined, deaths>>
  BY DEF Begin, HookFrame, treeVars
<1>2. RowsInv' /\ RowsKeepKey' /\ Live' = Live /\ LedgerInv'
  BY <1>1, RowsRest, HookKeeps
<1>3. fresh' \in BOOLEAN
  BY <1>1, Zenon
<1>4. TypeOK'
  BY <1>1, <1>2, <1>3 DEF IInv, TypeOK, HookFrame
<1>5. QueueInv'
  BY <1>1 DEF QueueInv
<1>6. DoneInv'
  BY <1>1, <1>2 DEF DoneInv
<1> QED
  BY <1>2, <1>4, <1>5, <1>6 DEF IInv

(* The hook goes on, ends or dies; there are no new rows. *)
LEMMA PhaseInv ==
  ASSUME IInv, Encode \/ Finish \/ Die
  PROVE  IInv'
<1>1. /\ HookFrame /\ phase # "idle" /\ phase' \in {"idle", "store"}
      /\ UNCHANGED <<rows, quarantined>>
      /\ batch' \subseteq batch /\ todo' = {}
      /\ phase' = "idle" => batch' = {}
  BY DEF Encode, Finish, Die, HookFrame, treeVars, IInv, QueueInv
<1>2. /\ RowsInv' /\ RowsKeepKey' /\ Live' = Live /\ LedgerInv'
      /\ \A sha, m : Has(sha, m)' <=> Has(sha, m)
      /\ \A w : Body(w)' = Body(w) /\ (NoText(w)' <=> NoText(w))
      /\ \A w : Own(w)' <=> Own(w)
  BY <1>1, RowsRest, HookKeeps
<1>3. deaths' \in 0..MaxDeaths
  BY BoundsAssumption DEF Encode, Finish, Die, IInv, TypeOK
<1>4. fresh' \in BOOLEAN
  <2>1. fresh' = TRUE \/ fresh' = fresh
    BY DEF Encode, Finish, Die
  <2>2. fresh \in BOOLEAN
    BY DEF IInv, TypeOK
  <2> QED
    BY <2>1, <2>2, Zenon
<1>5. TypeOK'
  BY <1>1, <1>2, <1>3, <1>4 DEF IInv, TypeOK, HookFrame
<1>6. QueueInv'
  <2>1. fresh' => phase' = "idle"
    BY <1>1 DEF Encode, Finish, Die, IInv, QueueInv
  <2>2. ledger' = ledger
    BY <1>1 DEF HookFrame
  <2> QED
    BY <1>1, <1>2, <2>1, <2>2 DEF IInv, QueueInv
<1>7. DoneInv'
  <2>1. CASE Encode \/ Finish
    <3>1. todo = {} /\ batch' = batch /\ ledger' = ledger /\ model' = model
      BY <1>1, <2>1 DEF Encode, Finish, HookFrame, IInv, QueueInv
    <3>2. \A w \in Live : Handled(w) /\ (Own(w) => Named(w))
      BY <1>1, <3>1 DEF IInv, DoneInv
    <3> QED
      BY <1>1, <1>2, <3>1, <3>2 DEF DoneInv, Handled, Named, Queued
  <2>2. CASE Die
    <3>1. ~fresh' /\ phase' = "idle"
      BY <2>2 DEF Die, IInv, QueueInv
    <3> QED
      BY <3>1 DEF DoneInv
  <2> QED
    BY <2>1, <2>2
<1> QED
  BY <1>2, <1>5, <1>6, <1>7 DEF IInv

-----------------------------------------------------------------------------
LEMMA Initially == Init => IInv
<1> SUFFICES ASSUME Init
             PROVE  IInv
  OBVIOUS
<1> USE DEF Init
<1>1. Live = {} /\ Keys = {}
  BY DEF Live, Active, Known, EmptyLedger, Keys, Has
<1>2. generational \in BOOLEAN /\ fresh \in BOOLEAN
  BY Zenon
<1>3. TypeOK
  BY <1>1, <1>2, ServedAssumption, BoundsAssumption
  DEF TypeOK, Ledgers, EmptyLedger
<1>4. LedgerInv /\ QueueInv /\ DoneInv
  BY <1>1
  DEF LedgerInv, Apart, Plain, EmptyLedger, Known, QueueInv, DoneInv
<1>5. RowsInv
  <2>1. IsFiniteSet(Keys)
    BY <1>1, FS_EmptySet
  <2> QED
    BY <2>1 DEF RowsInv, Has
<1>6. RowsKeepKey
  BY DEF RowsKeepKey, RowsKeepModel, RowsKeepContent, Has
<1> QED
  BY <1>3, <1>4, <1>5, <1>6 DEF IInv

LEMMA Unchanged == IInv /\ UNCHANGED vars => IInv'
<1> SUFFICES ASSUME IInv, UNCHANGED vars
             PROVE  IInv'
  OBVIOUS
<1>1. HookFrame /\ UNCHANGED <<rows, phase, todo, batch, quarantined, fresh,
                               deaths>>
  BY DEF vars, treeVars, hookVars, HookFrame
<1>2. /\ RowsInv' /\ RowsKeepKey' /\ Live' = Live /\ LedgerInv'
      /\ \A sha, m : Has(sha, m)' <=> Has(sha, m)
      /\ \A w : Body(w)' = Body(w) /\ (NoText(w)' <=> NoText(w))
      /\ \A w : Own(w)' <=> Own(w)
  BY <1>1, RowsRest, HookKeeps
<1>3. TypeOK'
  BY <1>1, <1>2 DEF IInv, TypeOK, HookFrame
<1>4. QueueInv'
  BY <1>1, <1>2 DEF IInv, QueueInv, HookFrame
<1>5. DoneInv'
  BY <1>1, <1>2 DEF IInv, DoneInv, Handled, Named, Queued, HookFrame
<1> QED
  BY <1>2, <1>3, <1>4, <1>5 DEF IInv

LEMMA Inductive == Spec => []IInv
<1>1. IInv /\ [Next]_vars => IInv'
  <2> SUFFICES ASSUME IInv, Next
               PROVE  IInv'
    BY Unchanged
  <2>1. CASE \E u \in Uris, sha \in Contents :
               \/ Defer(u, sha) \/ Project(u, sha) \/ FailTransform(u, sha)
               \/ \E text \in Contents : DieWriting(u, sha, text)
    BY <2>1, ProjectInv, PassInv, DieWritingInv
  <2>2. CASE \E old, u \in Uris : Rename(old, u) \/ AdoptThenFail(old, u)
    BY <2>2, TakeOverInv
  <2>3. CASE (\E u \in Uris : Withdraw(u) \/ DieSweeping(u)) \/ DieSaving
    BY <2>3, WithdrawInv, DieSweepingInv, DieSavingInv
  <2>4. CASE TurnOn \/ SwitchModel
    BY <2>4, TurnOnInv, SwitchInv
  <2>5. CASE Begin \/ Encode \/ Finish \/ Die
    BY <2>5, BeginInv, PhaseInv
  <2>6. CASE \E u \in Uris : Import(u) \/ Reuse(u) \/ Queue(u)
    BY <2>6, ImportInv, ReuseInv, QueueStepInv
  <2>7. CASE \E item \in batch : Store(item)
    BY <2>7, StoreInv
  <2> QED
    BY <2>1, <2>2, <2>3, <2>4, <2>5, <2>6, <2>7 DEF Next, Sync, Hook
<1> QED
  BY <1>1, Initially, PTL DEF Spec

-----------------------------------------------------------------------------
(* The row that a lookup takes: of the concept's rows the one that was first
   inserted last.                                                           *)
LEMMA LookupFinds ==
  ASSUME IInv, NEW m \in Models, NEW c \in Concepts, RowsOf(m, c) # {}
  PROVE  \E sha \in RowsOf(m, c) : VectorFor(m, c) = rows[sha][m].vector
<1> DEFINE back == {RowCount - rows[sha][m].id : sha \in RowsOf(m, c)}
<1>1. RowCount \in Nat
  BY FS_CardinalityType DEF IInv, RowsInv, RowCount, Keys
<1>2. \A sha \in RowsOf(m, c) :
        rows[sha][m].id \in Nat /\ rows[sha][m].id <= RowCount
  BY DEF RowsOf, IInv, TypeOK, RowsInv, Has, Row
<1>3. back \subseteq Nat /\ back # {}
  BY <1>1, <1>2
<1>4. PICK n \in back : \A k \in back : <<k, n>> \notin OpToRel(<, Nat)
  BY <1>3, NatLessThanWellFounded, WFMin
<1>5. \A k \in back : ~(k < n)
  <2> SUFFICES ASSUME NEW k \in back
               PROVE  ~(k < n)
    OBVIOUS
  <2>1. k \in Nat /\ n \in Nat
    BY <1>3
  <2> HIDE DEF back
  <2>2. <<k, n>> \in Nat \X Nat
    BY <2>1
  <2> QED
    BY <1>4, <2>2 DEF OpToRel
<1>6. PICK top \in RowsOf(m, c) : n = RowCount - rows[top][m].id
  BY <1>4
<1>7. \A other \in RowsOf(m, c) : rows[other][m].id <= rows[top][m].id
  <2> SUFFICES ASSUME NEW other \in RowsOf(m, c)
               PROVE  rows[other][m].id <= rows[top][m].id
    OBVIOUS
  <2>1. ~(RowCount - rows[other][m].id < RowCount - rows[top][m].id)
    BY <1>5, <1>6
  <2> QED
    BY <1>1, <1>2, <2>1
<1> DEFINE last == CHOOSE sha \in RowsOf(m, c) :
                     \A other \in RowsOf(m, c) :
                       rows[other][m].id <= rows[sha][m].id
<1>8. last \in RowsOf(m, c)
  BY <1>7
<1>9. VectorFor(m, c) = rows[last][m].vector
  BY DEF VectorFor
<1> HIDE DEF last
<1> QED
  BY <1>8, <1>9

LEMMA Found == IInv => FindsItsOwn
<1> SUFFICES ASSUME IInv
             PROVE  FindsItsOwn
  OBVIOUS
<1>1. OwnContentFound
  <2> SUFFICES ASSUME fresh, model = Served, NEW u \in Live, Own(u),
                      ~NoText(u)
               PROVE  VectorFor(Served, ledger[u].concept) # None
    BY DEF OwnContentFound, Own
  <2>1. batch = {}
    BY DEF IInv, QueueInv
  <2>2. /\ Has(ledger[u].sha, Served)
        /\ rows[ledger[u].sha][Served].concept = ledger[u].concept
    BY <2>1 DEF IInv, DoneInv, Named, Queued
  <2>3. /\ ledger[u].sha \in Contents /\ ledger[u].concept \in Concepts
        /\ Served \in Models
    BY EntryFields, ServedAssumption DEF IInv
  <2>4. RowsOf(Served, ledger[u].concept) # {}
    BY <2>2, <2>3 DEF RowsOf
  <2>5. PICK sha \in RowsOf(Served, ledger[u].concept) :
          VectorFor(Served, ledger[u].concept) = rows[sha][Served].vector
    BY <2>3, <2>4, LookupFinds
  <2>6. rows[sha][Served].vector \in Vector
    BY <2>3, <2>5 DEF RowsOf, Has, IInv, TypeOK, Row
  <2> QED
    BY <2>5, <2>6, MarkerAssumption
<1>2. FoundIsOwn
  <2> SUFFICES ASSUME NEW c \in Concepts, VectorFor(Served, c) # None
               PROVE  OwnContent(c, VectorFor(Served, c).of)
    BY DEF FoundIsOwn, OwnContent
  <2>1. RowsOf(Served, c) # {}
    BY DEF VectorFor
  <2>2. PICK sha \in RowsOf(Served, c) :
          VectorFor(Served, c) = rows[sha][Served].vector
    BY <2>1, LookupFinds, ServedAssumption
  <2>3. rows[sha][Served].concept = c /\ OwnRow(rows[sha][Served])
    BY <2>2, ServedAssumption DEF RowsOf, IInv, RowsInv
  <2> QED
    BY <2>2, <2>3 DEF OwnRow
<1> QED
  BY <1>1, <1>2 DEF FindsItsOwn

(* Every variable has its type, and what sync_embeddings has queued is of live
   entries.                                                                 *)
THEOREM TypeCorrect == Spec => []TypeOK
<1>1. IInv => TypeOK
  BY DEF IInv
<1> QED
  BY <1>1, Inductive, PTL

(* Every row of the EmbeddingStore has a vector of the model that it is keyed
   by, and of the content, or of one that came in, or was written, while the
   entry kept that hash (--since, a failed transform, a killed run); under
   generations only the model is certain.                                   *)
THEOREM RowsHold == Spec => []RowsKeepKey
<1>1. IInv => RowsKeepKey
  BY DEF IInv
<1> QED
  BY <1>1, Inductive, PTL

(* When sync_embeddings has ended, every live entry of the ledger that it has a
   text of has a row, whatever hooks died before and whatever sidecars came;
   while generations are off, it has a text of every entry but one that a
   document took over before its transform failed, or whose sweep was killed. *)
THEOREM EmbedsEveryEntry == Spec => []EveryEntryEmbedded
<1>1. IInv => EveryEntryEmbedded
  BY DEF IInv, QueueInv, DoneInv, Handled, Queued, EveryEntryEmbedded
<1> QED
  BY <1>1, Inductive, PTL

(* What vectors_for gives a server for a concept is, while generations are off,
   of a content of that concept or of one passed for an entry with such a
   content, and when the hook has ended there is one for every live concept
   whose content no other one has, if there is a text of it.                *)
THEOREM LookupsFindTheirOwn == Spec => []FindsItsOwn
BY Found, Inductive, PTL
=============================================================================
