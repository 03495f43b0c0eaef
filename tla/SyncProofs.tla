----------------------------- MODULE SyncProofs -----------------------------
(***************************************************************************)
(* What a sync keeps true of the ledger and the tree, for all sets of      *)
(* sources, documents, contents and concept paths, checked by TLAPS.       *)
(***************************************************************************)
EXTENDS Sync, FiniteSetTheorems, TLAPS

USE NoEntryAssumption, UrisAssumption, NoneAssumption, OwnerAssumption,
    PathAssumption, WritesAssumption, BoundsAssumption

-----------------------------------------------------------------------------
(* The ledger operations return ledgers: Ledger.load of a missing file. *)
LEMMA EmptyLedgerType == EmptyLedger \in Ledgers
BY DEF EmptyLedger, Ledgers

(* mark_seen returns a ledger. *)
LEMMA MarkSeenType ==
  ASSUME NEW led \in Ledgers, NEW u \in Uris, Known(led, u)
  PROVE  MarkSeen(led, u) \in Ledgers
BY DEF MarkSeen, Known, Ledgers, Entry

(* adopt returns a ledger. *)
LEMMA AdoptType ==
  ASSUME NEW led \in Ledgers, NEW old \in Uris, NEW new \in Uris,
         Known(led, old)
  PROVE  Adopt(led, old, new) \in Ledgers
BY DEF Adopt, Known, Ledgers, Entry

(* record returns a ledger. *)
LEMMA RecordType ==
  ASSUME NEW led \in Ledgers, NEW u \in Uris, NEW s \in Sources,
         NEW concept \in Concepts, NEW sha \in Contents
  PROVE  Record(led, u, s, concept, sha) \in Ledgers
BY DEF Record, Ledgers, Entry

(* sweep_removed returns a ledger. *)
LEMMA SweepType ==
  ASSUME NEW led \in Ledgers, NEW seen \in SUBSET Uris, NEW s \in Sources
  PROVE  SweepRemoved(led, seen, s) \in Ledgers
BY DEF SweepRemoved, Vanished, Active, Known, Ledgers, Entry

(* A document that must be applied gets a ledger and a concept path. *)
LEMMA TargetsType ==
  ASSUME TypeOK, NEW u \in Uris, NEW t \in Targets(u)
  PROVE  t.led \in Ledgers /\ t.concept \in Concepts
<1> DEFINE matches == MatchBySha(ledger, docs[u], CurrentUris)
<1> USE DEF TypeOK
<1>1. CASE Known(ledger, u)
  BY <1>1 DEF Targets, Known, Ledgers, Entry
<1>2. CASE ~Known(ledger, u) /\ matches # {}
  <2>1. PICK v \in matches :
          t = [led |-> Adopt(ledger, v, u), concept |-> ledger[v].concept]
    BY <1>2 DEF Targets
  <2>2. v \in Uris /\ Known(ledger, v)
    BY DEF MatchBySha
  <2> QED
    BY <2>1, <2>2, AdoptType DEF Known, Ledgers, Entry
<1>3. CASE ~Known(ledger, u) /\ matches = {}
  BY <1>3 DEF Targets
<1> QED
  BY <1>1, <1>2, <1>3

(* What any death does to the run's variables. *)
LEMMA DeathType ==
  ASSUME TypeOK, deaths < MaxDeaths, deaths' = deaths + 1, Forget,
         ledger' = ledgerFile,
         tree' \in [Concepts -> Contents \cup {None, Torn}],
         lapses' \subseteq {"shared", "torn", "stale", "adopted"},
         UNCHANGED <<upstreamVars, ledgerFile, manualVars>>
  PROVE  TypeOK'
<1> USE DEF TypeOK, CurrentUris, upstreamVars, manualVars
<1>1. deaths' \in 0..MaxDeaths
  OBVIOUS
<1>2. docs' = [u \in Uris |-> None] /\ ~\E u \in Uris : docs'[u] # None
  BY DEF Forget, NoDocs
<1> QED
  BY <1>1, <1>2 DEF Forget

-----------------------------------------------------------------------------
(* Every step keeps the type of every variable. *)
LEMMA TypeStep == TypeOK /\ [Next]_vars => TypeOK'
<1> SUFFICES ASSUME TypeOK, [Next]_vars
             PROVE  TypeOK'
  OBVIOUS
<1> USE DEF TypeOK, CurrentUris, upstreamVars, diskVars, runVars, manualVars
<1>1. ASSUME NEW u \in Uris, NEW c \in Contents \cup {None}, Edit(u, c)
     PROVE  TypeOK'
  BY <1>1 DEF Edit
<1>2. ASSUME NEW due \in SUBSET Sources, NEW empty \in BOOLEAN,
            Tick(due, empty)
     PROVE  TypeOK'
  BY <1>2 DEF Tick, Start
<1>3. CASE Preload
  BY <1>3 DEF Preload
<1>4. CASE GiveUp
  BY <1>4, EmptyLedgerType DEF GiveUp
<1>5. ASSUME NEW window \in BOOLEAN, NEW empty \in BOOLEAN,
            ManualSync(window, empty)
     PROVE  TypeOK'
  BY <1>5, EmptyLedgerType DEF ManualSync, Start
<1>6. ASSUME NEW s \in Sources, PullOk(s)
     PROVE  TypeOK'
  BY <1>6 DEF PullOk
<1>7. ASSUME NEW s \in Sources, PullFails(s)
     PROVE  TypeOK'
  BY <1>7 DEF PullFails
<1>8. ASSUME NEW s \in Sources, ApplySource(s)
     PROVE  TypeOK'
  BY <1>8 DEF ApplySource, DocsOf
<1>9. ASSUME NEW s \in Sources, Sweep(s)
     PROVE  TypeOK'
  <2>1. ledger' \in Ledgers
    BY <1>9, SweepType DEF Sweep, DocsOf
  <2> QED
    BY <2>1, <1>9 DEF Sweep
<1>10. ASSUME NEW u \in Uris, Defer(u)
     PROVE  TypeOK'
  BY <1>10 DEF Defer, InTurn, Done
<1>11. ASSUME NEW u \in Uris, Seen(u)
     PROVE  TypeOK'
  <2>1. ledger' \in Ledgers
    BY <1>11, MarkSeenType DEF Seen, Unchanged, Classify, InTurn
  <2> QED
    BY <2>1, <1>11 DEF Seen, InTurn, Done
<1>12. ASSUME NEW u \in Uris, Project(u)
     PROVE  TypeOK'
  <2>1. PICK t \in Targets(u) :
          /\ tree' = [tree EXCEPT ![t.concept] = docs[u]]
          /\ ledger' = Record(t.led, u, SourceOf[u], t.concept, docs[u])
          /\ lapses' = IF Shared(t.led, u, t.concept)
                       THEN lapses \cup {"shared"} ELSE lapses
    BY <1>12 DEF Project
  <2>2. t.led \in Ledgers /\ t.concept \in Concepts
    BY TargetsType
  <2>3. docs[u] \in Contents /\ SourceOf[u] \in Sources
    BY <1>12 DEF Project, InTurn
  <2>4. ledger' \in Ledgers
    BY <2>1, <2>2, <2>3, RecordType
  <2> QED
    BY <2>1, <2>2, <2>3, <2>4, <1>12 DEF Project, InTurn, Done
<1>13. ASSUME NEW u \in Uris, Quarantine(u)
     PROVE  TypeOK'
  <2>1. PICK t \in Targets(u) :
          /\ ledger' = t.led
          /\ lapses' = IF t.led # ledger
                       THEN lapses \cup {"adopted"} ELSE lapses
    BY <1>13 DEF Quarantine
  <2>2. ledger' \in Ledgers
    BY <2>1, TargetsType
  <2> QED
    BY <2>1, <2>2, <1>13 DEF Quarantine, InTurn, Done
<1>14. CASE Pulled
  BY <1>14 DEF Pulled
<1>15. CASE SaveOpens \/ SaveWrites
  <2>1. CASE SaveOpens
    BY <2>1, EmptyLedgerType DEF SaveOpens
  <2>2. CASE SaveWrites
    BY <2>2, EmptyLedgerType DEF SaveWrites, Forget, NoDocs
  <2> QED
    BY <1>15, <2>1, <2>2
<1>16. CASE Die
  <2>1. lapses' \subseteq {"shared", "torn", "stale", "adopted"}
    BY <1>16 DEF Die
  <2> QED
    BY <1>16, <2>1, DeathType DEF Die
<1>18. ASSUME NEW u \in Uris, DieWriting(u)
      PROVE  TypeOK'
  <2>1. PICK t \in Targets(u), left \in {docs[u], Torn} :
          tree' = [tree EXCEPT ![t.concept] = left]
    BY <1>18 DEF DieWriting
  <2>2. tree' \in [Concepts -> Contents \cup {None, Torn}]
    BY <2>1
  <2> QED
    BY <1>18, <2>2, DeathType DEF DieWriting, DieTearing
<1>19. ASSUME NEW s \in Sources, DieSweeping(s)
      PROVE  TypeOK'
  <2>1. PICK gone \in SUBSET {ledger[u].concept : u \in
                                Vanished(ledger, DocsOf(s), s)} :
          tree' = [c \in Concepts |-> IF c \in gone THEN None ELSE tree[c]]
    BY <1>19 DEF DieSweeping
  <2>2. tree' \in [Concepts -> Contents \cup {None, Torn}]
    BY <2>1
  <2> QED
    BY <1>19, <2>2, DeathType DEF DieSweeping, DieTearing
<1>17. CASE UNCHANGED vars
  BY <1>17 DEF vars
<1> QED
  BY <1>1, <1>2, <1>3, <1>4, <1>5, <1>6, <1>7, <1>8, <1>9, <1>10, <1>11,
     <1>12, <1>13, <1>14, <1>15, <1>16, <1>17, <1>18, <1>19
  DEF Next, RunStep

(* The types hold at the start. *)
LEMMA TypeInit == Init => TypeOK
<1> SUFFICES ASSUME Init
             PROVE  TypeOK
  OBVIOUS
<1>1. docs = [u \in Uris |-> None] /\ CurrentUris = {}
  BY DEF Init, NoDocs, CurrentUris
<1>2. upstream \in [Uris -> Contents \cup {None}]
  BY DEF Init
<1>3. tree \in [Concepts -> Contents \cup {None, Torn}]
  BY DEF Init
<1>4. /\ edits \in 0..MaxEdits /\ deaths \in 0..MaxDeaths
      /\ manual \in 0..MaxManual
  BY DEF Init
<1> QED
  BY <1>1, <1>2, <1>3, <1>4, EmptyLedgerType DEF Init, TypeOK

(* Every variable keeps its type; a run only applies documents of sources
   it has pulled. *)
THEOREM TypeCorrect == Spec => []TypeOK
BY TypeInit, TypeStep, PTL DEF Spec

-----------------------------------------------------------------------------
(* The inductive invariant: until something lapses, the ledger a run works
   with agrees with the tree after every one of its steps, so that it makes
   no difference when the run ends; between runs it is the one on disk.    *)
Agree(led) == Truthful(led) /\ Distinct(led) /\ Owned(led)

SInv ==
  /\ TypeOK
  /\ phase = "idle" => ledger = ledgerFile
  /\ lapses = {} => Agree(ledger)

(* A sweep agrees with what it leaves, for the vanished documents' concepts
   are nobody else's.                                                      *)
LEMMA SweepAgrees ==
  ASSUME TypeOK, Agree(ledger), NEW s \in Sources, Sweep(s)
  PROVE  Agree(ledger)'
<1> DEFINE vanished == IF Swept(s) THEN Vanished(ledger, DocsOf(s), s) ELSE {}
<1> USE DEF TypeOK, Agree, Active, Known
<1>1. /\ vanished \subseteq {u \in Uris : Active(ledger, u)}
      /\ \A u \in Uris : ledger'[u] = IF u \in vanished
                                    THEN [ledger[u] EXCEPT !.removed = TRUE]
                                    ELSE ledger[u]
      /\ tree' = [c \in Concepts |->
                   IF \E u \in vanished : ledger[u].concept = c
                   THEN None ELSE tree[c]]
  BY DEF Sweep, SweepRemoved, Vanished
<1>2. ASSUME NEW u \in Uris
      PROVE  /\ Known(ledger, u)' => Known(ledger, u)
             /\ Active(ledger, u)' => Active(ledger, u) /\ u \notin vanished
             /\ Known(ledger, u) => /\ ledger'[u].concept = ledger[u].concept
                                   /\ ledger'[u].source = ledger[u].source
                                   /\ ledger'[u].sha = ledger[u].sha
  <2>1. CASE u \in vanished
    BY <1>1, <2>1 DEF Ledgers, Entry
  <2>2. CASE u \notin vanished
    BY <1>1, <2>2
  <2> QED
    BY <2>1, <2>2
<1>3. Truthful(ledger)'
  <2> SUFFICES ASSUME NEW u \in Uris, Active(ledger, u)'
               PROVE  tree'[ledger'[u].concept] = ledger'[u].sha
    BY DEF Truthful
  <2>1. Active(ledger, u) /\ u \notin vanished /\ ledger'[u] = ledger[u]
    BY <1>1, <1>2
  <2>2. ledger[u].concept \in Concepts
    BY <2>1 DEF Ledgers, Entry
  <2>3. ~\E v \in vanished : ledger[v].concept = ledger[u].concept
    BY <1>1, <2>1 DEF Distinct
  <2> QED
    BY <1>1, <2>1, <2>2, <2>3 DEF Truthful
<1>4. Distinct(ledger)'
  BY <1>2 DEF Distinct
<1>5. Owned(ledger)'
  BY <1>2 DEF Owned
<1> QED
  BY <1>3, <1>4, <1>5

(* What a document that must be applied works with: its own entry apart,
   the ledger only ever holds what it held.                                *)
LEMMA TargetsKeepOthers ==
  ASSUME TypeOK, NEW u \in Uris, NEW t \in Targets(u)
  PROVE  \A w \in Uris \ {u} : t.led[w] = NoEntry \/ t.led[w] = ledger[w]
<1> DEFINE matches == MatchBySha(ledger, docs[u], CurrentUris)
<1>1. CASE Known(ledger, u)
  BY <1>1 DEF Targets
<1>2. CASE ~Known(ledger, u) /\ matches # {}
  <2>1. PICK v \in matches :
          t = [led |-> Adopt(ledger, v, u), concept |-> ledger[v].concept]
    BY <1>2 DEF Targets
  <2>2. v \in Uris
    BY DEF MatchBySha
  <2> QED
    BY <2>1, <2>2 DEF Adopt, TypeOK, Ledgers
<1>3. CASE ~Known(ledger, u) /\ matches = {}
  BY <1>3 DEF Targets
<1> QED
  BY <1>1, <1>2, <1>3

(* A projection agrees with what it writes, when the concept is not
   another document's.                                                     *)
LEMMA ProjectAgrees ==
  ASSUME TypeOK, Agree(ledger), NEW u \in Uris, Project(u), lapses' = {}
  PROVE  Agree(ledger)'
<1> USE DEF TypeOK, Agree, Active, Known
<1>1. PICK t \in Targets(u) :
        /\ tree' = [tree EXCEPT ![t.concept] = docs[u]]
        /\ ledger' = Record(t.led, u, SourceOf[u], t.concept, docs[u])
        /\ lapses' = IF Shared(t.led, u, t.concept)
                     THEN lapses \cup {"shared"} ELSE lapses
  BY DEF Project
<1>2. t.led \in Ledgers /\ t.concept \in Concepts
  BY TargetsType
<1>3. ~Shared(t.led, u, t.concept)
  BY <1>1
<1>4. \A w \in Uris \ {u} : ledger'[w] = NoEntry \/ ledger'[w] = ledger[w]
  BY <1>1, <1>2, TargetsKeepOthers DEF Record, Ledgers
<1>5. ledger'[u] = [source |-> SourceOf[u], concept |-> t.concept,
                    sha |-> docs[u], removed |-> FALSE]
  BY <1>1, <1>2 DEF Record, Ledgers
<1>6. \A w \in Uris \ {u} : Active(ledger, w)' => ledger[w].concept # t.concept
  <2> SUFFICES ASSUME NEW w \in Uris \ {u}, Active(ledger, w)'
               PROVE  ledger[w].concept # t.concept
    OBVIOUS
  <2>1. t.led[w] = ledger'[w] /\ ledger'[w] = ledger[w]
    BY <1>1, <1>2, <1>4 DEF Record, Ledgers
  <2> QED
    BY <2>1, <1>3 DEF Shared
<1>7. Truthful(ledger)'
  <2> SUFFICES ASSUME NEW w \in Uris, Active(ledger, w)'
               PROVE  tree'[ledger'[w].concept] = ledger'[w].sha
    BY DEF Truthful
  <2>1. CASE w = u
    BY <2>1, <1>1, <1>2, <1>5
  <2>2. CASE w # u
    <3>1. ledger'[w] = ledger[w] /\ Active(ledger, w)
      BY <2>2, <1>4
    <3>2. ledger[w].concept \in Concepts \ {t.concept}
      BY <2>2, <3>1, <1>6 DEF Ledgers, Entry
    <3> QED
      BY <3>1, <3>2, <1>1 DEF Truthful
  <2> QED
    BY <2>1, <2>2
<1>8. Distinct(ledger)'
  BY <1>4, <1>5, <1>6 DEF Distinct
<1>9. Owned(ledger)'
  BY <1>4, <1>5 DEF Owned
<1> QED
  BY <1>7, <1>8, <1>9

(* A document that is only marked seen leaves the ledger what it was. *)
LEMMA SeenKeeps ==
  ASSUME TypeOK, NEW u \in Uris, Seen(u)
  PROVE  ledger' = ledger
<1>1. Known(ledger, u) /\ ~ledger[u].removed
  BY DEF Seen, Unchanged, Classify, Gone
<1>2. ledger \in Ledgers
  BY DEF TypeOK
<1>3. ledger[u] \in Entry
  BY <1>1, <1>2 DEF Known, Ledgers
<1>4. [ledger[u] EXCEPT !.removed = FALSE] = ledger[u]
  BY <1>1, <1>3 DEF Entry
<1> QED
  BY <1>2, <1>4 DEF Seen, MarkSeen, Ledgers

(* Every step keeps the invariant, action by action. *)
LEMMA SyncStep == SInv /\ [Next]_vars => SInv'
<1> SUFFICES ASSUME SInv, [Next]_vars
             PROVE  SInv'
  OBVIOUS
<1>0. TypeOK'
  BY TypeStep DEF SInv
<1> USE <1>0 DEF SInv, Agree, Truthful, Distinct, Owned, upstreamVars,
                 diskVars, runVars, manualVars
<1>1. ASSUME NEW u \in Uris, NEW c \in Contents \cup {None}, Edit(u, c)
     PROVE  SInv'
  BY <1>1 DEF Edit
<1>2. ASSUME NEW due \in SUBSET Sources, NEW empty \in BOOLEAN,
            Tick(due, empty)
     PROVE  SInv'
  BY <1>2 DEF Tick, Start
<1>3. CASE Preload
  BY <1>3 DEF Preload
<1>4. CASE GiveUp
  BY <1>4 DEF GiveUp
<1>5. ASSUME NEW window \in BOOLEAN, NEW empty \in BOOLEAN,
            ManualSync(window, empty)
     PROVE  SInv'
  BY <1>5 DEF ManualSync, Start
<1>6. ASSUME NEW s \in Sources, PullOk(s)
     PROVE  SInv'
  BY <1>6 DEF PullOk
<1>7. ASSUME NEW s \in Sources, PullFails(s)
     PROVE  SInv'
  BY <1>7 DEF PullFails
<1>8. ASSUME NEW s \in Sources, ApplySource(s)
     PROVE  SInv'
  BY <1>8 DEF ApplySource
<1>9. ASSUME NEW s \in Sources, Sweep(s)
     PROVE  SInv'
  <2>1. lapses' = {} => Agree(ledger)'
    BY <1>9, SweepAgrees DEF Sweep
  <2> QED
    BY <2>1, <1>9 DEF Sweep
<1>10. ASSUME NEW u \in Uris, Defer(u)
     PROVE  SInv'
  BY <1>10 DEF Defer, InTurn
<1>11. ASSUME NEW u \in Uris, Seen(u)
     PROVE  SInv'
  <2>1. ledger' = ledger
    BY <1>11, SeenKeeps
  <2> QED
    BY <2>1, <1>11 DEF Seen, InTurn
<1>12. ASSUME NEW u \in Uris, Project(u)
     PROVE  SInv'
  <2>1. lapses' = {} => lapses = {}
    BY <1>12 DEF Project
  <2>2. lapses' = {} => Agree(ledger)'
    BY <1>12, <2>1, ProjectAgrees
  <2> QED
    BY <2>2, <1>12 DEF Project, InTurn
<1>13. ASSUME NEW u \in Uris, Quarantine(u)
     PROVE  SInv'
  <2>1. PICK t \in Targets(u) :
          /\ ledger' = t.led
          /\ lapses' = IF t.led # ledger
                       THEN lapses \cup {"adopted"} ELSE lapses
    BY <1>13 DEF Quarantine
  <2>2. lapses' = {} => lapses = {} /\ ledger' = ledger
    BY <2>1
  <2> QED
    BY <2>2, <1>13 DEF Quarantine, InTurn
<1>14. CASE Pulled
  BY <1>14 DEF Pulled
<1>15. CASE SaveOpens \/ SaveWrites
  BY <1>15 DEF SaveOpens, SaveWrites, Forget
<1>16. CASE Die
  BY <1>16 DEF Die, Forget
<1>18. ASSUME NEW u \in Uris, DieWriting(u)
      PROVE  SInv'
  BY <1>18 DEF DieWriting, DieTearing, Forget
<1>19. ASSUME NEW s \in Sources, DieSweeping(s)
      PROVE  SInv'
  BY <1>19 DEF DieSweeping, DieTearing, Forget
<1>17. CASE UNCHANGED vars
  BY <1>17 DEF vars
<1> QED
  BY <1>1, <1>2, <1>3, <1>4, <1>5, <1>6, <1>7, <1>8, <1>9, <1>10, <1>11,
     <1>12, <1>13, <1>14, <1>15, <1>16, <1>17, <1>18, <1>19
  DEF Next, RunStep

(* An empty ledger agrees with any tree. *)
LEMMA SyncInit == Init => SInv
<1> SUFFICES ASSUME Init
             PROVE  SInv
  OBVIOUS
<1>1. ledger = EmptyLedger /\ ledgerFile = EmptyLedger
  BY DEF Init
<1>2. \A u \in Uris : ~Known(ledger, u)
  BY <1>1 DEF EmptyLedger, Known
<1> QED
  BY <1>1, <1>2, TypeInit
  DEF SInv, Agree, Truthful, Distinct, Owned, Active

(* The invariant holds in every state of every behaviour. *)
LEMMA Inductive == Spec => []SInv
BY SyncInit, SyncStep, PTL DEF Spec

(* Until something lapses, the ledger on disk tells the truth about the
   tree whenever no run is in progress.                                    *)
THEOREM LedgerIsTruthful == Spec => []LedgerTellsTruth
<1>1. SInv => LedgerTellsTruth
  BY DEF SInv, Agree, LedgerTellsTruth
<1> QED
  BY Inductive, <1>1, PTL

-----------------------------------------------------------------------------
(* Lapses are never forgotten, and until there is one the ledger that a run
   works with agrees with the tree.                                        *)
LEMMA StillAgrees ==
  ASSUME SInv, [Next]_vars, lapses' = {}
  PROVE  lapses = {} /\ Agree(ledger)
<1>1. lapses \subseteq lapses'
  BY DEF Next, RunStep, Edit, Tick, Start, Preload, GiveUp, ManualSync, PullOk,
         PullFails, Pulled, ApplySource, Defer, Seen, Project, Quarantine,
         Sweep, SaveOpens, SaveWrites, Die, DieWriting, DieSweeping,
         DieTearing, vars
<1> QED
  BY <1>1 DEF SInv

(* What becomes of another document's entry when a document is applied: it
   stays, unless the document adopts it, with its concept and its content. *)
LEMMA TargetsAdopt ==
  ASSUME TypeOK, NEW u \in Uris, NEW t \in Targets(u), NEW w \in Uris \ {u}
  PROVE  \/ t.led[w] = ledger[w]
         \/ /\ w \notin CurrentUris /\ ~Known(ledger, u)
            /\ ledger[w].sha = docs[u]
            /\ ledger[w].concept = t.concept
            /\ t.led[u] = [ledger[w] EXCEPT !.removed = FALSE]
<1> DEFINE matches == MatchBySha(ledger, docs[u], CurrentUris)
<1>1. CASE Known(ledger, u) \/ matches = {}
  BY <1>1 DEF Targets
<1>2. CASE ~Known(ledger, u) /\ matches # {}
  <2>1. PICK v \in matches :
          t = [led |-> Adopt(ledger, v, u), concept |-> ledger[v].concept]
    BY <1>2 DEF Targets
  <2>2. /\ v \in Uris /\ v \notin CurrentUris /\ ledger[v].sha = docs[u]
        /\ Known(ledger, v)
    BY DEF MatchBySha
  <2>3. t.led = Adopt(ledger, v, u) /\ t.concept = ledger[v].concept
    BY <2>1
  <2>4. /\ t.led[u] = [ledger[v] EXCEPT !.removed = FALSE]
        /\ w # v => t.led[w] = ledger[w]
    BY <2>2, <2>3 DEF Adopt, TypeOK, Ledgers
  <2> QED
    BY <1>2, <2>2, <2>3, <2>4
<1> QED
  BY <1>1, <1>2

(* A document that is known keeps its concept. *)
LEMMA TargetsKnown ==
  ASSUME NEW u \in Uris, NEW t \in Targets(u), Known(ledger, u)
  PROVE  t.led = ledger /\ t.concept = ledger[u].concept
BY DEF Targets

(* The steps that change concept files are projections, sweeps and what is
   left of one that was killed, which is a lapse.                          *)
LEMMA TreeSteps ==
  ASSUME [Next]_vars, lapses' = {},
         \A u \in Uris : ~Project(u), \A s \in Sources : ~Sweep(s)
  PROVE  tree' = tree
BY DEF Next, RunStep, Edit, Tick, Start, Preload, GiveUp, ManualSync, PullOk,
       PullFails, Pulled, ApplySource, Defer, Seen, Quarantine, SaveOpens,
       SaveWrites, Die, DieWriting, DieSweeping, DieTearing, vars, diskVars

(* What is served has a file that is not empty, under a path of the tree. *)
LEMMA ServedHasFile ==
  ASSUME TypeOK, Agree(ledger), NEW u \in Uris, Active(ledger, u)
  PROVE  /\ ledger[u].concept \in Concepts
         /\ tree[ledger[u].concept] = ledger[u].sha
         /\ ledger[u].sha # None
         /\ ledger[u].source = SourceOf[u]
<1>1. ledger[u] \in Entry
  BY DEF TypeOK, Ledgers, Active, Known
<1>2. ledger[u].concept \in Concepts /\ ledger[u].sha \in Contents
  BY <1>1 DEF Entry
<1> QED
  BY <1>2 DEF Agree, Truthful, Owned, Active

(* A projection overwrites the file of a served document with another
   content only if that document is the projected one.                     *)
LEMMA ProjectSpares ==
  ASSUME TypeOK, Agree(ledger), NEW u \in Uris, Project(u), lapses' = {},
         NEW w \in Uris \ {u}, Active(ledger, w)
  PROVE  /\ tree'[ledger[w].concept] = tree[ledger[w].concept]
         /\ w \in CurrentUris => ledger'[w] = ledger[w]
<1>1. PICK t \in Targets(u) :
        /\ tree' = [tree EXCEPT ![t.concept] = docs[u]]
        /\ ledger' = Record(t.led, u, SourceOf[u], t.concept, docs[u])
        /\ lapses' = IF Shared(t.led, u, t.concept)
                     THEN lapses \cup {"shared"} ELSE lapses
  BY DEF Project
<1>2. t.led \in Ledgers /\ t.concept \in Concepts
  BY TargetsType
<1>3. ~Shared(t.led, u, t.concept)
  BY <1>1
<1>4. tree \in [Concepts -> Contents \cup {None, Torn}]
  BY DEF TypeOK
<1>5. ledger'[w] = t.led[w]
  BY <1>1, <1>2 DEF Record, Ledgers
<1>6. CASE t.led[w] = ledger[w]
  <2>1. ledger[w].concept # t.concept
    BY <1>3, <1>6 DEF Shared, Active, Known
  <2> QED
    BY <1>1, <1>2, <1>4, <1>5, <1>6, <2>1, ServedHasFile
<1>7. CASE /\ w \notin CurrentUris
           /\ ledger[w].sha = docs[u] /\ ledger[w].concept = t.concept
  BY <1>1, <1>2, <1>4, <1>7, ServedHasFile
<1>8. \/ t.led[w] = ledger[w]
      \/ /\ w \notin CurrentUris /\ ~Known(ledger, u)
         /\ ledger[w].sha = docs[u]
         /\ ledger[w].concept = t.concept
         /\ t.led[u] = [ledger[w] EXCEPT !.removed = FALSE]
  BY TargetsAdopt
<1> QED
  BY <1>6, <1>7, <1>8

(* A source that cannot be judged has no concept removed by its sweep: it
   is not swept, or there is nothing of it to remove.                      *)
LEMMA UnreadableNotSwept ==
  ASSUME TypeOK, NEW s \in Sources, Sweep(s), ~Readable(s), Swept(s)
  PROVE  Vanished(ledger, DocsOf(s), s) = {}
<1> DEFINE served == {u \in Uris : Active(ledger, u) /\ ledger[u].source = s}
<1>1. s \in ok
  BY DEF Sweep, TypeOK
<1>2. Cardinality(served) = 0
  BY <1>1 DEF Readable, Swept, ActiveCount
<1>3. IsFiniteSet(served)
  BY FS_Subset
<1>4. served = {}
  BY <1>2, <1>3, FS_EmptySet
<1> QED
  BY <1>4 DEF Vanished

(* A run (_sync) never changes the concept of a document it cannot see,    *)
(* because its source failed, is not due or came back empty, for every mix *)
(* of edits, deaths and manual syncs that made no lapse.                   *)
THEOREM UnseenIsKept == Spec => KeepsWhatItCannotSee
<1>1. SInv /\ [Next]_vars => UnseenStays
  <2> SUFFICES ASSUME SInv, [Next]_vars, lapses' = {},
                      NEW u \in Uris, Active(ledger, u),
                      ~Readable(ledger[u].source)
               PROVE  tree'[ledger[u].concept] = tree[ledger[u].concept]
    BY DEF UnseenStays
  <2>1. TypeOK /\ Agree(ledger)
    BY StillAgrees DEF SInv
  <2>2. ASSUME NEW s \in Sources, Sweep(s)
        PROVE  tree'[ledger[u].concept] = tree[ledger[u].concept]
    <3> DEFINE vanished == IF Swept(s) THEN Vanished(ledger, DocsOf(s), s)
                           ELSE {}
    <3>1. tree' = [c \in Concepts |->
                    IF \E v \in vanished : ledger[v].concept = c
                    THEN None ELSE tree[c]]
      BY <2>2 DEF Sweep
    <3>2. ~\E v \in vanished : ledger[v].concept = ledger[u].concept
      <4>1. SUFFICES ASSUME NEW v \in vanished,
                            ledger[v].concept = ledger[u].concept
                     PROVE  FALSE
        OBVIOUS
      <4>2. /\ Swept(s) /\ v \in Vanished(ledger, DocsOf(s), s)
            /\ v \in Uris /\ Active(ledger, v) /\ ledger[v].source = s
        BY DEF Vanished
      <4>3. v = u
        BY <2>1, <4>1, <4>2 DEF Agree, Distinct
      <4>4. ~Readable(s)
        BY <4>2, <4>3
      <4> QED
        BY <2>1, <2>2, <4>2, <4>4, UnreadableNotSwept
    <3> QED
      BY <3>1, <3>2, <2>1, ServedHasFile
  <2>3. ASSUME NEW w \in Uris, Project(w)
        PROVE  tree'[ledger[u].concept] = tree[ledger[u].concept]
    <3>1. w \in CurrentUris /\ SourceOf[w] \in ok
      BY <2>1, <2>3 DEF Project, InTurn, TypeOK
    <3>2. Readable(SourceOf[w])
      BY <3>1 DEF Readable, DocsOf
    <3>3. u # w
      BY <2>1, <3>2, ServedHasFile
    <3> QED
      BY <2>1, <2>3, <3>3, ProjectSpares
  <2> QED
    BY <2>2, <2>3, TreeSteps
<1> QED
  BY Inductive, <1>1, PTL DEF Spec, KeepsWhatItCannotSee

(* Whatever is swept, a run never removes the concept of a document it has *)
(* just pulled (sweep_removed over the seen set), with the same exceptions.*)
THEOREM PresentIsSpared == Spec => SweepSparesPresent
<1>1. SInv /\ [Next]_vars => PresentStays
  <2> SUFFICES ASSUME SInv, [Next]_vars, lapses' = {}, phase = "apply",
                      NEW u \in CurrentUris, Active(ledger, u)
               PROVE  /\ Active(ledger', u)
                      /\ tree'[ledger[u].concept] # None
    BY DEF PresentStays
  <2>1. TypeOK /\ Agree(ledger) /\ u \in Uris /\ lapses = {}
    BY StillAgrees DEF SInv, CurrentUris
  <2>2. tree[ledger[u].concept] # None
    BY <2>1, ServedHasFile
  <2>3. ASSUME NEW s \in Sources, Sweep(s)
        PROVE  /\ Active(ledger', u)
               /\ tree'[ledger[u].concept] # None
    <3> DEFINE vanished == IF Swept(s) THEN Vanished(ledger, DocsOf(s), s)
                           ELSE {}
    <3>1. u \notin Vanished(ledger, DocsOf(s), s)
      BY <2>1, ServedHasFile DEF Vanished, DocsOf
    <3>2. ledger'[u] = ledger[u]
      BY <2>1, <2>3, <3>1 DEF Sweep, SweepRemoved
    <3>3. tree' = [c \in Concepts |->
                    IF \E v \in vanished : ledger[v].concept = c
                    THEN None ELSE tree[c]]
      BY <2>3 DEF Sweep
    <3>4. ~\E v \in vanished : ledger[v].concept = ledger[u].concept
      BY <2>1, <3>1 DEF Agree, Distinct, Vanished
    <3> QED
      BY <2>1, <2>2, <3>2, <3>3, <3>4, ServedHasFile DEF Active, Known
  <2>4. ASSUME NEW w \in Uris, Project(w)
        PROVE  /\ Active(ledger', u)
               /\ tree'[ledger[u].concept] # None
    <3>1. CASE u = w
      <4>1. PICK t \in Targets(w) :
              /\ tree' = [tree EXCEPT ![t.concept] = docs[w]]
              /\ ledger' = Record(t.led, w, SourceOf[w], t.concept, docs[w])
        BY <2>4 DEF Project
      <4>2. t.led = ledger /\ t.concept = ledger[u].concept
        BY <3>1, <2>1, TargetsKnown DEF Active
      <4>3. docs[u] # None
        BY DEF CurrentUris
      <4>4. tree'[ledger[u].concept] = docs[u]
        BY <2>1, <3>1, <4>1, <4>2, ServedHasFile DEF TypeOK
      <4>5. /\ ledger'[u] \in Entry
            /\ ~ledger'[u].removed
        BY <2>1, <3>1, <4>1, <4>2, <4>3, ServedHasFile
        DEF Record, TypeOK, Ledgers, Entry
      <4> QED
        BY <4>3, <4>4, <4>5 DEF Active, Known
    <3>2. CASE u # w
      BY <2>1, <2>2, <2>4, <3>2, ProjectSpares DEF Active, Known
    <3> QED
      BY <3>1, <3>2
  <2>5. ASSUME \A w \in Uris : ~Project(w), \A s \in Sources : ~Sweep(s)
        PROVE  /\ Active(ledger', u)
               /\ tree'[ledger[u].concept] # None
    <3>1. tree' = tree
      BY <2>5, TreeSteps
    <3>2. ledger' = ledger
      <4>1. ASSUME NEW w \in Uris, Seen(w)
            PROVE  ledger' = ledger
        BY <2>1, <4>1, SeenKeeps
      <4>2. ASSUME NEW w \in Uris, Quarantine(w)
            PROVE  ledger' = ledger
        BY <2>1, <4>2 DEF Quarantine
      <4>3. CASE Die
        BY <2>1, <4>3 DEF Die
      <4> QED
        BY <2>5, <4>1, <4>2, <4>3
        DEF Next, RunStep, Edit, Tick, Start, Preload, GiveUp, ManualSync,
            PullOk, PullFails, Pulled, ApplySource, Defer, SaveOpens,
            SaveWrites, DieWriting, DieSweeping, DieTearing, vars, runVars
    <3> QED
      BY <2>2, <3>1, <3>2
  <2> QED
    BY <2>3, <2>4, <2>5
<1> QED
  BY Inductive, <1>1, PTL DEF Spec, SweepSparesPresent

(* In a run no entry is dropped and none changes its concept, but by an    *)
(* adoption, which hands concept and content over (match_by_sha, adopt).   *)
THEOREM IdentityIsKept == Spec => IdentityFollowsContent
<1>1. TypeOK /\ [Next]_vars => IdentityMoves
  <2> SUFFICES ASSUME TypeOK, [Next]_vars, phase = "apply",
                      NEW u \in Uris, Known(ledger, u)
               PROVE  \/ Known(ledger', u)
                         /\ ledger'[u].concept = ledger[u].concept
                      \/ phase' = "idle"
                      \/ \E v \in Uris :
                           /\ ~Known(ledger, v) /\ Known(ledger', v)
                           /\ ledger'[v].concept = ledger[u].concept
                           /\ ledger'[v].sha = ledger[u].sha
    BY DEF IdentityMoves
  <2> DEFINE Keeps == Known(ledger', u)
                      /\ ledger'[u].concept = ledger[u].concept
             Moves(v) == /\ ~Known(ledger, v) /\ Known(ledger', v)
                         /\ ledger'[v].concept = ledger[u].concept
                         /\ ledger'[v].sha = ledger[u].sha
  <2>1. ledger \in Ledgers /\ ledger[u] \in Entry
    BY DEF TypeOK, Ledgers, Known
  <2>2. ASSUME NEW s \in Sources, Sweep(s)
        PROVE  Keeps
    <3>1. ledger'[u] = ledger[u]
          \/ ledger'[u] = [ledger[u] EXCEPT !.removed = TRUE]
      BY <2>2 DEF Sweep, SweepRemoved
    <3>2. ledger'[u] \in Entry /\ ledger'[u].concept = ledger[u].concept
      BY <2>1, <3>1 DEF Entry
    <3> QED
      BY <3>2 DEF Known
  <2>3. ASSUME NEW w \in Uris, NEW t \in Targets(w),
               \A v \in Uris \ {w} : ledger'[v] = t.led[v],
               \/ ledger' = t.led
               \/ /\ Known(ledger', w)
                  /\ ledger'[w].concept = t.concept /\ ledger'[w].sha = docs[w]
        PROVE  Keeps \/ \E v \in Uris : Moves(v)
    <3>1. CASE w = u
      <4>1. t.led = ledger /\ t.concept = ledger[u].concept
        BY <3>1, TargetsKnown
      <4> QED
        BY <2>3, <3>1, <4>1
    <3>2. CASE w # u /\ t.led[u] = ledger[u]
      BY <2>3, <3>2 DEF Known
    <3>3. CASE /\ ~Known(ledger, w)
               /\ ledger[u].sha = docs[w] /\ ledger[u].concept = t.concept
               /\ t.led[w] = [ledger[u] EXCEPT !.removed = FALSE]
      <4>1. /\ t.led[w] \in Entry
            /\ t.led[w].concept = ledger[u].concept
            /\ t.led[w].sha = ledger[u].sha
        BY <2>1, <3>3 DEF Entry
      <4>2. Moves(w)
        BY <2>3, <3>3, <4>1 DEF Known
      <4> QED
        BY <4>2
    <3>4. CASE w # u
      <4>1. \/ t.led[u] = ledger[u]
            \/ /\ ~Known(ledger, w)
               /\ ledger[u].sha = docs[w]
               /\ ledger[u].concept = t.concept
               /\ t.led[w] = [ledger[u] EXCEPT !.removed = FALSE]
        BY <3>4, TargetsAdopt
      <4> QED
        BY <3>2, <3>3, <3>4, <4>1
    <3> QED
      BY <3>1, <3>4
  <2>4. ASSUME NEW w \in Uris, Project(w)
        PROVE  Keeps \/ \E v \in Uris : Moves(v)
    <3>1. PICK t \in Targets(w) :
            ledger' = Record(t.led, w, SourceOf[w], t.concept, docs[w])
      BY <2>4 DEF Project
    <3>2. t.led \in Ledgers /\ t.concept \in Concepts
      BY TargetsType
    <3>3. docs[w] \in Contents /\ SourceOf[w] \in Sources
      BY <2>4 DEF Project, InTurn, TypeOK, CurrentUris
    <3>4. ledger'[w] = [source |-> SourceOf[w], concept |-> t.concept,
                        sha |-> docs[w], removed |-> FALSE]
      BY <3>1, <3>2 DEF Record, Ledgers
    <3>5. ledger'[w] \in Entry
      BY <3>2, <3>3, <3>4 DEF Entry
    <3>6. \A v \in Uris \ {w} : ledger'[v] = t.led[v]
      BY <3>1, <3>2 DEF Record, Ledgers
    <3> QED
      BY <2>3, <3>4, <3>5, <3>6 DEF Known
  <2>5. ASSUME NEW w \in Uris, Quarantine(w)
        PROVE  Keeps \/ \E v \in Uris : Moves(v)
    <3>1. PICK t \in Targets(w) : ledger' = t.led
      BY <2>5 DEF Quarantine
    <3> QED
      BY <2>3, <3>1
  <2>6. ASSUME NEW w \in Uris, Seen(w)
        PROVE  Keeps
    BY <2>1, <2>6, SeenKeeps
  <2>7. Keeps \/ phase' = "idle" \/ \E v \in Uris : Moves(v)
    BY <2>2, <2>4, <2>5, <2>6
    DEF Next, RunStep, Edit, Tick, Start, Preload, GiveUp, ManualSync, PullOk,
        PullFails, Pulled, ApplySource, Defer, SaveOpens, SaveWrites, Die,
        DieWriting, DieSweeping, DieTearing, Forget, vars, runVars
  <2> QED
    BY <2>7
<1> QED
  BY TypeCorrect, <1>1, PTL DEF Spec, IdentityFollowsContent
=============================================================================
