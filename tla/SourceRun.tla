----------------------------- MODULE SourceRun -----------------------------
(***************************************************************************)
(* The runs of one source, from the pull to the sweep: what Connector      *)
(* pulled is applied, document by document (by passthrough, or by the      *)
(* worker and gate of LlmGate), and concepts of documents that are not     *)
(* listed any more are removed.  Sync has the ledger in full, and several  *)
(* sources; here a ledger's entry is the version it records, and the       *)
(* question is what the tree becomes when pulls and workers fail.          *)
(***************************************************************************)
EXTENDS Connector, LlmGate

ASSUME DocsAssumption == Docs = Paths
ASSUME TransformersAssumption ==
  \A s \in Setups : s.transformer \in {"passthrough", "llm"}

VARIABLES
  concepts,     \* the version of each document that the tree has
  entries       \* the version that the ledger on disk records

runVars == <<concepts, entries>>
vars == <<connectorVars, gateVars, runVars>>

Init ==
  /\ ConnectorInit
  /\ GateInit
  /\ concepts = Empty
  /\ entries = Empty

-----------------------------------------------------------------------------
\* A step of the connector, or of the world around it.
Connect(action) == action /\ UNCHANGED <<gateVars, runVars>>

\* A step of _apply_source; nothing of the connector's moves but `step`.
Applying(from, to) ==
  /\ Fine("sync", from, to)
  /\ UNCHANGED <<cloneVars, pullVars, lapses>>

\* The documents that are not in the ledger as they are.
Due == {d \in Present(docs) : docs[d] # entries[d]}

\* The passthrough transformer takes them as they are.
PassThrough ==
  /\ setup.transformer = "passthrough"
  /\ Applying("pulled", "applied")
  /\ concepts' = [d \in Paths |-> IF d \in Due THEN docs[d] ELSE concepts[d]]
  /\ outcome' = [d \in Docs |-> IF d \in Due THEN "synced" ELSE "none"]
  /\ UNCHANGED <<tree, workVars, errors, entries>>

\* The llm transformer has each of them drafted and gated.
AskWorker ==
  /\ setup.transformer = "llm"
  /\ Applying("pulled", "apply")
  /\ outcome' = [d \in Docs |-> IF d \in Due THEN "waiting" ELSE "none"]
  /\ UNCHANGED <<tree, workVars, errors, runVars>>

Work ==
  /\ step["sync"] = "apply"
  /\ GateStep
  /\ concepts' = [d \in Paths |-> IF d = doing /\ outcome'[d] = "synced"
                                  THEN docs[d] ELSE concepts[d]]
  /\ UNCHANGED <<connectorVars, entries>>

AllDecided ==
  /\ \A d \in Docs : outcome[d] # "waiting"
  /\ Applying("apply", "applied")
  /\ UNCHANGED <<gateVars, runVars>>

\* An exception ends the run: what was written stays, the ledger is not saved.
RunDies ==
  /\ phase = "dead"
  /\ Applying("apply", "idle")
  /\ Idle
  /\ UNCHANGED <<tree, outcome, errors, runVars>>

\* The sweep, which an empty listing does not start; then the ledger is saved.
Swept == Present(docs) # {} \/ Present(entries) = {}

Finish ==
  /\ Applying("applied", "idle")
  /\ LET gone == {d \in Present(entries) : Swept /\ docs[d] = Absent}
     IN  /\ concepts' = [d \in Paths |-> IF d \in gone THEN Absent ELSE concepts[d]]
         /\ entries' = [d \in Paths |-> IF d \in gone THEN Absent
                                        ELSE IF outcome[d] = "synced" THEN docs[d]
                                        ELSE entries[d]]
  /\ UNCHANGED gateVars

Run ==
  \/ Connect(StartPull("sync") \/ Pulling("sync") \/ Reading)
  \/ PassThrough \/ AskWorker \/ Work \/ AllDecided \/ RunDies \/ Finish

Next ==
  \/ Run
  \/ Connect(StartPull("status") \/ Pulling("status") \/ Outside \/ Faults)
Spec == Init /\ [][Next]_vars

\* Runs are started again and again (a schedule, a timer), and go on, as does
\* git once `status` has started it; edits and faults are bounded.
Fairness == WF_vars(Run) /\ WF_vars(Connect(Pulling("status")))
FairSpec == Spec /\ Fairness

-----------------------------------------------------------------------------
\* Every variable has its type, and only a run that applies transforms.
TypeOK ==
  /\ ConnectorTypeOK
  /\ GateTypeOK
  /\ concepts \in Commits /\ entries \in Commits
  /\ phase # "idle" => step["sync"] = "apply"

\* "retried on its own next" run: when edits and faults are over, the tree
\* comes to be what the source has under `paths`, unless nothing is left there
\* (which is never swept), or the clone is one that a pull does not mend.  What
\* a `status` made sync miss is mended.
Recovers ==
  <>(lapses \ {"beside"} # {}) \/
  <>[](\/ setup.transformer = "llm"
       \/ Present(Only(upstream, wanted)) = {}
       \/ concepts = Only(upstream, wanted))

\* Every document a run began to apply is synced or quarantined in the end,
\* be it by a later run when the client raised what _apply does not catch.
EveryDocDecided ==
  \A d \in Docs : outcome[d] = "waiting" ~> outcome[d] \in {"synced", "quarantined"}
=============================================================================
