------------------------------ MODULE LlmGate ------------------------------
(***************************************************************************)
(* The llm transformer (okf_mcp.ingest.llm) inside _apply: a worker drafts *)
(* a concept, deterministic code gates the draft, findings go back to the  *)
(* worker a few times, and what comes out is validated and written, or     *)
(* quarantined.  One source applies its documents one after the other; the *)
(* run around it is SourceRun.                                             *)
(*                                                                         *)
(* The worker may answer anything.  Of an answer the model keeps whether   *)
(* each thing a check reads is in order; of a document whether the tree    *)
(* still holds what it held before the run.                                *)
(***************************************************************************)
EXTENDS Naturals

CONSTANTS
  Docs,         \* documents of the source
  MaxRetries,   \* max_retries
  Old,          \* the tree holds what it held before
  NoDoc,        \* no document is being transformed
  MaxErrors     \* bound: calls that raise something else than LlmError

ASSUME MaxRetriesAssumption == MaxRetries \in Nat
ASSUME MaxErrorsAssumption == MaxErrors \in Nat
ASSUME NoDocAssumption == NoDoc \notin Docs

VARIABLES
  tree,         \* for each document its output, or Old
  outcome,      \* of this run: none, waiting, synced or quarantined
  doing,        \* the document being transformed, or NoDoc
  phase,        \* idle, ask, apply or dead
  attempt,      \* calls to the worker for this document
  draft,        \* frontmatter and body
  findings,     \* what the gate found
  needsHuman,   \* the loop set needs_human
  errors        \* counter of the bound

workVars == <<doing, phase, attempt, draft, findings, needsHuman>>
gateVars == <<tree, outcome, workVars, errors>>

-----------------------------------------------------------------------------
\* type: what _check and the validator read; fields: what _check reads besides
\* (title, description, links); schema: what the validator reads besides;
\* flagged: a needs_human of the worker's own, which _sanitize leaves in, as it
\* does a pii_flag and gate_findings.  What it strips (scope, provenance, a
\* resource that the source does not name) nothing here reads.
Draft == [type : BOOLEAN, fields : BOOLEAN, schema : BOOLEAN, flagged : BOOLEAN]
Findings == {"no draft", "unparseable", "type", "fields"}
Output == [draft : Draft, needsHuman : BOOLEAN, findings : SUBSET Findings]

\* Before the first answer: no frontmatter, the source's own text.
NoDraft == [type |-> FALSE, fields |-> FALSE, schema |-> TRUE, flagged |-> FALSE]

Check(d) == {f \in {"type", "fields"} : ~d[f]}

\* _check_document: a concept needs a type, and well-formed other fields.
Valid(d) == d.type /\ d.schema

GateInit ==
  /\ tree = [d \in Docs |-> Old]
  /\ outcome = [d \in Docs |-> "none"]
  /\ doing = NoDoc
  /\ phase = "idle"
  /\ attempt = 0
  /\ draft = NoDraft
  /\ findings = {}
  /\ needsHuman = FALSE
  /\ errors = 0

Transform(d) ==
  /\ phase = "idle"
  /\ outcome[d] = "waiting"
  /\ doing' = d
  /\ phase' = "ask"
  /\ attempt' = 0
  /\ draft' = NoDraft
  /\ findings' = {"no draft"}
  /\ needsHuman' = FALSE
  /\ UNCHANGED <<tree, outcome, errors>>

\* The loop goes on, or ends with a draft that needs a human.
TryAgain ==
  IF attempt < MaxRetries
  THEN phase' = "ask" /\ needsHuman' = FALSE
  ELSE phase' = "apply" /\ needsHuman' = TRUE

Called ==
  /\ phase = "ask"
  /\ attempt' = attempt + 1
  /\ UNCHANGED <<tree, outcome, doing, errors>>

\* Mutation of Unparseable: such an answer starts the count again.
UnparseableRestarts ==
  /\ phase = "ask"
  /\ attempt' = 0
  /\ findings' = {"unparseable"}
  /\ UNCHANGED <<tree, outcome, doing, phase, draft, needsHuman, errors>>

\* The answer does not parse: the draft stays what it was.
Unparseable ==
  /\ Called
  /\ findings' = {"unparseable"}
  /\ TryAgain
  /\ UNCHANGED draft

\* Mutation of Answer: the last attempt is taken as it is.
AnswerLastPasses(d) ==
  /\ Called
  /\ draft' = d
  /\ findings' = Check(draft')
  /\ \/ findings' = {} /\ phase' = "apply" /\ UNCHANGED needsHuman
     \/ /\ findings' # {}
        /\ phase' = IF attempt < MaxRetries THEN "ask" ELSE "apply"
        /\ UNCHANGED needsHuman

\* Mutation of Answer: the loop ends only with a draft that passes.
AnswerUntilPasses(d) ==
  /\ Called
  /\ draft' = d
  /\ findings' = Check(draft')
  /\ phase' = IF findings' = {} THEN "apply" ELSE "ask"
  /\ UNCHANGED needsHuman

Answer(d) ==
  /\ Called
  /\ draft' = d
  /\ findings' = Check(draft')
  /\ \/ findings' = {} /\ phase' = "apply" /\ UNCHANGED needsHuman
     \/ findings' # {} /\ TryAgain

Idle == doing' = NoDoc /\ phase' = "idle" /\ attempt' = 0 /\ draft' = NoDraft
        /\ findings' = {} /\ needsHuman' = FALSE

\* The model declines: LlmError, the document is quarantined.
Decline ==
  /\ phase = "ask"
  /\ outcome' = [outcome EXCEPT ![doing] = "quarantined"]
  /\ Idle
  /\ UNCHANGED <<tree, errors>>

\* Anything else the client raises leaves _apply, and the run.
Raise ==
  /\ phase = "ask"
  /\ errors < MaxErrors
  /\ errors' = errors + 1
  /\ phase' = "dead"
  /\ UNCHANGED <<tree, outcome, doing, attempt, draft, findings, needsHuman>>

\* Rendered, validated, and written or quarantined.
Apply ==
  /\ phase = "apply"
  /\ \/ /\ Valid(draft)
        /\ tree' = [tree EXCEPT ![doing] = [draft |-> draft,
                                            needsHuman |->
                                              needsHuman \/ draft.flagged,
                                            findings |-> findings]]
        /\ outcome' = [outcome EXCEPT ![doing] = "synced"]
     \/ /\ ~Valid(draft)
        /\ outcome' = [outcome EXCEPT ![doing] = "quarantined"]
        /\ UNCHANGED tree
  /\ Idle
  /\ UNCHANGED errors

GateStep ==
  \/ \E d \in Docs : Transform(d)
  \/ Unparseable
  \/ \E d \in Draft : Answer(d)
  \/ Decline \/ Raise \/ Apply

-----------------------------------------------------------------------------
\* Every variable has its type, and the worker is asked at most MaxRetries + 1
\* times for a document.
GateTypeOK ==
  /\ tree \in [Docs -> Output \cup {Old}]
  /\ outcome \in [Docs -> {"none", "waiting", "synced", "quarantined"}]
  /\ doing \in Docs \cup {NoDoc}
  /\ phase \in {"idle", "ask", "apply", "dead"}
  /\ attempt \in 0..MaxRetries + 1
  /\ draft \in Draft
  /\ findings \in SUBSET Findings
  /\ needsHuman \in BOOLEAN
  /\ errors \in 0..MaxErrors
  /\ phase = "ask" => attempt <= MaxRetries

\* A file that reaches the tree without needs_human passes the whole gate,
\* whatever the worker answers, its own needs_human included, and however the
\* attempts before ended: a draft is never released by findings that were about
\* another one.
OutputIsGated ==
  \A d \in Docs : tree[d] # Old /\ ~tree[d].needsHuman
                    => Check(tree[d].draft) = {} /\ tree[d].findings = {}
=============================================================================
