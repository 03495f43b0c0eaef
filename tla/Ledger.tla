------------------------------- MODULE Ledger -------------------------------
(***************************************************************************)
(* The sync ledger (okf_mcp.ingest.ledger): for every source document it   *)
(* has met, the concept it projects to, the hash it was projected from and *)
(* the source that owns it.  A ledger is a function from source URIs; an   *)
(* entry whose document vanished upstream is kept, flagged `removed`.      *)
(*                                                                         *)
(* Revisions and synced_at are left out: `revision` decides nothing once   *)
(* an entry has a hash, and the --since window that synced_at feeds is a   *)
(* free choice of the sync.  Entries without a hash (written before hashes *)
(* were introduced) are not modelled.                                      *)
(***************************************************************************)
EXTENDS Naturals, FiniteSets

CONSTANTS
  Sources,      \* configured sources
  Uris,         \* source URIs of documents
  Concepts,     \* concept paths under bundles/
  Contents,     \* document contents, one per content hash
  NoEntry       \* "no ledger entry"

Entry == [source : Sources, concept : Concepts, sha : Contents,
          removed : BOOLEAN]

ASSUME NoEntryAssumption == NoEntry \notin Entry
ASSUME UrisAssumption == IsFiniteSet(Uris)

Ledgers == [Uris -> Entry \cup {NoEntry}]
EmptyLedger == [u \in Uris |-> NoEntry]

Known(led, u) == led[u] # NoEntry
Active(led, u) == Known(led, u) /\ ~led[u].removed
ActiveCount(led, s) ==
  Cardinality({u \in Uris : Active(led, u) /\ led[u].source = s})

Classify(led, u, sha) ==
  IF ~Known(led, u) THEN "new"
  ELSE IF led[u].sha = sha THEN "unchanged" ELSE "modified"

\* The document is there and unchanged: it is not flagged any more.
MarkSeen(led, u) == [led EXCEPT ![u].removed = FALSE]

\* match_by_sha returns the first match in the order of the dict, which a
\* reload sorts and an adoption changes; any match may be the first here.
MatchBySha(led, sha, current) ==
  {u \in Uris \ current : Known(led, u) /\ led[u].sha = sha}

\* The entry moves to the new URI and loses its flag; `source` stays.
Adopt(led, old, new) ==
  [led EXCEPT ![old] = NoEntry, ![new] = [led[old] EXCEPT !.removed = FALSE]]

\* An entry is made, or brought up to date and back from removal.
Record(led, u, s, concept, sha) ==
  [led EXCEPT ![u] = [source |-> s, concept |-> concept, sha |-> sha,
                      removed |-> FALSE]]

\* Mutation of Vanished: the sweep is not scoped to the source.
VanishedAnywhere(led, seen, s) == {u \in Uris \ seen : Active(led, u)}

\* The documents sweep_removed flags, and the ledger once they are flagged.
Vanished(led, seen, s) ==
  {u \in Uris \ seen : Active(led, u) /\ led[u].source = s}

SweepRemoved(led, seen, s) ==
  [u \in Uris |-> IF u \in Vanished(led, seen, s)
                  THEN [led[u] EXCEPT !.removed = TRUE] ELSE led[u]]
=============================================================================
