---------------------------- MODULE MCSourceRun ----------------------------
(***************************************************************************)
(* A small instance of SourceRun for TLC: two documents, two versions.     *)
(* The kinds of source take turns, each with faults where it may have      *)
(* them; the worker's answers multiply only with a listing that stays.     *)
(***************************************************************************)
EXTENDS SourceRun

CONSTANTS p, q, v, w

Kind(kind, transformer, pullers, changes, failures) ==
  [kind |-> kind, transformer |-> transformer, pullers |-> pullers,
   edits |-> changes, faults |-> failures]

AllSetups ==
  { Kind("git", "passthrough", {"sync"}, 2, 1),
    Kind("git", "passthrough", {"sync", "status"}, 1, 1),
    Kind("gdrive", "passthrough", {"sync"}, 1, 1),
    Kind("s3", "passthrough", {"sync"}, 2, 1),
    Kind("s3", "llm", {"sync"}, 0, 0) }

\* Versions are compared per document only, so each document may start with v;
\* what the worker is given makes no difference to what it may answer.
MCInit ==
  /\ Init
  /\ upstream \in [Paths -> {v, Absent}]
  /\ setup.transformer = "llm" => upstream = [d \in Paths |-> v]
MCSpec == MCInit /\ [][Next]_vars /\ Fairness
=============================================================================
