----------------------------- MODULE MCServing -----------------------------
(***************************************************************************)
(* A small instance of Serving for TLC.  There is no plain layout, or one  *)
(* with a bundle and a ledger that a server can load, whose concept c1 is  *)
(* there where files are copied and still to be synced where they are      *)
(* linked; contents are only compared, so that what it holds may be        *)
(* called x.                                                               *)
(***************************************************************************)
EXTENDS Serving, TLC

CONSTANTS c1, c2, x, y

MCInit ==
  /\ ServingInit
  /\ data[0][Index] = x
  /\ Has(0, Index) = Has(0, LedgerFile)
  /\ Has(0, Index) \/ \A c \in Concepts : ~Has(0, c)
  /\ Has(0, Index) => (hardLinks <=> ~Has(0, c1))
  /\ Loadable(View(0))
MCSpec == MCInit /\ [][ServingNext]_allVars /\ ServingFairness
=============================================================================
