----------------------------- MODULE MCSyncLock -----------------------------
(***************************************************************************)
(* A small instance of SyncLock for TLC: see MCSyncLock.cfg.               *)
(***************************************************************************)
EXTENDS SyncLock, TLC
=============================================================================
