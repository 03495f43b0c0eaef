---------------------------- MODULE MCEmbeddings ----------------------------
(***************************************************************************)
(* A small instance of Embeddings for TLC: one source with two documents.  *)
(***************************************************************************)
EXTENDS Embeddings

CONSTANTS s, a, b, ca, cb, x, y, m1, m2

MCHomeOf == [u \in Uris |-> IF u = a THEN ca ELSE cb]
=============================================================================
