----------------------------- MODULE MCBlobTee -----------------------------
(***************************************************************************)
(* A small instance of BlobTee for TLC: two requests that race to fill the *)
(* cache, where every party may fail in every way.                         *)
(***************************************************************************)
EXTENDS BlobTee

CONSTANTS q1, q2

MCRequest == {q1, q2}
=============================================================================
