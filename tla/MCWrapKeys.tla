----------------------------- MODULE MCWrapKeys -----------------------------
(***************************************************************************)
(* A small instance of WrapKeys for TLC: two keys and a garbled one, two   *)
(* nodes that change one after the other, blobs of both, one that nobody   *)
(* wrapped and one with a scope that does not route.                       *)
(***************************************************************************)
EXTENDS WrapKeys

MCNodeOf == [p \in Pull |-> IF p = "early" THEN "n1" ELSE "n2"]
=============================================================================
