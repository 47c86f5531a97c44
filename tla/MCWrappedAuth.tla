---------------------------- MODULE MCWrappedAuth ---------------------------
(***************************************************************************)
(* Small instances of WrappedAuth for TLC: a cache for two users, requests *)
(* of one user and a guest that overlap in their repositories, and three   *)
(* users who come one after the other, one of them again.                  *)
(***************************************************************************)
EXTENDS WrappedAuth, TLC

Overlapping == {"a", "b", "ab", "guest"}
Crowd       == {"alice", "again", "bob", "carol", "no", "astray"}

MCValidation == Overlapping \cup Crowd
MCTogether   == {Overlapping, Crowd}

\* Everybody not named otherwise is alice.
MCCredOf == [v \in Validation |-> CASE v \in {"bob", "guest"} -> "bob"
                                    [] v = "carol"            -> "carol"
                                    [] OTHER                  -> "alice"]
MCWants ==
    [v \in Validation |-> CASE v = "ab" -> <<"a", "b">>
                            [] v = "b"  -> <<"b">>
                            [] v = "no" -> <<>>
                            [] OTHER    -> <<"a">>]
MCWrappedAt == [v \in Validation |-> 0]
=============================================================================
