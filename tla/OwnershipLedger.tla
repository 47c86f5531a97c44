--------------------------- MODULE OwnershipLedger ---------------------------
(***************************************************************************)
(* What the users and repositories tables promise of the token service: a  *)
(* claim gives all of its rows to one user, in one step, at most once, or  *)
(* nothing happens at all.  TokenIssue implements it statement by          *)
(* statement.                                                              *)
(***************************************************************************)
CONSTANTS
    Claim,    \* what may be claimed
    Row,      \* rows of the tables
    RowsOf,   \* [Claim -> SUBSET Row]
    UserOf,   \* [Claim -> user]
    Nobody    \* the owner of a row that is not there

VARIABLES
    owner,    \* row: to whom it belongs
    settled   \* the claims that have taken effect

Init == owner = [r \in Row |-> Nobody] /\ settled = {}

Settle(c) ==
    /\ c \notin settled
    /\ settled' = settled \cup {c}
    /\ owner' = [r \in Row |-> IF r \in RowsOf[c] THEN UserOf[c] ELSE owner[r]]

Next == \E c \in Claim : Settle(c)

Spec == Init /\ [][Next]_<<owner, settled>>
=============================================================================
