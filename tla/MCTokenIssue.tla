----------------------------- MODULE MCTokenIssue -----------------------------
(***************************************************************************)
(* Small instances of TokenIssue for TLC: users who claim rows in crossed  *)
(* orders, with a pool of two clients for three of them; and one request   *)
(* for each way through the policy, of users and of clusters.              *)
(***************************************************************************)
EXTENDS TokenIssue, TLC

S(type, name, actions) == [type |-> type, name |-> name, actions |-> actions]
Repo(name, actions)    == S("repository", name, actions)

X == <<"acme", "x">>
Y == <<"acme", "y">>
Deep == <<"acme", "y", "z">>
Push == {"pull", "push"}
Malformed == S("", X, Push)

Bearer(t)       == [scheme |-> "bearer", user |-> NoName, token |-> t]
Basic(u, t)     == [scheme |-> "basic", user |-> u, token |-> t]
Ask(header, account, scope) == [header |-> header, account |-> account, scope |-> scope]

\* Two entries for c1, of which the last counts; one token for c1 and c2; one entry
\* that is not a label and one without a token.
Clusters ==
    <<[id |-> "c1", token |-> "old"], [id |-> "c2", token |-> "twin"],
      [id |-> "c/1", token |-> "static"], [id |-> "c1", token |-> "twin"],
      [id |-> "c2", token |-> NoToken], [id |-> "c3", token |-> "three"]>>

Full  == [pats |-> {"static", NoToken}, clusters |-> Clusters, url |-> TRUE, key |-> TRUE]
Bare  == [pats |-> {"static", NoToken}, clusters |-> <<>>, url |-> FALSE, key |-> TRUE]
NoKey == [pats |-> {"static", NoToken}, clusters |-> <<>>, url |-> TRUE, key |-> FALSE]

Crossed  == {"xy", "yx", "yxMore"}
Retried  == {"xy", "xyAgain", "yx"}
Policies == {"home", "away", "both", "byOldPat", "lib", "toService", "third", "other"}
Odd      == {"static", "wrapped", "wrappedNone", "none", "many", "poses", "posesAccount",
             "bare", "noKey"}

MCRequest  == Crossed \cup Retried \cup Policies \cup Odd
MCTogether == {Crossed, Retried} \cup {{q} : q \in Policies \cup Odd}

XY == <<Malformed, Repo(X, {"pull"}), Repo(Y, {"pull"}), Repo(X, Push)>>
YX == <<Repo(Y, Push), S("registry", <<"catalog">>, {"*"}), Repo(<<"x">>, Push), Repo(X, Push)>>

Home == Repo(<<"cluster", "c1", "app">>, Push)
Away == Repo(<<"cluster", "c2", "app">>, {"pull"})
Lib  == Repo(<<"wasm", "std", "python">>, Push)
Mirror == Repo(<<"mirror", "redis">>, Push)

MCAsked ==
    "xy"       :> Ask(Basic("ann", "tAnn"), "ann@acme", XY) @@
    "xyAgain"  :> Ask(Bearer("tAnn"), NoName, XY) @@
    "yx"       :> Ask(Bearer("tBob"), "bob", YX) @@
    "yxMore"   :> Ask(Basic(NoName, "tAnn"), NoName, <<Repo(Deep, Push), Repo(X, {"pull"})>>) @@
    "home"     :> Ask(Bearer("twin"), NoName, <<Home, Mirror>>) @@
    "away"     :> Ask(Bearer("twin"), NoName, <<Away>>) @@
    "both"     :> Ask(Basic("x", "twin"), NoName, <<Home, Away>>) @@
    "byOldPat" :> Ask(Bearer("old"), NoName, <<Home>>) @@
    "lib"      :> Ask(Bearer("three"), NoName, <<Repo(<<"wasm", "std", "python">>, {"pull"}), Lib>>) @@
    "toService" :> Ask(Bearer("three"), NoName, <<Home>>) @@
    "third"    :> Ask(Bearer("three"), NoName, <<S("registry", <<"catalog">>, {"*"})>>) @@
    "other"    :> Ask(Bearer(NoToken), NoName, <<Home>>) @@
    "static"   :> Ask(Basic("x", "static"), "who", <<Home, Away>>) @@
    "wrapped"  :> Ask(Bearer("wrap"), NoName, <<Repo(X, {"pull"})>>) @@
    "wrappedNone" :> Ask(Bearer("wrap"), NoName, <<Malformed>>) @@
    "none"     :> Ask([scheme |-> "basic", user |-> "ann", token |-> NoToken], NoName, XY) @@
    "many"     :> Ask(Bearer("static"), NoName, <<Home, Away, Lib, Mirror, Repo(X, Push)>>) @@
    "poses"    :> Ask(Basic("bob", "tAnn"), NoName, <<Repo(X, Push)>>) @@
    "posesAccount" :> Ask(Basic("ann", "tAnn"), "bob", <<Repo(X, Push)>>) @@
    "bare"     :> Ask(Bearer("tAnn"), NoName, XY) @@
    "noKey"    :> Ask(Bearer("static"), NoName, XY)

MCConfigOf == [q \in MCRequest |-> CASE q = "bare"  -> Bare
                                     [] q = "noKey" -> NoKey
                                     [] OTHER       -> Full]
MCKnown ==
    [t \in Token |-> CASE t = "tAnn" -> "ann" [] t = "tBob" -> "bob" [] OTHER -> NoUser]
MCNamesOf == "ann" :> {"ann", "ann@acme"} @@ "bob" :> {"bob"}
=============================================================================
