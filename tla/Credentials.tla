----------------------------- MODULE Credentials -----------------------------
(***************************************************************************)
(* What the auth service makes of the header and of the scope of a request *)
(* (auth/src/serverHelpers.ts, clusterPat.ts and scope.ts): who is asking, *)
(* by which strategy that is established, and what a cluster may be given. *)
(*                                                                         *)
(* A repository name is the sequence of its path segments; a name or an    *)
(* e-mail address stands for its trimmed lower-case form.                  *)
(***************************************************************************)
EXTENDS Integers, Sequences, FiniteSets

CONSTANTS
    Token,       \* what clients present
    NoToken,     \* the empty one
    Wrapped,     \* the tokens that start with aocrwrap:
    ClusterId,   \* labels of clusters that match CLUSTER_ID_PATTERN
    User, NoUser,
    Known,       \* [Token -> User or NoUser]: what the validation service says of a token
    NamesOf,     \* [User -> set of names]: external id, user name and e-mail
    NoName       \* no name, or a blank one

ASSUME CredentialsAssumption ==
    /\ NoToken \in Token /\ Wrapped \subseteq Token \ {NoToken}
    /\ NoUser \notin User
    /\ Known \in [Token -> User \cup {NoUser}]
    /\ DOMAIN NamesOf = User

Strategies == {"wrapped-upstream", "pat", "cluster-pat", "api", "none"}

-----------------------------------------------------------------------------
(* The Authorization header, [scheme, user, token].                        *)

\* extractPresentedCredentials throws for anything else; a bearer may be empty.
HasCredentials(header) ==
    \/ header.scheme = "bearer"
    \/ header.scheme = "basic" /\ header.token # NoToken

\* Only Basic has a name in it.
PresentedIdentity(header) ==
    IF header.scheme = "basic" THEN header.user ELSE NoName

\* presentedIdentityMatchesUser: every name that was given is one of the user's.
IdentityMatches(names, u) == names \ {NoName} \subseteq NamesOf[u]

-----------------------------------------------------------------------------
(* The configuration [pats, clusters, url, key]: the entries of            *)
(* AUTH_PAT_TOKENS and of AUTH_CLUSTER_PAT_TOKENS as written, and whether  *)
(* there are a validation service and a signing key.                       *)

\* parseStaticPatTokens.
StaticPats(config) == config.pats \ {NoToken}

\* validateUsingStaticPat.
IsStaticPat(config, t) == t \in StaticPats(config)

Kept(entry) == entry.id \in ClusterId /\ entry.token # NoToken

\* Mutant: the first entry of a cluster wins.
HasPat_First(config, id, t) ==
    \E n \in DOMAIN config.clusters :
       /\ Kept(config.clusters[n])
       /\ config.clusters[n].id = id /\ config.clusters[n].token = t
       /\ \A m \in 1 .. n - 1 :
             Kept(config.clusters[m]) => config.clusters[m].id # id

\* t is the PAT of cluster id: the last well-formed entry of the cluster says so.
HasPat(config, id, t) ==
    \E n \in DOMAIN config.clusters :
       /\ Kept(config.clusters[n])
       /\ config.clusters[n].id = id /\ config.clusters[n].token = t
       /\ \A m \in n + 1 .. Len(config.clusters) :
             Kept(config.clusters[m]) => config.clusters[m].id # id

IsClusterPat(config, t) == \E id \in ClusterId : HasPat(config, id, t)

\* validateUsingClusterPat takes the first cluster, as the entries name them.
ClusterOf(config, t) ==
    LET holders == {n \in DOMAIN config.clusters :
                       /\ Kept(config.clusters[n])
                       /\ HasPat(config, config.clusters[n].id, t)}
    IN config.clusters[CHOOSE n \in holders : \A m \in holders : n =< m].id

\* Mutant: the validation service is asked before the cluster PATs are looked at.
Strategy_ApiFirst(config, t) ==
    CASE t \in Wrapped            -> "wrapped-upstream"
      [] IsStaticPat(config, t)  -> "pat"
      [] config.url              -> "api"
      [] IsClusterPat(config, t) -> "cluster-pat"
      [] OTHER                   -> "none"

\* validatePresentedToken: the first strategy that knows the token; a wrapped token
\* never falls through to another.
Strategy(config, t) ==
    IF t \in Wrapped THEN "wrapped-upstream"
    ELSE IF IsStaticPat(config, t) THEN "pat"
    ELSE IF IsClusterPat(config, t) THEN "cluster-pat"
    ELSE IF config.url THEN "api" ELSE "none"

-----------------------------------------------------------------------------
(* The scope parameter: a sequence of [type, name, actions].               *)

WellFormed(s) == s.type # "" /\ s.name # <<>>

SameResource(s, t) == s.type = t.type /\ s.name = t.name

\* The resources of a scope, each at the place where it is first seen.
Resources(scope) ==
    {n \in DOMAIN scope : /\ WellFormed(scope[n])
                          /\ \A m \in 1 .. n - 1 : ~SameResource(scope[m], scope[n])}

\* The actions that some entry asks for on the n-th resource.
RequestedActions(scope, n) ==
    UNION {scope[m].actions : m \in {k \in DOMAIN scope : SameResource(scope[k], scope[n])}}

-----------------------------------------------------------------------------
(* evaluateClusterPatScope.                                                *)

Under(namespace, name) ==
    /\ Len(namespace) =< Len(name)
    /\ \A n \in DOMAIN namespace : name[n] = namespace[n]

Own(id, name) == Under(<<"cluster", id>>, name)

\* mirror/* and the standard modules, getStandardModuleNamespace.
SharedPlace(name) == Under(<<"mirror">>, name) \/ Under(<<"wasm", "std">>, name)

ClusterMayUse(id, s) == s.type = "repository" /\ (Own(id, s.name) \/ SharedPlace(s.name))

\* Everything at home, elsewhere only pull: the rest is dropped without an error.
ClusterActions(id, name, actions) ==
    IF Own(id, name) THEN actions ELSE actions \cap {"pull"}
=============================================================================
