--------------------------- MODULE UpstreamTokens ---------------------------
(***************************************************************************)
(* Requests to the mirror from their path to the upstream that they end    *)
(* at, and the cache of anonymous upstream tokens that they share          *)
(* (mirror/proxy.go and TokenCache in mirror/upstream.go).  Concurrent     *)
(* misses each fetch a token, outside the lock, and store it when it comes *)
(* in; a token that is refused stays where it is.                          *)
(*                                                                         *)
(* How content gets into the writer is the subject of BlobTee and          *)
(* MirrorWarm; here it is there or not.  The clock ticks in a unit of      *)
(* which the lifetime of an entry is a few.                                *)
(***************************************************************************)
EXTENDS MirrorRouting

CONSTANTS
    Request,   \* requests, each for one manifest or blob
    Asks,      \* what a client can mean: [name, resource, reference]
    Workloads, \* bound: what the clients mean, request by request
    Digest,    \* references that start with sha256:
    Ttl,       \* ttl of the cache
    Patience,  \* Timeout of the http.Client
    Life,      \* how long the upstream takes a token of its own
    NoToken,   \* the empty token
    MaxTime,   \* bound: the clock
    MaxFaults  \* bound: failed calls, and revocations

ASSUME UpstreamTokensAssumption ==
    /\ Registered \subseteq STRING
    /\ \A a \in Asks :
          /\ a = [name |-> a.name, resource |-> a.resource, reference |-> a.reference]
          /\ a.name \in Seq(STRING) /\ a.name # <<>>
          /\ a.resource \in STRING /\ a.reference \in STRING
          /\ \A n \in DOMAIN a.name : a.name[n] # "" /\ a.reference # ""
    /\ Workloads \subseteq [Request -> Asks]
    /\ Ttl \in Nat \ {0} /\ Patience \in Nat /\ Life \in Nat
    /\ MaxTime \in Nat /\ MaxFaults \in Nat

\* The path that a client sends for what it means, without /v2/.
Path(a) == a.name \o <<a.resource, a.reference>>
Name(a) == NameOf(Path(a))

\* What it ends at: a piece of content of an upstream.
Target(a) == [slug       |-> SlugOf(Name(a)),
              repository |-> Repository(Name(a)),
              resource   |-> Resource(Path(a)),
              reference  |-> Reference(Path(a))]

Resolves(a) == Splits(Path(a)) /\ ~Unknown(Name(a)) /\ ~Incomplete(Name(a))

\* A blob is asked for by its digest.
NoDigest(a) == Target(a).resource = "blobs" /\ Target(a).reference[1] \notin Digest

\* What gets as far as the cache.
Mirrored == {a \in Asks : Resolves(a) /\ ~NoDigest(a)}

\* Mutant: the key of the cache is the repository.
Key_Repository(target) == <<target.repository>>

\* authorize: slug + ":" + repository.
Key(target) == <<target.slug, target.repository>>

Keys == {Key(Target(a)) : a \in Mirrored}
NoEntry == [token |-> NoToken, expires |-> 0]

VARIABLES
    ask,      \* request: what its client means
    pc,       \* request: where it is
    got,      \* request: its token
    began,    \* request: when its fetch of a token began
    status,   \* request: of its answer
    served,   \* request: what content it was given, if any
    entries,  \* token cache: by key, NoEntry for none
    kept,     \* writer: <<storage, resource, reference, the content under it>>
    voided,   \* upstream: tokens minted before are refused
    now, faults,
    taken     \* history: when a request got its token

requestVars == <<ask, pc, got, began, status, served>>
vars == <<requestVars, entries, kept, voided, now, faults, taken>>

\* What the upstream of a target mints.
Minted(target) ==
    [slug |-> target.slug, repository |-> target.repository, minted |-> now]

Tokens == [slug : {Target(a).slug : a \in Mirrored},
           repository : {Target(a).repository : a \in Mirrored}, minted : Nat]

Targets == [a \in Mirrored |-> Target(a)]

Goal(q)     == Targets[ask[q]]
Accepted(q) == ask[q] \in Mirrored

NoContent == {}

TypeOK ==
    /\ ask \in Workloads
    /\ pc \in [Request -> {"new", "fetching", "storing", "calling", "answered"}]
    /\ got \in [Request -> Tokens \cup {NoToken}]
    /\ began \in [Request -> Nat] /\ taken \in [Request -> Nat]
    /\ status \in [Request -> {0, 200, 400, 404, 502}]
    /\ DOMAIN served = Request
    /\ entries \in [Keys -> [token : Tokens, expires : Nat] \cup {NoEntry}]
    /\ voided \in Nat /\ now \in 0 .. MaxTime /\ faults \in 0 .. MaxFaults

Init ==
    /\ ask \in Workloads
    /\ pc = [q \in Request |-> "new"]
    /\ got = [q \in Request |-> NoToken]
    /\ began = [q \in Request |-> 0] /\ taken = [q \in Request |-> 0]
    /\ status = [q \in Request |-> 0]
    /\ served = [q \in Request |-> NoContent]
    /\ entries = [k \in Keys |-> NoEntry]
    /\ kept = {}
    /\ voided = 0 /\ now = 0 /\ faults = 0

-----------------------------------------------------------------------------
(* A request.                                                              *)

Place(target) ==
    <<Storage(target.slug, target.repository), target.resource, target.reference>>

\* Its variables are gone with it.
Answered(q, code, content) ==
    /\ got' = [got EXCEPT ![q] = NoToken]
    /\ began' = [began EXCEPT ![q] = 0] /\ taken' = [taken EXCEPT ![q] = 0]
    /\ pc' = [pc EXCEPT ![q] = "answered"]
    /\ status' = [status EXCEPT ![q] = code]
    /\ served' = [served EXCEPT ![q] = content]

\* A path that does not resolve.
Refuse(q) ==
    /\ pc[q] = "new"
    /\ \/ Splits(Path(ask[q])) /\ Unknown(Name(ask[q])) /\ Answered(q, 404, NoContent)
       \/ ~Splits(Path(ask[q])) /\ Answered(q, 400, NoContent)
       \/ /\ Splits(Path(ask[q])) /\ ~Unknown(Name(ask[q])) /\ Incomplete(Name(ask[q]))
          /\ Answered(q, 400, NoContent)
       \/ Resolves(ask[q]) /\ NoDigest(ask[q]) /\ Answered(q, 400, NoContent)
    /\ UNCHANGED <<ask, entries, kept, voided, now, faults>>

\* The writer has it.
ServeHit(q) ==
    /\ pc[q] = "new" /\ Accepted(q)
    /\ \E content \in {k[2] : k \in {h \in kept : h[1] = Place(Goal(q))}} :
          Answered(q, 200, {content})
    /\ UNCHANGED <<ask, entries, kept, voided, now, faults>>

Live(key) == entries[key] # NoEntry /\ now < entries[key].expires

\* registry.k8s.io is asked without a token.
Anonymous(q) == Goal(q).slug = "k8s"

\* Mutant: whoever uses an entry prolongs it.
AfterHit_Renewed(key) == [entries EXCEPT ![key].expires = now + Ttl]

AfterHit(key) == entries

\* The writer has it not, or cannot be asked, and the token is at hand.
TakeToken(q) ==
    LET key == Key(Goal(q)) IN
    /\ pc[q] = "new" /\ Accepted(q)
    /\ \/ Anonymous(q) /\ UNCHANGED <<got, entries>>
       \/ /\ ~Anonymous(q) /\ Live(key)
          /\ got' = [got EXCEPT ![q] = entries[key].token]
          /\ entries' = AfterHit(key)
    /\ pc' = [pc EXCEPT ![q] = "calling"]
    /\ taken' = [taken EXCEPT ![q] = now]
    /\ UNCHANGED <<ask, began, status, served, kept, voided, now, faults>>

\* It is not: the lock is released, and a token is fetched.
Miss(q) ==
    /\ pc[q] = "new" /\ Accepted(q)
    /\ ~Anonymous(q) /\ ~Live(Key(Goal(q)))
    /\ pc' = [pc EXCEPT ![q] = "fetching"]
    /\ began' = [began EXCEPT ![q] = now]
    /\ UNCHANGED <<ask, got, status, served, entries, kept, voided, now, faults, taken>>

\* The upstream mints a token, or answers without one.
Mint(q) ==
    /\ pc[q] = "fetching"
    /\ \/ got' = [got EXCEPT ![q] = Minted(Goal(q))] /\ UNCHANGED faults
       \/ faults < MaxFaults /\ faults' = faults + 1 /\ UNCHANGED got
    /\ pc' = [pc EXCEPT ![q] = "storing"]
    /\ UNCHANGED <<ask, began, status, served, entries, kept, voided, now, taken>>

Stores(q) == got[q] # NoToken

\* Its answer has come in: it takes the place of whatever was stored meanwhile.
Store(q) ==
    /\ pc[q] = "storing"
    /\ entries' = IF Stores(q)
                    THEN [entries EXCEPT ![Key(Goal(q))] =
                             [token |-> got[q], expires |-> now + Ttl]]
                    ELSE entries
    /\ pc' = [pc EXCEPT ![q] = "calling"]
    /\ taken' = [taken EXCEPT ![q] = now]
    /\ UNCHANGED <<ask, got, began, status, served, kept, voided, now, faults>>

\* The fetch fails, or the client's timeout ends it.
FetchFails(q) ==
    /\ pc[q] \in {"fetching", "storing"}
    /\ \/ faults < MaxFaults /\ faults' = faults + 1
       \/ now = began[q] + Patience /\ UNCHANGED faults
    /\ Answered(q, 502, NoContent)
    /\ UNCHANGED <<ask, entries, kept, voided, now>>

\* The upstream takes a token of its own for the repository, as long as it lives.
Accepts(q) ==
    \/ Anonymous(q)
    \/ /\ got[q] # NoToken
       /\ got[q].slug = Goal(q).slug /\ got[q].repository = Goal(q).repository
       /\ voided =< got[q].minted /\ now < got[q].minted + Life

\* The upstream is taken to have nothing under a reference with a slash in it.  An
\* upstream without tokens could read /v2/<repo>/manifests/blobs/<digest> as its
\* blob of <repo>/manifests, and the mirror would pass that on as a manifest.
Exists(target) == Len(target.reference) = 1

\* The upstream answers with the content; the writer may come to keep it.
CallServed(q) ==
    /\ pc[q] = "calling" /\ Accepts(q) /\ Exists(Goal(q))
    /\ Answered(q, 200, {Goal(q)})
    /\ \/ kept' = kept \cup {<<Place(Goal(q)), Goal(q)>>}
       \/ UNCHANGED kept
    /\ UNCHANGED <<ask, entries, voided, now, faults>>

\* It answers 401 or 404, or not at all.
CallRefused(q) ==
    /\ pc[q] = "calling"
    /\ \/ ~(Accepts(q) /\ Exists(Goal(q))) /\ UNCHANGED faults
       \/ faults < MaxFaults /\ faults' = faults + 1
    /\ Answered(q, 502, NoContent)
    /\ UNCHANGED <<ask, entries, kept, voided, now>>

-----------------------------------------------------------------------------
\* The upstreams take back every token that they have given out.
Revoke ==
    /\ faults < MaxFaults /\ faults' = faults + 1
    /\ voided' = now + 1
    /\ UNCHANGED <<requestVars, entries, kept, now, taken>>

\* Time goes on, but for a fetch that has lasted as long as the client waits.
Tick ==
    /\ now < MaxTime
    /\ \A q \in Request : pc[q] \in {"fetching", "storing"} => now < began[q] + Patience
    /\ now' = now + 1
    /\ UNCHANGED <<requestVars, entries, kept, voided, faults, taken>>

Next ==
    \/ \E q \in Request :
          \/ Refuse(q) \/ ServeHit(q) \/ TakeToken(q) \/ Miss(q)
          \/ Mint(q) \/ Store(q) \/ FetchFails(q) \/ CallServed(q) \/ CallRefused(q)
    \/ Revoke \/ Tick

Spec == Init /\ [][Next]_vars

-----------------------------------------------------------------------------
(* Properties.                                                             *)

\* What the client means, if it means a repository of an upstream.
Meant(a) == [slug |-> SlugOf(a.name), repository |-> Repository(a.name),
             resource |-> a.resource, reference |-> <<a.reference>>]

\* Whoever is served is given the content that it means, of the upstream and the
\* repository that it means, though the content was kept for another request, under a
\* path that has the upstream and the repository in it (router.go:118-126,
\* upstream.go:49-60).
ServedAsMeant == \A q \in Request : served[q] \subseteq {Meant(ask[q])}

\* A repository may have "manifests" and "blobs" among its segments, but for
\* "manifests" in front of a blob: what is asked of an upstream is what the client
\* means (router.go:126-142).
AskedAsMeant ==
    \A q \in Request :
       /\ pc[q] = "calling"
       /\ \/ ask[q].resource = "manifests"
          \/ ask[q].resource = "blobs" /\ Places("manifests", Path(ask[q])) = {}
       => Goal(q) = Meant(ask[q])

\* A token is presented only to the upstream that issued it, for the repository that
\* it was issued for, whoever fetched it (proxy.go:583-594).
TokensFit ==
    \A q \in Request : pc[q] = "calling" /\ got[q] # NoToken =>
       got[q].slug = Goal(q).slug /\ got[q].repository = Goal(q).repository

\* A token that an upstream takes back is not used for ever, though nothing drops it:
\* one that is taken was minted less long ago than the lifetime of an entry and the
\* patience of the client together, however many requests fetch and store at once
\* (upstream.go:170-199).
TokensAgeOut ==
    \A q \in Request : pc[q] = "calling" /\ got[q] # NoToken =>
       taken[q] < got[q].minted + Ttl + Patience

\* Two programs read the same names: if the token service asks an upstream for a proof
\* of a name, then the mirror fetches it there, and from the repository that was proved,
\* unless it is one that Docker Hub keeps under library/ (route.ts:38-59,
\* router.go:94-108).
ProofsAreOfTheGoal ==
    \A q \in Request : pc[q] = "calling" =>
       \A route \in ProofRoute(Name(ask[q])) :
          /\ route.slug = Goal(q).slug
          /\ \/ route.slug = "docker" /\ Len(route.repository) = 1
             \/ route.repository = Goal(q).repository
=============================================================================
