---------------------------- MODULE WrappedAuth ----------------------------
(***************************************************************************)
(* Tokens for private images (auth/src/upstreamAuth, strategy.ts and       *)
(* proofCache.ts): every repository of the requested scope needs a proof   *)
(* that the credentials can read it at the upstream.  Proofs are cached by *)
(* credentials, in an LRU of entries that expire.                          *)
(*                                                                         *)
(* The service has one thread: what lies between two awaits, here between  *)
(* the answers of two probes, is one step.  The clock ticks in units of    *)
(* which the lifetime of a proof is a few.                                 *)
(***************************************************************************)
EXTENDS Integers, Sequences, FiniteSets

CONSTANTS
    Validation,   \* requests for a token
    Identity,     \* credIdentity: host, user and password
    Repo,         \* repositories of the upstream
    CredOf,       \* [Validation -> Identity]
    Wants,        \* [Validation -> Seq(Repo)]: the distinct repositories of the scope
    Misrouted,    \* requests with a scope of no or of another upstream
    WrappedAt,    \* [Validation -> Nat]: when the credentials were wrapped
    MaxAge,       \* WRAPPED_UPSTREAM_MAX_AGE_MS
    Ttl,          \* ttlMs
    MaxEntries,   \* maxEntries
    Together,     \* bound: sets of validations that one behaviour may make
    MaxTime       \* bound: the clock

ASSUME WrappedAuthAssumption ==
    /\ CredOf \in [Validation -> Identity]
    /\ Wants \in [Validation -> Seq(Repo)]
    /\ WrappedAt \in [Validation -> Nat]
    /\ Misrouted \subseteq Validation
    /\ Together \subseteq SUBSET Validation
    /\ MaxAge \in Nat /\ MaxTime \in Nat
    /\ Ttl \in Nat \ {0} /\ MaxEntries \in Nat \ {0}

VARIABLES
    pc,        \* validation: where it is
    at,        \* validation: the route that it works on
    result,    \* validation: what the upstream answered its probe
    cacheHit,  \* validation: no route needed a probe
    entries,   \* cache: the identities with an entry
    older,     \* cache: the order of the Map, <<a, b>> if a comes before b
    expires,   \* cache: expiresAt
    scoped,    \* cache: scopedRepos
    made,      \* the validations that this behaviour may make
    allowed,   \* upstream: who may read what
    now,
    proofs,    \* history: <<identity, repository, time>> of every recorded probe
    uses,      \* history: <<a, b>> if the last use of a was before the one of b
    fromCache  \* history: per validation, the routes that it took from the cache

validationVars == <<pc, at, result, cacheHit>>
cacheVars      == <<entries, older, expires, scoped>>
upstreamVars   == <<made, allowed, now>>
historyVars    == <<proofs, uses, fromCache>>
vars == <<validationVars, cacheVars, upstreamVars, historyVars>>

Waiting == "waiting"

TypeOK ==
    /\ pc \in [Validation -> {"start", "probing", "granted", "rejected"}]
    /\ at \in [Validation -> Nat]
    /\ result \in [Validation -> {Waiting, "ok", "unauthorized", "unreachable"}]
    /\ cacheHit \in [Validation -> BOOLEAN]
    /\ entries \subseteq Identity /\ Cardinality(entries) =< MaxEntries
    /\ older \subseteq entries \X entries
    /\ expires \in [Identity -> Nat]
    /\ scoped \in [Identity -> SUBSET Repo]
    /\ made \in Together
    /\ allowed \subseteq Identity \X Repo
    /\ now \in 0 .. MaxTime
    /\ proofs \subseteq Identity \X Repo \X Nat
    /\ uses \subseteq Identity \X Identity
    /\ fromCache \in [Validation -> SUBSET Repo]

Init ==
    /\ pc = [v \in Validation |-> "start"]
    /\ at = [v \in Validation |-> 1]
    /\ result = [v \in Validation |-> Waiting]
    /\ cacheHit = [v \in Validation |-> TRUE]
    /\ entries = {} /\ older = {}
    /\ expires = [i \in Identity |-> 0]
    /\ scoped = [i \in Identity |-> {}]
    /\ made \in Together
    /\ allowed = Identity \X Repo
    /\ now = 0
    /\ proofs = {} /\ uses = {}
    /\ fromCache = [v \in Validation |-> {}]

-----------------------------------------------------------------------------
(* The cache.                                                              *)

Live(i) == i \in entries /\ now < expires[i]

\* Mutant: a proof holds for every repository of its credentials.
Covered_All(i) == IF Live(i) THEN Repo ELSE {}

\* The repositories that get finds a proof for.
Covered(i) == IF Live(i) THEN scoped[i] ELSE {}

\* i comes last: after deleting it and setting it again, it is at the tail.
Last(order, i, S) ==
    {p \in order : i \notin {p[1], p[2]}} \cup {<<j, i>> : j \in S \ {i}}

\* Mutant: a Map keeps the place of a key that is set again.
Touched_InPlace(i) ==
    IF i \in entries THEN older ELSE older \cup {<<j, i>> : j \in entries}

Touched(i) == Last(older, i, entries)

\* Mutant: one entry too many.
Overflow_Late(S, order) ==
    IF Cardinality(S) > MaxEntries + 1
      THEN {i \in S : \A j \in S : <<j, i>> \notin order} ELSE {}

\* What enforceCapacity evicts: one entry was added, so at most the first goes.
Overflow(S, order) ==
    IF Cardinality(S) > MaxEntries
      THEN {i \in S : \A j \in S : <<j, i>> \notin order} ELSE {}

\* Exactly the entries S remain, in their order.
CacheIs(S, order, exp, sco) ==
    /\ entries' = S
    /\ older' = order \cap (S \X S)
    /\ expires' = [i \in Identity |-> IF i \in S THEN exp[i] ELSE 0]
    /\ scoped' = [i \in Identity |-> IF i \in S THEN sco[i] ELSE {}]

Evict(i) == CacheIs(entries \ {i}, older, expires, scoped)

\* Mutant: a hit starts the lifetime again.
ExpiresAfterHit_Renewed(i) == [expires EXCEPT ![i] = now + Ttl]
ExpiresAfterHit(i) == expires

Hit(i) == CacheIs(entries, Touched(i), ExpiresAfterHit(i), scoped)

\* record: the scope is widened and the lifetime starts again, also if it is over.
ScopeOf(i) == IF i \in entries THEN scoped[i] ELSE {}
Record(i, r) ==
    LET S == entries \cup {i}
        order == Touched(i)
    IN
    CacheIs(S \ Overflow(S, order), order, [expires EXCEPT ![i] = now + Ttl],
            [scoped EXCEPT ![i] = ScopeOf(i) \cup {r}])

-----------------------------------------------------------------------------
(* A validation.                                                           *)

Route(v) == Wants[v][at[v]]

\* m is the first route from n on that is not among the repositories S.
FirstMiss(v, n, S, m) ==
    /\ \A k \in n .. m - 1 : Wants[v][k] \in S
    /\ m =< Len(Wants[v]) => Wants[v][m] \notin S

\* The loop goes on to the first route without a proof in S, from n on.
GoesOn(v, n, S) ==
    \E m \in n .. Len(Wants[v]) + 1 :
       /\ FirstMiss(v, n, S, m)
       /\ at' = [at EXCEPT ![v] = m]
       /\ pc' = [pc EXCEPT ![v] = IF m > Len(Wants[v]) THEN "granted" ELSE "probing"]
       /\ cacheHit' = [cacheHit EXCEPT ![v] = @ /\ m > Len(Wants[v])]
       /\ result' = [result EXCEPT ![v] = Waiting]
       /\ fromCache' = [fromCache EXCEPT ![v] = @ \cup {Wants[v][k] : k \in n .. m - 1}]

Rejected(v) ==
    /\ pc' = [pc EXCEPT ![v] = "rejected"]
    /\ UNCHANGED <<at, cacheHit, fromCache>>

\* An envelope that is too old, no scope, or a scope that does not route.
Reject(v) ==
    /\ pc[v] = "start" /\ v \in made
    /\ \/ now - WrappedAt[v] > MaxAge
       \/ Wants[v] = <<>>
       \/ v \in Misrouted
    /\ Rejected(v)
    /\ UNCHANGED <<result, cacheVars, upstreamVars, proofs, uses>>

\* The first pass over the routes, up to the first one that needs a probe.
Begin(v) ==
    LET i == CredOf[v]
        hit == Wants[v][1] \in Covered(i)
    IN
    /\ pc[v] = "start" /\ v \in made
    /\ now - WrappedAt[v] =< MaxAge /\ Wants[v] # <<>> /\ v \notin Misrouted
    /\ GoesOn(v, 1, Covered(i))
    /\ \/ hit /\ Hit(i) /\ uses' = Last(uses, i, Identity)
       \/ ~hit /\ ~Live(i) /\ Evict(i) /\ UNCHANGED uses
       \/ ~hit /\ Live(i) /\ UNCHANGED <<cacheVars, uses>>
    /\ UNCHANGED <<upstreamVars, proofs>>

\* The upstream answers a probe, with its mind at this moment; or it does not,
\* within the timeout, or has no adapter.
Answer(v) ==
    /\ pc[v] = "probing" /\ result[v] = Waiting
    /\ \E a \in {"unreachable", IF <<CredOf[v], Route(v)>> \in allowed THEN "ok" ELSE "unauthorized"} :
          result' = [result EXCEPT ![v] = a]
    /\ UNCHANGED <<pc, at, cacheHit, cacheVars, upstreamVars, historyVars>>

\* A probe that went well is recorded, and the loop goes on.  The time of a proof
\* is that of its recording, as it is in the code, not that of the answer.
Proved(v) ==
    LET i == CredOf[v] IN
    /\ pc[v] = "probing" /\ result[v] = "ok"
    /\ Record(i, Route(v))
    /\ GoesOn(v, at[v] + 1, ScopeOf(i) \cup {Route(v)})
    /\ proofs' = proofs \cup {<<i, Route(v), now>>}
    /\ uses' = Last(uses, i, Identity)
    /\ UNCHANGED upstreamVars

\* One that did not ends the validation; unauthorized drops the entry too.
Refused(v) ==
    /\ pc[v] = "probing" /\ result[v] \in {"unauthorized", "unreachable"}
    /\ Rejected(v)
    /\ result' = [result EXCEPT ![v] = Waiting]
    /\ \/ result[v] = "unauthorized" /\ Evict(CredOf[v])
       \/ result[v] = "unreachable" /\ UNCHANGED cacheVars
    /\ UNCHANGED <<upstreamVars, proofs, uses>>

\* The upstream takes a permission away, one that somebody may ask about.
Revoke(i, r) ==
    /\ <<i, r>> \in allowed
    /\ \E v \in made : CredOf[v] = i /\ \E n \in 1 .. Len(Wants[v]) : Wants[v][n] = r
    /\ allowed' = allowed \ {<<i, r>>}
    /\ UNCHANGED <<validationVars, cacheVars, made, now, historyVars>>

Tick ==
    /\ now < MaxTime
    /\ now' = now + 1
    /\ UNCHANGED <<validationVars, cacheVars, made, allowed, historyVars>>

Next ==
    \/ \E v \in Validation :
          Reject(v) \/ Begin(v) \/ Answer(v) \/ Proved(v) \/ Refused(v)
    \/ \E i \in Identity, r \in Repo : Revoke(i, r)
    \/ Tick

Spec == Init /\ [][Next]_vars

-----------------------------------------------------------------------------
(* Properties.                                                             *)

\* Every repository of a granted scope was proved for exactly these credentials,
\* whichever validations recorded the proofs and whatever expired, was evicted
\* or invalidated while this one waited for its probes (strategy.ts:113-120).
GrantsAreProved ==
    \A v \in Validation : pc[v] = "granted" =>
       \A n \in 1 .. Len(Wants[v]) :
          \E p \in proofs : p[1] = CredOf[v] /\ p[2] = Wants[v][n]

\* A validation takes routes from the cache only while some probe with the same
\* credentials succeeded less than a lifetime ago: hits do not prolong it
\* (proofCache.ts:79-92).
HitsAreFresh ==
    [][\A v \in Validation : Begin(v) /\ fromCache'[v] # {} =>
          \E p \in proofs : p[1] = CredOf[v] /\ now < p[3] + Ttl]_vars

\* The entry that a new one displaces is the one that was used the longest ago,
\* hits counted as uses (proofCache.ts:91-93, 165-172).
LeastUsedGoes ==
    [][\A i \in entries \ entries', k \in entries \cap entries' :
          entries' \subseteq entries \/ <<k, i>> \notin uses]_vars
=============================================================================
