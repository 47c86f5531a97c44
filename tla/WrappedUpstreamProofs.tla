----------------------- MODULE WrappedUpstreamProofs ------------------------
(***************************************************************************)
(* Proofs about wrapped upstream credentials, on their way through the     *)
(* service: WrapKeys, whose names in common with WrappedAuth begin with    *)
(* "Rotation", and then WrappedAuth.                                       *)
(*                                                                         *)
(* Rotation of the keys costs nobody a pull, whatever the number of keys,  *)
(* nodes and pulls: it rests on the time that the operator leaves a key    *)
(* listed (Overlap in WrapKeysAssumption).  A granted scope was proved,    *)
(* repository by repository, for any number of validations, credentials    *)
(* and repositories, and any cache and lifetimes.                          *)
(***************************************************************************)
EXTENDS WrapKeys, WrappedAuth, SequenceTheorems, FiniteSetTheorems, TLAPS

-----------------------------------------------------------------------------
(* The keys that are listed.                                               *)

\* The keys that are listed and that the service has read.
Usable == KeysOf(listed) \cap KeysOf(ring)

\* A node has a key only when the service has it too.
HeldAreUsable == \A n \in Node : held[n] # NoKey => held[n] \in Usable

\* A blob that can still be used has a key that is used, and was wrapped with a key
\* that a node has, or before the nodes last changed theirs.
FreshAreUsable ==
    \A p \in Pull \ Mangled : blob[p] # NoBlob =>
       /\ blob[p].ts =< clock + Skew
       /\ (\E n \in Node : held[n] = blob[p].key) \/ blob[p].ts =< switched + Skew
       /\ ~TooOld(p) => blob[p].key \in Usable

RotationInvariant == RotationTypeOK /\ HeldAreUsable /\ FreshAreUsable

-----------------------------------------------------------------------------
(* Lists.                                                                  *)

\* What is put in front of a list is added to its entries (parseWrapKeyRing).
LEMMA EntriesOfLonger ==
    ASSUME NEW list \in Seq(Key), NEW k \in Key
    PROVE  /\ <<k>> \o list \in Seq(Key)
           /\ KeysOf(list) \subseteq KeysOf(<<k>> \o list)
<1>1. <<k>> \o list \in Seq(Key) /\ Len(<<k>> \o list) = 1 + Len(list)
  OBVIOUS
<1>2. ASSUME NEW i \in DOMAIN list
      PROVE  list[i] \in Entries(<<k>> \o list)
  <2>1. i + 1 \in DOMAIN (<<k>> \o list) /\ (<<k>> \o list)[i + 1] = list[i]
    BY <1>1
  <2> QED  BY <2>1 DEF Entries
<1> QED  BY <1>1, <1>2 DEF KeysOf, Entries

\* The first n entries of a list.
LEMMA FirstOfList ==
    ASSUME NEW list \in Seq(Key), NEW n \in 0 .. Len(list)
    PROVE  /\ SubSeq(list, 1, n) \in Seq(Key)
           /\ Len(SubSeq(list, 1, n)) = n
           /\ \A i \in 1 .. n : SubSeq(list, 1, n)[i] = list[i]
<1>1. \A i \in 1 .. n : list[i] \in Key
  OBVIOUS
<1> QED  BY <1>1, SubSeqProperties

\* Without its last entry, a list has all the others.
LEMMA EntriesOfShorter ==
    ASSUME NEW list \in Seq(Key), list # <<>>
    PROVE  /\ SubSeq(list, 1, Len(list) - 1) \in Seq(Key)
           /\ KeysOf(list) \ {list[Len(list)]} \subseteq KeysOf(SubSeq(list, 1, Len(list) - 1))
<1>0. Len(list) \in Nat /\ Len(list) # 0
  <2>1. Len(list) \in Nat
    BY LenProperties
  <2>2. Len(list) # 0
    BY EmptySeq
  <2> QED  BY <2>1, <2>2
<1>1. PICK n \in 0 .. Len(list) : n = Len(list) - 1
  <2>1. Len(list) - 1 \in 0 .. Len(list)
    BY <1>0
  <2> QED  BY <2>1
<1> DEFINE rest == SubSeq(list, 1, n)
<1>2. rest \in Seq(Key) /\ Len(rest) = n /\ \A i \in 1 .. n : rest[i] = list[i]
  BY FirstOfList
<1>3. ASSUME NEW i \in DOMAIN list, list[i] # list[Len(list)]
      PROVE  list[i] \in Entries(rest)
  <2>1. i \in 1 .. n
    BY <1>1, <1>3
  <2>2. i \in DOMAIN rest /\ rest[i] = list[i]
    BY <1>2, <2>1
  <2> QED  BY <2>2 DEF Entries
<1>4. KeysOf(list) \ {list[Len(list)]} \subseteq KeysOf(rest)
  BY <1>3 DEF KeysOf, Entries
<1> QED  BY <1>1, <1>2, <1>4

-----------------------------------------------------------------------------
(* The invariant.                                                          *)

\* Nothing is listed, held or wrapped at the start.
LEMMA InitRotation == RotationInit => RotationInvariant
<1> SUFFICES ASSUME RotationInit  PROVE RotationInvariant
  OBVIOUS
<1>1. RotationTypeOK
  BY WrapKeysAssumption DEF RotationInit, RotationTypeOK
<1>2. HeldAreUsable /\ FreshAreUsable
  BY DEF RotationInit, HeldAreUsable, FreshAreUsable
<1> QED  BY <1>1, <1>2 DEF RotationInvariant

\* A blob has the key of the node that wrapped it.
LEMMA WrapStep ==
    ASSUME RotationInvariant, NEW p \in Pull, Wrap(p)
    PROVE  RotationInvariant'
<1> USE DEF RotationInvariant
<1>1. PICK ahead \in 0 .. Skew :
        blob' = [blob EXCEPT ![p] =
           [key |-> IF p \in Mangled THEN NoKey ELSE held[NodeOf[p]], ts |-> clock + ahead]]
  BY DEF Wrap
<1>2. NodeOf[p] \in Node /\ clock \in Nat /\ Skew \in Nat /\ ahead \in Nat /\ MaxBlobAge \in Nat
  BY WrapKeysAssumption DEF RotationTypeOK
<1>3. RotationTypeOK'
  BY <1>1, <1>2 DEF RotationTypeOK, Wrap, Blobs
<1>4. HeldAreUsable'
  BY DEF HeldAreUsable, Wrap, Usable
<1>5. FreshAreUsable'
  <2> SUFFICES ASSUME NEW q \in Pull \ Mangled, blob'[q] # NoBlob
               PROVE  /\ blob'[q].ts =< clock' + Skew
                      /\ \/ \E n \in Node : held'[n] = blob'[q].key
                         \/ blob'[q].ts =< switched' + Skew
                      /\ ~TooOld(q)' => blob'[q].key \in Usable'
    BY DEF FreshAreUsable
  <2>1. CASE q = p
    <3>1. blob'[q] = [key |-> held[NodeOf[p]], ts |-> clock + ahead]
      BY <1>1, <2>1 DEF RotationTypeOK
    <3>2. held[NodeOf[p]] # NoKey /\ held' = held /\ clock' = clock /\ Usable' = Usable
      BY <2>1 DEF Wrap, Usable
    <3> QED  BY <1>2, <3>1, <3>2 DEF HeldAreUsable
  <2>2. CASE q # p
    <3>1. blob'[q] = blob[q]
      BY <1>1, <2>2 DEF RotationTypeOK
    <3> QED  BY <3>1 DEF FreshAreUsable, Wrap, Usable, TooOld
  <2> QED  BY <2>1, <2>2
<1> QED  BY <1>3, <1>4, <1>5

\* A longer list has the keys that it had.
LEMMA ListStep ==
    ASSUME RotationInvariant, NEW k \in Key, List(k)
    PROVE  RotationInvariant'
<1> USE DEF RotationInvariant
<1>1. listed' \in Seq(Key) /\ KeysOf(listed) \subseteq KeysOf(listed')
  BY EntriesOfLonger DEF List, RotationTypeOK
<1>2. Usable \subseteq Usable'
  BY <1>1 DEF Usable, List
<1> QED  BY <1>1, <1>2 DEF RotationTypeOK, HeldAreUsable, FreshAreUsable, List, TooOld

\* The service reads a list that holds every key that is used.
LEMMA RestartStep ==
    ASSUME RotationInvariant, Restart
    PROVE  RotationInvariant'
<1>1. Usable \subseteq Usable'
  BY DEF Usable, Restart
<1> QED
  BY <1>1 DEF RotationInvariant, RotationTypeOK, HeldAreUsable, FreshAreUsable, Restart, TooOld

\* A node changes to a key that the service has; what it wrapped before is not
\* later than the change, but for the advance of its clock.
LEMMA PushStep ==
    ASSUME RotationInvariant, NEW n \in Node, NEW k \in Key, Push(n, k)
    PROVE  RotationInvariant'
<1> USE DEF RotationInvariant
<1>1. /\ k \in Usable /\ k \in Key \ Garbled /\ clock \in 0 .. LastTime
      /\ Skew \in Nat /\ LastTime \in Nat
  BY WrapKeysAssumption DEF Push, Usable, KeysOf, RotationTypeOK
<1>2. Usable' = Usable
  BY DEF Push, Usable
<1>3. RotationTypeOK'
  BY <1>1 DEF RotationTypeOK, Push
<1>4. HeldAreUsable'
  BY <1>1, <1>2 DEF HeldAreUsable, Push, RotationTypeOK
<1>5. FreshAreUsable'
  BY <1>1, <1>2 DEF FreshAreUsable, Push, RotationTypeOK, TooOld
<1> QED  BY <1>3, <1>4, <1>5

\* A key that no node has had for Overlap leaves no blob behind that is not too old.
LEMMA DropStep ==
    ASSUME RotationInvariant, Drop
    PROVE  RotationInvariant'
<1> USE DEF RotationInvariant
<1> DEFINE oldest == listed[Len(listed)]
<1>1. /\ listed' \in Seq(Key)
      /\ KeysOf(listed) \ {oldest} \subseteq KeysOf(listed')
  BY EntriesOfShorter DEF Drop, RotationTypeOK
<1>2. Usable \ {oldest} \subseteq Usable'
  BY <1>1 DEF Usable, Drop
<1>3. RotationTypeOK'
  BY <1>1 DEF RotationTypeOK, Drop
<1>4. \A n \in Node : held[n] # oldest
  BY DEF Drop
<1>5. HeldAreUsable'
  BY <1>2, <1>4 DEF HeldAreUsable, Drop
<1>6. FreshAreUsable'
  <2>1. clock \in Nat /\ switched \in Nat /\ clock > switched + Overlap
    BY WrapKeysAssumption DEF RotationTypeOK, Drop
  <2>2. MaxBlobAge \in Nat /\ Skew \in Nat /\ Overlap \in Nat /\ MaxBlobAge + Skew =< Overlap
    BY WrapKeysAssumption
  <2>3. ASSUME NEW p \in Pull \ Mangled, blob[p] # NoBlob, blob[p].key = oldest
        PROVE  TooOld(p)
    <3>1. blob[p].ts \in Nat /\ blob[p].ts =< switched + Skew
      BY <1>4, <2>3 DEF FreshAreUsable, RotationTypeOK, Blobs
    <3> QED  BY <2>1, <2>2, <3>1 DEF TooOld
  <2> QED  BY <1>2, <2>3 DEF FreshAreUsable, Drop, TooOld
<1> QED  BY <1>3, <1>5, <1>6

\* With time, blobs only become too old.
LEMMA TickStep ==
    ASSUME RotationInvariant, ClockTicks
    PROVE  RotationInvariant'
<1> USE DEF RotationInvariant
<1>1. clock \in Nat /\ LastTime \in Nat /\ MaxBlobAge \in Nat /\ Skew \in Nat /\ clock' = clock + 1
  BY WrapKeysAssumption DEF RotationTypeOK, ClockTicks
<1>2. RotationTypeOK'
  BY <1>1 DEF RotationTypeOK, ClockTicks
<1>3. HeldAreUsable'
  BY DEF HeldAreUsable, ClockTicks, Usable
<1>4. FreshAreUsable'
  <2>1. ASSUME NEW p \in Pull, blob[p] # NoBlob
        PROVE  blob[p].ts \in Nat
    BY <2>1 DEF RotationTypeOK, Blobs
  <2>2. Usable' = Usable /\ blob' = blob /\ held' = held /\ switched' = switched
    BY DEF ClockTicks, Usable
  <2> QED  BY <1>1, <2>1, <2>2 DEF FreshAreUsable, TooOld
<1> QED  BY <1>2, <1>3, <1>4

\* A request changes nothing but the last answer.
LEMMA ValidateStep ==
    ASSUME RotationInvariant, NEW p \in Pull, Validate(p)
    PROVE  RotationInvariant'
<1>1. /\ answer' \in Refusals \cup {"goes_on"}
      /\ UNCHANGED <<listed, ring, held, blob, switched, clock>>
  BY DEF Validate, Unconfigured, Unopened, Late, Astray, Good, Answers, Refusals
<1> QED
  BY <1>1 DEF RotationInvariant, RotationTypeOK, HeldAreUsable, FreshAreUsable, Usable, TooOld

\* Every step keeps the invariant.
LEMMA NextRotation == RotationInvariant /\ [RotationNext]_rotationVars => RotationInvariant'
<1> SUFFICES ASSUME RotationInvariant, [RotationNext]_rotationVars  PROVE RotationInvariant'
  OBVIOUS
<1>1. CASE UNCHANGED rotationVars
  BY <1>1 DEF rotationVars, RotationInvariant, RotationTypeOK, HeldAreUsable, FreshAreUsable,
              Usable, TooOld
<1>2. CASE RotationNext
  BY <1>2, WrapStep, ValidateStep, ListStep, PushStep, RestartStep, DropStep, TickStep
     DEF RotationNext
<1> QED  BY <1>1, <1>2

\* The invariant holds of every state (wrap.ts, strategy.ts:77-104).
THEOREM RotationHolds == RotationSpec => []RotationInvariant
<1> QED  BY InitRotation, NextRotation, PTL DEF RotationSpec

\* The variables keep their types; no node is ever given an entry that is not a key
\* (wrap.ts:91-93).
THEOREM RotationTypes == RotationSpec => []RotationTypeOK
<1>1. RotationInvariant => RotationTypeOK
  BY DEF RotationInvariant
<1> QED  BY <1>1, RotationHolds, PTL

\* A blob that a node wrapped and that is not too old opens: a request with it is
\* refused for its scope or not at all (wrap.ts:131-133).
LEMMA FreshOpen ==
    ASSUME RotationInvariant, NEW p \in Pull \ Mangled, Validate(p), ~TooOld(p)
    PROVE  answer' \notin {"not_configured", "invalid_blob"}
<1>1. blob[p].key \in KeysOf(ring)
  BY DEF RotationInvariant, FreshAreUsable, Validate, Usable
<1>2. KeysOf(ring) # {} /\ Opens(p)
  BY <1>1 DEF Opens, Tried
<1> QED  BY <1>2 DEF Validate, Unconfigured, Unopened, Late, Astray, Good, Answers

\* Rotation costs nobody a pull, for any keys, nodes, pulls and restarts.
THEOREM NobodyIsCutOff == RotationSpec => RotationIsSeamless
<1> DEFINE Seamless ==
      \A p \in Pull \ Mangled : Validate(p) /\ ~TooOld(p) =>
         answer' \notin {"not_configured", "invalid_blob"}
<1>1. RotationInvariant => Seamless
  BY FreshOpen
<1>2. RotationInvariant /\ [RotationNext]_rotationVars => [Seamless]_rotationVars
  BY <1>1
<1> QED  BY <1>2, RotationHolds, PTL DEF RotationSpec, RotationIsSeamless

-----------------------------------------------------------------------------
(* WrappedAuth: what is granted.                                           *)

Proven(i, r) == \E p \in proofs : p[1] = i /\ p[2] = r

ShapeInv ==
    /\ pc \in [Validation -> {"start", "probing", "granted", "rejected"}]
    /\ at \in [Validation -> Nat]
    /\ result \in [Validation -> {Waiting, "ok", "unauthorized", "unreachable"}]
    /\ scoped \in [Identity -> SUBSET Repo]
    /\ now \in Nat

\* What the cache holds was proved.
ScopesProved == \A i \in Identity : \A r \in scoped[i] : Proven(i, r)

\* The routes that a validation has left behind were proved; one that waits has
\* a route in front of it, and one that is granted has none.
PassedProved ==
    \A v \in Validation :
       /\ pc[v] = "start" => at[v] = 1
       /\ pc[v] = "probing" => at[v] \in 1 .. Len(Wants[v])
       /\ pc[v] = "granted" => at[v] = Len(Wants[v]) + 1
       /\ pc[v] \in {"probing", "granted"} =>
             \A n \in 1 .. at[v] - 1 : Proven(CredOf[v], Wants[v][n])

ProofInv == ShapeInv /\ ScopesProved /\ PassedProved

\* The scope of a validation is a sequence of repositories.
LEMMA WantsAreRepos ==
    ASSUME NEW v \in Validation
    PROVE  /\ CredOf[v] \in Identity /\ Len(Wants[v]) \in Nat
           /\ \A n \in 1 .. Len(Wants[v]) : Wants[v][n] \in Repo
    BY WrappedAuthAssumption

\* Proofs are never forgotten.
LEMMA ProvenStays ==
    ASSUME proofs \subseteq proofs', NEW i, NEW r, Proven(i, r)
    PROVE  Proven(i, r)'
    BY DEF Proven

\* Dropping entries, and moving them, leaves scopes that are proved.
LEMMA KeptScopes ==
    ASSUME ShapeInv, ScopesProved, proofs \subseteq proofs',
           NEW S, NEW order, NEW exp, CacheIs(S, order, exp, scoped)
    PROVE  scoped' \in [Identity -> SUBSET Repo] /\ ScopesProved'
    BY ProvenStays DEF CacheIs, ShapeInv, ScopesProved

\* The loop leaves only routes behind that are in the scope of a proof.
LEMMA LoopPasses ==
    ASSUME ProofInv, NEW v \in Validation, NEW n \in 1 .. Len(Wants[v]) + 1,
           NEW S, GoesOn(v, n, S), proofs \subseteq proofs',
           \A k \in 1 .. n - 1 : Proven(CredOf[v], Wants[v][k])',
           \A r \in S : Proven(CredOf[v], r)'
    PROVE  /\ pc' \in [Validation -> {"start", "probing", "granted", "rejected"}]
           /\ at' \in [Validation -> Nat]
           /\ result' \in [Validation -> {Waiting, "ok", "unauthorized", "unreachable"}]
           /\ PassedProved'
<1> USE DEF ProofInv, ShapeInv
<1>1. PICK m \in n .. Len(Wants[v]) + 1 :
         /\ FirstMiss(v, n, S, m)
         /\ at' = [at EXCEPT ![v] = m]
         /\ pc' = [pc EXCEPT ![v] = IF m > Len(Wants[v]) THEN "granted" ELSE "probing"]
         /\ result' = [result EXCEPT ![v] = Waiting]
    BY DEF GoesOn
<1>2. Len(Wants[v]) \in Nat /\ m \in 1 .. Len(Wants[v]) + 1
    BY WantsAreRepos
<1>3. \A k \in 1 .. m - 1 : Proven(CredOf[v], Wants[v][k])'
    <2>1. TAKE k \in 1 .. m - 1
    <2>2. CASE k < n
        BY <2>2, <1>2
    <2>3. CASE k >= n
        <3>1. Wants[v][k] \in S
            BY <1>1, <1>2, <2>3 DEF FirstMiss
        <3>2. QED
            BY <3>1
    <2>4. QED
        BY <2>2, <2>3, <1>2
<1>4. ASSUME NEW w \in Validation
      PROVE  /\ pc'[w] = "start" => at'[w] = 1
             /\ pc'[w] = "probing" => at'[w] \in 1 .. Len(Wants[w])
             /\ pc'[w] = "granted" => at'[w] = Len(Wants[w]) + 1
             /\ pc'[w] \in {"probing", "granted"} =>
                   \A k \in 1 .. at'[w] - 1 : Proven(CredOf[w], Wants[w][k])'
    <2>1. CASE w = v
        BY <2>1, <1>1, <1>2, <1>3
    <2>2. CASE w # v
        BY <2>2, <1>1, ProvenStays DEF PassedProved
    <2>3. QED
        BY <2>1, <2>2
<1>5. QED
    BY <1>1, <1>2, <1>4 DEF PassedProved

\* A validation that is rejected, or whose place does not change, passes nothing.
LEMMA NothingPassed ==
    ASSUME ProofInv, proofs \subseteq proofs', UNCHANGED at,
           pc' = pc \/ \E v \in Validation : pc' = [pc EXCEPT ![v] = "rejected"]
    PROVE  PassedProved' /\ pc' \in [Validation -> {"start", "probing", "granted", "rejected"}]
    BY ProvenStays DEF ProofInv, ShapeInv, PassedProved

\* The first pass over the routes takes only what is proved.
LEMMA ProofBegin ==
    ASSUME ProofInv, NEW v \in Validation, Begin(v)
    PROVE  ProofInv'
<1> SUFFICES ASSUME NEW i, i = CredOf[v]
             PROVE  ProofInv'
    OBVIOUS
<1> USE DEF ProofInv
<1>1. i \in Identity /\ Len(Wants[v]) \in Nat /\ UNCHANGED <<allowed, now, proofs>>
    BY WantsAreRepos DEF Begin, upstreamVars
<1>2. \A r \in Covered(i) : Proven(i, r)'
    BY <1>1, ProvenStays DEF Covered, ScopesProved
<1>3. GoesOn(v, 1, Covered(i)) /\ 1 \in 1 .. Len(Wants[v]) + 1
    <2>1. GoesOn(v, 1, Covered(i))
        BY Zenon DEF Begin
    <2>2. QED
        BY <2>1, <1>1
<1>4. PassedProved' /\ at' \in [Validation -> Nat]
      /\ pc' \in [Validation -> {"start", "probing", "granted", "rejected"}]
      /\ result' \in [Validation -> {Waiting, "ok", "unauthorized", "unreachable"}]
    <2>1. \A k \in 1 .. 1 - 1 : Proven(CredOf[v], Wants[v][k])'
        OBVIOUS
    <2>2. QED
        BY <1>1, <1>2, <1>3, <2>1, LoopPasses
<1>5. scoped' \in [Identity -> SUBSET Repo] /\ ScopesProved'
    <2>1. CASE Hit(i)
        BY <2>1, <1>1, KeptScopes DEF Hit
    <2>2. CASE Evict(i)
        BY <2>2, <1>1, KeptScopes DEF Evict
    <2>3. CASE UNCHANGED cacheVars
        BY <2>3, <1>1, ProvenStays DEF cacheVars, ShapeInv, ScopesProved
    <2>4. QED
        BY <2>1, <2>2, <2>3 DEF Begin
<1>6. QED
    BY <1>1, <1>4, <1>5 DEF ShapeInv

\* A recorded probe proves its repository, and its entry stays proved.
LEMMA ProofProved ==
    ASSUME ProofInv, NEW v \in Validation, Proved(v)
    PROVE  ProofInv'
<1> SUFFICES ASSUME NEW i, NEW r, i = CredOf[v], r = Route(v)
             PROVE  ProofInv'
    OBVIOUS
<1> USE DEF ProofInv
<1>1. /\ i \in Identity /\ r \in Repo /\ Len(Wants[v]) \in Nat
      /\ at[v] \in 1 .. Len(Wants[v]) /\ now' = now
      /\ \A k \in 1 .. at[v] - 1 : Proven(i, Wants[v][k])
    BY WantsAreRepos DEF Proved, PassedProved, Route, upstreamVars
<1>2. proofs \subseteq proofs' /\ Proven(i, r)'
    <2>1. proofs' = proofs \cup {<<i, r, now>>}
        BY DEF Proved
    <2>2. <<i, r, now>> \in proofs' /\ <<i, r, now>>[1] = i /\ <<i, r, now>>[2] = r
        BY <2>1
    <2>3. QED
        BY <2>1, <2>2 DEF Proven
<1>3. \A x \in ScopeOf(i) \cup {r} : x \in Repo /\ Proven(i, x)'
    BY <1>1, <1>2, ProvenStays DEF ScopeOf, ScopesProved, ShapeInv
<1>4. \A k \in 1 .. (at[v] + 1) - 1 : Proven(i, Wants[v][k])'
    BY <1>1, <1>2, ProvenStays DEF Route
<1>5. GoesOn(v, at[v] + 1, ScopeOf(i) \cup {r}) /\ at[v] + 1 \in 1 .. Len(Wants[v]) + 1
    BY <1>1 DEF Proved
<1>6. PassedProved' /\ at' \in [Validation -> Nat]
      /\ pc' \in [Validation -> {"start", "probing", "granted", "rejected"}]
      /\ result' \in [Validation -> {Waiting, "ok", "unauthorized", "unreachable"}]
    BY <1>2, <1>3, <1>4, <1>5, LoopPasses
<1>7. scoped' \in [Identity -> SUBSET Repo] /\ ScopesProved'
    <2>1. Record(i, r)
        BY DEF Proved
    <2>2. ASSUME NEW j \in Identity
          PROVE  scoped'[j] \subseteq IF j = i THEN ScopeOf(i) \cup {r} ELSE scoped[j]
        BY <2>1, <2>2 DEF Record, CacheIs, ShapeInv
    <2>3. scoped' \in [Identity -> SUBSET Repo]
        BY <2>1, <1>3 DEF Record, CacheIs, ShapeInv
    <2>4. QED
        BY <2>2, <2>3, <1>2, <1>3, ProvenStays DEF ScopesProved
<1>8. QED
    BY <1>1, <1>6, <1>7 DEF ShapeInv

\* The other steps prove nothing and pass nothing.
LEMMA ProofOther ==
    ASSUME ProofInv,
           \/ \E v \in Validation : Reject(v) \/ Answer(v) \/ Refused(v)
           \/ \E i \in Identity, r \in Repo : Revoke(i, r)
           \/ Tick
           \/ UNCHANGED vars
    PROVE  ProofInv'
<1> USE DEF ProofInv
<1>1. ASSUME NEW v \in Validation, Refused(v)
      PROVE  ProofInv'
    <2>1. UNCHANGED <<at, now, proofs>> /\ pc' = [pc EXCEPT ![v] = "rejected"]
          /\ result' = [result EXCEPT ![v] = Waiting]
        BY <1>1 DEF Refused, Rejected, upstreamVars
    <2>2. scoped' \in [Identity -> SUBSET Repo] /\ ScopesProved'
        <3>1. CASE Evict(CredOf[v])
            BY <3>1, <2>1, KeptScopes DEF Evict
        <3>2. CASE UNCHANGED cacheVars
            BY <3>2, <2>1, ProvenStays DEF cacheVars, ShapeInv, ScopesProved
        <3>3. QED
            BY <1>1, <3>1, <3>2 DEF Refused
    <2>3. QED
        BY <2>1, <2>2, NothingPassed DEF ShapeInv
<1>2. ASSUME UNCHANGED <<at, proofs, scoped>>, now' \in Nat,
             result' \in [Validation -> {Waiting, "ok", "unauthorized", "unreachable"}],
             pc' = pc \/ \E v \in Validation : pc' = [pc EXCEPT ![v] = "rejected"]
      PROVE  ProofInv'
    BY <1>2, NothingPassed, ProvenStays DEF ShapeInv, ScopesProved
<1>3. ASSUME NEW v \in Validation, Reject(v)
      PROVE  ProofInv'
    BY <1>2, <1>3 DEF Reject, Rejected, ShapeInv, cacheVars, upstreamVars
<1>4. ASSUME NEW v \in Validation, Answer(v)
      PROVE  ProofInv'
    BY <1>2, <1>4 DEF Answer, ShapeInv, cacheVars, upstreamVars, historyVars
<1>5. ASSUME NEW i \in Identity, NEW r \in Repo, Revoke(i, r)
      PROVE  ProofInv'
    BY <1>2, <1>5 DEF Revoke, ShapeInv, validationVars, cacheVars, historyVars
<1>6. CASE Tick
    BY <1>2, <1>6 DEF Tick, ShapeInv, validationVars, cacheVars, historyVars
<1>7. CASE UNCHANGED vars
    BY <1>2, <1>7 DEF vars, ShapeInv, validationVars, cacheVars, upstreamVars, historyVars
<1>8. QED
    BY <1>1, <1>3, <1>4, <1>5, <1>6, <1>7

\* No token is granted for a repository that no probe of the same credentials has
\* proved (GrantsAreProved): validations that share the cache, and entries that
\* expire, are evicted or are invalidated meanwhile, do not change that.
THEOREM GrantsProved == Spec => []GrantsAreProved
<1>1. Init => ProofInv
    BY DEF Init, ProofInv, ShapeInv, ScopesProved, PassedProved
<1>2. ProofInv /\ [Next]_vars => ProofInv'
    BY ProofBegin, ProofProved, ProofOther DEF Next
<1>3. ProofInv => GrantsAreProved
    BY WantsAreRepos DEF ProofInv, PassedProved, GrantsAreProved, Proven
<1>4. QED
    BY <1>1, <1>2, <1>3, PTL DEF Spec

-----------------------------------------------------------------------------
(* How long a proof is used.                                               *)

FreshShape ==
    /\ expires \in [Identity -> Nat]
    /\ fromCache \in [Validation -> SUBSET Repo]
    /\ \A p \in proofs : p[3] \in Nat

\* Some probe of these credentials is recent enough for the entry.
Dated(i) == \E p \in proofs : p[1] = i /\ expires[i] =< p[3] + Ttl

\* Every entry lives no longer than a lifetime after some probe of its own
\* credentials, and a validation that has not begun took nothing from the cache.
EntriesDated == \A i \in Identity : i \in entries => Dated(i)
NoneTakenYet == \A v \in Validation : pc[v] = "start" => fromCache[v] = {}

FreshInv == ProofInv /\ FreshShape /\ EntriesDated /\ NoneTakenYet

\* Dropping entries, and moving them, dates none anew.
LEMMA KeptDates ==
    ASSUME FreshInv, proofs \subseteq proofs', NEW S, S \subseteq entries, NEW order,
           CacheIs(S, order, expires, scoped)
    PROVE  expires' \in [Identity -> Nat] /\ EntriesDated'
<1>1. \A j \in Identity : j \in entries' => j \in entries /\ expires'[j] = expires[j]
    BY DEF CacheIs
<1>2. expires' \in [Identity -> Nat]
    BY DEF CacheIs, FreshInv, FreshShape
<1>3. QED
    BY <1>1, <1>2 DEF FreshInv, EntriesDated, Dated

\* A validation that goes on takes repositories of its scope; only one that is
\* new has taken none.
LEMMA LoopTakes ==
    ASSUME FreshInv, NEW v \in Validation, NEW n \in Nat \ {0}, NEW S, GoesOn(v, n, S)
    PROVE  fromCache' \in [Validation -> SUBSET Repo] /\ NoneTakenYet'
<1>1. PICK m \in n .. Len(Wants[v]) + 1 :
         /\ pc' = [pc EXCEPT ![v] = IF m > Len(Wants[v]) THEN "granted" ELSE "probing"]
         /\ fromCache' = [fromCache EXCEPT ![v] = @ \cup {Wants[v][k] : k \in n .. m - 1}]
    BY DEF GoesOn
<1>2. {Wants[v][k] : k \in n .. m - 1} \subseteq Repo
    BY WantsAreRepos
<1>3. fromCache' \in [Validation -> SUBSET Repo]
    BY <1>1, <1>2 DEF FreshInv, FreshShape
<1>4. ASSUME NEW w \in Validation, pc'[w] = "start"
      PROVE  fromCache'[w] = {}
    BY <1>1, <1>4 DEF FreshInv, FreshShape, NoneTakenYet, ProofInv, ShapeInv
<1>5. QED
    BY <1>3, <1>4 DEF NoneTakenYet

\* A validation that ends, or does not move, takes nothing.
LEMMA NothingTaken ==
    ASSUME FreshInv, UNCHANGED fromCache,
           pc' = pc \/ \E v \in Validation : pc' = [pc EXCEPT ![v] = "rejected"]
    PROVE  fromCache' \in [Validation -> SUBSET Repo] /\ NoneTakenYet'
    BY DEF FreshInv, FreshShape, NoneTakenYet, ProofInv, ShapeInv

\* A hit leaves the lifetime of its entry as it is.
LEMMA FreshBegin ==
    ASSUME FreshInv, NEW v \in Validation, Begin(v)
    PROVE  FreshInv'
<1>1. ProofInv' /\ UNCHANGED proofs
    BY ProofBegin DEF FreshInv, Begin
<1>2. fromCache' \in [Validation -> SUBSET Repo] /\ NoneTakenYet'
    <2>1. GoesOn(v, 1, Covered(CredOf[v]))
        BY Zenon DEF Begin
    <2>2. QED
        BY <2>1, LoopTakes
<1>3. expires' \in [Identity -> Nat] /\ EntriesDated'
    <2>1. CASE Hit(CredOf[v])
        BY <2>1, <1>1, KeptDates DEF Hit, ExpiresAfterHit
    <2>2. CASE Evict(CredOf[v])
        BY <2>2, <1>1, KeptDates DEF Evict
    <2>3. CASE UNCHANGED cacheVars
        BY <2>3, <1>1 DEF cacheVars, FreshInv, FreshShape, EntriesDated, Dated
    <2>4. QED
        BY <2>1, <2>2, <2>3 DEF Begin
<1>4. QED
    BY <1>1, <1>2, <1>3 DEF FreshInv, FreshShape

\* A recorded probe dates the entry of its credentials, and no other.
LEMMA FreshProved ==
    ASSUME FreshInv, NEW v \in Validation, Proved(v)
    PROVE  FreshInv'
<1> SUFFICES ASSUME NEW i, NEW r, i = CredOf[v], r = Route(v)
             PROVE  FreshInv'
    OBVIOUS
<1>1. ProofInv' /\ i \in Identity /\ now \in Nat /\ Ttl \in Nat
    BY ProofProved, WantsAreRepos, WrappedAuthAssumption DEF FreshInv, ProofInv, ShapeInv
<1>2. proofs' = proofs \cup {<<i, r, now>>}
    BY DEF Proved
<1>3. fromCache' \in [Validation -> SUBSET Repo] /\ NoneTakenYet'
    <2>1. GoesOn(v, at[v] + 1, ScopeOf(i) \cup {r}) /\ at[v] + 1 \in Nat \ {0}
        BY DEF Proved, FreshInv, ProofInv, ShapeInv
    <2>2. QED
        BY <2>1, LoopTakes
<1>4. Record(i, r)
    BY DEF Proved
<1>5. expires' \in [Identity -> Nat]
      /\ \A j \in Identity : j \in entries' =>
            IF j = i THEN expires'[j] = now + Ttl
                     ELSE j \in entries /\ expires'[j] = expires[j]
    BY <1>4, <1>1 DEF Record, CacheIs, FreshInv, FreshShape
<1>6. EntriesDated'
    <2>1. ASSUME NEW j \in Identity, j \in entries'
          PROVE  Dated(j)'
        <3>1. CASE j = i
            <4>1. <<i, r, now>> \in proofs' /\ <<i, r, now>>[1] = i /\ <<i, r, now>>[3] = now
                BY <1>2
            <4>2. expires'[j] =< now + Ttl
                BY <3>1, <2>1, <1>1, <1>5
            <4>3. QED
                BY <4>1, <4>2, <3>1 DEF Dated
        <3>2. CASE j # i
            BY <3>2, <2>1, <1>2, <1>5 DEF FreshInv, EntriesDated, Dated
        <3>3. QED
            BY <3>1, <3>2
    <2>2. QED
        BY <2>1 DEF EntriesDated
<1>7. \A p \in proofs' : p[3] \in Nat
    BY <1>1, <1>2 DEF FreshInv, FreshShape
<1>8. QED
    BY <1>1, <1>3, <1>5, <1>6, <1>7 DEF FreshInv, FreshShape

\* The other steps date no entry.
LEMMA FreshOther ==
    ASSUME FreshInv,
           \/ \E v \in Validation : Reject(v) \/ Answer(v) \/ Refused(v)
           \/ \E i \in Identity, r \in Repo : Revoke(i, r)
           \/ Tick
           \/ UNCHANGED vars
    PROVE  FreshInv'
<1>1. ProofInv'
    BY ProofOther DEF FreshInv
<1>2. UNCHANGED <<fromCache, proofs>>
      /\ (pc' = pc \/ \E v \in Validation : pc' = [pc EXCEPT ![v] = "rejected"])
    BY DEF Reject, Answer, Refused, Rejected, Revoke, Tick, vars, validationVars, historyVars
<1>3. CASE UNCHANGED cacheVars
    BY <1>1, <1>2, <1>3, NothingTaken DEF cacheVars, FreshInv, FreshShape, EntriesDated, Dated
<1>4. ASSUME NEW v \in Validation, Evict(CredOf[v])
      PROVE  FreshInv'
    <2>1. expires' \in [Identity -> Nat] /\ EntriesDated'
        BY <1>2, <1>4, KeptDates DEF Evict
    <2>2. QED
        BY <2>1, <1>1, <1>2, NothingTaken DEF FreshInv, FreshShape
<1>5. UNCHANGED cacheVars \/ \E v \in Validation : Evict(CredOf[v])
    BY DEF Reject, Answer, Refused, Revoke, Tick, vars
<1>6. QED
    BY <1>3, <1>4, <1>5

\* A step that takes a route from the cache finds an entry that is alive, and so
\* a probe of the same credentials that is less than a lifetime old.
LEMMA HitIsFresh ==
    ASSUME FreshInv, NEW v \in Validation, Begin(v), fromCache'[v] # {}
    PROVE  \E p \in proofs : p[1] = CredOf[v] /\ now < p[3] + Ttl
<1>1. GoesOn(v, 1, Covered(CredOf[v])) /\ pc[v] = "start"
    BY Zenon DEF Begin
<1>2. PICK m \in 1 .. Len(Wants[v]) + 1 :
         /\ FirstMiss(v, 1, Covered(CredOf[v]), m)
         /\ fromCache' = [fromCache EXCEPT ![v] = @ \cup {Wants[v][k] : k \in 1 .. m - 1}]
    BY <1>1 DEF GoesOn
<1>3. fromCache'[v] = {Wants[v][k] : k \in 1 .. m - 1}
    BY <1>1, <1>2 DEF FreshInv, FreshShape, NoneTakenYet
<1>4. PICK k \in 1 .. m - 1 : Wants[v][k] \in Covered(CredOf[v])
    BY <1>2, <1>3 DEF FirstMiss
<1>5. Live(CredOf[v]) /\ CredOf[v] \in Identity
    BY <1>4, WantsAreRepos DEF Covered
<1>6. PICK p \in proofs : p[1] = CredOf[v] /\ expires[CredOf[v]] =< p[3] + Ttl
    BY <1>5 DEF Live, FreshInv, EntriesDated, Dated
<1>7. now < p[3] + Ttl
    <2>1. /\ now \in Nat /\ expires[CredOf[v]] \in Nat /\ p[3] \in Nat /\ Ttl \in Nat
          /\ now < expires[CredOf[v]]
        BY <1>5, WrappedAuthAssumption DEF Live, FreshInv, FreshShape, ProofInv, ShapeInv
    <2>2. QED
        BY <2>1, <1>6
<1>8. QED
    BY <1>6, <1>7

\* What the cache answers is never older than a lifetime, however often it is
\* asked and whoever keeps the entry at the tail of the Map (HitsAreFresh).
THEOREM CacheHitsAreFresh == Spec => HitsAreFresh
<1>1. Init => FreshInv
    BY DEF Init, FreshInv, FreshShape, EntriesDated, NoneTakenYet, ProofInv, ShapeInv,
           ScopesProved, PassedProved
<1>2. FreshInv /\ [Next]_vars => FreshInv'
    BY FreshBegin, FreshProved, FreshOther DEF Next
<1>3. FreshInv /\ [Next]_vars =>
         [\A v \in Validation : Begin(v) /\ fromCache'[v] # {} =>
             \E p \in proofs : p[1] = CredOf[v] /\ now < p[3] + Ttl]_vars
    BY HitIsFresh
<1>4. QED
    BY <1>1, <1>2, <1>3, PTL DEF Spec, HitsAreFresh

-----------------------------------------------------------------------------
(* What the cache evicts.                                                  *)

\* The Map has its entries in the order in which they were used.
MapOrder ==
    /\ entries \subseteq Identity
    /\ \A a, b \in entries : <<a, b>> \in older <=> <<a, b>> \in uses

\* What comes last comes after everything else, and the rest stays as it is.
LEMMA LastIsLast ==
    ASSUME NEW order, NEW i, NEW S, NEW a, NEW b, a \in S \cup {i}
    PROVE  <<a, b>> \in Last(order, i, S) <=>
              (b = i /\ a # i) \/ (i \notin {a, b} /\ <<a, b>> \in order)
<1>1. <<a, b>> \in {<<j, i>> : j \in S \ {i}} <=> (b = i /\ a # i)
    OBVIOUS
<1>2. <<a, b>> \in {p \in order : i \notin {p[1], p[2]}} <=>
         (i \notin {a, b} /\ <<a, b>> \in order)
    OBVIOUS
<1>3. QED
    BY <1>1, <1>2 DEF Last

\* A use puts an entry at the tail of the Map and at the end of the uses.
LEMMA UseKeepsOrder ==
    ASSUME MapOrder, NEW i \in Identity, uses' = Last(uses, i, Identity),
           NEW S, S \subseteq entries \cup {i}, NEW exp, NEW sco, CacheIs(S, Touched(i), exp, sco)
    PROVE  MapOrder'
<1>1. entries' = S /\ older' = Touched(i) \cap (S \X S)
    BY DEF CacheIs
<1>2. ASSUME NEW a \in S, NEW b \in S
      PROVE  <<a, b>> \in older' <=> <<a, b>> \in uses'
    <2>1. <<a, b>> \in older' <=> <<a, b>> \in Touched(i)
        BY <1>1
    <2>2. a \in entries \cup {i} /\ b \in entries \cup {i} /\ a \in Identity \cup {i}
        BY DEF MapOrder
    <2>3. <<a, b>> \in Touched(i) <=>
             (b = i /\ a # i) \/ (i \notin {a, b} /\ <<a, b>> \in older)
        BY <2>2, LastIsLast DEF Touched
    <2>4. <<a, b>> \in uses' <=>
             (b = i /\ a # i) \/ (i \notin {a, b} /\ <<a, b>> \in uses)
        BY <2>2, LastIsLast
    <2>5. QED
        BY <2>1, <2>2, <2>3, <2>4 DEF MapOrder
<1>3. QED
    BY <1>1, <1>2 DEF MapOrder

\* Dropping entries leaves the order of the others.
LEMMA EvictKeepsOrder ==
    ASSUME MapOrder, UNCHANGED uses, (\E i \in Identity : Evict(i)) \/ UNCHANGED cacheVars
    PROVE  MapOrder'
    BY DEF MapOrder, Evict, CacheIs, cacheVars

\* A hit is a use, and so is a recorded probe; nothing else moves an entry.
LEMMA OrderStep ==
    ASSUME MapOrder, [Next]_vars
    PROVE  MapOrder'
<1>1. ASSUME NEW v \in Validation, Begin(v)
      PROVE  MapOrder'
    <2>1. CredOf[v] \in Identity
        BY WantsAreRepos
    <2>2. CASE Hit(CredOf[v]) /\ uses' = Last(uses, CredOf[v], Identity)
        BY <2>1, <2>2, UseKeepsOrder DEF Hit
    <2>3. CASE (Evict(CredOf[v]) \/ UNCHANGED cacheVars) /\ UNCHANGED uses
        BY <2>1, <2>3, EvictKeepsOrder
    <2>4. QED
        BY <1>1, <2>2, <2>3 DEF Begin
<1>2. ASSUME NEW v \in Validation, Proved(v)
      PROVE  MapOrder'
    <2>1. /\ CredOf[v] \in Identity /\ Record(CredOf[v], Route(v))
          /\ uses' = Last(uses, CredOf[v], Identity)
        BY <1>2, WantsAreRepos DEF Proved
    <2>2. QED
        BY <2>1, UseKeepsOrder DEF Record
<1>3. ASSUME NEW v \in Validation, Refused(v)
      PROVE  MapOrder'
    BY <1>3, WantsAreRepos, EvictKeepsOrder DEF Refused
<1>4. CASE \/ \E v \in Validation : Reject(v) \/ Answer(v)
           \/ \E i \in Identity, r \in Repo : Revoke(i, r)
           \/ Tick \/ UNCHANGED vars
    BY <1>4, EvictKeepsOrder DEF Reject, Answer, Revoke, Tick, vars, cacheVars, historyVars
<1>5. QED
    BY <1>1, <1>2, <1>3, <1>4 DEF Next

\* Only a recorded probe adds an entry, and it displaces one at the head of the Map.
LEMMA HeadGoes ==
    ASSUME MapOrder, [Next]_vars, ~(entries' \subseteq entries),
           NEW i \in entries \ entries', NEW k \in entries \cap entries'
    PROVE  <<k, i>> \notin uses
<1>1. PICK v \in Validation : Proved(v)
    BY DEF Next, Reject, Begin, Answer, Refused, Revoke, Tick, Hit, Evict, CacheIs, vars, cacheVars
<1>2. PICK n : n = CredOf[v] /\ Record(n, Route(v))
    BY <1>1 DEF Proved
<1>3. /\ entries' = (entries \cup {n}) \ Overflow(entries \cup {n}, Touched(n))
      /\ n \notin entries
    BY <1>2 DEF Record, CacheIs
<1>4. \A j \in entries \cup {n} : <<j, i>> \notin Touched(n)
    BY <1>3 DEF Overflow
<1>5. <<k, i>> \in Touched(n) <=> (i = n /\ k # n) \/ (n \notin {k, i} /\ <<k, i>> \in older)
    BY LastIsLast DEF Touched
<1>6. QED
    BY <1>3, <1>4, <1>5 DEF MapOrder

\* A new entry displaces one that was used no later than those that stay, whatever
\* was hit, expired or was invalidated in between (LeastUsedGoes).
THEOREM LeastUsedIsEvicted == Spec => LeastUsedGoes
<1>1. Init => MapOrder
    BY DEF Init, MapOrder
<1>2. MapOrder /\ [Next]_vars => MapOrder'
    BY OrderStep
<1>3. MapOrder /\ [Next]_vars =>
         [\A i \in entries \ entries', k \in entries \cap entries' :
             entries' \subseteq entries \/ <<k, i>> \notin uses]_vars
    BY HeadGoes
<1>4. QED
    BY <1>1, <1>2, <1>3, PTL DEF Spec, LeastUsedGoes

-----------------------------------------------------------------------------
(* How many entries the cache has.                                         *)

\* A strict partial order of S.
Strict(order, S) ==
    /\ \A a \in S : <<a, a>> \notin order
    /\ \A a, b, c \in S : <<a, b>> \in order /\ <<b, c>> \in order => <<a, c>> \in order

CacheInv ==
    /\ entries \subseteq Identity
    /\ IsFiniteSet(entries)
    /\ Cardinality(entries) =< MaxEntries
    /\ older \subseteq entries \X entries
    /\ Strict(older, entries)

\* Whatever is in the Map, something comes first.
LEMMA SomethingIsFirst ==
    ASSUME NEW S, IsFiniteSet(S), S # {}, NEW order, Strict(order, S)
    PROVE  \E h \in S : \A j \in S : <<j, h>> \notin order
<1> DEFINE Before(m) == {j \in S : <<j, m>> \in order}
           T == {Before(m) : m \in S}
<1>1. IsWellFoundedOn(StrictSubsetOrdering(S), SUBSET S)
    BY FS_StrictSubsetOrderingWellFounded, FS_FiniteSubsetsOfFinite
<1>2. T \subseteq SUBSET S /\ T # {}
    OBVIOUS
<1>3. PICK X \in T : \A Y \in T : ~(<<Y, X>> \in StrictSubsetOrdering(S))
    <2> HIDE DEF T
    <2> QED
        BY <1>1, <1>2, WFMin
<1>4. PICK h \in S : X = Before(h)
    BY <1>3
<1>5. ASSUME NEW j \in S, <<j, h>> \in order
      PROVE  FALSE
    <2>1. Before(j) \subseteq Before(h)
        BY <1>5 DEF Strict
    <2>2. j \in Before(h) /\ j \notin Before(j)
        BY <1>5 DEF Strict
    <2>3. Before(j) \in T /\ Before(j) \in SUBSET S /\ Before(h) \in SUBSET S
        OBVIOUS
    <2>4. <<Before(j), Before(h)>> \in StrictSubsetOrdering(S)
        <3> HIDE DEF Before
        <3> QED
            BY <2>1, <2>2, <2>3 DEF StrictSubsetOrdering
    <2>5. QED
        BY <1>3, <1>4, <2>3, <2>4
<1>6. QED
    BY <1>5

\* What comes last keeps the others in their order.
LEMMA LastIsStrict ==
    ASSUME NEW order, NEW i, NEW S, Strict(order, S)
    PROVE  Strict(Last(order, i, S), S \cup {i})
<1> DEFINE T == S \cup {i}
           after == Last(order, i, S)
<1>1. ASSUME NEW a \in T, NEW b \in T
      PROVE  <<a, b>> \in after <=>
                (b = i /\ a # i) \/ (i \notin {a, b} /\ <<a, b>> \in order)
    BY LastIsLast
<1> HIDE DEF after
<1>2. \A a \in T : <<a, a>> \notin after
    BY <1>1 DEF Strict
<1>3. ASSUME NEW a \in T, NEW b \in T, NEW c \in T, <<a, b>> \in after, <<b, c>> \in after
      PROVE  <<a, c>> \in after
    <2>1. b # i /\ a # i /\ <<a, b>> \in order
        BY <1>1, <1>3
    <2>2. CASE c = i
        BY <1>1, <2>1, <2>2
    <2>3. CASE c # i
        <3>1. <<b, c>> \in order
            BY <1>1, <1>3, <2>3
        <3>2. <<a, c>> \in order
            BY <2>1, <2>3, <3>1 DEF Strict
        <3>3. QED
            BY <1>1, <2>1, <2>3, <3>2
    <2>4. QED
        BY <2>2, <2>3
<1>4. QED
    BY <1>2, <1>3 DEF Strict, after

\* What remains of an ordered cache is an ordered cache.
LEMMA RemainsOrdered ==
    ASSUME NEW T, NEW order, Strict(order, T), NEW S \in SUBSET T, NEW exp, NEW sco,
           CacheIs(S, order, exp, sco)
    PROVE  older' \subseteq entries' \X entries' /\ Strict(older', entries')
<1>1. entries' = S /\ older' = order \cap (S \X S)
    BY DEF CacheIs
<1>2. Strict(order \cap (S \X S), S)
    BY DEF Strict
<1>3. QED
    BY <1>1, <1>2

\* Dropping an entry, and moving one, makes none more.
LEMMA KeptEntries ==
    ASSUME CacheInv, NEW i \in Identity,
           (Hit(i) /\ i \in entries) \/ Evict(i) \/ UNCHANGED cacheVars
    PROVE  CacheInv'
<1>1. CASE Hit(i) /\ i \in entries
    <2>1. Strict(Touched(i), entries \cup {i}) /\ entries' = entries
        BY <1>1, LastIsStrict DEF Touched, CacheInv, Hit, CacheIs
    <2>2. older' \subseteq entries' \X entries' /\ Strict(older', entries')
        BY <1>1, <2>1, RemainsOrdered DEF Hit
    <2>3. QED
        BY <2>1, <2>2 DEF CacheInv
<1>2. CASE Evict(i)
    <2>1. entries' = entries \ {i} /\ entries \ {i} \in SUBSET entries
        BY <1>2 DEF Evict, CacheIs
    <2>2. older' \subseteq entries' \X entries' /\ Strict(older', entries')
        BY <1>2, <2>1, RemainsOrdered DEF CacheInv, Evict
    <2>3. IsFiniteSet(entries') /\ Cardinality(entries') =< MaxEntries
        <3>1. /\ Cardinality(entries) \in Nat /\ IsFiniteSet(entries \ {i})
              /\ Cardinality(entries \ {i}) \in Nat
              /\ Cardinality(entries \ {i}) =< Cardinality(entries)
            BY <2>1, FS_CardinalityType, FS_Subset DEF CacheInv
        <3>2. QED
            BY <2>1, <3>1, WrappedAuthAssumption DEF CacheInv
    <2>4. QED
        BY <2>1, <2>2, <2>3 DEF CacheInv
<1>3. CASE UNCHANGED cacheVars
    BY <1>3 DEF CacheInv, cacheVars
<1>4. QED
    BY <1>1, <1>2, <1>3

\* One entry more than there may be is one that goes: the Map has a first one.
LEMMA RecordedEntries ==
    ASSUME CacheInv, NEW i \in Identity, NEW r, Record(i, r)
    PROVE  CacheInv'
<1> DEFINE S == entries \cup {i}
           order == Touched(i)
           gone == Overflow(S, order)
<1>1. /\ IsFiniteSet(S) /\ Cardinality(S) \in Nat /\ MaxEntries \in Nat
      /\ Cardinality(S) =< MaxEntries + 1 /\ S \subseteq Identity
    <2>1. /\ IsFiniteSet(S) /\ Cardinality(entries) \in Nat
          /\ Cardinality(S) = IF i \in entries THEN Cardinality(entries)
                                               ELSE Cardinality(entries) + 1
        BY FS_AddElement, FS_CardinalityType DEF CacheInv
    <2>2. QED
        BY <2>1, WrappedAuthAssumption DEF CacheInv
<1>2. Strict(order, S)
    BY LastIsStrict DEF Touched, CacheInv
<1>3. PICK exp, sco : CacheIs(S \ gone, order, exp, sco)
    BY DEF Record
<1>4. entries' = S \ gone
    BY <1>3 DEF CacheIs
<1> HIDE DEF S, order
<1>5. older' \subseteq entries' \X entries' /\ Strict(older', entries')
    BY <1>2, <1>3, RemainsOrdered
<1>6. /\ IsFiniteSet(S \ gone) /\ Cardinality(S \ gone) \in Nat
      /\ Cardinality(S \ gone) =< Cardinality(S)
    <2>1. S \ gone \in SUBSET S
        OBVIOUS
    <2>2. QED
        BY <1>1, <2>1, FS_Subset, FS_CardinalityType
<1>7. Cardinality(S \ gone) =< MaxEntries
    <2>1. CASE Cardinality(S) =< MaxEntries
        BY <1>1, <1>6, <2>1
    <2>2. CASE Cardinality(S) > MaxEntries
        <3>1. S # {}
            BY <1>1, <2>2, FS_EmptySet, WrappedAuthAssumption
        <3>2. PICK h \in S : \A j \in S : <<j, h>> \notin order
            BY <1>1, <1>2, <3>1, SomethingIsFirst
        <3>3. h \in gone
            BY <2>2, <3>2 DEF Overflow
        <3>4. IsFiniteSet(S \ {h}) /\ Cardinality(S \ {h}) = Cardinality(S) - 1
            BY <1>1, FS_RemoveElement
        <3>5. Cardinality(S \ gone) =< Cardinality(S \ {h})
            <4>1. S \ gone \in SUBSET (S \ {h})
                BY <3>3
            <4>2. QED
                BY <3>4, <4>1, FS_Subset
        <3>6. QED
            BY <1>1, <1>6, <3>4, <3>5
    <2>3. QED
        BY <1>1, <2>1, <2>2
<1>8. QED
    BY <1>1, <1>4, <1>5, <1>6, <1>7 DEF CacheInv

\* A hit is of an entry; only a recorded probe adds one.
LEMMA CacheStep ==
    ASSUME CacheInv, [Next]_vars
    PROVE  CacheInv'
<1>1. ASSUME NEW v \in Validation, Begin(v)
      PROVE  CacheInv'
    <2>1. CredOf[v] \in Identity
        BY WantsAreRepos
    <2>2. \/ Hit(CredOf[v]) /\ Wants[v][1] \in Covered(CredOf[v])
          \/ Evict(CredOf[v])
          \/ UNCHANGED cacheVars
        BY <1>1 DEF Begin
    <2>3. Wants[v][1] \in Covered(CredOf[v]) => CredOf[v] \in entries
        BY DEF Covered, Live
    <2>4. QED
        BY <2>1, <2>2, <2>3, KeptEntries
<1>2. ASSUME NEW v \in Validation, Proved(v)
      PROVE  CacheInv'
    BY <1>2, WantsAreRepos, RecordedEntries DEF Proved
<1>3. ASSUME NEW v \in Validation, Refused(v)
      PROVE  CacheInv'
    BY <1>3, WantsAreRepos, KeptEntries DEF Refused
<1>4. CASE UNCHANGED cacheVars
    BY <1>4 DEF cacheVars, CacheInv
<1>5. QED
    BY <1>1, <1>2, <1>3, <1>4 DEF Next, Reject, Answer, Revoke, Tick, vars

\* The rest of the state, with the histories.
RestInv ==
    /\ cacheHit \in [Validation -> BOOLEAN]
    /\ made \in Together
    /\ allowed \subseteq Identity \X Repo
    /\ now \in 0 .. MaxTime
    /\ proofs \subseteq Identity \X Repo \X Nat
    /\ uses \subseteq Identity \X Identity

\* The upstream, the clock and the cache hits of a validation.
LEMMA RestStep ==
    ASSUME FreshInv, RestInv, [Next]_vars
    PROVE  RestInv'
<1>1. ASSUME NEW v \in Validation, NEW n, NEW S, GoesOn(v, n, S)
      PROVE  cacheHit' \in [Validation -> BOOLEAN]
    <2>1. PICK m : cacheHit' = [cacheHit EXCEPT ![v] = @ /\ m > Len(Wants[v])]
        BY <1>1 DEF GoesOn
    <2>2. QED
        BY <2>1 DEF RestInv
<1>2. ASSUME NEW i \in Identity, uses' = Last(uses, i, Identity)
      PROVE  uses' \subseteq Identity \X Identity
    BY <1>2 DEF Last, RestInv
<1>3. ASSUME NEW v \in Validation, Begin(v)
      PROVE  RestInv'
    <2>1. cacheHit' \in [Validation -> BOOLEAN]
        <3>1. GoesOn(v, 1, Covered(CredOf[v]))
            BY <1>3, Zenon DEF Begin
        <3>2. QED
            BY <1>1, <3>1
    <2>2. uses' \subseteq Identity \X Identity
        BY <1>2, <1>3, WantsAreRepos DEF Begin, RestInv
    <2>3. UNCHANGED <<upstreamVars, proofs>>
        BY <1>3 DEF Begin
    <2>4. QED
        BY <2>1, <2>2, <2>3 DEF RestInv, upstreamVars
<1>4. ASSUME NEW v \in Validation, Proved(v)
      PROVE  RestInv'
    <2>1. cacheHit' \in [Validation -> BOOLEAN]
        <3>1. GoesOn(v, at[v] + 1, ScopeOf(CredOf[v]) \cup {Route(v)})
            BY <1>4, Zenon DEF Proved
        <3>2. QED
            BY <1>1, <3>1
    <2>2. uses' \subseteq Identity \X Identity
        BY <1>2, <1>4, WantsAreRepos DEF Proved
    <2>3. CredOf[v] \in Identity /\ Route(v) \in Repo /\ now \in Nat
        BY <1>4, WantsAreRepos DEF Proved, Route, FreshInv, ProofInv, ShapeInv, PassedProved
    <2>4. proofs' = proofs \cup {<<CredOf[v], Route(v), now>>} /\ UNCHANGED upstreamVars
        BY <1>4 DEF Proved
    <2>5. proofs' \subseteq Identity \X Repo \X Nat
        BY <2>3, <2>4 DEF RestInv
    <2>6. QED
        BY <2>1, <2>2, <2>4, <2>5 DEF RestInv, upstreamVars
<1>5. ASSUME NEW v \in Validation, Reject(v) \/ Answer(v) \/ Refused(v)
      PROVE  RestInv'
    BY <1>5 DEF Reject, Answer, Refused, Rejected, RestInv, upstreamVars, historyVars
<1>6. ASSUME NEW i \in Identity, NEW r \in Repo, Revoke(i, r)
      PROVE  RestInv'
    BY <1>6 DEF Revoke, RestInv, validationVars, historyVars
<1>7. CASE Tick
    BY <1>7, WrappedAuthAssumption DEF Tick, RestInv, validationVars, historyVars
<1>8. CASE UNCHANGED vars
    BY <1>8 DEF vars, RestInv, validationVars, upstreamVars, historyVars
<1>9. QED
    BY <1>3, <1>4, <1>5, <1>6, <1>7, <1>8 DEF Next

\* Every variable has its type; in particular the cache never has more entries
\* than maxEntries, although it evicts one entry at a time (TypeOK,
\* proofCache.ts:165-172).
THEOREM TypeCorrect == Spec => []TypeOK
<1>1. Init => FreshInv /\ CacheInv /\ RestInv
    <2>1. Init => FreshInv
        BY DEF Init, FreshInv, FreshShape, EntriesDated, NoneTakenYet, ProofInv, ShapeInv,
               ScopesProved, PassedProved
    <2>2. Init => CacheInv
        BY FS_EmptySet, WrappedAuthAssumption DEF Init, CacheInv, Strict
    <2>3. Init => RestInv
        BY WrappedAuthAssumption DEF Init, RestInv
    <2>4. QED
        BY <2>1, <2>2, <2>3
<1>2. FreshInv /\ CacheInv /\ RestInv /\ [Next]_vars => (FreshInv /\ CacheInv /\ RestInv)'
    BY FreshBegin, FreshProved, FreshOther, CacheStep, RestStep DEF Next
<1>3. FreshInv /\ CacheInv /\ RestInv => TypeOK
    BY DEF FreshInv, FreshShape, ProofInv, ShapeInv, CacheInv, RestInv, TypeOK
<1>4. QED
    BY <1>1, <1>2, <1>3, PTL DEF Spec

=============================================================================
