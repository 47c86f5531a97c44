------------------------------ MODULE WrapKeys ------------------------------
(***************************************************************************)
(* Rotation of the keys that upstream credentials are wrapped with         *)
(* (auth/src/upstreamAuth/wrap.ts), and what validateWrappedUpstream does  *)
(* before it asks for proofs (strategy.ts), where WrappedAuth goes on.     *)
(*                                                                         *)
(* Nodes wrap with one key each, once they have one.  The service tries    *)
(* the keys of the list that it was started with.  The operator changes    *)
(* the list, restarts the service and takes a new key to the nodes, in an  *)
(* order that the code relies on and does not enforce (wrap.ts:41-46 and   *)
(* aocr_aerol_stitch.md:462).                                              *)
(***************************************************************************)
EXTENDS Integers, Sequences, FiniteSets

CONSTANTS
    Key,        \* entries of UPSTREAM_AUTH_WRAP_KEYS
    Garbled,    \* entries that are not 32 bytes
    NoKey,      \* what a node wraps with that has no key yet
    NoBlob,     \* a pull has none yet
    Node,       \* sandboxd's hosts
    Pull,       \* blobs, each used for any number of requests
    NodeOf,     \* [Pull -> Node]: who wraps a blob
    Mangled,    \* pulls with a blob that no node wrapped
    Unrouted,   \* pulls with a scope that is empty, or of no or another upstream
    MaxBlobAge, \* WRAPPED_UPSTREAM_MAX_AGE_MS
    Skew,       \* how far the clock of a node may be ahead
    Overlap,    \* how long a key stays listed when no node has it any more
    MaxListed,  \* bound: the length of the list
    LastTime    \* bound: the clock

ASSUME WrapKeysAssumption ==
    /\ Garbled \subseteq Key /\ NoKey \notin Key /\ NoBlob \notin [key : Key \cup {NoKey}, ts : Nat]
    /\ NodeOf \in [Pull -> Node]
    /\ Mangled \subseteq Pull /\ Unrouted \subseteq Pull
    /\ MaxBlobAge \in Nat /\ Skew \in Nat /\ LastTime \in Nat /\ MaxListed \in Nat
    /\ Overlap \in Nat /\ MaxBlobAge + Skew =< Overlap

VARIABLES
    listed,    \* UPSTREAM_AUTH_WRAP_KEYS, as it will be read next
    ring,      \* the list that the service has read
    held,      \* node: the key that it wraps with
    blob,      \* pull: [key, ts], or NoBlob
    answer,    \* what the last request ended in
    switched,  \* when a node last changed its key
    clock

rotationVars == <<listed, ring, held, blob, answer, switched, clock>>

Blobs == [key : Key \cup {NoKey}, ts : Nat]

Refusals == {"not_configured", "invalid_blob", "expired", "route_mismatch"}

RotationTypeOK ==
    /\ listed \in Seq(Key) /\ ring \in Seq(Key)
    /\ held \in [Node -> (Key \ Garbled) \cup {NoKey}]
    /\ blob \in [Pull -> Blobs \cup {NoBlob}]
    /\ answer \in Refusals \cup {"none", "goes_on"}
    /\ switched \in 0 .. clock /\ clock \in 0 .. LastTime

RotationInit ==
    /\ listed = <<>> /\ ring = <<>>
    /\ held = [n \in Node |-> NoKey]
    /\ blob = [p \in Pull |-> NoBlob]
    /\ answer = "none"
    /\ switched = 0 /\ clock = 0

-----------------------------------------------------------------------------
(* The service.                                                            *)

Entries(list) == {list[i] : i \in DOMAIN list}

\* parseWrapKeyRing: the entries that are keys; the others are skipped.
KeysOf(list) == Entries(list) \ Garbled

\* Mutant: only the current key is tried.
Tried_First == {ring[i] : i \in DOMAIN ring \cap {1}} \ Garbled

\* unwrap tries each key in turn.
Tried == KeysOf(ring)

Opens(p) == blob[p].key \in Tried

TooOld(p) == clock - blob[p].ts > MaxBlobAge

Answers(code) ==
    /\ answer' = code
    /\ UNCHANGED <<listed, ring, held, blob, switched, clock>>

\* The service has no key.
Unconfigured(p) == KeysOf(ring) = {} /\ Answers("not_configured")

\* No key opens the blob: it is damaged, or its key is not in the list.
Unopened(p) == KeysOf(ring) # {} /\ ~Opens(p) /\ Answers("invalid_blob")

\* Opened, but replayed too late.
Late(p) == Opens(p) /\ TooOld(p) /\ Answers("expired")

Astray(p) == Opens(p) /\ ~TooOld(p) /\ p \in Unrouted /\ Answers("route_mismatch")

\* On to the proofs.
Good(p) == Opens(p) /\ ~TooOld(p) /\ p \notin Unrouted /\ Answers("goes_on")

\* A request with the blob of p.
Validate(p) ==
    /\ blob[p] # NoBlob
    /\ Unconfigured(p) \/ Unopened(p) \/ Late(p) \/ Astray(p) \/ Good(p)

\* The service starts again, after a crash or to read the list anew.
Restart ==
    /\ ring # listed
    /\ ring' = listed
    /\ UNCHANGED <<listed, held, blob, answer, switched, clock>>

-----------------------------------------------------------------------------
(* The nodes and the operator.                                             *)

\* A node wraps credentials, with the key that it has and the time by its clock.
Wrap(p) ==
    /\ blob[p] = NoBlob
    /\ p \in Mangled \/ held[NodeOf[p]] # NoKey
    /\ \E ahead \in 0 .. Skew :
          blob' = [blob EXCEPT ![p] =
             [key |-> IF p \in Mangled THEN NoKey ELSE held[NodeOf[p]], ts |-> clock + ahead]]
    /\ UNCHANGED <<listed, ring, held, answer, switched, clock>>

\* A key is put in front of the list.
List(k) ==
    /\ Len(listed) < MaxListed /\ k \notin Entries(listed)
    /\ listed' = <<k>> \o listed
    /\ UNCHANGED <<ring, held, blob, answer, switched, clock>>

\* A node is given a key that is listed, once the service has been started with it.
Push(n, k) ==
    /\ k \in KeysOf(listed) \cap KeysOf(ring) /\ held[n] # k
    /\ held' = [held EXCEPT ![n] = k]
    /\ switched' = clock
    /\ UNCHANGED <<listed, ring, blob, answer, clock>>

\* The last key of the list is dropped when no node has had it for a while.
Drop ==
    LET oldest == listed[Len(listed)] IN
    /\ listed # <<>> /\ \A n \in Node : held[n] # oldest
    /\ clock > switched + Overlap
    /\ listed' = SubSeq(listed, 1, Len(listed) - 1)
    /\ UNCHANGED <<ring, held, blob, answer, switched, clock>>

ClockTicks ==
    /\ clock < LastTime
    /\ clock' = clock + 1
    /\ UNCHANGED <<listed, ring, held, blob, answer, switched>>

RotationNext ==
    \/ \E p \in Pull : Wrap(p) \/ Validate(p)
    \/ \E k \in Key : List(k) \/ \E n \in Node : Push(n, k)
    \/ Restart \/ Drop \/ ClockTicks

RotationSpec == RotationInit /\ [][RotationNext]_rotationVars

-----------------------------------------------------------------------------
(* Properties.                                                             *)

\* Rotation costs nobody a pull: a blob that was wrapped and is not too old is not
\* refused for its key, whatever keys are listed, garbled, distributed and dropped
\* meanwhile, and however often the service restarts (wrap.ts:41-46, 131-133).
RotationIsSeamless ==
    [][\A p \in Pull \ Mangled : Validate(p) /\ ~TooOld(p) =>
          answer' \notin {"not_configured", "invalid_blob"}]_rotationVars
=============================================================================
