----------------------------- MODULE MirrorWarm -----------------------------
(***************************************************************************)
(* Manifests pulled through the mirror (mirror/proxy.go, handleManifest):  *)
(* a hit is served from the writer; on a miss the manifest comes from the  *)
(* upstream and the writer is warmed with all it depends on, for an image  *)
(* before the client is answered, for an index in a goroutine of its own.  *)
(*                                                                         *)
(* One repository with one tag, which moves upstream.  A warm is a tree of *)
(* goroutines: one per child of an index, and under each one per blob,     *)
(* FanOut of them at a time.  How a blob is streamed is in BlobTee.        *)
(***************************************************************************)
EXTENDS Integers, FiniteSets, Sequences

CONSTANTS
    Request,
    Blob,
    Single,        \* image manifests
    Index,         \* manifest lists
    BlobsOf,       \* [Single -> SUBSET Blob]
    ChildrenOf,    \* [Index -> SUBSET Single]
    Tag,           \* the tag, a reference like the digests
    RefOf,         \* [Request -> reference]
    WantsIndex,    \* requests whose first Accept header lists an index type
    Contents,      \* what the upstream has under the tag, one after the other:
                   \* [index, single], for clients that accept indexes and for others
    FanOut,
    MaxFaults,     \* bound: calls that fail, cancellations and restarts
    MaxEvictions,  \* bound: manifests that the reaper deletes
    NULL

Manifest == Single \cup Index

ASSUME MirrorWarmAssumption ==
    /\ Single \cap Index = {} /\ Tag \notin Manifest /\ NULL \notin Manifest
    /\ BlobsOf \in [Single -> SUBSET Blob]
    /\ ChildrenOf \in [Index -> SUBSET Single]
    /\ RefOf \in [Request -> Manifest \cup {Tag}]
    /\ WantsIndex \subseteq Request
    /\ Contents \in Seq([index : Index, single : Single]) /\ Contents # <<>>
    /\ FanOut \in Nat \ {0}
    /\ MaxFaults \in Nat /\ MaxEvictions \in Nat

VARIABLES
    pc,         \* handler: where it is
    body,       \* handler: the manifest that it serves
    bg,         \* the background warm of an index
    task,       \* per request and image: the warm of that image
    fetching,   \* per request: <<image, blob>> with a goroutine at work
    fetched,    \* per request: <<image, blob>> whose goroutine is done
    blobErr,    \* per request: images with a firstErr in warmBlobs
    childErr,   \* per request: firstErr in warmIndexChildren
    cancelled,  \* per request: the context of the warm is done
    blobs,      \* writer: the blobs of the repository
    manifests,  \* writer: the manifests of the repository
    tagged,     \* writer: what the tag points to
    lateBlobs,  \* writer: uploads that it may complete though the mirror gave them up
    latePuts,   \* writer: PUTs of that kind, <<manifest, under the tag>>
    current,    \* upstream: which of the Contents the tag points to
    evictions,  \* how many manifests the reaper deleted
    faults,     \* how many failures, cancellations and restarts there were
    trouble     \* history: requests that one of them hit

handlerVars == <<pc, body>>
warmVars    == <<bg, task, fetching, fetched, blobErr, childErr>>
lateVars    == <<lateBlobs, latePuts>>
writerVars  == <<blobs, manifests, tagged, lateVars, evictions>>
faultVars   == <<current, cancelled, faults, trouble>>
vars == <<handlerVars, warmVars, writerVars, faultVars>>

Task == {"todo", "head", "fetch", "blobs", "put", "done"}

TypeOK ==
    /\ pc \in [Request -> {"probe", "hit", "fetch", "warm", "done"}]
    /\ body \in [Request -> Manifest \cup {NULL}]
    /\ bg \in [Request -> {"none", "children", "put", "done"}]
    /\ task \in [Request -> [Single -> Task]]
    /\ fetching \in [Request -> SUBSET (Single \X Blob)]
    /\ fetched \in [Request -> SUBSET (Single \X Blob)]
    /\ blobErr \in [Request -> SUBSET Single]
    /\ childErr \in [Request -> BOOLEAN]
    /\ cancelled \in [Request -> BOOLEAN]
    /\ blobs \subseteq Blob /\ manifests \subseteq Manifest
    /\ tagged \in Manifest \cup {NULL}
    /\ lateBlobs \subseteq Blob /\ latePuts \subseteq Manifest \X BOOLEAN
    /\ current \in 1 .. Len(Contents)
    /\ evictions \in 0 .. MaxEvictions /\ faults \in 0 .. MaxFaults
    /\ trouble \subseteq Request

Init ==
    /\ pc = [q \in Request |-> "probe"]
    /\ body = [q \in Request |-> NULL]
    /\ bg = [q \in Request |-> "none"]
    /\ task = [q \in Request |-> [m \in Single |-> "todo"]]
    /\ fetching = [q \in Request |-> {}]
    /\ fetched = [q \in Request |-> {}]
    /\ blobErr = [q \in Request |-> {}]
    /\ childErr = [q \in Request |-> FALSE]
    /\ cancelled = [q \in Request |-> FALSE]
    /\ blobs = {} /\ manifests = {} /\ tagged = NULL
    /\ lateBlobs = {} /\ latePuts = {}
    /\ current = 1
    /\ evictions = 0 /\ faults = 0 /\ trouble = {}

\* How a call made for q may end: well, unless its context is done; or not.
Succeeds(q) == ~cancelled[q] /\ UNCHANGED faultVars
Fails(q) ==
    /\ \/ cancelled[q] /\ UNCHANGED faults
       \/ faults < MaxFaults /\ faults' = faults + 1
    /\ trouble' = trouble \cup {q}
    /\ UNCHANGED <<current, cancelled>>

TaskTo(q, m, s) == task' = [task EXCEPT ![q][m] = s]

-----------------------------------------------------------------------------
(* The handler.                                                            *)

Present(ref) == IF ref = Tag THEN tagged # NULL ELSE ref \in manifests
Digest(ref)  == IF ref = Tag THEN tagged ELSE ref

\* HeadManifest; an error counts as a miss.
Probe(q) ==
    /\ pc[q] = "probe"
    /\ \/ Succeeds(q) /\ pc' = [pc EXCEPT ![q] = IF Present(RefOf[q]) THEN "hit" ELSE "fetch"]
       \/ Fails(q) /\ pc' = [pc EXCEPT ![q] = "fetch"]
    /\ UNCHANGED <<body, warmVars, writerVars>>

\* streamManifestFromWriter, which passes on a 404 if the reaper was faster.
ServeHit(q) ==
    /\ pc[q] = "hit"
    /\ \/ /\ Succeeds(q)
          /\ body' = [body EXCEPT ![q] = IF Present(RefOf[q]) THEN Digest(RefOf[q]) ELSE NULL]
       \/ Fails(q) /\ UNCHANGED body
    /\ pc' = [pc EXCEPT ![q] = "done"]
    /\ UNCHANGED <<warmVars, writerVars>>

\* fetchManifestFromUpstream: the client's Accept decides what a tag is.
Upstream_Unresolved(q) == RefOf[q]
Upstream(q) ==
    IF RefOf[q] # Tag THEN RefOf[q]
    ELSE IF q \in WantsIndex THEN Contents[current].index ELSE Contents[current].single

\* The answer to the client waits for the warm of an image only.
AfterFetch_Answers(m) == "done"
AfterFetch(m) == IF m \in Index THEN "done" ELSE "warm"

Fetch(q) ==
    LET m == Upstream(q) IN
    /\ pc[q] = "fetch"
    /\ Succeeds(q)
    /\ body' = [body EXCEPT ![q] = m]
    /\ pc' = [pc EXCEPT ![q] = AfterFetch(m)]
    /\ IF m \in Index THEN bg' = [bg EXCEPT ![q] = "children"] /\ UNCHANGED task
                      ELSE TaskTo(q, m, "blobs") /\ UNCHANGED bg
    /\ UNCHANGED <<fetching, fetched, blobErr, childErr, writerVars>>

FetchFails(q) ==
    /\ pc[q] = "fetch"
    /\ Fails(q)
    /\ pc' = [pc EXCEPT ![q] = "done"]
    /\ UNCHANGED <<body, warmVars, writerVars>>

\* A manifest that parseManifestDescriptors does not understand is served as it is.
FetchUnparsed(q) ==
    /\ pc[q] = "fetch"
    /\ ~cancelled[q] /\ Fails(q)
    /\ body' = [body EXCEPT ![q] = Upstream(q)]
    /\ pc' = [pc EXCEPT ![q] = "done"]
    /\ UNCHANGED <<warmVars, writerVars>>

\* The image is warmed, or the warm gave up; the client gets it either way.
Respond(q) ==
    /\ pc[q] = "warm" /\ task[q][body[q]] = "done"
    /\ pc' = [pc EXCEPT ![q] = "done"]
    /\ UNCHANGED <<body, warmVars, writerVars, faultVars>>

-----------------------------------------------------------------------------
(* warmBlobs and the PUT of an image, for a request itself or for a child. *)

\* The slots of the semaphore that are taken.
BlobSlots_Leaked(q, m) == {p \in fetching[q] \cup fetched[q] : p[1] = m}
BlobSlots(q, m) == {p \in fetching[q] : p[1] = m}

StartBlob(q, m, b) ==
    /\ task[q][m] = "blobs" /\ b \in BlobsOf[m]
    /\ <<m, b>> \notin fetching[q] \cup fetched[q]
    /\ ~cancelled[q]
    /\ Cardinality(BlobSlots(q, m)) < FanOut
    /\ fetching' = [fetching EXCEPT ![q] = @ \cup {<<m, b>>}]
    /\ UNCHANGED <<handlerVars, bg, task, fetched, blobErr, childErr, writerVars, faultVars>>

\* HeadBlob finds the blob, or uploadBlobFromUpstream brings it.  A call to the
\* writer that fails may have reached it: what the call asks for is done later,
\* or never.  What is there already can come to nothing.
WarmBlob(q, m, b) ==
    /\ <<m, b>> \in fetching[q]
    /\ \/ Succeeds(q) /\ blobs' = blobs \cup {b} /\ lateBlobs' = lateBlobs \ {b} /\ UNCHANGED blobErr
       \/ /\ Fails(q) /\ blobErr' = [blobErr EXCEPT ![q] = @ \cup {m}]
          /\ lateBlobs' = (lateBlobs \cup {b}) \ blobs /\ UNCHANGED blobs
    /\ fetching' = [fetching EXCEPT ![q] = @ \ {<<m, b>>}]
    /\ fetched' = [fetched EXCEPT ![q] = @ \cup {<<m, b>>}]
    /\ UNCHANGED <<handlerVars, bg, task, childErr, manifests, tagged, latePuts, evictions>>

\* wg.Wait() and firstErr; or ctx.Err() while blobs are still to be started.
\* An error is logged and ends the warm of the image without one.
AllFetched(q, m) == \A b \in BlobsOf[m] : <<m, b>> \in fetched[q]

GivesUp_Never(q, m) == FALSE
GivesUp(q, m) == m \in blobErr[q] \/ ~AllFetched(q, m)

BlobsWarmed(q, m) ==
    /\ task[q][m] = "blobs"
    /\ \/ AllFetched(q, m)
       \/ cancelled[q] /\ \E b \in BlobsOf[m] : <<m, b>> \notin fetching[q] \cup fetched[q]
    /\ TaskTo(q, m, IF GivesUp(q, m) THEN "done" ELSE "put")
    /\ UNCHANGED <<handlerVars, bg, fetching, fetched, blobErr, childErr, writerVars, faultVars>>

\* PutManifest under q's own reference, or under a child's digest.  The
\* writer (Distribution) refuses a manifest whose references it lacks.
Accepted(m) == IF m \in Index THEN ChildrenOf[m] \subseteq manifests ELSE BlobsOf[m] \subseteq blobs

\* Mutant: what is PUT for a child goes under the reference of the request.
Retags_Child(q, m) == RefOf[q] = Tag
Retags(q, m) == body[q] = m /\ RefOf[q] = Tag

Put(q, m) ==
    \/ /\ Succeeds(q) /\ Accepted(m)
       /\ manifests' = manifests \cup {m}
       /\ tagged' = IF Retags(q, m) THEN m ELSE tagged
       /\ UNCHANGED latePuts
    \/ Succeeds(q) /\ ~Accepted(m) /\ UNCHANGED <<manifests, tagged, latePuts>>
    \/ /\ Fails(q)
       /\ latePuts' = latePuts \cup {<<m, Retags(q, m)>>}
       /\ UNCHANGED <<manifests, tagged>>

PutSingle(q, m) ==
    /\ task[q][m] = "put"
    /\ Put(q, m)
    /\ TaskTo(q, m, "done")
    /\ UNCHANGED <<handlerVars, bg, fetching, fetched, blobErr, childErr, blobs, lateBlobs, evictions>>

-----------------------------------------------------------------------------
(* warmIndexChildren and the PUT of the index.                             *)

Children(q) == ChildrenOf[body[q]]

ChildSlots_Leaked(q) == {m \in Children(q) : task[q][m] # "todo"}
ChildSlots(q) == {m \in Children(q) : task[q][m] \notin {"todo", "done"}}

StartChild(q, m) ==
    /\ bg[q] = "children" /\ m \in Children(q)
    /\ task[q][m] = "todo" /\ ~cancelled[q]
    /\ Cardinality(ChildSlots(q)) < FanOut
    /\ TaskTo(q, m, "head")
    /\ UNCHANGED <<handlerVars, bg, fetching, fetched, blobErr, childErr, writerVars, faultVars>>

\* HeadManifest: a child that is there already is done.
HeadChild(q, m) ==
    /\ task[q][m] = "head"
    /\ \/ Succeeds(q) /\ TaskTo(q, m, IF m \in manifests THEN "done" ELSE "fetch")
       \/ Fails(q) /\ TaskTo(q, m, "fetch")
    /\ UNCHANGED <<handlerVars, bg, fetching, fetched, blobErr, childErr, writerVars>>

\* A failed fetch is a firstErr; what fails after it is not.
FetchChild(q, m) ==
    /\ task[q][m] = "fetch"
    /\ \/ Succeeds(q) /\ TaskTo(q, m, "blobs") /\ UNCHANGED childErr
       \/ Fails(q) /\ TaskTo(q, m, "done") /\ childErr' = [childErr EXCEPT ![q] = TRUE]
    /\ UNCHANGED <<handlerVars, bg, fetching, fetched, blobErr, writerVars>>

ChildrenWarmed(q) ==
    LET all == \A m \in Children(q) : task[q][m] = "done" IN
    /\ bg[q] = "children"
    /\ all \/ (cancelled[q] /\ \E m \in Children(q) : task[q][m] = "todo")
    /\ bg' = [bg EXCEPT ![q] = IF all /\ ~childErr[q] THEN "put" ELSE "done"]
    /\ UNCHANGED <<handlerVars, task, fetching, fetched, blobErr, childErr, writerVars, faultVars>>

PutIndex(q) ==
    /\ bg[q] = "put"
    /\ Put(q, body[q])
    /\ bg' = [bg EXCEPT ![q] = "done"]
    /\ UNCHANGED <<handlerVars, task, fetching, fetched, blobErr, childErr, blobs, lateBlobs,
                   evictions>>

-----------------------------------------------------------------------------
(* The environment.                                                        *)

\* The client leaves before it is answered, or a background warm takes more
\* than its 10 minutes.
Cancel(q) ==
    /\ pc[q] # "done" \/ bg[q] \in {"children", "put"}
    /\ ~cancelled[q] /\ faults < MaxFaults
    /\ cancelled' = [cancelled EXCEPT ![q] = TRUE]
    /\ faults' = faults + 1
    /\ trouble' = trouble \cup {q}
    /\ UNCHANGED <<handlerVars, warmVars, writerVars, current>>

\* The mirror ends and starts again: who is being served gets no answer, and
\* nobody waits for the background warms.  The writer keeps what it has, and may
\* complete what it was asked for.
Running(q) == pc[q] \in {"hit", "fetch", "warm"} \/ bg[q] \in {"children", "put"}

\* The PUTs that q is in.
UnderWay(q) ==
    {<<m, Retags(q, m)>> : m \in {n \in Single : task[q][n] = "put"}
                                  \cup (IF bg[q] = "put" THEN {body[q]} ELSE {})}

Restart ==
    LET lost == {q \in Request : Running(q)} IN
    /\ lost # {} /\ faults < MaxFaults
    /\ pc' = [q \in Request |-> IF q \in lost THEN "done" ELSE pc[q]]
    /\ body' = [q \in Request |-> IF q \in lost /\ pc[q] # "done" THEN NULL ELSE body[q]]
    /\ bg' = [q \in Request |-> IF bg[q] \in {"children", "put"} THEN "done" ELSE bg[q]]
    /\ task' = [q \in Request |-> IF q \in lost THEN [m \in Single |-> "done"] ELSE task[q]]
    /\ fetching' = [q \in Request |-> IF q \in lost THEN {} ELSE fetching[q]]
    /\ lateBlobs' = lateBlobs \cup {b \in Blob \ blobs : \E q \in lost, m \in Single : <<m, b>> \in fetching[q]}
    /\ latePuts' = latePuts \cup UNION {UnderWay(q) : q \in lost}
    /\ faults' = faults + 1
    /\ trouble' = trouble \cup lost
    /\ UNCHANGED <<fetched, blobErr, childErr, cancelled, current, blobs, manifests, tagged, evictions>>

\* What the writer does late.  It checks a manifest when it gets to it.
LateBlob ==
    /\ \E b \in lateBlobs : blobs' = blobs \cup {b} /\ lateBlobs' = lateBlobs \ {b}
    /\ UNCHANGED <<handlerVars, warmVars, manifests, tagged, latePuts, evictions, faultVars>>

LatePut ==
    /\ \E p \in latePuts :
          /\ Accepted(p[1])
          /\ manifests' = manifests \cup {p[1]}
          /\ tagged' = IF p[2] THEN p[1] ELSE tagged
          /\ latePuts' = latePuts \ {p}
    /\ UNCHANGED <<handlerVars, warmVars, blobs, lateBlobs, evictions, faultVars>>

\* The reaper deletes the tag's manifest, by digest.  (A tag that moves between
\* its HEAD and its DELETE is in TagLifecycle.)
Evict ==
    /\ tagged # NULL /\ evictions < MaxEvictions
    /\ manifests' = manifests \ {tagged}
    /\ tagged' = NULL
    /\ evictions' = evictions + 1
    /\ UNCHANGED <<handlerVars, warmVars, blobs, lateVars, faultVars>>

\* The tag moves upstream, while somebody may still ask what it is.
Move ==
    /\ current < Len(Contents)
    /\ \E q \in Request : pc[q] \in {"probe", "fetch"}
    /\ current' = current + 1
    /\ UNCHANGED <<handlerVars, warmVars, writerVars, cancelled, faults, trouble>>

HandlerStep(q) ==
    \/ Probe(q) \/ ServeHit(q) \/ Fetch(q) \/ FetchFails(q) \/ FetchUnparsed(q)
    \/ Respond(q)

WarmStep(q, m) ==
    \/ \E b \in BlobsOf[m] : StartBlob(q, m, b) \/ WarmBlob(q, m, b)
    \/ BlobsWarmed(q, m) \/ PutSingle(q, m)
    \/ StartChild(q, m) \/ HeadChild(q, m) \/ FetchChild(q, m)

IndexStep(q) == ChildrenWarmed(q) \/ PutIndex(q)

\* What the goroutines of a request do.
GoesOn(q) == HandlerStep(q) \/ IndexStep(q) \/ \E m \in Single : WarmStep(q, m)

Next ==
    \/ \E q \in Request : GoesOn(q) \/ Cancel(q)
    \/ LateBlob \/ LatePut \/ Evict \/ Move \/ Restart

Spec == Init /\ [][Next]_vars

(***************************************************************************)
(* Go runs some goroutine while one can go on, and every call ends: the    *)
(* client has a timeout, the upstream's answer is finite.  No request has  *)
(* to be favoured, since none goes on for ever.                            *)
(***************************************************************************)
FairSpec == Spec /\ WF_vars(\E q \in Request : GoesOn(q))

-----------------------------------------------------------------------------
(* Properties.                                                             *)

\* An image is PUT only after all its blobs, its own and those that other
\* requests bring: it is never rejected and never cached in part
\* (proxy.go:95-104, TestProxyManifestCachePopulatesDependenciesFirst).
PutAfterBlobs ==
    \A q \in Request, m \in Single : task[q][m] = "put" => BlobsOf[m] \subseteq blobs

\* A client that got an image finds it in the cache when it asks for it again,
\* under the tag too, unless something failed or the reaper was there.
WarmedWhenServed ==
    \A q \in Request :
        /\ pc[q] = "done" /\ body[q] \in Single /\ q \notin trouble /\ evictions = 0
        => body[q] \in manifests /\ (RefOf[q] = Tag => tagged # NULL)

\* Whoever asks for the tag is served what the upstream had under it, now or
\* earlier, and never a child or another digest that came to the cache beside it:
\* a hit is not compared with the upstream, and warms PUT in any order
\* (proxy.go:126-204).
Had(n) == {Contents[n].index, Contents[n].single}
ServesWhatUpstreamHad ==
    \A q \in Request : body[q] # NULL =>
        IF RefOf[q] = Tag THEN \E n \in 1 .. current : body[q] \in Had(n) ELSE body[q] = RefOf[q]

\* Requests are answered and their goroutines end, whatever fails.
WarmEnds == \A q \in Request : <>[](pc[q] = "done" /\ bg[q] \in {"none", "done"})

\* The background warm of an index that nothing hits ends with the index in
\* the cache, whatever hits other requests, though it takes part of what it needs
\* from their warms, and from those that a restart cut short (proxy.go:148-161).
IndexWarmed ==
    \A q \in Request :
        bg[q] = "children" ~> body[q] \in manifests \/ q \in trouble \/ evictions > 0
=============================================================================
