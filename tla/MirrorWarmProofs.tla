-------------------------- MODULE MirrorWarmProofs --------------------------
(***************************************************************************)
(* The order in which the mirror warms its cache and what it serves, proved*)
(* for any number of requests, images and blobs, any fan-out, any failures *)
(* and a tag that moves any number of times.                               *)
(***************************************************************************)
EXTENDS MirrorWarm, TLAPS

\* A goroutine of warmBlobs that is done left its blob in the writer, or an
\* error behind.
Fetched == \A q \in Request, m \in Single, b \in Blob :
              <<m, b>> \in fetched[q] => b \in blobs \/ m \in blobErr[q]

\* A background warm works for an index that its handler has answered.
InHand == \A q \in Request : bg[q] \in {"children", "put"} => body[q] \in Index /\ pc[q] = "done"

TypeInv == TypeOK /\ InHand
OrderInv == TypeInv /\ Fetched /\ PutAfterBlobs

-----------------------------------------------------------------------------
(* Types.                                                                  *)

\* However a call ends, the record of the failures stays well-typed.
LEMMA OutcomeIsTyped ==
    ASSUME TypeOK, NEW q \in Request, Succeeds(q) \/ Fails(q)
    PROVE  /\ cancelled' = cancelled /\ current' = current
           /\ faults' \in 0 .. MaxFaults
           /\ trouble' \subseteq Request
    BY MirrorWarmAssumption DEF TypeOK, Succeeds, Fails, faultVars

\* A warm that goes on stays well-typed.
LEMMA TaskIsTyped ==
    ASSUME TypeOK, NEW q \in Request, NEW m \in Single, NEW s \in Task, TaskTo(q, m, s)
    PROVE  task' \in [Request -> [Single -> Task]]
    BY DEF TypeOK, TaskTo

\* The upstream answers a reference with a manifest.
LEMMA UpstreamIsTyped ==
    ASSUME TypeOK, NEW q \in Request
    PROVE  Upstream(q) \in Manifest
<1>1. Contents[current] \in [index : Index, single : Single]
    <2>1. /\ Contents \in Seq([index : Index, single : Single])
          /\ current \in 1 .. Len(Contents)
        BY MirrorWarmAssumption DEF TypeOK
    <2>2. ASSUME NEW S, NEW c \in Seq(S), NEW i \in 1 .. Len(c)
          PROVE  c[i] \in S
        OBVIOUS
    <2>3. QED
        BY <2>1, <2>2
<1>2. QED
    BY <1>1, MirrorWarmAssumption DEF Upstream, Manifest

\* The steps of the handlers keep the types.
LEMMA TypeHandler ==
    ASSUME TypeOK, NEW q \in Request, HandlerStep(q)
    PROVE  TypeOK'
<1> USE DEF TypeOK, warmVars, writerVars, lateVars, faultVars
<1>1. CASE Probe(q)
    BY <1>1, OutcomeIsTyped DEF Probe
<1>2. CASE ServeHit(q)
    <2>1. Present(RefOf[q]) => Digest(RefOf[q]) \in Manifest
        BY MirrorWarmAssumption DEF Present, Digest
    <2>2. Succeeds(q) \/ Fails(q)
        BY <1>2 DEF ServeHit
    <2>3. /\ cancelled' = cancelled /\ current' = current
          /\ faults' \in 0 .. MaxFaults
          /\ trouble' \subseteq Request
        BY <2>2, OutcomeIsTyped
    <2>4. body' = body \/ body' = [body EXCEPT ![q] = IF Present(RefOf[q]) THEN Digest(RefOf[q])
                                                                        ELSE NULL]
        BY <1>2 DEF ServeHit
    <2>5. body' \in [Request -> Manifest \cup {NULL}]
        BY <2>1, <2>4
    <2>6. pc' = [pc EXCEPT ![q] = "done"] /\ UNCHANGED <<warmVars, writerVars>>
        BY <1>2 DEF ServeHit
    <2>7. QED
        BY <2>3, <2>5, <2>6
<1>3. CASE Fetch(q)
    <2>1. Upstream(q) \notin Index => Upstream(q) \in Single
        BY UpstreamIsTyped DEF Manifest
    <2>2. task' \in [Request -> [Single -> Task]]
        BY <1>3, <2>1, TaskIsTyped DEF Fetch, Task
    <2>3. QED
        BY <1>3, <2>2, OutcomeIsTyped, UpstreamIsTyped DEF Fetch, AfterFetch
<1>4. CASE FetchFails(q)
    BY <1>4, OutcomeIsTyped DEF FetchFails
<1>5. CASE Respond(q)
    BY <1>5 DEF Respond
<1>6. CASE FetchUnparsed(q)
    BY <1>6, OutcomeIsTyped, UpstreamIsTyped DEF FetchUnparsed
<1>7. QED
    BY <1>1, <1>2, <1>3, <1>4, <1>5, <1>6 DEF HandlerStep

\* A PUT keeps the types of the writer and of the failures.
LEMMA PutIsTyped ==
    ASSUME TypeOK, NEW q \in Request, NEW m \in Manifest, Put(q, m)
    PROVE  /\ manifests' \subseteq Manifest /\ tagged' \in Manifest \cup {NULL}
           /\ latePuts' \subseteq Manifest \X BOOLEAN
           /\ cancelled' = cancelled /\ current' = current
           /\ faults' \in 0 .. MaxFaults /\ trouble' \subseteq Request
<1>1. <<m, Retags(q, m)>> \in Manifest \X BOOLEAN
    BY DEF Retags
<1>2. QED
    BY <1>1, OutcomeIsTyped DEF TypeOK, Put

\* The steps of the warm of an image keep the types.
LEMMA TypeWarm ==
    ASSUME TypeOK, NEW q \in Request, NEW m \in Single, WarmStep(q, m)
    PROVE  TypeOK'
<1> USE DEF TypeOK, handlerVars, writerVars, lateVars, faultVars
<1>1. ASSUME NEW b \in BlobsOf[m], StartBlob(q, m, b)
      PROVE  TypeOK'
    <2>1. <<m, b>> \in Single \X Blob
        BY MirrorWarmAssumption
    <2>2. QED
        BY <1>1, <2>1 DEF StartBlob
<1>2. ASSUME NEW b \in BlobsOf[m], WarmBlob(q, m, b)
      PROVE  TypeOK'
    <2>1. <<m, b>> \in Single \X Blob /\ b \in Blob
        BY MirrorWarmAssumption
    <2>2. /\ blobs' \subseteq Blob /\ lateBlobs' \subseteq Blob
          /\ blobErr' \in [Request -> SUBSET Single]
        BY <1>2, <2>1 DEF WarmBlob
    <2>3. /\ fetching' \in [Request -> SUBSET (Single \X Blob)]
          /\ fetched' \in [Request -> SUBSET (Single \X Blob)]
        BY <1>2, <2>1 DEF WarmBlob
    <2>4. Succeeds(q) \/ Fails(q)
        BY <1>2 DEF WarmBlob
    <2>5. UNCHANGED <<pc, body, bg, task, childErr, manifests, tagged, latePuts, evictions>>
        BY <1>2 DEF WarmBlob
    <2>6. QED
        BY <2>2, <2>3, <2>4, <2>5, OutcomeIsTyped
<1>3. CASE BlobsWarmed(q, m)
    BY <1>3, TaskIsTyped DEF BlobsWarmed, Task
<1>4. CASE PutSingle(q, m)
    BY <1>4, TaskIsTyped, PutIsTyped DEF PutSingle, Task, Manifest
<1>5. CASE StartChild(q, m)
    BY <1>5, TaskIsTyped DEF StartChild, Task
<1>6. CASE HeadChild(q, m)
    BY <1>6, TaskIsTyped, OutcomeIsTyped DEF HeadChild, Task
<1>7. CASE FetchChild(q, m)
    BY <1>7, TaskIsTyped, OutcomeIsTyped DEF FetchChild, Task
<1>8. QED
    BY <1>1, <1>2, <1>3, <1>4, <1>5, <1>6, <1>7 DEF WarmStep

\* The end of the warm of an index and a cancellation keep them.
LEMMA TypeOther ==
    ASSUME TypeInv, NEW q \in Request, IndexStep(q) \/ Cancel(q)
    PROVE  TypeOK'
<1> USE DEF TypeInv, TypeOK, handlerVars, warmVars, writerVars, lateVars, faultVars
<1>1. CASE ChildrenWarmed(q)
    BY <1>1 DEF ChildrenWarmed
<1>2. CASE PutIndex(q)
    <2>1. body[q] \in Manifest
        BY <1>2 DEF PutIndex, InHand, Manifest
    <2>2. QED
        BY <1>2, <2>1, PutIsTyped DEF PutIndex
<1>3. CASE Cancel(q)
    BY <1>3, MirrorWarmAssumption DEF Cancel
<1>4. QED
    BY <1>1, <1>2, <1>3 DEF IndexStep

\* The PUTs of a request are of manifests.
LEMMA UnderWayIsTyped ==
    ASSUME TypeInv, NEW q \in Request
    PROVE  UnderWay(q) \subseteq Manifest \X BOOLEAN
<1>1. \A p \in UnderWay(q) : \E m \in Manifest : p = <<m, Retags(q, m)>>
    BY DEF UnderWay, TypeInv, InHand, Manifest
<1>2. \A m : Retags(q, m) \in BOOLEAN
    BY DEF Retags
<1>3. QED
    BY <1>1, <1>2

\* What the writer does late, the reaper, a tag that moves upstream and a
\* restart keep them.
LEMMA TypeAround ==
    ASSUME TypeInv, LateBlob \/ LatePut \/ Evict \/ Move \/ Restart
    PROVE  TypeOK'
<1> USE DEF TypeInv, TypeOK, handlerVars, warmVars, writerVars, lateVars, faultVars
<1>1. CASE Evict
    BY <1>1, MirrorWarmAssumption DEF Evict
<1>2. CASE Move
    <2>1. Len(Contents) \in Nat
        BY MirrorWarmAssumption
    <2>2. current' \in 1 .. Len(Contents)
        BY <1>2, <2>1 DEF Move
    <2>3. QED
        BY <1>2, <2>2 DEF Move
<1>3. CASE Restart
    <2>1. faults' \in 0 .. MaxFaults
        BY <1>3, MirrorWarmAssumption DEF Restart
    <2>2. task' \in [Request -> [Single -> Task]]
        BY <1>3 DEF Restart, Task
    <2>3. latePuts' \subseteq Manifest \X BOOLEAN /\ lateBlobs' \subseteq Blob
        BY <1>3, UnderWayIsTyped DEF Restart
    <2>4. QED
        BY <1>3, <2>1, <2>2, <2>3 DEF Restart
<1>4. CASE LateBlob \/ LatePut
    BY <1>4 DEF LateBlob, LatePut
<1>5. QED
    BY <1>1, <1>2, <1>3, <1>4

\* No step takes the index out of the hands of its background warm.
LEMMA InHandStep ==
    ASSUME TypeInv, [Next]_vars
    PROVE  InHand'
<1> USE DEF TypeInv, TypeOK, InHand
<1>1. ASSUME NEW q \in Request, HandlerStep(q)
      PROVE  InHand'
    <2>1. CASE Fetch(q)
        BY <2>1 DEF Fetch, AfterFetch
    <2>2. CASE Probe(q) \/ ServeHit(q) \/ FetchUnparsed(q) \/ FetchFails(q) \/ Respond(q)
        BY <2>2 DEF Probe, ServeHit, FetchUnparsed, FetchFails, Respond, warmVars
    <2>3. QED
        BY <1>1, <2>1, <2>2 DEF HandlerStep
<1>2. ASSUME NEW q \in Request, NEW m \in Single, WarmStep(q, m)
      PROVE  InHand'
    BY <1>2 DEF WarmStep, StartBlob, WarmBlob, BlobsWarmed, PutSingle, StartChild, HeadChild,
                FetchChild, handlerVars
<1>3. ASSUME NEW q \in Request, IndexStep(q)
      PROVE  InHand'
    BY <1>3 DEF IndexStep, ChildrenWarmed, PutIndex, handlerVars
<1>4. CASE LateBlob \/ LatePut \/ Evict \/ Move \/ UNCHANGED vars \/ \E q \in Request : Cancel(q)
    BY <1>4 DEF LateBlob, LatePut, Evict, Move, Cancel, vars, handlerVars, warmVars
<1>5. CASE Restart
    BY <1>5 DEF Restart
<1>6. QED
    BY <1>1, <1>2, <1>3, <1>4, <1>5 DEF Next, GoesOn

\* The mirror starts well-typed, with no background warm.
LEMMA TypeInit == Init => TypeInv
<1> SUFFICES ASSUME Init PROVE TypeOK /\ InHand
    BY DEF TypeInv
<1>1. /\ task \in [Request -> [Single -> Task]]
      /\ fetching \in [Request -> SUBSET (Single \X Blob)]
      /\ fetched \in [Request -> SUBSET (Single \X Blob)]
      /\ blobErr \in [Request -> SUBSET Single]
    BY DEF Init, Task
<1>2. current \in 1 .. Len(Contents)
    <2>1. Len(Contents) \in Nat /\ Len(Contents) # 0
        BY MirrorWarmAssumption
    <2>2. QED
        BY <2>1 DEF Init
<1>3. QED
    BY <1>1, <1>2, MirrorWarmAssumption DEF Init, TypeOK, InHand

\* Every step keeps the types and leaves each index in hand.
LEMMA TypeStep == TypeInv /\ [Next]_vars => TypeInv'
<1> SUFFICES ASSUME TypeInv, [Next]_vars PROVE TypeOK'
    BY InHandStep DEF TypeInv
<1>1. CASE UNCHANGED vars
    BY <1>1 DEF TypeInv, TypeOK, vars, handlerVars, warmVars, writerVars, lateVars, faultVars
<1>2. QED
    BY <1>1, TypeHandler, TypeWarm, TypeOther, TypeAround DEF Next, GoesOn, TypeInv

\* Every reachable state of the mirror's cache and its warms is well-typed:
\* in particular, what a request serves and what is cached are manifests.
THEOREM TypeCorrect == Spec => []TypeOK
<1>1. TypeInv => TypeOK
    BY DEF TypeInv
<1>2. QED
    BY <1>1, TypeInit, TypeStep, PTL DEF Spec

-----------------------------------------------------------------------------
(* Blobs first.                                                            *)

\* Steps that touch neither the goroutines of the blobs nor their results.
LEMMA OrderFrame ==
    ASSUME OrderInv,
           UNCHANGED <<fetched, blobErr, blobs>>,
           \A q \in Request, m \in Single : task'[q][m] = "put" => task[q][m] = "put"
    PROVE  Fetched' /\ PutAfterBlobs'
    BY DEF OrderInv, Fetched, PutAfterBlobs

\* A warm that goes anywhere but to its PUT brings no image to a PUT.
LEMMA TaskElsewhere ==
    ASSUME TypeOK, NEW q \in Request, NEW m \in Single, NEW s \in Task \ {"put"}, TaskTo(q, m, s)
    PROVE  \A o \in Request, n \in Single : task'[o][n] = "put" => task[o][n] = "put"
    BY DEF TypeOK, TaskTo

\* The steps of a warm: an image goes to its PUT from warmBlobs only, with a
\* result for each of its blobs and no error.
LEMMA OrderWarm ==
    ASSUME OrderInv, NEW q \in Request, NEW m \in Single, WarmStep(q, m)
    PROVE  Fetched' /\ PutAfterBlobs'
<1> USE DEF OrderInv, TypeInv, TypeOK
<1>1. ASSUME NEW b \in BlobsOf[m], StartBlob(q, m, b)
      PROVE  Fetched' /\ PutAfterBlobs'
    BY <1>1, OrderFrame DEF StartBlob, writerVars
<1>2. ASSUME NEW b \in BlobsOf[m], WarmBlob(q, m, b)
      PROVE  Fetched' /\ PutAfterBlobs'
    <2>1. blobs \subseteq blobs' /\ task' = task
        BY <1>2 DEF WarmBlob
    <2>2. PutAfterBlobs'
        BY <2>1 DEF PutAfterBlobs
    <2>3. b \in blobs' \/ m \in blobErr'[q]
        BY <1>2 DEF WarmBlob
    <2>4. \A o \in Request : blobErr[o] \subseteq blobErr'[o]
        BY <1>2 DEF WarmBlob
    <2>5. \A o \in Request : fetched'[o] \subseteq fetched[o] \cup (IF o = q THEN {<<m, b>>} ELSE {})
        BY <1>2 DEF WarmBlob
    <2>6. QED
        BY <2>1, <2>2, <2>3, <2>4, <2>5 DEF Fetched
<1>3. CASE BlobsWarmed(q, m)
    <2>1. ~GivesUp(q, m) => BlobsOf[m] \subseteq blobs
        BY MirrorWarmAssumption DEF GivesUp, AllFetched, Fetched
    <2>2. \A o \in Request, n \in Single : task'[o][n] = "put" =>
             task[o][n] = "put" \/ (n = m /\ ~GivesUp(q, m))
        BY <1>3 DEF BlobsWarmed, TaskTo
    <2>3. UNCHANGED <<fetched, blobErr, blobs>>
        BY <1>3 DEF BlobsWarmed, writerVars
    <2>4. QED
        BY <2>1, <2>2, <2>3 DEF Fetched, PutAfterBlobs
<1>4. CASE PutSingle(q, m)
    BY <1>4, OrderFrame DEF PutSingle, TaskTo
<1>5. CASE StartChild(q, m)
    BY <1>5, OrderFrame DEF StartChild, TaskTo, writerVars
<1>6. CASE HeadChild(q, m)
    <2>1. (\E s \in {"done", "fetch"} : TaskTo(q, m, s)) /\ UNCHANGED <<fetched, blobErr, blobs>>
        BY <1>6 DEF HeadChild, writerVars
    <2>2. QED
        BY <2>1, TaskElsewhere, OrderFrame DEF Task
<1>7. CASE FetchChild(q, m)
    <2>1. (\E s \in {"blobs", "done"} : TaskTo(q, m, s)) /\ UNCHANGED <<fetched, blobErr, blobs>>
        BY <1>7 DEF FetchChild, writerVars
    <2>2. QED
        BY <2>1, TaskElsewhere, OrderFrame DEF Task
<1>8. QED
    BY <1>1, <1>2, <1>3, <1>4, <1>5, <1>6, <1>7 DEF WarmStep

\* The steps of the handlers, of the indexes and of the environment.
LEMMA OrderOther ==
    ASSUME OrderInv, NEW q \in Request, HandlerStep(q) \/ IndexStep(q) \/ Cancel(q)
    PROVE  Fetched' /\ PutAfterBlobs'
<1> USE DEF OrderInv, TypeInv, TypeOK
<1>1. CASE Fetch(q)
    BY <1>1, OrderFrame DEF Fetch, TaskTo, writerVars
<1>2. CASE Probe(q) \/ ServeHit(q) \/ FetchUnparsed(q) \/ FetchFails(q) \/ Respond(q)
    BY <1>2, OrderFrame DEF Probe, ServeHit, FetchUnparsed, FetchFails, Respond, warmVars, writerVars
<1>3. CASE ChildrenWarmed(q) \/ PutIndex(q) \/ Cancel(q)
    BY <1>3, OrderFrame DEF ChildrenWarmed, PutIndex, Cancel, warmVars, writerVars
<1>4. QED
    BY <1>1, <1>2, <1>3 DEF HandlerStep, IndexStep

\* Every step keeps the order.
LEMMA OrderStep == OrderInv /\ [Next]_vars => OrderInv'
<1> SUFFICES ASSUME OrderInv, [Next]_vars PROVE Fetched' /\ PutAfterBlobs'
    BY TypeStep DEF OrderInv
<1>1. CASE UNCHANGED vars
    BY <1>1, OrderFrame DEF vars, warmVars, writerVars
<1>2. CASE LatePut \/ Evict \/ Move
    BY <1>2, OrderFrame DEF LatePut, Evict, Move, warmVars, writerVars
<1>3. CASE Restart
    BY <1>3, OrderFrame DEF Restart
<1>4. CASE LateBlob
    <2>1. blobs \subseteq blobs' /\ UNCHANGED <<fetched, blobErr, task>>
        BY <1>4 DEF LateBlob, warmVars
    <2>2. QED
        BY <2>1 DEF OrderInv, Fetched, PutAfterBlobs
<1>5. QED
    BY <1>1, <1>2, <1>3, <1>4, OrderWarm, OrderOther DEF Next, GoesOn

\* An image is PUT only after all its blobs are in the writer, whichever of
\* the concurrent warms brought them and whatever failed on the way.
THEOREM BlobsFirst == Spec => []PutAfterBlobs
<1>1. Init => OrderInv
    BY TypeInit DEF OrderInv, Fetched, PutAfterBlobs, Init
<1>2. OrderInv => PutAfterBlobs
    BY DEF OrderInv
<1>3. QED
    BY <1>1, <1>2, OrderStep, PTL DEF Spec

-----------------------------------------------------------------------------
(* What the upstream had.                                                  *)

\* What was under the tag upstream up to now.
EverHad == UNION {Had(n) : n \in 1 .. current}

\* The tag of the cache is one of these, too, and what may still come under it.
ServeInv ==
    /\ TypeInv
    /\ tagged # NULL => tagged \in EverHad
    /\ \A p \in latePuts : p[2] => p[1] \in EverHad
    /\ \A q \in Request :
          body[q] # NULL => body[q] \in IF RefOf[q] = Tag THEN EverHad ELSE {RefOf[q]}

\* What a request is answered with, and what a tag is set to, keep the invariant.
LEMMA ServeKept ==
    ASSUME ServeInv, TypeInv', current' = current, NEW q \in Request,
           tagged' \in {tagged, NULL} \/ (tagged' = body[q] /\ RefOf[q] = Tag),
           \A p \in latePuts' :
              p \in latePuts \/ (p[2] => p[1] = body[q] /\ p[1] # NULL /\ RefOf[q] = Tag),
           \/ body' = body
           \/ \E m \in (IF RefOf[q] = Tag THEN EverHad ELSE {RefOf[q]}) \cup {NULL} :
                 body' = [body EXCEPT ![q] = m]
    PROVE  ServeInv'
<1>1. EverHad' = EverHad
    BY DEF EverHad, Had
<1>2. body \in [Request -> Manifest \cup {NULL}]
    BY DEF ServeInv, TypeInv, TypeOK
<1>3. QED
    BY <1>1, <1>2 DEF ServeInv

\* The upstream answers with what it has now.
LEMMA UpstreamHas ==
    ASSUME TypeOK, NEW q \in Request
    PROVE  Upstream(q) \in IF RefOf[q] = Tag THEN EverHad ELSE {RefOf[q]}
<1>1. current \in 1 .. current
    <2>1. Len(Contents) \in Nat
        BY MirrorWarmAssumption
    <2>2. QED
        BY <2>1 DEF TypeOK
<1>2. QED
    BY <1>1 DEF Upstream, EverHad, Had

\* The steps of the handlers.
LEMMA ServeHandler ==
    ASSUME ServeInv, TypeInv', NEW q \in Request, HandlerStep(q)
    PROVE  ServeInv'
<1> USE DEF ServeInv, TypeInv
<1>1. CASE Probe(q) \/ FetchFails(q) \/ Respond(q)
    BY <1>1, OutcomeIsTyped, ServeKept DEF Probe, FetchFails, Respond, writerVars, lateVars, faultVars
<1>2. CASE ServeHit(q)
    <2>1. Present(RefOf[q]) =>
             Digest(RefOf[q]) \in IF RefOf[q] = Tag THEN EverHad ELSE {RefOf[q]}
        BY DEF Present, Digest
    <2>2. current' = current /\ tagged' = tagged /\ latePuts' = latePuts
        BY <1>2, OutcomeIsTyped DEF ServeHit, writerVars, lateVars
    <2>3. QED
        BY <1>2, <2>1, <2>2, ServeKept DEF ServeHit
<1>3. CASE Fetch(q) \/ FetchUnparsed(q)
    <2>1. current' = current /\ tagged' = tagged /\ latePuts' = latePuts
        BY <1>3, OutcomeIsTyped DEF Fetch, FetchUnparsed, writerVars, lateVars
    <2>2. body' = [body EXCEPT ![q] = Upstream(q)]
        BY <1>3 DEF Fetch, FetchUnparsed
    <2>3. QED
        BY <2>1, <2>2, UpstreamHas, ServeKept
<1>4. QED
    BY <1>1, <1>2, <1>3 DEF HandlerStep

\* A PUT sets the tag to what its request serves, now or late, or leaves it.
LEMMA ServePut ==
    ASSUME ServeInv, TypeInv', NEW q \in Request, NEW m \in Manifest, Put(q, m), body' = body
    PROVE  ServeInv'
<1>1. current' = current
    BY OutcomeIsTyped DEF Put, ServeInv, TypeInv
<1>2. tagged' = tagged \/ (tagged' = body[q] /\ RefOf[q] = Tag)
    BY DEF Put, Retags
<1>3. m # NULL
    BY MirrorWarmAssumption
<1>4. latePuts' \in {latePuts, latePuts \cup {<<m, Retags(q, m)>>}}
    BY DEF Put
<1>5. ASSUME NEW p \in latePuts', p \notin latePuts, p[2]
      PROVE  p[1] = body[q] /\ p[1] # NULL /\ RefOf[q] = Tag
    <2>1. p = <<m, Retags(q, m)>>
        BY <1>4, <1>5
    <2>2. p[1] = m /\ Retags(q, m)
        BY <1>5, <2>1
    <2>3. QED
        BY <1>3, <2>2 DEF Retags
<1>6. QED
    BY <1>1, <1>2, <1>5, ServeKept

\* The steps of the warms, and a cancellation.
LEMMA ServeWarm ==
    ASSUME ServeInv, TypeInv', NEW q \in Request,
           IndexStep(q) \/ Cancel(q) \/ \E m \in Single : WarmStep(q, m)
    PROVE  ServeInv'
<1> USE DEF ServeInv, TypeInv
<1>1. CASE PutIndex(q)
    <2>1. body[q] \in Manifest
        BY <1>1 DEF PutIndex, InHand, Manifest
    <2>2. QED
        BY <1>1, <2>1, ServePut DEF PutIndex, handlerVars
<1>2. ASSUME NEW m \in Single, PutSingle(q, m)
      PROVE  ServeInv'
    BY <1>2, ServePut DEF PutSingle, handlerVars, Manifest
<1>3. ASSUME body' = body, tagged' = tagged, latePuts' = latePuts, current' = current
      PROVE  ServeInv'
    BY <1>3, ServeKept
<1>4. CASE ChildrenWarmed(q) \/ Cancel(q)
    BY <1>3, <1>4 DEF ChildrenWarmed, Cancel, handlerVars, writerVars, lateVars, faultVars
<1>5. ASSUME NEW m \in Single, NEW b,
             StartBlob(q, m, b) \/ WarmBlob(q, m, b) \/ BlobsWarmed(q, m)
             \/ StartChild(q, m) \/ HeadChild(q, m) \/ FetchChild(q, m)
      PROVE  ServeInv'
    BY <1>3, <1>5, OutcomeIsTyped
    DEF StartBlob, WarmBlob, BlobsWarmed, StartChild, HeadChild, FetchChild, handlerVars, writerVars,
        lateVars, faultVars
<1>6. QED
    BY <1>1, <1>2, <1>4, <1>5 DEF IndexStep, WarmStep

\* What a request is in the middle of putting under the tag, it serves.
LEMMA ServeUnderWay ==
    ASSUME ServeInv, NEW q \in Request, NEW p \in UnderWay(q), p[2]
    PROVE  p[1] \in EverHad
<1>1. PICK m \in Manifest : p = <<m, Retags(q, m)>>
    BY DEF UnderWay, ServeInv, TypeInv, InHand, Manifest
<1>2. m # NULL /\ body[q] = m /\ RefOf[q] = Tag
    BY <1>1, MirrorWarmAssumption DEF Retags
<1>3. QED
    BY <1>1, <1>2 DEF ServeInv

\* What the writer does late, the reaper, a tag that moves, and a restart.
LEMMA ServeAround ==
    ASSUME ServeInv, TypeInv', LateBlob \/ LatePut \/ Evict \/ Move \/ Restart \/ UNCHANGED vars
    PROVE  ServeInv'
<1>1. current \in Nat /\ current' \in Nat /\ current <= current'
    <2>1. Len(Contents) \in Nat
        BY MirrorWarmAssumption
    <2>2. current \in Nat
        BY <2>1 DEF ServeInv, TypeInv, TypeOK
    <2>3. QED
        BY <2>2 DEF LateBlob, LatePut, Evict, Move, Restart, vars, faultVars
<1>2. EverHad \subseteq EverHad'
    BY <1>1 DEF EverHad, Had
<1>3. \A q \in Request : body'[q] \in {body[q], NULL}
    BY DEF LateBlob, LatePut, Evict, Move, Restart, vars, handlerVars
<1>4. tagged' \in {tagged, NULL} \/ \E p \in latePuts : p[2] /\ tagged' = p[1]
    BY DEF LateBlob, LatePut, Evict, Move, Restart, vars, writerVars
<1>5. \A p \in latePuts' : p \in latePuts \/ \E q \in Request : p \in UnderWay(q)
    <2>1. CASE Restart
        BY <2>1 DEF Restart
    <2>2. CASE ~Restart
        BY <2>2 DEF LateBlob, LatePut, Evict, Move, vars, writerVars, lateVars
    <2>3. QED
        BY <2>1, <2>2
<1>6. \A p \in latePuts' : p[2] => p[1] \in EverHad
    BY <1>5, ServeUnderWay DEF ServeInv
<1>7. QED
    BY <1>2, <1>3, <1>4, <1>6 DEF ServeInv

\* Whoever asks for the tag is served what the upstream had under it
\* (ServesWhatUpstreamHad).
THEOREM ServedAsUpstream == Spec => []ServesWhatUpstreamHad
<1>1. Init => ServeInv
    BY TypeInit DEF Init, ServeInv
<1>2. ServeInv /\ [Next]_vars => ServeInv'
    <2> SUFFICES ASSUME ServeInv, [Next]_vars PROVE ServeInv'
        OBVIOUS
    <2>1. TypeInv'
        BY TypeStep DEF ServeInv
    <2>2. QED
        BY <2>1, ServeHandler, ServeWarm, ServeAround DEF Next, GoesOn
<1>3. ServeInv => ServesWhatUpstreamHad
    BY DEF ServeInv, ServesWhatUpstreamHad, EverHad
<1>4. QED
    BY <1>1, <1>2, <1>3, PTL DEF Spec

-----------------------------------------------------------------------------
(* What was served is cached.                                              *)

InCache(q) == body[q] \in manifests /\ (RefOf[q] = Tag => tagged # NULL)

\* q has its answer, or waits for nothing any more.
Settled(q) == pc[q] = "done" \/ (pc[q] = "warm" /\ task[q][body[q]] = "done")

\* What q relies on: without trouble no error and no cancellation, with a hit
\* what it hit, with an image in hand a warm that goes on, and in the end the
\* image in the cache.
Relies(q) ==
    /\ q \notin trouble => ~cancelled[q] /\ blobErr[q] = {}
    /\ pc[q] = "warm" => body[q] \in Single /\ task[q][body[q]] \in {"blobs", "put", "done"}
    /\ pc[q] = "hit" /\ evictions = 0 => Present(RefOf[q])
    /\ Settled(q) /\ body[q] \in Single /\ q \notin trouble /\ evictions = 0 => InCache(q)

\* The tag points to what is cached, until the reaper deletes something.
TagCached == tagged # NULL /\ evictions = 0 => tagged \in manifests

WarmInv == OrderInv /\ TagCached /\ \A q \in Request : Relies(q)

\* Steps that only add to the writer, or that the properties except.
Adds ==
    \/ /\ manifests \subseteq manifests' /\ evictions' = evictions
       /\ tagged' = tagged \/ (tagged' # NULL /\ tagged' \in manifests')
    \/ evictions' # 0

\* Nothing happens to q.
Untouched(q) ==
    /\ pc'[q] = pc[q] /\ body'[q] = body[q] /\ task'[q] = task[q]
    /\ cancelled'[q] = cancelled[q] /\ blobErr'[q] = blobErr[q]

\* More in the writer takes nothing away from a request that nothing happens to.
LEMMA ReliesStill ==
    ASSUME WarmInv, Adds, trouble \subseteq trouble', NEW q \in Request, Untouched(q)
    PROVE  Relies(q)'
    BY DEF WarmInv, Relies, Adds, Untouched, Settled, InCache, Present

\* The step of one request.
LEMMA OneRelies ==
    ASSUME WarmInv, OrderInv', Adds, trouble \subseteq trouble', NEW q \in Request,
           \A o \in Request \ {q} : Untouched(o), Relies(q)'
    PROVE  WarmInv'
<1>1. \A o \in Request : Relies(o)'
    BY ReliesStill
<1>2. TagCached'
    BY DEF WarmInv, TagCached, Adds
<1>3. QED
    BY <1>1, <1>2 DEF WarmInv

\* A call that ends well troubles nobody, any other one its own request.
LEMMA OutcomeTroubles ==
    ASSUME NEW q \in Request, Succeeds(q) \/ Fails(q)
    PROVE  /\ trouble \subseteq trouble' /\ cancelled' = cancelled
           /\ q \notin trouble' => Succeeds(q) /\ q \notin trouble
    BY DEF Succeeds, Fails, faultVars

\* The handler: a hit is served from the cache, an image that is fetched waits
\* for its warm.
LEMMA WarmHandler ==
    ASSUME WarmInv, OrderInv', NEW q \in Request, HandlerStep(q)
    PROVE  WarmInv'
<1> USE DEF WarmInv, OrderInv, TypeInv, TypeOK
<1>1. Adds /\ blobErr' = blobErr /\ fetched' = fetched
    BY DEF HandlerStep, Probe, ServeHit, Fetch, FetchFails, FetchUnparsed, Respond, Adds,
           warmVars, writerVars
<1>2. trouble \subseteq trouble' /\ cancelled' = cancelled
    BY OutcomeTroubles
    DEF HandlerStep, Probe, ServeHit, Fetch, FetchFails, FetchUnparsed, Respond, faultVars
<1>3. \A o \in Request \ {q} : Untouched(o)
    BY <1>1, <1>2
    DEF HandlerStep, Probe, ServeHit, Fetch, FetchFails, FetchUnparsed, Respond, TaskTo,
        warmVars, Untouched
<1>4. Relies(q)'
    <2>1. q \notin trouble' => ~cancelled'[q] /\ blobErr'[q] = {}
        BY <1>1, <1>2 DEF Relies
    <2>2. CASE Probe(q)
        <3>1. pc'[q] = "fetch" \/ (pc'[q] = "hit" /\ Present(RefOf[q]))
            BY <2>2 DEF Probe
        <3>2. UNCHANGED <<manifests, tagged>>
            BY <2>2 DEF Probe, writerVars
        <3>3. QED
            BY <2>1, <3>1, <3>2 DEF Relies, Settled, Present
    <2>3. CASE ServeHit(q)
        <3>1. pc'[q] = "done" /\ UNCHANGED <<manifests, tagged, evictions>>
            BY <2>3 DEF ServeHit, writerVars
        <3>2. ASSUME q \notin trouble', evictions = 0
              PROVE  InCache(q)'
            <4>1. Succeeds(q) /\ Present(RefOf[q])
                BY <2>3, <3>2, OutcomeTroubles DEF ServeHit, Relies
            <4>2. body'[q] = Digest(RefOf[q])
                BY <2>3, <3>2, <4>1 DEF ServeHit, Fails
            <4>3. QED
                BY <3>1, <3>2, <4>1, <4>2 DEF Present, Digest, InCache, TagCached
        <3>3. QED
            BY <2>1, <3>1, <3>2 DEF Relies
    <2>4. CASE Fetch(q)
        <3>1. Upstream(q) \in Manifest
            BY UpstreamIsTyped
        <3>2. CASE Upstream(q) \in Index
            BY <2>1, <2>4, <3>2, MirrorWarmAssumption DEF Fetch, AfterFetch, Relies
        <3>3. CASE Upstream(q) \in Single \ Index
            <4>1. body'[q] = Upstream(q) /\ pc'[q] = "warm" /\ task'[q][Upstream(q)] = "blobs"
                BY <2>4, <3>3 DEF Fetch, AfterFetch, TaskTo
            <4>2. QED
                BY <2>1, <3>3, <4>1 DEF Relies, Settled
        <3>4. QED
            BY <3>1, <3>2, <3>3 DEF Manifest
    <2>5. CASE FetchFails(q) \/ FetchUnparsed(q)
        BY <2>1, <2>5 DEF FetchFails, FetchUnparsed, Fails, Relies
    <2>6. CASE Respond(q)
        <3>1. pc'[q] = "done" /\ Settled(q)
              /\ UNCHANGED <<body, manifests, tagged, evictions, trouble>>
            BY <2>6 DEF Respond, Settled, writerVars, faultVars
        <3>2. QED
            BY <2>1, <3>1 DEF Relies, InCache
    <2>7. QED
        BY <2>2, <2>3, <2>4, <2>5, <2>6 DEF HandlerStep
<1>5. QED
    BY <1>1, <1>2, <1>3, <1>4, OneRelies

\* A PUT adds what it PUTs, under a reference that is in the cache then.
LEMMA PutAdds ==
    ASSUME NEW q \in Request, NEW m \in Manifest, Put(q, m), evictions' = evictions
    PROVE  Adds /\ trouble \subseteq trouble' /\ cancelled' = cancelled
<1>1. m # NULL
    BY MirrorWarmAssumption
<1>2. Succeeds(q) \/ Fails(q)
    BY DEF Put
<1>3. QED
    BY <1>1, <1>2, OutcomeTroubles DEF Put, Adds

\* The warm of an image without trouble reaches its PUT, with all its blobs.
LEMMA WarmImage ==
    ASSUME WarmInv, OrderInv', NEW q \in Request, NEW m \in Single, WarmStep(q, m)
    PROVE  WarmInv'
<1> USE DEF WarmInv, OrderInv, TypeInv, TypeOK
<1>1. ASSUME NEW b \in BlobsOf[m], StartBlob(q, m, b)
      PROVE  WarmInv'
    <2>1. Adds /\ trouble' = trouble /\ \A o \in Request : Untouched(o)
        BY <1>1 DEF StartBlob, Adds, Untouched, handlerVars, writerVars, faultVars
    <2>2. QED
        BY <2>1, ReliesStill, OneRelies
<1>2. ASSUME NEW b \in BlobsOf[m], WarmBlob(q, m, b)
      PROVE  WarmInv'
    <2>1. /\ Adds /\ UNCHANGED <<pc, body, task, manifests, tagged, evictions>>
          /\ \A o \in Request \ {q} : blobErr'[o] = blobErr[o]
          /\ Fails(q) \/ blobErr' = blobErr
        BY <1>2 DEF WarmBlob, Adds, handlerVars
    <2>2. /\ trouble \subseteq trouble' /\ cancelled' = cancelled
          /\ q \notin trouble' => Succeeds(q) /\ q \notin trouble
        <3>1. Succeeds(q) \/ Fails(q)
            BY <1>2 DEF WarmBlob
        <3>2. QED
            BY <3>1, OutcomeTroubles
    <2>3. Fails(q) => q \in trouble'
        BY DEF Fails
    <2>4. Relies(q)'
        BY <2>1, <2>2, <2>3 DEF Relies, Settled, InCache, Present
    <2>5. QED
        BY <2>1, <2>2, <2>4, OneRelies DEF Untouched
<1>3. CASE BlobsWarmed(q, m)
    <2>1. /\ Adds /\ UNCHANGED <<pc, body, blobErr, cancelled, trouble, manifests, tagged, evictions>>
          /\ \A o \in Request \ {q} : Untouched(o)
        BY <1>3 DEF BlobsWarmed, TaskTo, Adds, Untouched, handlerVars, writerVars, faultVars
    <2>2. /\ task'[q][m] = IF GivesUp(q, m) THEN "done" ELSE "put"
          /\ \A n \in Single \ {m} : task'[q][n] = task[q][n]
        BY <1>3 DEF BlobsWarmed, TaskTo
    <2>3. q \notin trouble => ~GivesUp(q, m)
        BY <1>3 DEF BlobsWarmed, GivesUp, Relies
    <2>4. Relies(q)'
        BY <2>1, <2>2, <2>3 DEF Relies, Settled, InCache, Present
    <2>5. QED
        BY <2>1, <2>4, OneRelies
<1>4. CASE PutSingle(q, m)
    <2>1. /\ UNCHANGED <<pc, body, blobErr, evictions>> /\ Put(q, m)
          /\ task'[q][m] = "done"
          /\ \A n \in Single \ {m} : task'[q][n] = task[q][n]
          /\ \A o \in Request \ {q} : task'[o] = task[o]
        BY <1>4 DEF PutSingle, TaskTo, handlerVars
    <2>2. Adds /\ trouble \subseteq trouble' /\ cancelled' = cancelled
        BY <2>1, PutAdds DEF Manifest
    <2>3. Accepted(m)
        BY <1>4, MirrorWarmAssumption DEF PutSingle, PutAfterBlobs, Accepted
    <2>4. ASSUME q \notin trouble', body[q] = m
          PROVE  InCache(q)'
        <3>1. m # NULL
            BY MirrorWarmAssumption DEF Manifest
        <3>2. manifests' = manifests \cup {m} /\ tagged' = IF RefOf[q] = Tag THEN m ELSE tagged
            BY <2>1, <2>3, <2>4 DEF Put, Fails, Retags
        <3>3. QED
            BY <2>1, <2>4, <3>1, <3>2 DEF InCache
    <2>5. Relies(q)'
        <3>1. ASSUME q \notin trouble'
              PROVE  ~cancelled'[q] /\ blobErr'[q] = {}
            BY <2>1, <2>2, <3>1 DEF Relies
        <3>2. ASSUME pc'[q] = "warm"
              PROVE  body'[q] \in Single /\ task'[q][body'[q]] \in {"blobs", "put", "done"}
            BY <2>1, <3>2 DEF Relies
        <3>3. ASSUME pc'[q] = "hit", evictions' = 0
              PROVE  Present(RefOf[q])'
            BY <2>1, <2>2, <3>3 DEF Relies, Present, Adds
        <3>4. ASSUME Settled(q)', body'[q] \in Single, q \notin trouble', evictions' = 0
              PROVE  InCache(q)'
            <4>1. CASE body[q] = m
                BY <2>4, <3>4, <4>1
            <4>2. CASE body[q] # m
                BY <2>1, <2>2, <3>4, <4>2 DEF Relies, Settled, InCache, Adds
            <4>3. QED
                BY <4>1, <4>2
        <3>5. QED
            BY <3>1, <3>2, <3>3, <3>4 DEF Relies
    <2>6. QED
        BY <2>1, <2>2, <2>5, OneRelies DEF Untouched
<1>5. CASE StartChild(q, m) \/ HeadChild(q, m) \/ FetchChild(q, m)
    <2>1. /\ Adds /\ UNCHANGED <<pc, body, blobErr, manifests, tagged, evictions>>
          /\ task[q][m] \in {"todo", "head", "fetch"}
          /\ \E s \in {"head", "fetch", "blobs", "done"} : TaskTo(q, m, s)
        BY <1>5 DEF StartChild, HeadChild, FetchChild, Adds, handlerVars, writerVars
    <2>2. trouble \subseteq trouble' /\ cancelled' = cancelled
        BY <1>5, OutcomeTroubles DEF StartChild, HeadChild, FetchChild, faultVars
    <2>3. /\ \A n \in Single \ {m} : task'[q][n] = task[q][n]
          /\ \A o \in Request \ {q} : task'[o] = task[o]
        BY <2>1 DEF TaskTo
    <2>4. Relies(q)'
        BY <2>1, <2>2, <2>3 DEF Relies, Settled, InCache, Present
    <2>5. QED
        BY <2>1, <2>2, <2>3, <2>4, OneRelies DEF Untouched
<1>6. QED
    BY <1>1, <1>2, <1>3, <1>4, <1>5 DEF WarmStep

\* The end of the warm of an index, a cancellation, a restart, what the writer
\* does late, the reaper, the upstream.
LEMMA WarmAround ==
    ASSUME WarmInv, OrderInv',
           \/ \E q \in Request : IndexStep(q) \/ Cancel(q)
           \/ LateBlob \/ LatePut \/ Evict \/ Move \/ Restart \/ UNCHANGED vars
    PROVE  WarmInv'
<1> USE DEF WarmInv, OrderInv, TypeInv, TypeOK
<1>1. ASSUME NEW q \in Request, ChildrenWarmed(q)
      PROVE  WarmInv'
    <2>1. Adds /\ trouble' = trouble /\ \A o \in Request : Untouched(o)
        BY <1>1 DEF ChildrenWarmed, Adds, Untouched, handlerVars, writerVars, faultVars
    <2>2. QED
        BY <2>1, ReliesStill, OneRelies
<1>2. ASSUME NEW q \in Request, PutIndex(q)
      PROVE  WarmInv'
    <2>1. body[q] \in Manifest
        BY <1>2 DEF PutIndex, InHand, Manifest
    <2>2. Adds /\ trouble \subseteq trouble' /\ cancelled' = cancelled
        BY <1>2, <2>1, PutAdds DEF PutIndex
    <2>3. \A o \in Request : Untouched(o)
        BY <1>2, <2>2 DEF PutIndex, Untouched, handlerVars
    <2>4. QED
        BY <2>2, <2>3, ReliesStill, OneRelies
<1>3. ASSUME NEW q \in Request, Cancel(q)
      PROVE  WarmInv'
    <2>1. /\ Adds /\ trouble' = trouble \cup {q} /\ UNCHANGED <<pc, body, task, blobErr>>
          /\ \A o \in Request \ {q} : Untouched(o)
        BY <1>3 DEF Cancel, Adds, Untouched, handlerVars, warmVars, writerVars
    <2>2. UNCHANGED <<manifests, tagged, evictions>>
        BY <1>3 DEF Cancel, writerVars
    <2>3. Relies(q)'
        BY <2>1, <2>2 DEF Relies, Settled, InCache, Present
    <2>4. QED
        BY <2>1, <2>3, OneRelies
<1>4. CASE Evict
    <2>1. evictions' # 0
        BY <1>4, MirrorWarmAssumption DEF Evict
    <2>2. trouble' = trouble /\ \A o \in Request : Untouched(o)
        BY <1>4 DEF Evict, Untouched, handlerVars, warmVars, faultVars
    <2>3. QED
        BY <2>1, <2>2, ReliesStill DEF Adds, TagCached
<1>5. CASE Move \/ UNCHANGED vars
    <2>1. /\ UNCHANGED <<manifests, tagged, evictions, trouble>>
          /\ \A o \in Request : Untouched(o)
        BY <1>5 DEF Move, vars, Untouched, handlerVars, warmVars, writerVars, faultVars
    <2>2. QED
        BY <2>1, ReliesStill DEF Adds, TagCached
<1>6. CASE Restart
    <2>1. /\ Adds /\ trouble \subseteq trouble'
          /\ UNCHANGED <<manifests, tagged, evictions, cancelled, blobErr>>
        BY <1>6 DEF Restart, Adds, writerVars
    <2>2. ASSUME NEW q \in Request
          PROVE  Untouched(q) \/ (q \in trouble' /\ pc'[q] = "done")
        BY <1>6, <2>1 DEF Restart, Running, Untouched
    <2>3. \A q \in Request : Relies(q)'
        BY <2>1, <2>2, ReliesStill DEF Relies
    <2>4. QED
        BY <2>1, <2>3 DEF TagCached
<1>7. CASE LateBlob \/ LatePut
    <2>1. \A p \in latePuts : p[1] # NULL
        BY MirrorWarmAssumption
    <2>2. Adds
        BY <1>7, <2>1 DEF LateBlob, LatePut, Adds
    <2>3. trouble' = trouble /\ \A q \in Request : Untouched(q)
        BY <1>7 DEF LateBlob, LatePut, Untouched, handlerVars, warmVars, faultVars
    <2>4. \A q \in Request : Relies(q)'
        BY <2>2, <2>3, ReliesStill
    <2>5. QED
        BY <2>2, <2>4 DEF TagCached, Adds
<1>8. QED
    BY <1>1, <1>2, <1>3, <1>4, <1>5, <1>6, <1>7 DEF IndexStep

\* A client that got an image finds it in the cache, under the tag too, whatever
\* happened to other requests (WarmedWhenServed).
THEOREM ServedIsWarmed == Spec => []WarmedWhenServed
<1>1. Init => WarmInv
    BY TypeInit
    DEF Init, WarmInv, OrderInv, Fetched, PutAfterBlobs, TagCached, Relies, Settled
<1>2. WarmInv /\ [Next]_vars => WarmInv'
    <2> SUFFICES ASSUME WarmInv, [Next]_vars PROVE WarmInv'
        OBVIOUS
    <2>1. OrderInv'
        BY OrderStep DEF WarmInv
    <2>2. QED
        BY <2>1, WarmHandler, WarmImage, WarmAround DEF Next, GoesOn
<1>3. WarmInv => WarmedWhenServed
    BY DEF WarmInv, Relies, Settled, InCache, WarmedWhenServed
<1>4. QED
    BY <1>1, <1>2, <1>3, PTL DEF Spec
=============================================================================
