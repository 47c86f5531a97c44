--------------------------- MODULE BlobTeeProofs ---------------------------
(***************************************************************************)
(* What BlobTee guarantees for every number of requests and of chunks: its *)
(* types, the whole body for a client whose writer fails but does not hang,*)
(* and the cached blob of a pull that nobody failed.                       *)
(***************************************************************************)
EXTENDS BlobTee, TLAPS

\* Where a request is when its copier runs the tee.
Streaming == {"read", "tee", "send", "close", "await"}

\* What the position of the copier says of its counters, and of an uploader
\* that is not started before there is a body to upload.
Position(q) ==
    /\ pc[q] \in {"probe", "open", "fetch"} =>
         /\ up[q] = "none" /\ read[q] = 0 /\ got[q] = 0 /\ cacheGot[q] = 0
         /\ pipeClosed[q] = {} /\ ~expired[q] /\ via[q] = "none"
    /\ pc[q] \in Streaming => up[q] # "none"
    /\ pc[q] = "done" => up[q] \in {"none", "ok", "failed"}
    /\ pc[q] = "read" => got[q] = read[q] /\ cacheGot[q] <= got[q]
    /\ pc[q] \in {"tee", "send"} => read[q] = got[q] + 1
    /\ pc[q] = "tee" => cacheGot[q] <= got[q]
    /\ pc[q] = "send" => cacheGot[q] <= got[q] + 1
    /\ pc[q] \in {"probe", "open", "fetch", "read", "tee", "send", "close"}
         => "writer" \notin pipeClosed[q]

\* The copier of a GET stops early only for the upstream or the client.
StopsForReason(q) ==
    /\ stuck[q] => "wedge" \in trouble[q]
    /\ expired[q] => ~(trouble[q] \subseteq {"writer"})
    /\ (pc[q] \in {"close", "await"} \/ Served(q)) /\ trouble[q] \subseteq {"writer"}
         => got[q] = N

\* Without trouble the upload keeps up with the copy and does not fail.
UploadKeepsUp(q) ==
    /\ stuck[q] => trouble[q] # {}
    /\ up[q] = "ok" => stored
    /\ expired[q] => trouble[q] # {}
    /\ trouble[q] = {} =>
         /\ up[q] # "failed" /\ "reader" \notin pipeClosed[q]
         /\ pc[q] \in {"read", "tee"} => cacheGot[q] = got[q]
         /\ pc[q] = "send" => cacheGot[q] = got[q] + 1
         /\ pc[q] \in {"close", "await"} \/ Served(q) => cacheGot[q] = N
         /\ Served(q) => up[q] = "ok"

Shape == TypeOK /\ \A q \in Request : Position(q)

-----------------------------------------------------------------------------
(* Types and positions.                                                    *)

\* The initial state has the types and the positions.
LEMMA ShapeInit == Init => Shape
<1> SUFFICES ASSUME Init PROVE Shape
    OBVIOUS
<1>1. TypeOK
    <2>1. 0 \in 0 .. N
        BY BlobTeeAssumption
    <2>2. pipeClosed \in [Request -> SUBSET {"reader", "writer"}]
        BY DEF Init
    <2>3. trouble \in [Request -> SUBSET {"writer", "wedge", "upstream", "client"}]
        BY DEF Init
    <2>4. expired \in [Request -> BOOLEAN] /\ stuck \in [Request -> BOOLEAN] /\ stored \in BOOLEAN
        BY DEF Init
    <2>5. QED
        BY <2>1, <2>2, <2>3, <2>4 DEF Init, TypeOK, PC
<1>2. ASSUME NEW q \in Request PROVE Position(q)
    <2>1. pc[q] = "probe" /\ up[q] = "none" /\ read[q] = 0 /\ got[q] = 0 /\ cacheGot[q] = 0
        BY DEF Init
    <2>2. pipeClosed[q] = {} /\ expired[q] = FALSE /\ via[q] = "none"
        BY DEF Init
    <2>3. QED
        BY <2>1, <2>2 DEF Position, Streaming
<1>3. QED
    BY <1>1, <1>2 DEF Shape

\* The steps of the copier keep them.
LEMMA ShapeCopier ==
    ASSUME Shape, NEW q \in Request, CopierStep(q)
    PROVE  Shape'
<1> USE BlobTeeAssumption DEF Shape, TypeOK, Position, PC, Streaming, Goto, Hit, Cancelled, Fine,
        Blame, uploaderVars, copierVars
<1>1. CASE Probe(q)
    BY <1>1 DEF Probe
<1>2. CASE Fetch(q)
    BY <1>2 DEF Fetch
<1>3. CASE Open(q)
    BY <1>3 DEF Open
<1>4. CASE OpenFails(q)
    BY <1>4 DEF OpenFails
<1>5. CASE Read(q)
    BY <1>5 DEF Read, More
<1>6. CASE ReadEnds(q)
    BY <1>6 DEF ReadEnds, More
<1>7. CASE Transfer(q)
    BY <1>7 DEF Transfer
<1>8. CASE CacheBroken(q)
    BY <1>8 DEF CacheBroken, AfterCacheError
<1>9. CASE Send(q)
    BY <1>9 DEF Send
<1>10. CASE ClosePipe(q)
    BY <1>10 DEF ClosePipe
<1>11. CASE AwaitUpload(q)
    BY <1>11 DEF AwaitUpload, Answered
<1>12. QED
    BY <1>1, <1>2, <1>3, <1>4, <1>5, <1>6, <1>7, <1>8, <1>9, <1>10, <1>11 DEF CopierStep

\* The steps of the uploader and of the environment keep them.
LEMMA ShapeUploader ==
    ASSUME Shape, NEW q \in Request, UploaderStep(q)
    PROVE  Shape'
<1> USE DEF Shape, TypeOK, Position, PC, Streaming, copierVars
<1>1. CASE UploadInit(q)
    BY <1>1 DEF UploadInit
<1>2. CASE UploadPatch(q)
    BY <1>2 DEF UploadPatch
<1>3. CASE UploadFinalize(q)
    BY <1>3 DEF UploadFinalize
<1>4. CASE UploadGivesUp(q)
    BY <1>4 DEF UploadGivesUp, UploadFailed, Cancelled, ClosedByFailure
<1>5. QED
    BY <1>1, <1>2, <1>3, <1>4 DEF UploaderStep

\* The client's and the writer's faults keep them, and so does the deadline of a call.
LEMMA ShapeEnvironment ==
    ASSUME Shape, NEW q \in Request, Environment(q)
    PROVE  Shape'
<1> USE DEF Shape, TypeOK, Position, PC, Streaming, Blame, Hit, uploaderVars, copierVars
<1>1. CASE WriterWedges(q)
    BY <1>1 DEF WriterWedges
<1>2. CASE UpstreamExpires(q)
    BY <1>2 DEF UpstreamExpires
<1>3. CASE ClientDisconnects(q)
    BY <1>3 DEF ClientDisconnects
<1>4. CASE UploadRefused(q)
    BY <1>4 DEF UploadRefused, UploadFailed, ClosedByFailure
<1>5. QED
    BY <1>1, <1>2, <1>3, <1>4 DEF Environment

\* No step breaks the types or the positions.
LEMMA ShapeStep == Shape /\ [Next]_vars => Shape'
<1>1. CASE UNCHANGED vars
    BY <1>1 DEF vars, copierVars, uploaderVars, Shape, TypeOK, Position, Served
<1>2. QED
    BY <1>1, ShapeCopier, ShapeUploader, ShapeEnvironment DEF Next

\* Every reachable state is well-typed: no chunk is counted beyond the last,
\* on the way to the client or to the cache.
THEOREM TypeCorrect == Spec => []TypeOK
<1>1. Shape => TypeOK
    BY DEF Shape
<1>2. QED
    BY <1>1, ShapeInit, ShapeStep, PTL DEF Spec

-----------------------------------------------------------------------------
(* The client's body.                                                      *)

\* Nothing but the upstream, the client and a writer that hangs can keep the
\* copier from reading and sending it all.
Whole == Shape /\ \A q \in Request : StopsForReason(q)

\* At first nothing has been sent.
LEMMA WholeInit == Init => Whole
<1> SUFFICES ASSUME Init, NEW q \in Request PROVE StopsForReason(q)
    BY ShapeInit DEF Whole
<1>1. pc[q] = "probe" /\ expired[q] = FALSE /\ stuck[q] = FALSE
    BY DEF Init
<1>2. QED
    BY <1>1 DEF StopsForReason, Served

\* The steps of the copier send the body chunk by chunk, in order.
LEMMA WholeCopier ==
    ASSUME Whole, NEW q \in Request, CopierStep(q)
    PROVE  \A o \in Request : StopsForReason(o)'
<1> USE BlobTeeAssumption DEF Whole, Shape, TypeOK, Position, StopsForReason, Served, PC, Streaming,
        Goto, Hit, Cancelled, Fine, Gone, Blame, uploaderVars, copierVars
<1>1. CASE Probe(q)
    BY <1>1 DEF Probe
<1>2. CASE Fetch(q)
    BY <1>2 DEF Fetch
<1>3. CASE Open(q)
    BY <1>3 DEF Open
<1>4. CASE OpenFails(q)
    BY <1>4 DEF OpenFails
<1>5. CASE Read(q)
    BY <1>5 DEF Read, More
<1>6. CASE ReadEnds(q)
    <2>1. /\ pc' = [pc EXCEPT ![q] = "close"]
          /\ UNCHANGED <<via, read, got, expired, up, stuck, cacheGot, pipeClosed, stored>>
        BY <1>6 DEF ReadEnds
    <2>2. CASE UNCHANGED trouble /\ (read[q] = N \/ expired[q] \/ "client" \in trouble[q])
        BY <2>1, <2>2, <1>6 DEF ReadEnds
    <2>3. CASE trouble' = [trouble EXCEPT ![q] = @ \cup {"upstream"}]
        <3>1. "upstream" \in trouble'[q] /\ \A o \in Request \ {q} : trouble'[o] = trouble[o]
            BY <2>3
        <3>2. stuck[q] => "wedge" \in trouble'[q]
            BY <2>3
        <3>3. QED
            BY <2>1, <3>1, <3>2
    <2>4. QED
        BY <1>6, <2>2, <2>3 DEF ReadEnds, More
<1>7. CASE Transfer(q)
    BY <1>7 DEF Transfer
<1>8. CASE CacheBroken(q)
    BY <1>8 DEF CacheBroken, AfterCacheError
<1>9. CASE Send(q)
    BY <1>9 DEF Send
<1>10. CASE ClosePipe(q)
    BY <1>10 DEF ClosePipe
<1>11. CASE AwaitUpload(q)
    BY <1>11 DEF AwaitUpload, Answered
<1>12. QED
    BY <1>1, <1>2, <1>3, <1>4, <1>5, <1>6, <1>7, <1>8, <1>9, <1>10, <1>11 DEF CopierStep

\* What the uploader, the writer and the client do does not change what was sent.
LEMMA WholeOther ==
    ASSUME Whole, NEW q \in Request, UploaderStep(q) \/ Environment(q)
    PROVE  \A o \in Request : StopsForReason(o)'
<1> USE BlobTeeAssumption DEF Whole, Shape, TypeOK, Position, StopsForReason, Served,
        Hit, Cancelled, Gone, Blame, uploaderVars, copierVars
<1>1. CASE UploadInit(q)
    BY <1>1 DEF UploadInit
<1>2. CASE UploadPatch(q)
    BY <1>2 DEF UploadPatch
<1>3. CASE UploadFinalize(q)
    BY <1>3 DEF UploadFinalize
<1>4. CASE UploadGivesUp(q) \/ UploadRefused(q)
    BY <1>4 DEF UploadGivesUp, UploadRefused, UploadFailed
<1>5. CASE WriterWedges(q)
    BY <1>5 DEF WriterWedges
<1>6. CASE UpstreamExpires(q)
    BY <1>6 DEF UpstreamExpires
<1>7. CASE ClientDisconnects(q)
    BY <1>7 DEF ClientDisconnects
<1>8. QED
    BY <1>1, <1>2, <1>3, <1>4, <1>5, <1>6, <1>7 DEF UploaderStep, Environment

\* A writer that answers, with errors or without, never costs a client a part
\* of the body, for any number of requests and of chunks.
THEOREM WholeBodyServed == Spec => []BodyWhole
<1>1. Whole /\ [Next]_vars => Whole'
    <2>1. CASE UNCHANGED vars
        BY <2>1, ShapeStep DEF vars, copierVars, uploaderVars, Whole, StopsForReason, Served
    <2>2. CASE Next
        BY <2>2, ShapeStep, WholeCopier, WholeOther DEF Next, Whole
    <2>3. QED
        BY <2>1, <2>2
<1>2. Whole => BodyWhole
    BY DEF Whole, StopsForReason, BodyWhole
<1>3. QED
    BY <1>1, <1>2, WholeInit, PTL DEF Spec

-----------------------------------------------------------------------------
(* The cached blob.                                                        *)

Clean == Shape /\ \A q \in Request : UploadKeepsUp(q)

\* At first no pull has ended.
LEMMA CleanInit == Init => Clean
<1> SUFFICES ASSUME Init, NEW q \in Request PROVE UploadKeepsUp(q)
    BY ShapeInit DEF Clean
<1>1. /\ pc[q] = "probe" /\ expired[q] = FALSE /\ stuck[q] = FALSE
      /\ up[q] = "none" /\ pipeClosed[q] = {}
    BY DEF Init
<1>2. QED
    BY <1>1 DEF UploadKeepsUp, Served

\* The steps of the copier end a pull cleanly only after the upload is answered.
LEMMA CleanCopier ==
    ASSUME Clean, NEW q \in Request, CopierStep(q)
    PROVE  \A o \in Request : UploadKeepsUp(o)'
<1> USE BlobTeeAssumption DEF Clean, Shape, TypeOK, Position, UploadKeepsUp, Served, PC, Streaming,
        Goto, Hit, Cancelled, Fine, Gone, Blame, uploaderVars, copierVars
<1>1. CASE Probe(q)
    BY <1>1 DEF Probe
<1>2. CASE Fetch(q)
    BY <1>2 DEF Fetch
<1>3. CASE Open(q)
    BY <1>3 DEF Open
<1>4. CASE OpenFails(q)
    BY <1>4 DEF OpenFails
<1>5. CASE Read(q)
    BY <1>5 DEF Read, More
<1>6. CASE ReadEnds(q)
    <2>1. /\ pc' = [pc EXCEPT ![q] = "close"]
          /\ UNCHANGED <<via, read, got, expired, up, stuck, cacheGot, pipeClosed, stored>>
        BY <1>6 DEF ReadEnds
    <2>2. CASE UNCHANGED trouble /\ (read[q] = N \/ expired[q] \/ "client" \in trouble[q])
        BY <2>1, <2>2, <1>6 DEF ReadEnds
    <2>3. CASE trouble' = [trouble EXCEPT ![q] = @ \cup {"upstream"}]
        BY <2>1, <2>3, <1>6 DEF ReadEnds
    <2>4. QED
        BY <1>6, <2>2, <2>3 DEF ReadEnds, More
<1>7. CASE Transfer(q)
    BY <1>7 DEF Transfer
<1>8. CASE CacheBroken(q)
    BY <1>8 DEF CacheBroken, AfterCacheError
<1>9. CASE Send(q)
    BY <1>9 DEF Send
<1>10. CASE ClosePipe(q)
    BY <1>10 DEF ClosePipe
<1>11. CASE AwaitUpload(q)
    BY <1>11 DEF AwaitUpload, Answered
<1>12. QED
    BY <1>1, <1>2, <1>3, <1>4, <1>5, <1>6, <1>7, <1>8, <1>9, <1>10, <1>11 DEF CopierStep

\* The steps of the uploader and of the environment keep an answered upload.
LEMMA CleanOther ==
    ASSUME Clean, NEW q \in Request, UploaderStep(q) \/ Environment(q)
    PROVE  \A o \in Request : UploadKeepsUp(o)'
<1> USE BlobTeeAssumption DEF Clean, Shape, TypeOK, Position, UploadKeepsUp, Served, PC, Streaming,
        Hit, Cancelled, Gone, Blame, uploaderVars, copierVars
<1>1. CASE UploadInit(q)
    BY <1>1 DEF UploadInit
<1>2. CASE UploadPatch(q)
    BY <1>2 DEF UploadPatch
<1>3. CASE UploadFinalize(q)
    BY <1>3 DEF UploadFinalize
<1>4. CASE UploadGivesUp(q) \/ UploadRefused(q)
    <2>1. CASE UploadGivesUp(q)
        <3>1. trouble[q] # {}
            BY <1>4, <2>1 DEF UploadGivesUp, UploadFailed
        <3>2. QED
            BY <2>1, <3>1 DEF UploadGivesUp, UploadFailed, ClosedByFailure
    <2>2. CASE UploadRefused(q)
        <3>1. trouble'[q] # {} /\ \A o \in Request \ {q} : trouble'[o] = trouble[o]
            BY <2>2 DEF UploadRefused
        <3>2. QED
            BY <2>2, <3>1 DEF UploadRefused, UploadFailed, ClosedByFailure
    <2>3. QED
        BY <1>4, <2>1, <2>2
<1>5. CASE WriterWedges(q)
    BY <1>5 DEF WriterWedges
<1>6. CASE UpstreamExpires(q)
    <2>1. CASE stuck[q] /\ UNCHANGED trouble
        BY <1>6, <2>1 DEF UpstreamExpires
    <2>2. CASE Hit(q, "upstream", UpstreamFaults \cap {"slow"})
        <3>1. trouble'[q] # {} /\ \A o \in Request \ {q} : trouble'[o] = trouble[o]
            BY <2>2
        <3>2. QED
            BY <1>6, <3>1 DEF UpstreamExpires
    <2>3. QED
        BY <1>6, <2>1, <2>2 DEF UpstreamExpires
<1>7. CASE ClientDisconnects(q)
    BY <1>7 DEF ClientDisconnects
<1>8. QED
    BY <1>1, <1>2, <1>3, <1>4, <1>5, <1>6, <1>7 DEF UploaderStep, Environment

\* A pull that nobody failed has its blob in the cache when it returns,
\* whatever happens to the other requests for it.
THEOREM CleanPullsCached == Spec => []CleanPullCached
<1>1. Clean /\ [Next]_vars => Clean'
    <2>1. CASE UNCHANGED vars
        BY <2>1, ShapeStep DEF vars, copierVars, uploaderVars, Clean, UploadKeepsUp, Served
    <2>2. CASE Next
        BY <2>2, ShapeStep, CleanCopier, CleanOther DEF Next, Clean
    <2>3. QED
        BY <2>1, <2>2
<1>2. Clean => CleanPullCached
    BY DEF Clean, UploadKeepsUp, CleanPullCached
<1>3. QED
    BY <1>1, <1>2, CleanInit, PTL DEF Spec
=============================================================================
