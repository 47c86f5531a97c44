------------------------- MODULE ImportMountProofs -------------------------
(***************************************************************************)
(* An import puts a manifest after its blobs, proved for any number of     *)
(* calls, images and blobs, and any number of failures, deletions and      *)
(* garbage collections.                                                    *)
(***************************************************************************)
EXTENDS ImportMount, TLAPS

Mounting(c) == pc[c] \in {"mount", "headBlob", "put"}

\* Only image manifests are mounted and put.
MountsImages ==
    \A c \in Call :
       /\ Mounting(c) => job[c] \in Single
       /\ pc[c] = "headBlob" => asked[c] \in Blob

\* What a call has taken off its list is in the destination, unless a garbage
\* collection came between; it puts its manifest with an empty list.
MountsKept ==
    \A c \in Call :
       /\ Mounting(c) /\ c \notin swept =>
             \A b \in BlobsOf[job[c]] \ todo[c] : InDestination(b)
       /\ pc[c] = "put" => todo[c] = {}

\* A garbage collection at work is noted by every call.
CollectionNoted == gc # "none" => swept = Call

TypeInv  == TypeOK /\ MountsImages /\ CollectionNoted
MountInv == TypeInv /\ MountsKept /\ RefusedOnlyAfterSweep

CallStep(c) == Continue(c) \/ Retry(c)
AroundStep ==
    \/ \E m \in Single : LatePut(m)
    \/ \E b \in Blob : CacheBlob(b)
    \/ \E m \in Manifest : CacheManifest(m) \/ Reap(m)
    \/ Mark \/ Sweep

\* The steps of the specification are those of its calls and those around them.
LEMMA NextSplit == Next => (\E c \in Call : CallStep(c)) \/ AroundStep
    BY DEF Next, CallStep, AroundStep

-----------------------------------------------------------------------------
(* Types.                                                                  *)

\* Counting a blob keeps the types of the call, and sends it to a mount or a put.
LEMMA CountedIsTyped ==
    ASSUME TypeOK, NEW c \in Call, NEW b \in Blob, Counted(c, b)
    PROVE  /\ todo' \in [Call -> SUBSET Blob] /\ answer' = answer
           /\ \E s \in {"mount", "put"} : pc' = [pc EXCEPT ![c] = s]
    BY DEF TypeOK, Request, Counted, Goto

\* A blob that failed ends the call.
LEMMA UncountedIsTyped ==
    ASSUME TypeOK, NEW c \in Call, NEW b, Uncounted(c, b)
    PROVE  /\ pc' = [pc EXCEPT ![c] = "done"] /\ todo' = todo
           /\ answer' = [answer EXCEPT ![c] = "mount_failed"]
    BY DEF Uncounted, Reply

\* The bounds of a behaviour are numbers.
LEMMA BoundIsTyped ==
    ASSUME TypeOK
    PROVE  bound \in [pulled : SUBSET Manifest, faults : Nat, reaps : Nat, sweeps : Nat]
    BY ImportMountAssumption DEF TypeOK

\* A fault is counted within its bound.
LEMMA FaultIsTyped ==
    ASSUME TypeOK, Fault \/ UNCHANGED boundVars
    PROVE  /\ job' = job /\ bound' = bound /\ faults' \in 0 .. bound.faults
           /\ reaps' = reaps /\ sweeps' = sweeps /\ swept' = swept
           /\ gc' = gc /\ marked' = marked
<1>1. bound \in [pulled : SUBSET Manifest, faults : Nat, reaps : Nat, sweeps : Nat]
    BY BoundIsTyped
<1>2. QED
    BY <1>1 DEF TypeOK, Fault, boundVars, caseVars, gcVars

\* A manifest that the registry accepts becomes what the tag points to.
LEMMA TaggedIsTyped ==
    ASSUME TypeOK, NEW m \in Single, Tagged(m)
    PROVE  dst' \subseteq Single /\ tag' \in dst' \cup {NULL}
    BY DEF TypeOK, Request, Tagged

\* The blobs of an image are blobs.
LEMMA BlobsAreTyped ==
    ASSUME NEW m \in Single PROVE BlobsOf[m] \in SUBSET Blob
    BY ImportMountAssumption

\* The steps of a call keep the types.
LEMMA TypeCall ==
    ASSUME TypeInv, NEW c \in Call, CallStep(c)
    PROVE  TypeInv'
<1> USE DEF TypeInv, MountsImages, Mounting, CollectionNoted
<1>1. CASE HeadTag(c)
    BY <1>1, FaultIsTyped DEF HeadTag, Goto, Reply, TypeOK, Request, repoVars, Success
<1>2. CASE GetManifest(c)
    BY <1>2, BlobsAreTyped
    DEF GetManifest, References, Goto, Reply, TypeOK, Request, repoVars, boundVars, caseVars,
        gcVars, Failure
<1>3. CASE GetFails(c)
    BY <1>3, FaultIsTyped DEF GetFails, Reply, TypeOK, Request, repoVars, Failure
<1>4. ASSUME NEW b \in Blob, Mount(c, b)
      PROVE  TypeInv'
    BY <1>4, CountedIsTyped DEF Mount, TypeOK, Request, boundVars, caseVars, gcVars
<1>5. ASSUME NEW b \in Blob, MountDeclined(c, b)
      PROVE  TypeInv'
    BY <1>5, UncountedIsTyped
    DEF MountDeclined, Goto, TypeOK, Request, repoVars, boundVars, caseVars, gcVars, Failure
<1>6. ASSUME NEW b \in Blob, MountFails(c, b)
      PROVE  TypeInv'
    BY <1>6, UncountedIsTyped, FaultIsTyped DEF MountFails, TypeOK, Request, Failure
<1>7. CASE HeadBlob(c)
    <2>1. asked[c] \in Blob
        BY <1>7 DEF HeadBlob
    <2>2. QED
        BY <1>7, <2>1, CountedIsTyped, UncountedIsTyped, FaultIsTyped
        DEF HeadBlob, TypeOK, Request, repoVars, Failure
<1>8. CASE PutManifest(c)
    <2>1. job[c] \in Single
        BY <1>8 DEF PutManifest
    <2>2. QED
        BY <1>8, <2>1, TaggedIsTyped
        DEF PutManifest, Tagged, Reply, TypeOK, Request, repoVars, boundVars,
            caseVars, gcVars, Success, Failure
<1>9. CASE PutFails(c)
    BY <1>9, FaultIsTyped DEF PutFails, Reply, TypeOK, Request, Failure
<1>10. CASE Retry(c)
    BY <1>10 DEF Retry, TypeOK, Request, repoVars, caseVars, gcVars
<1>11. QED
    BY <1>1, <1>2, <1>3, <1>4, <1>5, <1>6, <1>7, <1>8, <1>9, <1>10 DEF CallStep, Continue

\* The steps around the calls keep the types.
LEMMA TypeAround ==
    ASSUME TypeInv, AroundStep
    PROVE  TypeInv'
<1> USE DEF TypeInv, MountsImages, Mounting, CollectionNoted, TypeOK, Request, callVars
<1>1. ASSUME NEW m \in Single, LatePut(m)
      PROVE  TypeInv'
    BY <1>1, TaggedIsTyped DEF LatePut, Tagged, boundVars, caseVars, gcVars
<1>2. ASSUME NEW b \in Blob, CacheBlob(b)
      PROVE  TypeInv'
    BY <1>2 DEF CacheBlob, boundVars, caseVars, gcVars
<1>3. ASSUME NEW m \in Manifest, CacheManifest(m)
      PROVE  TypeInv'
    BY <1>3 DEF CacheManifest, boundVars, caseVars, gcVars
<1>4. ASSUME NEW m \in Manifest, Reap(m)
      PROVE  TypeInv'
    BY <1>4, BoundIsTyped DEF Reap, TagWithout, gcVars, caseVars
<1>5. CASE Mark
    <2>1. Referenced \subseteq Blob
        BY BlobsAreTyped DEF Referenced
    <2>2. sweeps' \in 0 .. bound.sweeps
        BY <1>5, BoundIsTyped DEF Mark
    <2>3. QED
        BY <1>5, <2>1, <2>2 DEF Mark, repoVars, caseVars
<1>6. CASE Sweep
    BY <1>6 DEF Sweep, caseVars
<1>7. QED
    BY <1>1, <1>2, <1>3, <1>4, <1>5, <1>6 DEF AroundStep

\* The types hold at the start.
LEMMA InitIsTyped == Init => TypeInv
<1> SUFFICES ASSUME Init PROVE TypeInv
    OBVIOUS
<1>1. PICK k \in Cases : job = k.job /\ bound = k.bound
    BY DEF Init
<1>2. k = [job |-> k.job, bound |-> k.bound]
    BY ImportMountAssumption
<1>3. /\ [job |-> job, bound |-> bound] \in Cases
      /\ bound \in [pulled : SUBSET Manifest, faults : Nat, reaps : Nat, sweeps : Nat]
    BY <1>1, <1>2, ImportMountAssumption
<1>4. faults \in 0 .. bound.faults /\ reaps \in 0 .. bound.reaps /\ sweeps \in 0 .. bound.sweeps
    BY <1>3 DEF Init
<1>5. TypeOK
    BY <1>3, <1>4 DEF Init, TypeOK, Request
<1>6. QED
    BY <1>5 DEF Init, TypeInv, MountsImages, CollectionNoted, Mounting

\* A stuttering step keeps the types.
LEMMA TypeStutters == TypeInv /\ UNCHANGED vars => TypeInv'
<1> SUFFICES ASSUME TypeInv, UNCHANGED vars PROVE TypeInv'
    OBVIOUS
<1> USE DEF vars, callVars, repoVars, boundVars, caseVars, gcVars
<1>1. TypeOK'
    <2>1. [job |-> job, bound |-> bound]' = [job |-> job, bound |-> bound]
        OBVIOUS
    <2>2. QED
        BY <2>1 DEF TypeInv, TypeOK, Request
<1>2. MountsImages' /\ CollectionNoted'
    BY DEF TypeInv, MountsImages, Mounting, CollectionNoted
<1>3. QED
    BY <1>1, <1>2 DEF TypeInv

\* The types hold from the start on.
LEMMA TypeAlways == Spec => []TypeInv
<1>1. TypeInv /\ [Next]_vars => TypeInv'
    BY NextSplit, TypeCall, TypeAround, TypeStutters
<1>2. QED
    BY <1>1, InitIsTyped, PTL DEF Spec

\* The variables of an import and of the registry keep their types (TypeOK).
THEOREM TypeCorrect == Spec => []TypeOK
<1>1. TypeInv => TypeOK
    BY DEF TypeInv
<1>2. QED
    BY <1>1, TypeAlways, PTL

-----------------------------------------------------------------------------
(* The manifest comes after its blobs.                                     *)

\* What the other calls and the registry do takes no blob from a destination.
LEMMA OthersKeepMounts ==
    ASSUME TypeInv, MountsKept, NEW d \in Call, job' = job,
           pc'[d] = pc[d], todo'[d] = todo[d],
           d \in swept' \/ (d \notin swept /\ dstBlobs \subseteq dstBlobs' /\ stored \subseteq stored')
    PROVE  /\ Mounting(d)' /\ d \notin swept' =>
                 \A b \in BlobsOf[job[d]] \ todo'[d] : InDestination(b)'
           /\ pc'[d] = "put" => todo'[d] = {}
    BY DEF MountsKept, Mounting, InDestination

\* A blob that is counted is in the destination.
LEMMA CountedIsMounted ==
    ASSUME MountInv, NEW c \in Call, NEW b \in Blob, Mounting(c), Counted(c, b),
           b \in dstBlobs' \cap stored', dstBlobs \subseteq dstBlobs', stored' = stored,
           swept' = swept, job' = job
    PROVE  MountsKept' /\ RefusedOnlyAfterSweep'
<1>1. /\ pc' = [pc EXCEPT ![c] = IF todo[c] \subseteq {b} THEN "put" ELSE "mount"]
      /\ todo' = [todo EXCEPT ![c] = @ \ {b}] /\ answer' = answer
    BY DEF Counted, Goto
<1>2. pc \in [Call -> Request] /\ todo \in [Call -> SUBSET Blob]
    BY DEF MountInv, TypeInv, TypeOK, Request
<1>3. ASSUME NEW d \in Call
      PROVE  /\ Mounting(d)' /\ d \notin swept' =>
                   \A x \in BlobsOf[job[d]] \ todo'[d] : InDestination(x)'
             /\ pc'[d] = "put" => todo'[d] = {}
    <2>1. CASE d = c
        BY <2>1, <1>1, <1>2 DEF MountInv, MountsKept, Mounting, InDestination
    <2>2. CASE d # c
        BY <2>2, <1>1, <1>2 DEF MountInv, MountsKept, Mounting, InDestination
    <2>3. QED
        BY <2>1, <2>2
<1>4. QED
    BY <1>1, <1>3 DEF MountsKept, MountInv, RefusedOnlyAfterSweep

\* A call that answers anything but a refusal, or starts over, owes nothing.
LEMMA EndedOwesNothing ==
    ASSUME MountInv, NEW c \in Call, job' = job,
           NEW s \in {"done", "head", "get"}, pc' = [pc EXCEPT ![c] = s],
           \E a : a # "refused" /\ answer' \in {answer, [answer EXCEPT ![c] = a]},
           answer' = answer => swept' = swept,
           \A d \in Call \ {c} : todo'[d] = todo[d] /\ (d \in swept <=> d \in swept'),
           dstBlobs \subseteq dstBlobs', stored' = stored
    PROVE  MountsKept' /\ RefusedOnlyAfterSweep'
<1>1. pc \in [Call -> Request] /\ todo \in [Call -> SUBSET Blob]
      /\ answer \in [Call -> Success \cup Failure \cup {NULL}]
    BY DEF MountInv, TypeInv, TypeOK, Request
<1>2. ASSUME NEW d \in Call
      PROVE  /\ Mounting(d)' /\ d \notin swept' =>
                   \A x \in BlobsOf[job[d]] \ todo'[d] : InDestination(x)'
             /\ pc'[d] = "put" => todo'[d] = {}
    <2>1. CASE d = c
        BY <2>1, <1>1 DEF Mounting
    <2>2. CASE d # c
        BY <2>2, <1>1 DEF MountInv, MountsKept, Mounting, InDestination
    <2>3. QED
        BY <2>1, <2>2
<1>3. RefusedOnlyAfterSweep'
    BY <1>1 DEF MountInv, RefusedOnlyAfterSweep
<1>4. QED
    BY <1>2, <1>3 DEF MountsKept

\* The steps of a call keep the order.
LEMMA MountCall ==
    ASSUME MountInv, NEW c \in Call, CallStep(c)
    PROVE  MountsKept' /\ RefusedOnlyAfterSweep'
<1> USE DEF MountInv
<1>1. CASE HeadTag(c)
    BY <1>1, EndedOwesNothing, FaultIsTyped DEF HeadTag, Goto, Reply, TypeInv, repoVars
<1>2. CASE GetManifest(c)
    <2>1. CASE Goto(c, "mount") /\ todo' = [todo EXCEPT ![c] = BlobsOf[job[c]]]
        BY <1>2, <2>1
        DEF GetManifest, References, Goto, TypeInv, TypeOK, MountsKept, RefusedOnlyAfterSweep, Mounting,
            InDestination, repoVars, boundVars, caseVars, gcVars
    <2>2. CASE \E a \in Failure \ {"refused"} : Reply(c, a) /\ UNCHANGED todo
        BY <1>2, <2>2, EndedOwesNothing
        DEF GetManifest, References, Reply, repoVars, boundVars, caseVars, gcVars
    <2>3. QED
        BY <1>2, <2>1, <2>2 DEF GetManifest, References, Failure
<1>3. CASE GetFails(c)
    BY <1>3, EndedOwesNothing, FaultIsTyped DEF GetFails, Reply, TypeInv, repoVars
<1>4. ASSUME NEW b \in Blob, Mount(c, b)
      PROVE  MountsKept' /\ RefusedOnlyAfterSweep'
    BY <1>4, CountedIsMounted DEF Mount, Mountable, Mounting, boundVars, caseVars, gcVars
<1>5. ASSUME NEW b \in Blob, MountDeclined(c, b)
      PROVE  MountsKept' /\ RefusedOnlyAfterSweep'
    <2>1. CASE Uncounted(c, b)
        BY <1>5, <2>1, UncountedIsTyped, EndedOwesNothing
        DEF MountDeclined, TypeInv, repoVars, boundVars, caseVars, gcVars
    <2>2. CASE Goto(c, "headBlob") /\ UNCHANGED todo
        BY <1>5, <2>2
        DEF MountDeclined, Goto, TypeInv, TypeOK, MountsKept, RefusedOnlyAfterSweep, Mounting,
            InDestination, repoVars, boundVars, caseVars, gcVars
    <2>3. QED
        BY <1>5, <2>1, <2>2 DEF MountDeclined
<1>6. ASSUME NEW b \in Blob, MountFails(c, b)
      PROVE  MountsKept' /\ RefusedOnlyAfterSweep'
    BY <1>6, UncountedIsTyped, FaultIsTyped, EndedOwesNothing DEF MountFails, TypeInv
<1>7. CASE HeadBlob(c)
    <2>1. asked[c] \in Blob
        BY <1>7 DEF HeadBlob, TypeInv, MountsImages
    <2>2. CASE InDestination(asked[c]) /\ Counted(c, asked[c]) /\ UNCHANGED boundVars
        BY <1>7, <2>1, <2>2, CountedIsMounted
        DEF HeadBlob, InDestination, Mounting, repoVars, boundVars, caseVars, gcVars
    <2>3. CASE Uncounted(c, asked[c]) /\ (Fault \/ UNCHANGED boundVars)
        BY <1>7, <2>1, <2>3, UncountedIsTyped, FaultIsTyped, EndedOwesNothing
        DEF HeadBlob, TypeInv, repoVars
    <2>4. QED
        BY <1>7, <2>2, <2>3 DEF HeadBlob
<1>8. CASE PutManifest(c)
    <2>1. c \notin swept => Accepts(job[c])
        BY <1>8
        DEF PutManifest, MountsKept, Mounting, Accepts, ReadOnly, TypeInv, CollectionNoted
    <2>2. CASE Accepts(job[c])
        BY <1>8, <2>2, EndedOwesNothing DEF PutManifest, Reply, Tagged, boundVars, caseVars, gcVars
    <2>3. CASE ~Accepts(job[c])
        BY <1>8, <2>1, <2>3
        DEF PutManifest, Reply, TypeInv, TypeOK, MountsKept, RefusedOnlyAfterSweep, Mounting,
            InDestination, repoVars, boundVars, caseVars, gcVars
    <2>4. QED
        BY <2>2, <2>3
<1>9. CASE PutFails(c)
    BY <1>9, EndedOwesNothing, FaultIsTyped DEF PutFails, Reply, TypeInv
<1>10. CASE Retry(c)
    BY <1>10, EndedOwesNothing, ImportMountAssumption
        DEF Retry, TypeInv, TypeOK, repoVars, caseVars, Failure
<1>11. QED
    BY <1>1, <1>2, <1>3, <1>4, <1>5, <1>6, <1>7, <1>8, <1>9, <1>10 DEF CallStep, Continue

\* The steps around the calls keep the order: a garbage collection is noted, and
\* nothing else takes blobs away.
LEMMA MountAround ==
    ASSUME MountInv, AroundStep
    PROVE  MountsKept' /\ RefusedOnlyAfterSweep'
<1> USE DEF MountInv
<1>1. ASSUME callVars' = callVars, job' = job, swept' = Call \/ (swept' = swept /\
             dstBlobs \subseteq dstBlobs' /\ stored \subseteq stored')
      PROVE  MountsKept' /\ RefusedOnlyAfterSweep'
    BY <1>1, OthersKeepMounts DEF callVars, MountsKept, RefusedOnlyAfterSweep
<1>2. QED
    BY <1>1 DEF AroundStep, LatePut, Tagged, CacheBlob, CacheManifest, Reap, Mark, Sweep,
                callVars, repoVars, boundVars, caseVars, gcVars

\* The destination refuses the manifest of an import only after a garbage
\* collection under way with it (RefusedOnlyAfterSweep).
THEOREM BlobsBeforeManifest == Spec => []RefusedOnlyAfterSweep
<1>1. Init => MountInv
    BY InitIsTyped, ImportMountAssumption
    DEF Init, MountInv, MountsKept, Mounting, RefusedOnlyAfterSweep, Failure
<1>2. MountInv /\ [Next]_vars => MountInv'
    <2>1. TypeInv /\ [Next]_vars => TypeInv'
        BY NextSplit, TypeCall, TypeAround, TypeStutters
    <2>2. MountInv /\ UNCHANGED vars => MountsKept' /\ RefusedOnlyAfterSweep'
        BY DEF MountInv, MountsKept, Mounting, RefusedOnlyAfterSweep, InDestination,
               vars, callVars, repoVars, boundVars, caseVars, gcVars
    <2>3. QED
        BY <2>1, <2>2, NextSplit, MountCall, MountAround DEF MountInv
<1>3. MountInv => RefusedOnlyAfterSweep
    BY DEF MountInv
<1>4. QED
    BY <1>1, <1>2, <1>3, PTL DEF Spec

=============================================================================
