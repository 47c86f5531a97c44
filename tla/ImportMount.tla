---------------------------- MODULE ImportMount ----------------------------
(***************************************************************************)
(* Imports of cached images into a cluster's namespace (ImportAPI.ts and   *)
(* mountFromRepo.ts): every blob is mounted from the mirror's repository,  *)
(* then the manifest is put under the tag.                                 *)
(*                                                                         *)
(* One mirror repository, one destination tag, several calls at a time, a  *)
(* caller that repeats a call until it succeeds, and around them the       *)
(* mirror, the reaper and the garbage collection, of a registry that is    *)
(* read-only meanwhile or of one that is not.                              *)
(* Which image a call imports is part of the call: two calls may disagree. *)
(* Calls name the upstream the way the mirror does ("ghcr"); one that names *)
(* its host ("ghcr.io") asks for a repository where nothing is ever cached. *)
(***************************************************************************)
EXTENDS Integers, FiniteSets

CONSTANTS
    Call,
    Blob,
    Single,      \* image manifests
    Index,       \* manifest lists
    BlobsOf,     \* [Single -> SUBSET Blob]: config and layers
    Cases,       \* bound: what a behaviour may be about, [job, bound]: what each call
                 \* imports, and [pulled, faults, reaps, sweeps], what is pulled through
                 \* the mirror, and how many requests fail, manifests are deleted and
                 \* collections begun
    NULL

Manifest == Single \cup Index

Success == {"imported", "already_present"}
Failure == {"source_manifest_not_found", "multi_arch_not_implemented",
            "manifest_references_no_blobs", "mount_failed", "refused", "unreachable"}

ASSUME ImportMountAssumption ==
    /\ Single \cap Index = {} /\ NULL \notin Manifest \cup Failure
    /\ BlobsOf \in [Single -> SUBSET Blob]
    /\ Cases \subseteq [job : [Call -> Manifest],
                        bound : [pulled : SUBSET Manifest, faults : Nat, reaps : Nat, sweeps : Nat]]

VARIABLES
    job,       \* call: its upstream_digest, which never changes
    pc,        \* call: the request it is about to make
    todo,      \* call: blobs of mountAllBlobs not mounted yet
    asked,     \* call: the blob whose mount was answered with 404
    answer,    \* call: its last answer
    cached,    \* registry: manifests in the mirror's repository
    srcBlobs,  \* registry: blobs linked into the mirror's repository
    dst,       \* registry: manifests in the destination repository
    dstBlobs,  \* registry: blobs linked into the destination repository
    tag,       \* registry: what the destination tag points to
    late,      \* registry: manifests whose PUT goes on after its caller gave up
    stored,    \* storage: blobs with their bytes
    bound,     \* the bound of this behaviour, which never changes
    faults, reaps, sweeps,
    gc,        \* a garbage collection at work: "none", "readOnly" or "open"
    marked,    \* garbage collection: the blobs that it found referenced
    swept      \* history: calls with a garbage collection since they began

callVars  == <<pc, todo, asked, answer>>
repoVars  == <<cached, srcBlobs, dst, dstBlobs, tag, late, stored>>
caseVars  == <<job, bound>>
gcVars    == <<gc, marked, sweeps>>
boundVars == <<caseVars, faults, reaps, gcVars, swept>>
vars == <<callVars, repoVars, boundVars>>

Request == {"head", "get", "mount", "headBlob", "put", "done"}

TypeOK ==
    /\ [job |-> job, bound |-> bound] \in Cases
    /\ pc \in [Call -> Request]
    /\ todo \in [Call -> SUBSET Blob]
    /\ asked \in [Call -> Blob \cup {NULL}]
    /\ answer \in [Call -> Success \cup Failure \cup {NULL}]
    /\ cached \subseteq Manifest /\ srcBlobs \subseteq Blob
    /\ dst \subseteq Single /\ dstBlobs \subseteq Blob /\ stored \subseteq Blob
    /\ tag \in dst \cup {NULL}
    /\ late \subseteq Single
    /\ faults \in 0 .. bound.faults /\ reaps \in 0 .. bound.reaps /\ sweeps \in 0 .. bound.sweeps
    /\ gc \in {"none", "readOnly", "open"} /\ marked \subseteq Blob
    /\ swept \subseteq Call

Init ==
    /\ \E k \in Cases : job = k.job /\ bound = k.bound
    /\ pc = [c \in Call |-> "head"]
    /\ todo = [c \in Call |-> {}]
    /\ asked = [c \in Call |-> NULL]
    /\ answer = [c \in Call |-> NULL]
    /\ cached = {} /\ srcBlobs = {} /\ dst = {} /\ dstBlobs = {} /\ stored = {}
    /\ tag = NULL /\ late = {}
    /\ faults = 0 /\ reaps = 0 /\ sweeps = 0 /\ swept = {}
    /\ gc = "none" /\ marked = {}

-----------------------------------------------------------------------------
(* The registry: what the requests of a call do.                           *)

\* storage.maintenance.readonly: whatever writes is answered with 405.
ReadOnly == gc = "readOnly"

\* A mount finds a blob that is linked into the source and has its bytes.
Mountable(b) == ~ReadOnly /\ b \in srcBlobs \cap stored
InDestination(b) == b \in dstBlobs \cap stored

\* A manifest is refused while one of its blobs is not in its repository.
Accepts(m) == ~ReadOnly /\ \A b \in BlobsOf[m] : InDestination(b)

Tagged(m) ==
    /\ dst' = dst \cup {m}
    /\ tag' = m
    /\ UNCHANGED <<cached, srcBlobs, dstBlobs, stored>>

-----------------------------------------------------------------------------
(* A call.                                                                 *)

Goto(c, s)  == pc' = [pc EXCEPT ![c] = s] /\ UNCHANGED answer
Reply(c, a) == pc' = [pc EXCEPT ![c] = "done"] /\ answer' = [answer EXCEPT ![c] = a]

\* An error of the network, a status that the code does not expect, a timeout.
Fault ==
    /\ faults < bound.faults /\ faults' = faults + 1
    /\ UNCHANGED <<caseVars, reaps, gcVars, swept>>

\* headManifestDigest; an error counts as an absent tag.
HeadTag(c) ==
    /\ pc[c] = "head"
    /\ \/ tag = job[c] /\ Reply(c, "already_present") /\ UNCHANGED boundVars
       \/ tag # job[c] /\ Goto(c, "get") /\ UNCHANGED boundVars
       \/ Goto(c, "get") /\ Fault
    /\ UNCHANGED <<todo, asked, repoVars>>

\* collectBlobDigests: the config and the layers, each digest once.
\* Mutant: a descriptor without a digest counts.
References_Unchecked(m) == BlobsOf[m] \cup {NULL}
References(m) == BlobsOf[m]

\* The manifest by its digest, and the list of what to mount.
GetManifest(c) ==
    LET m == job[c] IN
    /\ pc[c] = "get"
    /\ \/ m \notin cached /\ Reply(c, "source_manifest_not_found") /\ UNCHANGED todo
       \/ m \in cached \cap Index /\ Reply(c, "multi_arch_not_implemented") /\ UNCHANGED todo
       \/ m \in cached \cap Single /\ References(m) = {}
          /\ Reply(c, "manifest_references_no_blobs") /\ UNCHANGED todo
       \/ m \in cached \cap Single /\ References(m) # {}
          /\ Goto(c, "mount") /\ todo' = [todo EXCEPT ![c] = References(m)]
    /\ UNCHANGED <<asked, repoVars, boundVars>>

GetFails(c) ==
    /\ pc[c] = "get"
    /\ Reply(c, "unreachable") /\ Fault
    /\ UNCHANGED <<todo, asked, repoVars>>

\* mountAllBlobs: a blob that failed ends it, one mounted or present is done.
\* Mutant: the loop goes on without the blob that failed.
Uncounted_GoesOn(c, b) ==
    /\ todo' = [todo EXCEPT ![c] = @ \ {b}]
    /\ Goto(c, IF todo[c] \subseteq {b} THEN "put" ELSE "mount")

Uncounted(c, b) ==
    /\ Reply(c, "mount_failed")
    /\ UNCHANGED todo

\* Mutant: a blob that the destination already holds is a failure.
Counted_NewOnly(c, b) ==
    /\ todo' = [todo EXCEPT ![c] = @ \ {b}]
    /\ IF b \in dstBlobs
         THEN Reply(c, "mount_failed")
         ELSE Goto(c, IF todo[c] \subseteq {b} THEN "put" ELSE "mount")

Counted(c, b) ==
    /\ todo' = [todo EXCEPT ![c] = @ \ {b}]
    /\ Goto(c, IF todo[c] \subseteq {b} THEN "put" ELSE "mount")

\* mountBlob.  201: the registry has linked the blob, or finds it linked.
Mount(c, b) ==
    /\ pc[c] = "mount" /\ b \in todo[c] /\ Mountable(b)
    /\ dstBlobs' = dstBlobs \cup {b}
    /\ Counted(c, b)
    /\ UNCHANGED <<asked, cached, srcBlobs, dst, tag, late, stored, boundVars>>

\* 202, an upload session in place of the mount, or 405.  404: look at the
\* destination.
MountDeclined(c, b) ==
    /\ pc[c] = "mount" /\ b \in todo[c] /\ ~Mountable(b)
    /\ \/ Uncounted(c, b) /\ UNCHANGED asked
       \/ ~ReadOnly /\ Goto(c, "headBlob") /\ asked' = [asked EXCEPT ![c] = b] /\ UNCHANGED todo
    /\ UNCHANGED <<repoVars, boundVars>>

HeadBlob(c) ==
    LET b == asked[c] IN
    /\ pc[c] = "headBlob"
    /\ \/ InDestination(b) /\ Counted(c, b) /\ UNCHANGED boundVars
       \/ ~InDestination(b) /\ Uncounted(c, b) /\ UNCHANGED boundVars
       \/ Uncounted(c, b) /\ Fault
    /\ UNCHANGED <<asked, repoVars>>

\* The mount may have happened although the call never hears of it.
MountFails(c, b) ==
    /\ pc[c] = "mount" /\ b \in todo[c]
    /\ Uncounted(c, b) /\ Fault
    /\ \/ UNCHANGED dstBlobs
       \/ Mountable(b) /\ dstBlobs' = dstBlobs \cup {b}
    /\ UNCHANGED <<asked, cached, srcBlobs, dst, tag, late, stored>>

\* writeManifest.
PutManifest(c) ==
    LET m == job[c] IN
    /\ pc[c] = "put"
    /\ \/ Accepts(m) /\ Tagged(m) /\ UNCHANGED late /\ Reply(c, "imported")
       \/ ~Accepts(m) /\ UNCHANGED repoVars /\ Reply(c, "refused")
    /\ UNCHANGED <<todo, asked, boundVars>>

\* After ten seconds the call gives up; the registry may not.
PutFails(c) ==
    /\ pc[c] = "put"
    /\ Reply(c, "unreachable") /\ Fault
    /\ \/ UNCHANGED late
       \/ late' = late \cup {job[c]}
    /\ UNCHANGED <<todo, asked, cached, srcBlobs, dst, dstBlobs, tag, stored>>

\* The caller's reconciler repeats a call that failed, whatever the status, since
\* the code says no more than that it retries: a new call, which knows nothing.
Retry(c) ==
    /\ pc[c] = "done" /\ answer[c] \in Failure
    /\ pc' = [pc EXCEPT ![c] = "head"]
    /\ answer' = [answer EXCEPT ![c] = NULL]
    /\ todo' = [todo EXCEPT ![c] = {}]
    /\ asked' = [asked EXCEPT ![c] = NULL]
    /\ swept' = IF gc = "none" THEN swept \ {c} ELSE swept
    /\ UNCHANGED <<repoVars, caseVars, faults, reaps, gcVars>>

-----------------------------------------------------------------------------
(* Around the calls.                                                       *)

LatePut(m) ==
    /\ m \in late
    /\ late' = late \ {m}
    /\ \/ Accepts(m) /\ Tagged(m)
       \/ ~Accepts(m) /\ UNCHANGED <<cached, srcBlobs, dst, dstBlobs, tag, stored>>
    /\ UNCHANGED <<callVars, boundVars>>

\* The mirror stores a blob, and a manifest after its blobs (MirrorWarm).
CacheBlob(b) ==
    /\ ~ReadOnly /\ b \notin srcBlobs \cap stored
    /\ \E m \in bound.pulled \cap Single : b \in BlobsOf[m]
    /\ srcBlobs' = srcBlobs \cup {b} /\ stored' = stored \cup {b}
    /\ UNCHANGED <<callVars, cached, dst, dstBlobs, tag, late, boundVars>>

CacheManifest(m) ==
    /\ ~ReadOnly /\ m \in bound.pulled \ cached
    /\ m \in Single => BlobsOf[m] \subseteq srcBlobs \cap stored
    /\ cached' = cached \cup {m}
    /\ UNCHANGED <<callVars, srcBlobs, dst, dstBlobs, tag, late, stored, boundVars>>

\* Deleting a manifest removes the tags on it.
TagWithout(m) == IF tag = m THEN NULL ELSE tag

\* The reaper deletes a manifest of either repository.
Reap(m) ==
    /\ ~ReadOnly /\ reaps < bound.reaps /\ reaps' = reaps + 1
    /\ \/ m \in cached /\ cached' = cached \ {m} /\ UNCHANGED <<dst, tag>>
       \/ m \in dst /\ dst' = dst \ {m} /\ UNCHANGED cached
          /\ tag' = TagWithout(m)
    /\ UNCHANGED <<callVars, srcBlobs, dstBlobs, late, stored, caseVars, faults, gcVars, swept>>

\* What the manifests of the registry refer to.
Referenced == UNION {BlobsOf[m] : m \in (cached \cap Single) \cup dst}

\* A garbage collection reads the manifests, of a registry that was made
\* read-only for it or of one that goes on writing ...
Mark ==
    /\ gc = "none" /\ sweeps < bound.sweeps /\ sweeps' = sweeps + 1
    /\ gc' \in {"readOnly", "open"}
    /\ marked' = Referenced
    /\ swept' = Call
    /\ UNCHANGED <<callVars, repoVars, caseVars, faults, reaps>>

\* ... and then removes the bytes of what it did not find, or of a part of it
\* when it is cut short; the links to them stay in the repositories.
Sweep ==
    /\ gc # "none"
    /\ \E gone \in SUBSET (stored \ marked) : stored' = stored \ gone
    /\ gc' = "none" /\ marked' = {}
    /\ swept' = Call
    /\ UNCHANGED <<callVars, cached, srcBlobs, dst, dstBlobs, tag, late, caseVars, faults, reaps, sweeps>>

-----------------------------------------------------------------------------

Continue(c) ==
    \/ HeadTag(c) \/ GetManifest(c) \/ GetFails(c)
    \/ \E b \in Blob : Mount(c, b) \/ MountDeclined(c, b) \/ MountFails(c, b)
    \/ HeadBlob(c) \/ PutManifest(c) \/ PutFails(c)

Next ==
    \/ \E c \in Call : Continue(c) \/ Retry(c)
    \/ \E m \in Single : LatePut(m)
    \/ \E b \in Blob : CacheBlob(b)
    \/ \E m \in Manifest : CacheManifest(m) \/ Reap(m)
    \/ Mark \/ Sweep

Spec == Init /\ [][Next]_vars

\* A call goes on until it answers, its caller repeats it (the comment at
\* ImportAPI.ts:149-150), the mirror caches what is pulled through it, and a
\* garbage collection ends.
FairSpec ==
    /\ Spec
    /\ \A c \in Call : WF_vars(Continue(c)) /\ WF_vars(Retry(c))
    /\ \A b \in Blob : WF_vars(CacheBlob(b))
    /\ \A m \in Manifest : WF_vars(CacheManifest(m))
    /\ WF_vars(Sweep)

-----------------------------------------------------------------------------
(* Properties.                                                             *)

\* mountAllBlobs reports success only if the destination holds every blob, so
\* the registry refuses a manifest only after a garbage collection that ran
\* while the call was under way: an image that the reaper deletes from the
\* mirror in the middle of an import does not break it (ImportAPI.ts:221-238).
RefusedOnlyAfterSweep ==
    \A c \in Call : answer[c] = "refused" => c \in swept

\* Repeating a call is enough: whatever part of it was done before, by itself or
\* by another import that shares blobs, whatever the reaper and the garbage
\* collection removed meanwhile, it ends with a success (mountFromRepo.ts:92-135).
Importable(c) == job[c] \in Single \cap bound.pulled /\ BlobsOf[job[c]] # {}
Converges ==
    \A c \in Call : Importable(c) => <>(answer[c] \in Success)
=============================================================================
