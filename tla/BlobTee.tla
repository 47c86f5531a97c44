------------------------------ MODULE BlobTee ------------------------------
(***************************************************************************)
(* A blob pulled through the mirror (mirror/proxy.go, handleBlob): on a    *)
(* miss the body that comes from the upstream is written, chunk by chunk,  *)
(* to the client and into an io.Pipe that a second goroutine uploads to    *)
(* the writer sidecar (mirror/writer.go, UploadBlob).  The requests are    *)
(* concurrent GETs and HEADs of one blob of N chunks; which of the two a     *)
(* request is shows when its answer starts.                                *)
(*                                                                         *)
(* The copier is the goroutine of the request, the uploader the one that it*)
(* starts.  Both HTTP clients are the same http.Client, whose timeout of 5 *)
(* minutes covers a whole exchange, the body included (mirror/main.go:20). *)
(***************************************************************************)
EXTENDS Integers

CONSTANTS
    Request,         \* the requests for the blob
    N,               \* chunks of the blob
    WriterFaults,    \* what the writer may do: "error", "wedge" (never answers)
    UpstreamFaults,  \* what the upstream may do: "error", "slow"
    Leaving          \* the requests whose client may go away

ASSUME BlobTeeAssumption ==
    /\ N \in Nat \ {0}
    /\ WriterFaults \subseteq {"error", "wedge"}
    /\ UpstreamFaults \subseteq {"error", "slow"}
    /\ Leaving \subseteq Request

VARIABLES
    pc,         \* copier: where it is
    via,        \* copier: where a body comes from; "head" for a HEAD of the
                \* upstream, "none" at the end for a 502
    read,       \* copier: chunks read from the upstream
    got,        \* copier: chunks the client received
    expired,    \* copier: the 5 minutes of the upstream request are over
    up,         \* uploader: where it is; "ok" and "failed" are in uploadErrCh
    stuck,      \* uploader: the writer does not answer its request
    cacheGot,   \* uploader: chunks taken from the pipe
    pipeClosed, \* the ends of the pipe that are closed
    stored,     \* writer: the blob is in the repository
    trouble     \* history: who failed the request; the code has no such state

copierVars   == <<pc, via, read, got, expired>>
uploaderVars == <<up, stuck, cacheGot, pipeClosed>>
vars == <<copierVars, uploaderVars, stored, trouble>>

PC == {"probe", "open", "fetch", "read", "tee", "send", "close", "await", "done"}

TypeOK ==
    /\ pc \in [Request -> PC]
    /\ via \in [Request -> {"none", "writer", "upstream", "head"}]
    /\ read \in [Request -> 0 .. N]
    /\ got \in [Request -> 0 .. N]
    /\ expired \in [Request -> BOOLEAN]
    /\ up \in [Request -> {"none", "post", "patch", "put", "ok", "failed"}]
    /\ stuck \in [Request -> BOOLEAN]
    /\ cacheGot \in [Request -> 0 .. N]
    /\ pipeClosed \in [Request -> SUBSET {"reader", "writer"}]
    /\ stored \in BOOLEAN
    /\ trouble \in [Request -> SUBSET {"writer", "wedge", "upstream", "client"}]

Init ==
    /\ pc = [q \in Request |-> "probe"]
    /\ via = [q \in Request |-> "none"]
    /\ read = [q \in Request |-> 0]
    /\ got = [q \in Request |-> 0]
    /\ expired = [q \in Request |-> FALSE]
    /\ up = [q \in Request |-> "none"]
    /\ stuck = [q \in Request |-> FALSE]
    /\ cacheGot = [q \in Request |-> 0]
    /\ pipeClosed = [q \in Request |-> {}]
    /\ stored = FALSE
    /\ trouble = [q \in Request |-> {}]

Goto(q, l) == pc' = [pc EXCEPT ![q] = l]
Blame(q, who) == trouble' = [trouble EXCEPT ![q] = @ \cup {who}]
Gone(q) == "client" \in trouble[q]

\* Something the environment does to q, or a consequence of the client's
\* disconnect, which cancels the context of every call.
Hit(q, who, faults) == faults # {} /\ Blame(q, who)
Cancelled(q) == Gone(q) /\ UNCHANGED trouble
Fine(q) == ~Gone(q) /\ UNCHANGED trouble

-----------------------------------------------------------------------------
(* The copier: handleBlob.                                                 *)

\* HeadBlob: only a clean "present" is a hit; an error counts as a miss.
Probe(q) ==
    /\ pc[q] = "probe"
    /\ \/ Goto(q, IF stored THEN "fetch" ELSE "open") /\ Fine(q)
       \/ Goto(q, "open") /\ (Hit(q, "writer", WriterFaults) \/ Cancelled(q))
    /\ UNCHANGED <<via, read, got, expired, uploaderVars, stored>>

\* streamBlobFromWriter.  The writer sends the whole body, nothing for a
\* HEAD, or breaks off.
Fetch(q) ==
    /\ pc[q] = "fetch"
    /\ \E size \in {0, N} : \E n \in 0 .. size :
         /\ got' = [got EXCEPT ![q] = n]
         /\ \/ n = size /\ Fine(q)
            \/ Hit(q, "writer", WriterFaults \cap {"error"})
            \/ Cancelled(q)
    /\ via' = [via EXCEPT ![q] = "writer"]
    /\ Goto(q, "done")
    /\ UNCHANGED <<read, expired, uploaderVars, stored>>

\* openUpstreamBlob fails, answers an error or no Content-Length: 502.
OpenFails(q) ==
    /\ pc[q] = "open"
    /\ Hit(q, "upstream", UpstreamFaults \cap {"error"}) \/ Cancelled(q)
    /\ Goto(q, "done")
    /\ UNCHANGED <<via, read, got, expired, uploaderVars, stored>>

\* The headers of the answer; then, for a GET, the pipe and the uploader.
Open(q) ==
    /\ pc[q] = "open"
    /\ Fine(q)
    /\ \/ /\ via' = [via EXCEPT ![q] = "head"]
          /\ Goto(q, "done")
          /\ UNCHANGED up
       \/ /\ via' = [via EXCEPT ![q] = "upstream"]
          /\ Goto(q, "read")
          /\ up' = [up EXCEPT ![q] = "post"]
    /\ UNCHANGED <<read, got, expired, stuck, cacheGot, pipeClosed, stored>>

\* io.Copy, while there is more to read.
More_OffByOne(q) == read[q] <= N
More(q) == read[q] < N

Read(q) ==
    /\ pc[q] = "read" /\ More(q)
    /\ ~expired[q] /\ Fine(q)
    /\ read' = [read EXCEPT ![q] = @ + 1]
    /\ Goto(q, "tee")
    /\ UNCHANGED <<via, got, expired, uploaderVars, stored>>

\* io.Copy returns: at the end of the body, or because the upstream broke
\* off, its 5 minutes are over, or the client is gone.
ReadEnds(q) ==
    /\ pc[q] = "read"
    /\ \/ ~More(q) /\ UNCHANGED trouble
       \/ More(q) /\ expired[q] /\ UNCHANGED trouble
       \/ More(q) /\ (Hit(q, "upstream", UpstreamFaults \cap {"error"}) \/ Cancelled(q))
    /\ Goto(q, "close")
    /\ UNCHANGED <<via, read, got, expired, uploaderVars, stored>>

\* resilientTee.Write, the cache: pipeW.Write returns once the uploader has
\* taken the chunk, or with an error once the reader's end is closed.  It
\* never opens again, so that cacheBroken only spares the further attempts.
Transfer(q) ==
    /\ pc[q] = "tee" /\ pipeClosed[q] = {}
    /\ up[q] = "patch" /\ ~stuck[q]
    /\ cacheGot' = [cacheGot EXCEPT ![q] = @ + 1]
    /\ Goto(q, "send")
    /\ UNCHANGED <<via, read, got, expired, up, stuck, pipeClosed, stored, trouble>>

\* Where the copier goes when the cache refuses a chunk: on to the client.
AfterCacheError_Stops == "close"
AfterCacheError == "send"

CacheBroken(q) ==
    /\ pc[q] = "tee" /\ "reader" \in pipeClosed[q]
    /\ Goto(q, AfterCacheError)
    /\ UNCHANGED <<via, read, got, expired, uploaderVars, stored, trouble>>

\* resilientTee.Write, the client; an error ends the copy.
Send(q) ==
    /\ pc[q] = "send"
    /\ IF Gone(q)
       THEN Goto(q, "close") /\ UNCHANGED got
       ELSE Goto(q, "read") /\ got' = [got EXCEPT ![q] = @ + 1]
    /\ UNCHANGED <<via, read, expired, uploaderVars, stored, trouble>>

\* pipeW.Close(), whether the copy succeeded or not.
ClosePipe(q) ==
    /\ pc[q] = "close"
    /\ pipeClosed' = [pipeClosed EXCEPT ![q] = @ \cup {"writer"}]
    /\ Goto(q, "await")
    /\ UNCHANGED <<via, read, got, expired, up, stuck, cacheGot, stored, trouble>>

\* <-uploadErrCh.  When the handler returns, the server cancels its context
\* and what is left of an upload with it.
Answered_AtOnce(q) == TRUE
Answered(q) == up[q] \in {"ok", "failed"}

AwaitUpload(q) ==
    /\ pc[q] = "await"
    /\ Answered(q)
    /\ Goto(q, "done")
    /\ up' = [up EXCEPT ![q] = IF @ = "ok" THEN "ok" ELSE "failed"]
    /\ UNCHANGED <<via, read, got, expired, stuck, cacheGot, pipeClosed, stored, trouble>>

-----------------------------------------------------------------------------
(* The uploader: UploadBlob in a goroutine of its own.                     *)

\* POST: the session of the upload.
UploadInit(q) ==
    /\ up[q] = "post" /\ ~stuck[q] /\ ~Gone(q)
    /\ up' = [up EXCEPT ![q] = "patch"]
    /\ UNCHANGED <<copierVars, stuck, cacheGot, pipeClosed, stored, trouble>>

\* PATCH, which ends when the pipe does.
UploadPatch(q) ==
    /\ up[q] = "patch" /\ ~stuck[q] /\ ~Gone(q)
    /\ "writer" \in pipeClosed[q] /\ cacheGot[q] = N
    /\ up' = [up EXCEPT ![q] = "put"]
    /\ UNCHANGED <<copierVars, stuck, cacheGot, pipeClosed, stored, trouble>>

\* PUT with the digest: the blob is in the repository.
UploadFinalize(q) ==
    /\ up[q] = "put" /\ ~stuck[q] /\ ~Gone(q)
    /\ up' = [up EXCEPT ![q] = "ok"]
    /\ stored' = TRUE
    /\ UNCHANGED <<copierVars, stuck, cacheGot, pipeClosed, trouble>>

\* What a failed upload closes: the goroutine calls pipeR.CloseWithError.
\* (The transport closes the body of the PATCH only.)
ClosedByFailure_TransportOnly(q) == IF up[q] = "patch" THEN {"reader"} ELSE {}
ClosedByFailure(q) == {"reader"}

UploadFailed(q) ==
    /\ up[q] \in {"post", "patch", "put"}
    /\ up' = [up EXCEPT ![q] = "failed"]
    /\ stuck' = [stuck EXCEPT ![q] = FALSE]
    /\ pipeClosed' = [pipeClosed EXCEPT ![q] = @ \cup ClosedByFailure(q)]
    /\ UNCHANGED <<copierVars, cacheGot>>

\* A request of the upload ends without an answer: by the client's disconnect,
\* after 5 minutes (the upstream request was made earlier, so its own 5 minutes
\* are over by then), or because the body is shorter than the Content-Length
\* that the PATCH announced.
UploadGivesUp(q) ==
    /\ \/ Cancelled(q)
       \/ stuck[q] /\ expired[q] /\ UNCHANGED trouble
       \/ up[q] = "patch" /\ "writer" \in pipeClosed[q] /\ cacheGot[q] < N /\ UNCHANGED trouble
    /\ UploadFailed(q)
    /\ UNCHANGED stored

\* The writer fails it, or breaks off when the blob is in the repository already.
UploadRefused(q) ==
    /\ Hit(q, "writer", WriterFaults \cap {"error"})
    /\ UploadFailed(q)
    /\ \/ UNCHANGED stored
       \/ up[q] = "put" /\ stored' = TRUE

-----------------------------------------------------------------------------
(* The environment.                                                        *)

WriterWedges(q) ==
    /\ up[q] \in {"post", "patch", "put"} /\ ~stuck[q]
    /\ Hit(q, "wedge", WriterFaults \cap {"wedge"})
    /\ stuck' = [stuck EXCEPT ![q] = TRUE]
    /\ UNCHANGED <<copierVars, up, cacheGot, pipeClosed, stored>>

\* The timeout of the upstream request, which runs while its body is read:
\* time passes because the writer does not answer or the upstream is slow.
UpstreamExpires(q) ==
    /\ pc[q] \in {"read", "tee", "send", "close", "await"} /\ ~expired[q]
    /\ \/ stuck[q] /\ UNCHANGED trouble
       \/ Hit(q, "upstream", UpstreamFaults \cap {"slow"})
    /\ expired' = [expired EXCEPT ![q] = TRUE]
    /\ UNCHANGED <<pc, via, read, got, uploaderVars, stored>>

\* The server notices that the client is gone.
ClientDisconnects(q) ==
    /\ q \in Leaving
    /\ pc[q] # "done" /\ ~Gone(q)
    /\ Blame(q, "client")
    /\ UNCHANGED <<copierVars, uploaderVars, stored>>

-----------------------------------------------------------------------------

CopierStep(q) ==
    \/ Probe(q) \/ Fetch(q) \/ Open(q) \/ OpenFails(q) \/ Read(q) \/ ReadEnds(q)
    \/ Transfer(q) \/ CacheBroken(q) \/ Send(q) \/ ClosePipe(q) \/ AwaitUpload(q)

UploaderStep(q) ==
    UploadInit(q) \/ UploadPatch(q) \/ UploadFinalize(q) \/ UploadGivesUp(q)

Environment(q) ==
    UploadRefused(q) \/ WriterWedges(q) \/ UpstreamExpires(q) \/ ClientDisconnects(q)

Next == \E q \in Request : CopierStep(q) \/ UploaderStep(q) \/ Environment(q)

Spec == Init /\ [][Next]_vars

(***************************************************************************)
(* Go runs every goroutine that can go on, the upstream and a writer that  *)
(* is not wedged answer in the end, and the timeouts of http.Client expire.*)
(* Nothing fails of necessity and no client has to leave: an error of the  *)
(* writer is no step of the uploader, and the copier has none that only a  *)
(* fault can take.  Clients read what they are sent until they leave.      *)
(***************************************************************************)
FairSpec ==
    /\ Spec
    /\ \A q \in Request : /\ WF_vars(CopierStep(q))
                          /\ WF_vars(UploaderStep(q))
                          /\ WF_vars(stuck[q] /\ UpstreamExpires(q))

-----------------------------------------------------------------------------
(* Properties.                                                             *)

Served(q) == pc[q] = "done" /\ via[q] = "upstream"

\* A GET that was answered 200 from the upstream ended with the whole body,
\* unless the upstream failed or the client left: an error of the writer never
\* shows (proxy.go:446-448).  A writer that hangs does: the copier waits for
\* it until the 5 minutes of the upstream's body are over.
BodyWhole ==
    \A q \in Request : Served(q) /\ trouble[q] \subseteq {"writer"} => got[q] = N

\* A GET that nobody failed leaves the blob in the cache when it returns, so
\* that the next pull is a hit: the upload is not cut off by its own request.
CleanPullCached == \A q \in Request : Served(q) /\ trouble[q] = {} => stored

\* Every handler returns, however the copier and the uploader interleave and
\* whichever of them fails (proxy.go:450-455 tells of the one that hung).
HandlerReturns == \A q \in Request : <>(pc[q] = "done")
=============================================================================
