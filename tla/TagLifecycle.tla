---------------------------- MODULE TagLifecycle ----------------------------
(***************************************************************************)
(* The life of a tag in aocr: clients push, pull and delete in the         *)
(* Distribution registry; the registry's frontends queue notifications and *)
(* deliver them, with retries, to the hooks API; the handlers of the hooks *)
(* API keep the images table and start a reap of the repositories that were*)
(* pushed to; the scheduled reaper sweeps the table.  All of them run      *)
(* concurrently and share nothing but the registry, PostgreSQL and Redis.  *)
(*                                                                         *)
(* One atomic step is what happens between two awaits: one SQL statement   *)
(* (or the transaction of an upsert), one registry request, one Redis call.*)
(***************************************************************************)
EXTENDS Retention

CONSTANTS
    Handler,          \* hook requests that can be in progress at once
    Cron,             \* the scheduled reapers
    Frontend,         \* Distribution processes, each with its own queue
    Main,             \* the one at REGISTRY_URL, that reapers call
    FrontendOf,       \* [Repo -> Frontend], where clients reach a repository
    EnvOf,            \* [Handler \cup Cron -> environment of the process]
    CronScope,        \* REPOSITORY_IDS; {} is all repositories
    RedisUp,          \* REDIS_HOST is set
    ReaperAuthorized, \* the registry accepts requests without a token
    SharedContent,    \* may the same content be pushed twice
    Legacy,           \* images whose row predates manifest_digest
    Bounds            \* what behaviours may use of the above, see Bound

Proc == Handler \cup Cron
Budget == {"push", "pull", "delete", "blob", "timeout", "fault", "crash"}

\* The bounds of a behaviour: the images that are pushed, the handlers that
\* serve, the events per notification, the last instant of the clock, and how
\* often the environment may do each thing.
Bound == [images : SUBSET Image, handlers : SUBSET Handler, batch : Nat, time : Nat,
          use : [Budget -> Nat]]

ASSUME LifecycleAssumption ==
    /\ Handler \cap Cron = {}
    /\ NULL \notin Handler
    /\ NULL \notin Repo
    /\ Main \in Frontend
    /\ FrontendOf \in [Repo -> Frontend]
    /\ CronScope \subseteq Repo
    /\ RedisUp \in BOOLEAN /\ ReaperAuthorized \in BOOLEAN /\ SharedContent \in BOOLEAN
    /\ Legacy \subseteq Image
    /\ Digest \subseteq Nat /\ 0 \in Digest
    /\ Bounds \subseteq Bound

VARIABLES
    tag,       \* registry: the digest a tag points to
    taggedAt,  \* registry: when the tag was last written
    manifest,  \* registry: the stored manifests, <<repository, digest>>
    queue,     \* per frontend: notifications not yet acknowledged
    awaiting,  \* per frontend: the handler whose answer it waits for
    sent,      \* per frontend: how many events that request carries
    row,       \* PostgreSQL: the images table
    nextId,    \* PostgreSQL: the next gen_random_uuid()
    cached,    \* Redis: current.images and the hash of each member
    pc,        \* per process: where it is
    body,      \* per handler: events of the request not yet processed
    pushedAt,  \* per handler: the clock read for the push in progress
    toReap,    \* per handler: repositoriesToReap
    work,      \* per process: selected rows not yet processed
    now,       \* the wall clock
    used,      \* how much of bound.use is spent
    bound      \* the bounds of this behaviour

registryVars == <<tag, taggedAt, manifest>>
notifyVars   == <<queue, awaiting, sent>>
tableVars    == <<row, nextId>>
handlerVars  == <<body, pushedAt, toReap>>
procVars     == <<pc, work>>
vars == <<registryVars, notifyVars, tableVars, cached, handlerVars, procVars, now, used, bound>>

\* Pushes and pulls of a tag name it, and it lies in the event's repository.
Event == {e \in [action : {"push", "pull", "delete", "blob"}, repo : Repo,
                 image : Image \cup {NULL}, digest : Digest \cup {NULL}] :
            e.action \in {"push", "pull"} => e.image \in Image /\ e.repo = RepoOf[e.image]}
PC == {"idle", "next", "upsert", "reap", "drop", "uncache", "forget"}

Spend(b) == used[b] < bound.use[b] /\ used' = [used EXCEPT ![b] = @ + 1]

\* Steps of the environment; used by properties to tell them from the code's.
ClientStep == \E b \in {"push", "delete"} : used'[b] # used[b]

TypeOK ==
    /\ tag \in [Image -> Digest \cup {NULL}]
    /\ taggedAt \in [Image -> Nat]
    /\ manifest \subseteq Repo \X Digest
    /\ queue \in [Frontend -> Seq(Event)]
    /\ awaiting \in [Frontend -> Handler \cup {NULL}]
    /\ sent \in [Frontend -> Nat]
    /\ row \in [Image -> Row \cup {NULL}]
    /\ nextId \in Nat
    /\ cached \subseteq Image
    /\ pc \in [Proc -> PC]
    /\ body \in [Handler -> Seq(Event)]
    /\ pushedAt \in [Handler -> Nat]
    /\ toReap \in [Handler -> SUBSET Repo]
    /\ work \in [Proc -> SUBSET Candidate]
    /\ now \in Nat
    /\ used \in [Budget -> Nat]
    /\ bound \in Bounds

\* A registry and a table as an upgrade leaves them: images in Legacy have a
\* live tag and a row without a digest, whose provenance the upgrade makes
\* "pushed" wherever it lies; everything else is empty.
LegacyRow == [id |-> 0, digest |-> NULL, createdAt |-> 0, pushedAt |-> 0, pulledAt |-> NULL,
              mode |-> "keep-latest", value |-> NULL, expiresAt |-> NULL, provenance |-> "pushed"]

Init ==
    /\ bound \in Bounds
    /\ tag = [i \in Image |-> IF i \in Legacy \cap bound.images THEN 0 ELSE NULL]
    /\ taggedAt = [i \in Image |-> 0]
    /\ manifest = {<<RepoOf[i], 0>> : i \in Legacy \cap bound.images}
    /\ queue = [f \in Frontend |-> << >>]
    /\ awaiting = [f \in Frontend |-> NULL]
    /\ sent = [f \in Frontend |-> 0]
    /\ row = [i \in Image |-> IF i \in Legacy \cap bound.images THEN LegacyRow ELSE NULL]
    /\ nextId = 1
    /\ cached = {}
    /\ pc = [p \in Proc |-> "idle"]
    /\ body = [h \in Handler |-> << >>]
    /\ pushedAt = [h \in Handler |-> 0]
    /\ toReap = [h \in Handler |-> {}]
    /\ work = [p \in Proc |-> {}]
    /\ now = 0
    /\ used = [b \in Budget |-> 0]

-----------------------------------------------------------------------------
(* The registry (Docker Distribution, external).                           *)

Notify(f, a, r, i, d) ==
    queue' = [queue EXCEPT ![f] = Append(@, [action |-> a, repo |-> r, image |-> i, digest |-> d])]

\* PUT of a manifest by tag.  Unless content is shared, the n-th push brings
\* the n-th digest, so that no two pushes have the same content.
PushTag(i, d) ==
    /\ Spend("push")
    /\ i \in bound.images
    /\ SharedContent \/ d = used["push"] + 1
    /\ tag' = [tag EXCEPT ![i] = d]
    /\ taggedAt' = [taggedAt EXCEPT ![i] = now]
    /\ manifest' = manifest \cup {<<RepoOf[i], d>>}
    /\ Notify(FrontendOf[RepoOf[i]], "push", RepoOf[i], i, d)
    /\ UNCHANGED <<awaiting, sent, tableVars, cached, handlerVars, procVars, now, bound>>

\* GET of a manifest by tag.
PullTag(i) ==
    /\ Spend("pull")
    /\ tag[i] # NULL
    /\ Notify(FrontendOf[RepoOf[i]], "pull", RepoOf[i], i, tag[i])
    /\ UNCHANGED <<registryVars, awaiting, sent, tableVars, cached, handlerVars, procVars, now, bound>>

\* Blob pulls, pulls and pushes by digest: notifications without a tag.
BlobTraffic(r) ==
    /\ Spend("blob")
    /\ Notify(FrontendOf[r], "blob", r, NULL, NULL)
    /\ UNCHANGED <<registryVars, awaiting, sent, tableVars, cached, handlerVars, procVars, now, bound>>

\* DELETE of a manifest removes it and every tag of the repository on it.
Untag(r, d) == [i \in Image |-> IF RepoOf[i] = r /\ tag[i] = d THEN NULL ELSE tag[i]]

DeleteByClient(r, d) ==
    /\ Spend("delete")
    /\ <<r, d>> \in manifest
    /\ manifest' = manifest \ {<<r, d>>}
    /\ tag' = Untag(r, d)
    /\ Notify(FrontendOf[r], "delete", r, NULL, d)
    /\ UNCHANGED <<taggedAt, awaiting, sent, tableVars, cached, handlerVars, procVars, now, bound>>

\* The endpoint's queue is sent in order, one request at a time.
Deliver(f, h) ==
    /\ queue[f] # << >>
    /\ awaiting[f] = NULL
    /\ pc[h] = "idle" /\ h \in bound.handlers
    /\ \E n \in 1 .. bound.batch :
         /\ n <= Len(queue[f])
         /\ body' = [body EXCEPT ![h] = SubSeq(queue[f], 1, n)]
         /\ sent' = [sent EXCEPT ![f] = n]
    /\ awaiting' = [awaiting EXCEPT ![f] = h]
    /\ toReap' = [toReap EXCEPT ![h] = {}]
    /\ pc' = [pc EXCEPT ![h] = "next"]
    /\ UNCHANGED <<registryVars, queue, tableVars, cached, pushedAt, work, now, used, bound>>

\* timeout: 1s.  The handler goes on, the same events will be sent again.
Timeout(f) ==
    /\ Spend("timeout")
    /\ awaiting[f] # NULL
    /\ awaiting' = [awaiting EXCEPT ![f] = NULL]
    /\ UNCHANGED <<registryVars, queue, sent, tableVars, cached, handlerVars, procVars, now, bound>>

\* The queue is in memory only.
RegistryRestart(f) ==
    /\ Spend("crash")
    /\ queue' = [queue EXCEPT ![f] = << >>]
    /\ awaiting' = [awaiting EXCEPT ![f] = NULL]
    /\ UNCHANGED <<registryVars, sent, tableVars, cached, handlerVars, procVars, now, bound>>

-----------------------------------------------------------------------------
(* processRegistryEvents.                                                  *)

AtEvent(h, a) == pc[h] = "next" /\ body[h] # << >> /\ Head(body[h]).action = a

NextEvent(h) ==
    /\ body' = [body EXCEPT ![h] = Tail(@)]
    /\ pc' = [pc EXCEPT ![h] = "next"]

\* A push: read the clock, cache the push in Redis (a failure is logged and
\* swallowed), then give up on a path without <org>/<name>.
StartPush(h) ==
    LET e == Head(body[h]) IN
    /\ AtEvent(h, "push")
    /\ pushedAt' = [pushedAt EXCEPT ![h] = now]
    /\ \/ cached' = (IF RedisUp THEN cached \cup {e.image} ELSE cached) /\ UNCHANGED used
       \/ RedisUp /\ Spend("fault") /\ UNCHANGED cached
    /\ IF Parses(e.repo)
       THEN pc' = [pc EXCEPT ![h] = "upsert"] /\ UNCHANGED body
       ELSE NextEvent(h)
    /\ UNCHANGED <<registryVars, notifyVars, tableVars, toReap, work, now, bound>>

\* BEGIN, upsert of the repository and of the image, COMMIT.  If the answer to the
\* COMMIT is lost, the row is there, and the handler does not reap.
UpsertTag(h) ==
    LET e == Head(body[h]) IN
    /\ pc[h] = "upsert"
    /\ Storable(e.repo)
    /\ row' = [row EXCEPT ![e.image] = Upserted(@, nextId, e.image, e.digest, pushedAt[h], now)]
    /\ nextId' = IF row[e.image] = NULL THEN nextId + 1 ELSE nextId
    /\ \/ toReap' = [toReap EXCEPT ![h] = @ \cup {e.repo}] /\ UNCHANGED used
       \/ Spend("fault") /\ UNCHANGED toReap
    /\ NextEvent(h)
    /\ UNCHANGED <<registryVars, notifyVars, cached, pushedAt, work, now, bound>>

\* ROLLBACK: the error is logged and the event is done with.
UpsertFails(h) ==
    /\ pc[h] = "upsert"
    /\ IF Storable(Head(body[h]).repo) THEN Spend("fault") ELSE UNCHANGED used
    /\ NextEvent(h)
    /\ UNCHANGED <<registryVars, notifyVars, tableVars, cached, pushedAt, toReap, work, now, bound>>

\* DELETE_MANIFEST_SQL: every row of the repository with that digest.
RecordDelete(h) ==
    LET e == Head(body[h]) IN
    /\ AtEvent(h, "delete")
    /\ Parses(e.repo)
    /\ row' = [i \in Image |-> IF RepoOf[i] = e.repo /\ row[i] # NULL /\ row[i].digest = e.digest
                               THEN NULL ELSE row[i]]
    /\ NextEvent(h)
    /\ UNCHANGED <<registryVars, notifyVars, nextId, cached, pushedAt, toReap, work, now, used, bound>>

\* UPDATE_LAST_PULLED_AT_SQL.
RecordPull(h) ==
    LET e == Head(body[h]) IN
    /\ AtEvent(h, "pull")
    /\ Parses(e.repo)
    /\ row' = [row EXCEPT ![e.image] = IF @ = NULL THEN @ ELSE Pulled(@, now)]
    /\ NextEvent(h)
    /\ UNCHANGED <<registryVars, notifyVars, nextId, cached, pushedAt, toReap, work, now, used, bound>>

\* No tag, no <org>/<name>, or an SQL error that is logged and swallowed.
SkipEvent(h) ==
    /\ pc[h] = "next" /\ body[h] # << >>
    /\ LET e == Head(body[h]) IN
         \/ e.action = "blob" /\ UNCHANGED used
         \/ e.action \in {"pull", "delete"} /\ ~Parses(e.repo) /\ UNCHANGED used
         \/ e.action \in {"pull", "delete"} /\ Spend("fault")
    /\ NextEvent(h)
    /\ UNCHANGED <<registryVars, notifyVars, tableVars, cached, pushedAt, toReap, work, now, bound>>

\* A response that the frontend does not take for a success.
Reply_Unacknowledged(h) ==
    /\ pc[h] = "next" /\ body[h] = << >> /\ toReap[h] = {}
    /\ pc' = [pc EXCEPT ![h] = "idle"]
    /\ awaiting' = [f \in Frontend |-> IF awaiting[f] = h THEN NULL ELSE awaiting[f]]
    /\ UNCHANGED <<registryVars, queue, sent, tableVars, cached, handlerVars, work, now, used, bound>>

\* The response, once the reaps are done.  It only counts for a frontend
\* that still waits for it.  A request without the shared token is turned away
\* with 401 before any of this, and is no delivery.
Reply(h) ==
    /\ pc[h] = "next" /\ body[h] = << >> /\ toReap[h] = {}
    /\ pc' = [pc EXCEPT ![h] = "idle"]
    /\ queue' = [f \in Frontend |->
                   IF awaiting[f] = h THEN SubSeq(queue[f], sent[f] + 1, Len(queue[f]))
                                      ELSE queue[f]]
    /\ awaiting' = [f \in Frontend |-> IF awaiting[f] = h THEN NULL ELSE awaiting[f]]
    /\ UNCHANGED <<registryVars, sent, tableVars, cached, handlerVars, work, now, used, bound>>

-----------------------------------------------------------------------------
(* reapObsoleteImages, called by handlers and by the scheduled reapers.    *)

\* Where a process goes when no selected row is left.
AfterReap(p) == IF p \in Cron THEN "idle" ELSE "next"

Select(p, scope) ==
    LET images == Selected(row, scope, EnvOf[p], now) IN
    /\ work' = [work EXCEPT ![p] = Snapshot(row, images)]
    /\ pc' = [pc EXCEPT ![p] = IF images = {} THEN AfterReap(p) ELSE "reap"]

\* One repository of repositoriesToReap; a failed query is logged.
StartReap(h) ==
    /\ pc[h] = "next" /\ body[h] = << >>
    /\ \E r \in toReap[h] :
         /\ toReap' = [toReap EXCEPT ![h] = @ \ {r}]
         /\ \/ Select(h, {r}) /\ UNCHANGED used
            \/ Spend("fault") /\ UNCHANGED procVars
    /\ UNCHANGED <<registryVars, notifyVars, tableVars, cached, body, pushedAt, now, bound>>

\* onTick; jobRunning is pc[c] # "idle".  Run once from the command line, the reaper
\* is one tick of this and ends.
CronTick(c) ==
    /\ pc[c] = "idle"
    /\ Select(c, IF CronScope = {} THEN Repo ELSE CronScope)
    /\ UNCHANGED <<registryVars, notifyVars, tableVars, cached, handlerVars, now, used, bound>>

\* The rows are processed in the query's order.
First(c, cs) == c \in cs /\ \A e \in cs : TagRank[c.image] <= TagRank[e.image]

Advance(p, c) ==
    /\ work' = [work EXCEPT ![p] = @ \ {c}]
    /\ pc' = [pc EXCEPT ![p] = IF work[p] = {c} THEN AfterReap(p) ELSE "reap"]

\* getDigestForTag: HEAD by tag for a row without a digest.  The registry
\* announces it as a pull.  The answer is taken to be about what the tag points to
\* (a Docker manifest list, which manifestHeaders does not name, may be answered
\* with one of its images).
HeadTag(p, c) ==
    /\ pc[p] = "reap" /\ First(c, work[p]) /\ c.digest = NULL
    /\ ReaperAuthorized
    /\ IF tag[c.image] = NULL
       THEN pc' = [pc EXCEPT ![p] = "forget"] /\ UNCHANGED <<work, queue>>
       ELSE /\ work' = [work EXCEPT ![p] = (@ \ {c}) \cup {[c EXCEPT !.digest = tag[c.image]]}]
            /\ Notify(Main, "pull", RepoOf[c.image], c.image, tag[c.image])
            /\ UNCHANGED pc
    /\ UNCHANGED <<registryVars, awaiting, sent, tableVars, cached, handlerVars, now, used, bound>>

\* DELETE /v2/<repo>/manifests/<digest>, and what the reaper accepts for an
\* answer: a manifest that is gone already is as good as one just deleted.
DeleteStatus(r, d) == IF <<r, d>> \in manifest THEN 202 ELSE 404

Accepted_NotFoundFails(status) == status \in {202, 204}
Accepted(status) == status \in {202, 204, 404}

DeleteManifest(p, c) ==
    LET r == RepoOf[c.image] IN
    /\ pc[p] = "reap" /\ First(c, work[p]) /\ c.digest # NULL
    /\ ReaperAuthorized
    /\ IF Accepted(DeleteStatus(r, c.digest))
       THEN pc' = [pc EXCEPT ![p] = "drop"] /\ UNCHANGED work
       ELSE Advance(p, c)
    /\ IF <<r, c.digest>> \in manifest
       THEN /\ manifest' = manifest \ {<<r, c.digest>>}
            /\ tag' = Untag(r, c.digest)
            /\ Notify(Main, "delete", r, NULL, c.digest)
       ELSE UNCHANGED <<manifest, tag, queue>>
    /\ UNCHANGED <<taggedAt, awaiting, sent, tableVars, cached, handlerVars, now, used, bound>>

\* Any other answer, or none, to the HEAD or the DELETE: on to the next row.
RegistryRefuses(p, c) ==
    /\ pc[p] = "reap" /\ First(c, work[p])
    /\ IF ReaperAuthorized THEN Spend("fault") ELSE UNCHANGED used
    /\ Advance(p, c)
    /\ UNCHANGED <<registryVars, notifyVars, tableVars, cached, handlerVars, now, bound>>

\* DELETE FROM images WHERE id = $1, by the candidate's id.  If its answer is lost,
\* what follows is what follows a failure (Uncache's, or none).
SameRow_ByName(c) == row[c.image] # NULL
SameRow(c) == row[c.image] # NULL /\ row[c.image].id = c.id

DeleteRow(c) ==
    /\ row' = IF SameRow(c) THEN [row EXCEPT ![c.image] = NULL] ELSE row
    /\ UNCHANGED nextId

\* After 202, 204 and 404: the row ...
DropRow(p, c) ==
    /\ pc[p] = "drop" /\ First(c, work[p])
    /\ DeleteRow(c)
    /\ IF RedisUp THEN pc' = [pc EXCEPT ![p] = "uncache"] /\ UNCHANGED work ELSE Advance(p, c)
    /\ UNCHANGED <<registryVars, notifyVars, cached, handlerVars, now, used, bound>>

\* ... and then its Redis entry; a failure is logged.
Uncache(p, c) ==
    /\ pc[p] = "uncache" /\ First(c, work[p])
    /\ \/ cached' = cached \ {c.image} /\ UNCHANGED used
       \/ Spend("fault") /\ UNCHANGED cached
    /\ Advance(p, c)
    /\ UNCHANGED <<registryVars, notifyVars, tableVars, handlerVars, now, bound>>

\* The tag is gone and its digest unknown: the row only.
ForgetRow(p, c) ==
    /\ pc[p] = "forget" /\ First(c, work[p])
    /\ DeleteRow(c)
    /\ Advance(p, c)
    /\ UNCHANGED <<registryVars, notifyVars, cached, handlerVars, now, used, bound>>

\* The row's DELETE fails: logged, the row stays.
DropFails(p, c) ==
    /\ pc[p] \in {"drop", "forget"} /\ First(c, work[p])
    /\ Spend("fault")
    /\ Advance(p, c)
    /\ UNCHANGED <<registryVars, notifyVars, tableVars, cached, handlerVars, now, bound>>

-----------------------------------------------------------------------------
(* Crashes and the clock.                                                  *)

\* The hooks process dies with every request it was serving.
HooksRestart ==
    /\ Spend("crash")
    /\ pc' = [p \in Proc |-> IF p \in Handler THEN "idle" ELSE pc[p]]
    /\ work' = [p \in Proc |-> IF p \in Handler THEN {} ELSE work[p]]
    /\ body' = [h \in Handler |-> << >>]
    /\ toReap' = [h \in Handler |-> {}]
    /\ awaiting' = [f \in Frontend |-> NULL]
    /\ UNCHANGED <<registryVars, queue, sent, tableVars, cached, pushedAt, now, bound>>

ReaperRestart(c) ==
    /\ Spend("crash")
    /\ pc[c] # "idle"
    /\ pc' = [pc EXCEPT ![c] = "idle"]
    /\ work' = [work EXCEPT ![c] = {}]
    /\ UNCHANGED <<registryVars, notifyVars, tableVars, cached, handlerVars, now, bound>>

Tick ==
    /\ now < bound.time
    /\ now' = now + 1
    /\ UNCHANGED <<registryVars, notifyVars, tableVars, cached, handlerVars, procVars, used, bound>>

-----------------------------------------------------------------------------

Client ==
    \/ \E i \in Image : PullTag(i) \/ \E d \in Digest : PushTag(i, d)
    \/ \E r \in Repo : BlobTraffic(r) \/ \E d \in Digest : DeleteByClient(r, d)

HookStep(h) ==
    \/ StartPush(h) \/ UpsertTag(h) \/ UpsertFails(h)
    \/ RecordDelete(h) \/ RecordPull(h) \/ SkipEvent(h)
    \/ StartReap(h) \/ Reply(h)

ReapStep(p) ==
    \E c \in work[p] :
        \/ HeadTag(p, c) \/ DeleteManifest(p, c) \/ RegistryRefuses(p, c)
        \/ DropRow(p, c) \/ Uncache(p, c) \/ ForgetRow(p, c) \/ DropFails(p, c)

Trouble ==
    \/ \E f \in Frontend : Timeout(f) \/ RegistryRestart(f)
    \/ HooksRestart
    \/ \E c \in Cron : ReaperRestart(c)

Next ==
    \/ Client
    \/ \E f \in Frontend, h \in Handler : Deliver(f, h)
    \/ \E h \in Handler : HookStep(h)
    \/ \E p \in Proc : ReapStep(p)
    \/ \E c \in Cron : CronTick(c)
    \/ Trouble
    \/ Tick

Spec == Init /\ [][Next]_vars

(***************************************************************************)
(* Node's event loop runs every request and every reap to its end, cron    *)
(* ticks every minute, and Distribution's retrying sink never gives up.    *)
(* Clients, failures and the clock owe nothing.                            *)
(***************************************************************************)
Fairness ==
    /\ \A f \in Frontend : WF_vars(\E h \in Handler : Deliver(f, h))
    /\ \A h \in Handler : WF_vars(HookStep(h))
    /\ \A p \in Proc : WF_vars(ReapStep(p))
    /\ \A c \in Cron : WF_vars(CronTick(c))

FairSpec == Spec /\ Fairness

-----------------------------------------------------------------------------
(* Properties.                                                             *)

\* A row that no reaper has selected and that no delete notification in
\* progress names stays in the table, however stale the snapshots that the
\* concurrent reapers still work through: imageRetention.ts deletes by the id
\* of the snapshot, so a row inserted again under the same tag survives.
Condemned(i) ==
    \/ \E p \in Proc : \E c \in work[p] : c.image = i /\ c.id = row[i].id
    \/ \E h \in Handler : /\ AtEvent(h, "delete")
                          /\ Head(body[h]).repo = RepoOf[i]
                          /\ Head(body[h]).digest = row[i].digest

UnselectedRowSurvives ==
    [][\A i \in Image : row[i] # NULL /\ ~Condemned(i)
                          => row'[i] # NULL /\ row'[i].id = row[i].id]_vars

\* No reap, by whichever process and on whichever snapshot, changes a tag of
\* a repository that every process protects: only clients do.
ProtectedRepo(r) == \A p \in Proc : \E ns \in EnvOf[p].protected : Under(PathOf[r], ns)

ProtectedTagsStay ==
    [][\A i \in Image : ProtectedRepo(RepoOf[i]) /\ tag'[i] # tag[i] => ClientStep]_vars

\* A --ttl-* tag stays pullable until its time since the push has passed,
\* unless a client deletes it, whatever is delivered late, twice or never.
\* (README.md:45; it needs content that is pushed under one tag only.)
PullableUntilExpiry ==
    [][\A i \in Image :
         /\ SuffixOf[i].kind = "ttl" /\ SuffixOf[i].label \in DOMAIN SuffixSeconds
         /\ tag[i] # NULL /\ tag'[i] = NULL /\ ~ClientStep
         => taggedAt[i] + SuffixSeconds[SuffixOf[i].label] <= now]_vars

\* What the scheduled reaper would select eventually is not stale any more:
\* reaped, refreshed by a push or a pull, or newest again.
StaleEventuallyReaped ==
    \A i \in Image, c \in Cron :
        (RepoOf[i] \in CronScope \/ CronScope = {}) /\ Stale(row, i, EnvOf[c], now)
            ~> ~Stale(row, i, EnvOf[c], now)

\* Every queue of notifications drains.
NotificationsDrain == \A f \in Frontend : queue[f] # << >> ~> queue[f] = << >>
=============================================================================
