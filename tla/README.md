# A formal model of aocr

aocr is a private OCI registry: CNCF Distribution behind a token service, with retention rules
that delete tags, a pull-through mirror of public registries, imports of mirrored images into the
repositories of a cluster, and a list of images for clients. This directory holds TLA+ models of the parts in which several
processes work on shared state, configurations that check them with TLC on small instances, and
proofs that TLAPS checks for every instance. `PROJECT.json` lists the runs, the mutants that show
each property can fail, the theorems, and for each definition the lines it is translated from.

## 1. The system

### Components, state and operations

| Component | Code | State | Operations |
| --- | --- | --- | --- |
| Registry | Distribution 2.7.1, configured in `registry/config.yml` (external) | blobs, manifests, tags; one queue of notifications per frontend | push, pull, delete by digest, mount, notify |
| Hooks: events | `hooks/src/controllers/HookAPI.ts`, `hookEvents.ts` | none of its own; a request holds a batch of events | record a push, a pull, a delete; start a reap after a push |
| Retention rules | `hooks/src/util/tagRetention.ts`, the query in `imageRetention.ts` | the `images` table (`db/init.sql`) | parse a suffix, upsert, select what is stale |
| Reaper | `imageRetention.ts`, `commands/reap.ts` | the snapshot it works through | select, HEAD, DELETE the manifest, DELETE the row |
| Mirror: blobs | `mirror/proxy.go` (`handleBlob`), `writer.go` | a pipe between two goroutines, the writer's blobs | stream to client and cache |
| Mirror: manifests | `proxy.go` (`handleManifest`, warming) | goroutines of a warm, the writer's manifests and tag | serve a hit, fetch, warm, PUT |
| Mirror: routing | `router.go`, `NormalizeRepository` in `upstream.go`, `upstreamAuth/route.ts` | none | split a path, name the upstream and its repository, place it in the writer |
| Mirror: upstream tokens | `TokenCache` in `upstream.go`, `authorize` in `proxy.go` | a token and an expiry per upstream and repository | take, fetch, store a token |
| Import | `ImportAPI.ts`, `mountFromRepo.ts` | none of its own | HEAD, GET, mount each blob, PUT |
| Auth: wrapped credentials | `auth/src/upstreamAuth/` | the cache of proofs | validate, probe, record, invalidate |
| Auth: envelope | `upstreamAuth/wrap.ts`, `strategy.ts` | the ring of keys | unwrap, check the age and the route; rotate keys |
| Auth: tokens | `createApp.ts`, `serverHelpers.ts`, `clusterPat.ts`, `scope.ts` | a pool of connections; users and owners of repositories in PostgreSQL | establish who asks, write the rows of the scope in a transaction, issue a token |
| Image listing | `auth/src/imageList.ts`, `/v1/images` in `createApp.ts` | none | page through the images |
| Push cache | `hooks/src/util/redis.ts` | a set and one hash per tag in Redis | add, remove |
| Garbage collection | `registry/garbage-collect.sh` | the registry's blobs | mark and sweep |
| Web, Helm, Ansible, Grafana | | | presentation and deployment |

### How they interact

A push reaches Distribution, which queues a notification and sends it to the hooks service with a
timeout of one second, in order, again and again until it is answered. The hooks service upserts the
tag's row and reaps the repository before it answers. The scheduled reaper runs the same reap over
all repositories in a process of its own. Both select rows in PostgreSQL and then talk to the
registry, whose deletes are by digest and produce notifications in turn. The mirror stores what it
fetches through `mirror-writer`, a second Distribution frontend over the same storage with its own
queue of notifications. Imports read what the mirror has stored and write into `cluster/...`, through
the registry's API. The garbage collection runs over the same storage, outside of both frontends.

The token service answers before any of this. What it writes is who owns a repository, which its list
of images reads beside the hooks' table. It shares the upstreams with the mirror, and the names of the
repositories there: it proves access to what a name means to it, and the mirror fetches what the name
means to the mirror. Nodes wrap upstream credentials with keys that the operator distributes to them and
to the service.

### What is hard

* *Stale snapshots.* A reap selects up to 500 rows and then handles them one by one with three calls
  each, beside pushes and other reaps of the same rows.
* *Delivery.* Notifications are repeated, overlap their own repetition, and are lost when the registry
  restarts, since the queue is in memory.
* *Deleting by digest.* Tags that share content are deleted together.
* *Partial failure.* A registry delete and the row's delete, the mounts and the PUT of an import, the
  children and the PUT of an index.
* *Two goroutines and a pipe.* Each waits for the other, and either may fail.
* *Answers that come late.* A probe, a PUT, a fetch that was answered before something changed and is
  acted upon afterwards.
* *Transactions in crossed orders.* Two token requests that name the same repositories wait for each
  other, with connections of a small pool that others wait for.
* *Pages of a table that moves.* Offsets count rows that come, go and change places.
* *Shared keys made of names.* Tokens and content of one request serve others, and namesakes exist at
  several upstreams.
* *An order of steps that nobody enforces.* A key is listed, read, distributed and dropped by hand; a
  registry is made read-only for a collection, or not.

`PROJECT.json` lists forty places of this kind under `hazards`, each with the properties that cover
it or the reason why none does.

### What makes each component correct

* Events and reaper: a row goes only if a reaper selected that row or a delete names its digest; a
  TTL tag stays until it expires; protected tags stay; what is stale is reaped in the end; queues drain.
* Mirror: the client gets its bytes whatever happens to the cache; nothing is cached in part;
  every handler returns and every warm ends.
  A tag is served as something the upstream had under it; a path is read as the client means it, and
  nobody is given the content or the token of another repository.
* Import: a manifest is PUT after its blobs, and repeating a call is enough.
* Wrapped credentials: whatever is granted was proved by the upstream for the same credentials, not
  long ago; the cache evicts what was used least recently. Rotating keys costs nobody a pull.
* Tokens: nobody is granted what is not theirs; the rows of a request change hands together or not at
  all; no connection and no lock stays behind; everybody is answered.
* Image listing: a list at rest is given exactly, pushes alone hide nothing that stays, and a walk ends.

## 2. The modules

```
Retention     <-- TagLifecycle   <-- MCTagLifecycle     TagLifecycleProofs
                  BlobTee        <-- MCBlobTee          BlobTeeProofs
                  MirrorWarm     <-- MCMirrorWarm       MirrorWarmProofs
                  ImportMount    <-- MCImportMount      ImportMountProofs
                  WrappedAuth    <-- MCWrappedAuth      WrappedUpstreamProofs
Credentials   <-- TokenIssue     <-- MCTokenIssue       TokenIssueProofs
                     | implements OwnershipLedger
                  ImageListing   <-- MCImageListing     ImageListingProofs
MirrorRouting <-- UpstreamTokens <-- MCUpstreamTokens   UpstreamTokensProofs
                  WrapKeys       <-- MCWrapKeys         WrappedUpstreamProofs
```

`Retention`, `Credentials` and `MirrorRouting` have rules as pure operators, and the module on their
right composes them with the processes that apply them. The others are each one protocol with the
environment it runs in: `TagLifecycle` with the registry, its notifications, the hooks' handlers and the
reapers, `TokenIssue` with the validation service, the pool and PostgreSQL, `ImportMount` with the
mirror, the reaper and the collection. `OwnershipLedger` is what the two tables of the token service
promise. An `MC` module gives the constants their values; a `Proofs` module extends the specification
with theorems. `WrappedUpstreamProofs` extends both modules about wrapped upstream credentials; the names
that the two would share are `WrapKeys`' own there (`RotationSpec`, `clock`). No module declares a
`RECURSIVE` operator.

### TagLifecycle and Retention

`tag`, `taggedAt`, `manifest` are the registry; `row` is the `images` table, by tag, a row having an
`id` that a new insert renews; `queue` holds one queue per frontend, and `cached` the tags in Redis.
Every `Handler` is a request that the hooks service works on: its `body` is the batch of events that
are left, its `pc` the place in `processRegistryEvents`. Reaps run in a `Proc`, which is a handler
(after a push) or a `Cron` (the scheduled reaper), with the snapshot in `work`.

| Action | Code |
| --- | --- |
| `PushTag`, `PullTag`, `DeleteByClient`, `BlobTraffic` | clients of Distribution; each queues its notification |
| `Deliver`, `Timeout`, `Reply` | the endpoint's sink and `HookAPI.ts:36-53` |
| `StartPush`, `UpsertTag`, `UpsertFails` | `hookEvents.ts:77-167`, the upsert being one transaction, whose COMMIT may take effect though its answer is lost |
| `RecordPull`, `RecordDelete`, `SkipEvent` | `hookEvents.ts:168-227` |
| `StartReap`, `CronTick` | the query, `imageRetention.ts:123-276`, in the handler and in `reap.ts` |
| `HeadTag`, `DeleteManifest`, `RegistryRefuses` | `imageRetention.ts:280-306` |
| `DropRow`, `Uncache`, `ForgetRow`, `DropFails` | `imageRetention.ts:285-305`, the row first and its entry in Redis after it |
| `HooksRestart`, `ReaperRestart`, `RegistryRestart` | crashes |

`bound` is one of the constant `Bounds`, chosen in `Init` and never changed: which images, handlers
and clock a behaviour has, how large a batch is, and how often each disturbance happens. So one run
takes several small cases instead of their product. The theorems hold for every `Bounds`.

Rows are taken in the order of the query. A tag's time in the model is a small natural number that a
`Tick` advances; windows are constants. `Legacy` images have a row from before `manifest_digest`
existed, so that the reaper asks the registry for the digest; the upgrade calls them `pushed`, wherever
they lie. Handlers and database read one clock.

### BlobTee

One blob of `N` chunks and concurrent requests for it. The copier (`pc`) is the goroutine of the
request: probe the writer, open the upstream, then read a chunk, put it into the pipe, send it to the
client. The uploader (`up`) POSTs, PATCHes from the pipe and PUTs. `pipeClosed` says which ends are
closed: a write to the pipe needs the uploader at its PATCH, and fails only if the reader's end is
closed. What answers a request is chosen when the answer starts (`via`: the writer, the upstream's body, or a
HEAD without one); only those in `Leaving` may hang up. `stuck` is a writer that does not answer; `expired` is the
5-minute timeout of the upstream request, which covers the body. `trouble` is a history variable that
says who failed a request, with a hanging writer (`"wedge"`) apart from one that fails.

### MirrorWarm

One repository, one tag, concurrent requests. `task[q][m]` is the warm of image `m` for request `q`:
for an image, in the handler, before it answers; for a child of an index, in a goroutine under the
background warm `bg[q]`. `fetching` and `fetched` are the goroutines of `warmBlobs`, of which at most
`FanOut` run at a time per image. `Upstream` resolves a tag by what the client accepts and by what the
upstream has under it at that moment: `current` is a place in `Contents`, and `Move` goes to the next
one. `Cancel` is the end of a context: the client's leaving, or the ten minutes of a background warm.
`Restart` is the end of the process, at any point, of which the orderly shutdown is a case: it waits for
the handlers and not for the background warms. What the writer has by then stays, and later pulls find it.
A call to the writer that fails, or that a restart cuts off, may have reached it: `lateBlobs` and `latePuts`
hold what the writer may still do (`LateBlob`, `LatePut`), or never does. `Evict` is the reaper, which
deletes the digest that the tag has; that the tag may move between the reaper's HEAD and its DELETE is in
`TagLifecycle`.

### ImportMount

Calls of `POST /v1/internal/imports` for images that share layers and a destination tag. A call asks
for the tag, reads the manifest, mounts one blob after the other (`todo` is what is left, in any
order), and PUTs. The registry keeps links (`srcBlobs`, `dstBlobs`) and bytes (`stored`) apart, since
the garbage collection removes the bytes and leaves the links. What a behaviour is about is one of the
constant `Cases`, chosen in `Init` and never changed: `job` is what each call imports, `bound` what is
pulled through the mirror and how many disturbances there are. Calls name the mirror by its slug. `late`
holds PUTs whose call has given up and that the registry may still carry out. `Retry` is the caller's
reconciler, which repeats whatever failed.

A collection is two steps. `Mark` reads the manifests of the registry, which is read-only meanwhile
(`gc` is `"readOnly"`, and whatever writes is answered with 405) or goes on writing (`"open"`); `Sweep`
removes the bytes of what was not marked, or of any part of it, since a collection may be cut short and
a dry run removes nothing.

### WrappedAuth

Validations (`pc`, `at`, `result`) of wrapped credentials for a sequence of repositories, of which a
behaviour makes the set `made`, one of the constant `Together`; and the cache of proofs: `entries`, `expires`, `scoped`, and `older`, the order of the Map as a relation.
`Answer` is the moment at which the upstream makes up its mind, `Proved` and `Refused` the one at which
the code goes on; in between anything may happen. `proofs`, `uses` and `fromCache` are history.

### WrapKeys

What comes before that: the list in the environment (`listed`), the one that the service has read
(`ring`), the key of each node (`held`), and the blobs that nodes have wrapped. `Validate` is a request
with one of them, up to the proofs. The actions of the operator are guarded as the comment in `wrap.ts`
and the runbook ask: a key is pushed to nodes when the service has read it, and dropped when no node
has had it for `Overlap`.

| Action | Code |
| --- | --- |
| `KeysOf`, `Tried`, `Opens` | `parseWrapKeyRing`, `unwrap` in `wrap.ts` |
| `Unconfigured`, `Unopened`, `Late`, `Astray`, `Good` | the errors of `validateWrappedUpstream`, in their order, and going on |
| `Restart` | the service reads the list when it starts |
| `Wrap`, `List`, `Push`, `Drop` | sandboxd and the operator (external) |

### Credentials, TokenIssue and OwnershipLedger

`Credentials` is what the service makes of one request without looking at anything else: the header,
the strategy, the PATs of clusters as they are written in the environment, the resources of a scope
with their actions merged, and what a cluster may be given of them. `TokenIssue` serves requests
concurrently; a step is what lies between two awaits.

| Action | Code |
| --- | --- |
| `Receive` | `createApp.ts` from the request to the first await: the limits, the credentials, the static and the cluster PATs |
| `Unwrapped`, `Validated` | the strategies that wait: the wrapped credentials and the validation service; identity checks |
| `Connect`, `Upsert`, `Commit`, `Rollback` | the database sync of `createApp.ts`: a client of the pool, BEGIN, one upsert after the other, COMMIT or ROLLBACK, `release` in `finally` |
| `Deadlock`, `SqlError`, `ConnectFails`, `ConnectionLost`, `Crash` | PostgreSQL's deadlock detection, failures, the end of the process |

A row is locked (`lock`) by the transaction that wrote it, and `owner` is what is committed. A
transaction that is lost with its connection may have taken effect or not. The refinement
`ImplementsLedger` maps `owner` and `settled` to the variables of `OwnershipLedger`, whose claims are
the requests that the validation service vouches for (`Claim <- Entitled`), with the rows of their
scopes; every step of `TokenIssue` is a stutter there but a `COMMIT`, which gives all rows at once.

### ImageListing

One client walks `/v1/images`. `Page` is one query: rows that are `Visible` to the caller, numbered by
time with any order among equals (`Numberings`), and cut by limit and offset; the client goes on with
`next_offset` while there is more. `Refused` and `QueryFails` are the other answers. Meanwhile `Push`,
`Remove`, `Claim` and `Tick` change the tables; a push may carry a time up to `Lag` old, since the hooks
take it before they write. `first`, `touched`, `fell`, `grew` and `tied` are history.

### MirrorRouting and UpstreamTokens

A path is the sequence of its segments, a name too. `MirrorRouting` splits a path at the last marker,
names the upstream and its repository, and places it in the writer; beside it stands what the token
service makes of the same name (`ProofRoute`). `UpstreamTokens` runs requests through that to an
upstream: `TakeToken` is a hit of the token cache and `Miss`, `Mint`, `Store` a miss, which lets go of
the lock for the time of its fetch. `kept` is what the writer has, with whose content it is.
`Revoke` is an upstream that takes its tokens back.

## 3. The runs

All runs are in `PROJECT.json` with what they show. Bounds are in the `.cfg` files and, for
`TagLifecycle`, in the records of `MCTagLifecycle`, of which every behaviour takes one.

| Run | Properties | Cases and bounds |
| --- | --- | --- |
| `reaps` | `TypeOK`, `UnselectedRowSurvives`, `ProtectedTagsStay` | `Races`: 2 plain tags, 2 handlers and the scheduled reaper, 3 pushes, a repeated notification; `Deletes`: 2 pushes, a delete by digest, a repeated notification; `Faults`: 4 tags of every sort, a row without digest, 2 pushes, a pull, a fault; `Guarded`: 2 tags below the protected namespace and one of a sibling, batches of 2, 2 pushes, a delete, a pull by digest; `Idle`: an idle window and a mirror's override, a push, 2 pulls, clock to 3 |
| `windows` | `PullableUntilExpiry`, `StaleEventuallyReaped`, `NotificationsDrain` | one row per reap, content pushed under one tag only. `Windows`: a TTL tag with a window of 2, 2 pushes, a repeated notification, clock to 2; `Retries`: 2 plain tags, 2 pushes, a repeated notification, a fault, a crash |
| `tee` | `TypeOK`, `BodyWhole`, `CleanPullCached`, `HandlerReturns` | 2 requests, one of which may leave, 2 chunks, a writer that fails or hangs, an upstream that fails or is slow |
| `warm` | `TypeOK`, `PutAfterBlobs`, `WarmedWhenServed`, `ServesWhatUpstreamHad`, `WarmEnds`, `IndexWarmed` | 3 requests (index by tag, image by tag, image by digest), a tag that moves from an index of 2 images to one of a third, images that share a blob, 1 slot per image, a fault, cancellation or restart, an eviction |
| `import` | `TypeOK`, `RefusedOnlyAfterSweep`, `Converges` | 2 calls, for images with a common layer and tag, for the same image, or for a manifest without blobs and an index; of a fault, a reap and a collection, any two at a time, or all three for the same image |
| `auth` | `TypeOK`, `GrantsAreProved`, `HitsAreFresh`, `LeastUsedGoes` | 3 users, 2 repositories, room for 2 entries, clock to 3 with a life of 2. Either 4 validations of 2 users with overlapping scopes, or 6 of 3 users with one who comes again, an empty scope and one that does not route |
| `issue` | `TypeOK`, `OwnSecretsStay`, `ClustersStayHome`, `ImpostorsGetNothing`, `NothingLeaks`, `ImplementsLedger`, `EverybodyIsAnswered` | 3 requests of 2 users with crossed scopes, one of them sent twice in one case, a pool of 2, 2 faults; and 17 requests alone, one for each way through the policy, with at most 4 resources |
| `listing` | `NothingStableIsMissed`, `RestingListIsExact`, `WalkEnds` | 7 callers, one at a time: an operator with a limit beyond the cap, of 1 and of 0, a user, and the three kinds that are refused; 3 images in 2 repositories, pages of at most 3, one removal, claim or failed query, pushes up to a tick late, clock to 3 |
| `upstream` | `ServedAsMeant`, `AskedAsMeant`, `TokensFit`, `TokensAgeOut`, `ProofsAreOfTheGoal` | 3 requests, symmetric, one of them for any of 12 paths; an entry lives 2 ticks, a fetch 1 and a token 3; one failed call or revocation, clock to 3 |
| `rotation` | `RotationIsSeamless` | 2 keys and a garbled entry, 2 nodes, 3 blobs of which one is damaged and one does not route; a blob is good for 1 tick, clocks differ by 1, a key stays listed for 2; clock to 3 |

The systems may stop: clients need not come back, and disturbances are bounded. So deadlock is not
checked (`CHECK_DEADLOCK FALSE`), and what has to go on is stated as a property of liveness.

Why these are enough: every hazard above needs at most two actors and one disturbance. Two handlers
and a scheduled reaper give every pair of overlapping reaps; three pushes are one before a snapshot,
one between the snapshot and the delete, and one after. In the window's case the first push dates the
tag and the second renews it, before or while the repeated notification of the first is worked on; a
window of two ticks has an inside and an edge, and the idle case a tick beyond it. Two chunks have a
first, which may meet an uploader that has not started, and a last; one request that leaves and one
that stays show what the leaving does to the other. Two images that share a blob are the smallest
index in which one warm depends on what another fetches, and with one slot the two blobs of an image,
and the two images of the index, wait for each other. Two calls with a common layer have one that
finds the other's blob, and the reaper of one is what a collection removes under the other. A second
collection finds a state that the first could have found, since what a sweep removes is left open. A tag
that moves once has an earlier and a later content, each with a list and an image. A cache of two entries is the smallest that has a least recently used one to choose.

Two of three token requests fill the pool, so that the third waits for a client while the two wait for
each other's rows; a circle of three would need a pool of three, and is no other than a circle of two to
the code. Two faults are one that fails a transaction and one that meets its rollback. A walk of three
images by ones has a page before, between and after any change. Three requests to the mirror are two that
miss at once and one that finds what they left; the clock is as long as a token is used at all. Two keys
and two nodes have a node that is ahead of the other; `RotationIsSeamless` is proved for any numbers.

### Disagreements between the code and what is said of it

Each of these runs checks one property that a comment or a document states, and TLC finds a behaviour
of the code that violates it. `PROJECT.json` has the quotations.

| Run | Property | What happens |
| --- | --- | --- |
| `shared` | `PullableUntilExpiry` | a superseded plain tag with the same content takes a TTL tag with it |
| `unauthorized` | `StaleEventuallyReaped` | with token authentication on, the reaper is refused for ever |

Others were met in modelling and are visible in the definitions, without a run of their own:

* The newest plain tag goes too when an older tag has the same content, since the delete is by digest
  (`RETENTION.md:15`, `imageRetention.ts:291`).
* The idle window counts from the last pull even if a push is later (`imageRetention.ts:208-210`,
  `:222`); a mirrored image's default window likewise.
* A tag pushed again during a reap keeps its manifest and may lose its row (`imageRetention.ts:298`,
  `understanding.md:43`).
* The Helm template of the hooks Deployment has no mirror retention overrides, so that there a reap
  after a push knows only the default (`helm/aocr/templates/hooks.yaml:30`). The runs give every
  process the same environment.
* A tag is cached in the shape that its first client accepts (`proxy.go:21-23`).
* The two caps of 4 multiply to 16 transfers (`proxy.go:207-209`).
* An import that names the upstream's host, not its slug, finds nothing (`ImportAPI.ts:18-19`, `:142`).
* A probe that is under way when a refusal drops a proof brings the proof back (`strategy.ts:155`,
  `:163`), and concurrent misses each probe (`tokenExchange.ts:33-34`).
* A proof prolongs those of the same credentials for other repositories (`proofCache.ts:115`), where the
  comment at `strategy.ts:11-14` speaks of one proof per repository.
* A cluster named by a label (`tagRetention.ts:33-37`) may not fit the column for it (`db/init.sql:68`);
  the upsert fails, and the tag is never tracked.
* A writer that hangs, and so does not fail, stalls the stream of the client (`proxy.go:481-482` against
  `:493`).
* An index is PUT although a child could not be warmed, since a failure after the fetch of the child is not
  passed on (`proxy.go:180-181` against `:256`).
* The tag of the mirror may go back to what the upstream had earlier: the warm of an index takes minutes
  in the background, and its PUT, or one that it had given up, comes after that of a later pull (`proxy.go:148`).
* The row of an owner is named by the first two segments of a repository (`createApp.ts:139`), where the
  hooks keep the whole rest as its name (`tagRetention.ts:72-73`), and `ARCH.md:61` says each requested
  repository: deeper repositories share a row that no image has, and are in nobody's list.
* A token is issued although the ROLLBACK took back the rows that say whose the repository is
  (`createApp.ts:155-161`).
* Wrapped credentials get 401 from `/v1/images`, since without a scope they do not pass their validation,
  and not the 403 of `README.md:84-86` and `createApp.ts:229-236`.
* A blob of a repository with a segment `manifests` is asked for as a manifest (`router.go:126-130`).
* `redis` is proved as `redis` (`route.ts:51-58`) and fetched as `library/redis` (`upstream.go:54`).
* The runbook drops an old key after every node has the new one (`aocr_aerol_stitch.md:462`), where blobs
  of the old one are good for ten more minutes (`wrap.ts:131-133`); `WrapKeys` waits for them. Entries that
  are no keys are skipped in silence, not with a warning (`wrap.ts:64-65`).
* Nothing makes the registry read-only for a collection, which `SELF_HOSTING.md:183` leaves to the operator,
  and `RETENTION.md:82` does not mention it. Without that an import that answered with a success may lose a
  blob that was mounted between mark and sweep.
* `docker-compose.gc.yaml` starts the entrypoint with a script in place of a configuration, so that the
  configuration which the script is given is never rendered (`registry/entrypoint.sh:23-56`).

### Fairness

* `TagLifecycle`: weak fairness of each handler and of each reaper's steps (Node's event loop and
  PostgreSQL go on), of the delivery per frontend (Distribution's sink retries without end, with a
  backoff), and of the scheduled reaper's tick (cron). Clients, faults and crashes are not fair, and
  their number is bounded, so that the disturbances end.
* `BlobTee`: weak fairness of each goroutine, as the Go scheduler gives it, and of the timeout of an
  exchange whose writer hangs, which `http.Client` enforces (`main.go:20`). An error of the writer is no
  fair step (`UploadRefused`): an upload ends by itself only, by its timeout, or with its client
  (`UploadGivesUp`). Nobody has to fail or to leave. A client reads what it is sent, or leaves: for one
  that does neither the server has no timeout (`main.go:32`), and its handler would wait for it.
* `MirrorWarm`: weak fairness of the process as a whole: some goroutine goes on while one can, and a
  call ends because its client has a timeout. It need not favour any request, since none goes on for ever.
* `ImportMount`: weak fairness of a call's steps, of its repetition (the comment in `ImportAPI.ts`
  speaks of the reconciler), of the mirror's caching, without which no repetition could succeed, and of
  the end of a collection.
* `TokenIssue`: weak fairness of some request's progress: the event loop and PostgreSQL go on while they
  have something to do. Nothing is asked of the order in which the pool serves.
* `ImageListing`: weak fairness of the client and the service together. Nobody else has to do anything.
* `WrappedAuth`, `UpstreamTokens` and `WrapKeys` have no liveness property.

## 4. The proofs

The theorems hold for all constants that satisfy the named `ASSUME` of the module.

| Theorem | States |
| --- | --- |
| `TagLifecycleProofs!TypeCorrect`, `RowsSurvive`, `ProtectedStay` | `TypeOK`, `UnselectedRowSurvives`, `ProtectedTagsStay` |
| `TagLifecycleProofs!PullableTillExpiry` | `PullableUntilExpiry`, where images share no content and no legacy row has a TTL |
| `BlobTeeProofs!TypeCorrect`, `WholeBodyServed`, `CleanPullsCached` | `TypeOK`, `BodyWhole`, `CleanPullCached` |
| `MirrorWarmProofs!TypeCorrect`, `BlobsFirst`, `ServedAsUpstream`, `ServedIsWarmed` | `TypeOK`, `PutAfterBlobs`, `ServesWhatUpstreamHad`, `WarmedWhenServed` |
| `ImportMountProofs!TypeCorrect`, `BlobsBeforeManifest` | `TypeOK`, `RefusedOnlyAfterSweep` |
| `WrappedUpstreamProofs!TypeCorrect`, `GrantsProved`, `CacheHitsAreFresh`, `LeastUsedIsEvicted` | `TypeOK`, `GrantsAreProved`, `HitsAreFresh`, `LeastUsedGoes` |
| `TokenIssueProofs!TypesHold`, `LeavesNothing`, `StayHome`, `NoImpostors`, `SecretsStay`, `Refinement` | `TypeOK`, `NothingLeaks`, `ClustersStayHome`, `ImpostorsGetNothing`, `OwnSecretsStay`, `ImplementsLedger` |
| `UpstreamTokensProofs!TypesHold`, `NobodyIsGivenAnother`, `NamesSurvive`, `TokensAreForTheirKeys`, `OldTokensGo`, `ProofsGoWhereFetchesGo` | `TypeOK` (which no run checks), `ServedAsMeant`, `AskedAsMeant`, `TokensFit`, `TokensAgeOut`, `ProofsAreOfTheGoal` |
| `WrappedUpstreamProofs!RotationTypes`, `NobodyIsCutOff` | `RotationTypeOK` (which no run checks), `RotationIsSeamless` |
| `ImageListingProofs!StableIsListed`, `RestingListIsListed` | `NothingStableIsMissed`, `RestingListIsExact` |

* *TagLifecycle.* The types are inductive with `AtPush`: a handler that is about to upsert
  has the push at hand. `RowsSurvive` goes over the steps that write the table: an upsert and a recorded
  pull keep the id of a row, a recorded delete takes the rows that it names, and a reaper only deletes
  by the id of its snapshot. `ProtectedStay` needs an invariant: no process has a row of a repository
  that it protects in its snapshot, because the guard is evaluated when the row is selected and neither
  paths nor environments change.
  `PullableTillExpiry` rests on an account of the pushes: for each digest there is one image it was pushed
  for, and a time when it was, and every tag, notification, handler, row and snapshot that has the digest
  agrees with the account. A reaper that deletes a manifest then does so for the image itself, whose TTL its
  snapshot found expired. Both hypotheses are needed. The run `shared` has two images with one content,
  where the second goes with the first. And the migrations leave a legacy row
  `keep-latest`, whatever the suffix of its tag, so that a push of another tag of its repository condemns it
  before its time; nor does it have a digest, so that the reaper asks for the tag's when it deletes, and may
  get that of a push in the meantime. The next push of such a tag gives its row a window and a digest.
* *BlobTee.* `Shape` adds to the types where the counters are at each place of the copier. On it rests
  an invariant that says why a copier may have stopped reading: the end of the body, or someone's
  fault; and one that follows the upload from the pipe to the writer. `BodyWhole` excuses a writer that
  hangs, which stalls the client too; a writer that fails is not excused.
* *MirrorWarm.* The types need that a background warm works for an index its handler has answered.
  `BlobsFirst` needs `Fetched`: a goroutine that is done left its blob in the writer or an error behind.
  `ServedAsUpstream` needs that the tag of the cache, too, is something the upstream had under it up to now:
  only a PUT of what a request for the tag itself was answered with sets it, at once or late.
  `ServedIsWarmed` follows what a request relies on (`Relies`): the hit that it found, the warm of the image it has in hand, which without
  trouble goes by way of its blobs to a PUT that is accepted; the steps of others only add to the writer.
* *ImportMount.* The invariant follows what a call owes: each blob of its manifest is still to be done,
  or in the destination, or a garbage collection ran under the call; the types add that one at work is noted
  by every call.
* *WrappedAuth.* Every repository in the scope of an entry, and every route that a validation has
  passed, was proved. Dropping and moving entries keep that, recording adds a proof. `CacheHitsAreFresh`
  needs that an entry ends at most a lifetime after some probe of its own credentials, and that a validation
  takes nothing before it begins; `LeastUsedIsEvicted`, that the Map has the entries in the order of
  their uses. `TypeCorrect` bounds the cache: an eviction takes something, since the order of the Map is a
  strict order of a finite set and so has a first element, by the well-foundedness of strict inclusion
  among the sets of predecessors.
* *TokenIssue.* The invariant says that a transaction has locked exactly the rows of the statements that
  went through, with its user pending, and that who is over has neither rows nor a client. From it the
  refinement: a `COMMIT` gives away the rows of the whole request, and no other step touches `owner`. For
  `StayHome`, the cluster that the code finds for a token, the first of those that hold it, is shown to be
  one whose PAT in force the token is; then each granted resource is at home or shared, by the operators
  alone.
* *UpstreamTokens.* What is kept under a place is the content of a target with that place; places and
  keys determine upstream and repository, since a name is a sequence and both put the slug in front. An
  entry's expiry is at most a lifetime after its token came in, which was at most the client's timeout
  after it was minted.
* *WrapKeys.* From `MaxBlobAge + Skew <= Overlap`: the key of a blob that is not too old is listed and read,
  since its node had the key when the blob was wrapped, and whoever changed since did so less than
  `Overlap` ago.
* *ImageListing.* The ranking of a page numbers the rows without ties, so the number of a row is how many
  are ahead of it; that every number is taken is by counting. `StableIsListed`: while no row leaves the
  list or falls back in it, what is ahead of a row that stays is ahead of it for good; so one that was not
  seen has at least as many rows ahead as the walk has skipped, and is not passed over.
  `RestingListIsListed`: while nothing has changed, what was seen is what is ahead of the next page, and
  the last page ends the list.
  The proof needs that `NaN`, an offset that is no number, is no integer, which the module assumes.

Every invariant and every action property that a passing run checks is stated by a theorem, but with the
two hypotheses above for `PullableUntilExpiry`. Only model-checked are the properties of liveness, which
need `ENABLED` and fairness and so are out of the prover's reach. The `TypeOK` of `UpstreamTokens` and
the `RotationTypeOK` of `WrapKeys` are only proved.

## 5. What is not modelled

* The web UI (`web/`), which is most of the repository's lines: a static page and a library of interface
  components that are vendored with it, with no state that outlives a page.
* Deployment: Helm, Compose, Ansible, Grafana, the scripts. What they decide is in the constants.
* Metrics, logs, health checks and the read-only internal API of the hooks.
* The push cache in Redis: a set and a hash per tag that are written after each push and that nothing
  reads. `TagLifecycle` has the set, since its writes fail.
* AES-GCM, encodings, the signing and the claims of tokens, what a profile carries besides its names.
* The syntax of suffixes, durations and environment variables; their meaning is in constants.
* Bytes: a blob is its number of chunks or a name, a manifest is a name and the set of its blobs.
* Durations below a tick: the debounce of pulls, the length of timeouts, how long a slow transfer takes.
* PostgreSQL's isolation below a statement, and migrations, of which only the rows they leave remain.
* Collections that delete untagged manifests, which the script does not ask for.
* The 401 of the hooks' endpoint for a registry with the wrong secret (`HookAPI.ts:43-47`), after which
  nothing of the lifecycle happens; and the reaper's variant that runs once and ends (`reap.ts:28-34`), which
  is a scheduled reap without the next tick.
* What the reaper's HEAD accepts: for a Docker manifest list, which `manifestHeaders` does not name, the
  registry may answer with the digest of one of its images. A tag has one digest in `TagLifecycle`.
* A skew between the clock of the hooks and that of the database: `TagLifecycle` has one clock.
* A ROLLBACK that fails on a connection that is alive: PostgreSQL has no such answer, and no pool sets a
  timeout for statements.
* The time between the answer to a probe and its recording counts for nothing in `HitsAreFresh`, as in the
  code: a proof is as old as its record.
* Upstreams without tokens that know the URL `/v2/<repo>/manifests/blobs/<digest>` as that of a blob of the
  repository `<repo>/manifests`: `UpstreamTokens` takes them to have nothing there (`Exists`).
* The registry is external: it is modelled from how the code uses it, and as far as the code depends on it.

## 6. The plan

Built, in this order: what deletes data first (`TagLifecycle`), what serves it (`BlobTee`, `MirrorWarm`),
what copies it (`ImportMount`, with the collection), what lets clients at it (`WrappedAuth`, `WrapKeys`,
`TokenIssue`), and what tells them apart (`UpstreamTokens`, `ImageListing`). What would come next:

1. A ledger of rows that `TagLifecycle` implements (rows are inserted, refreshed and condemned before they
   go), and a cache of whole blobs that `BlobTee` and `MirrorWarm` implement, each with its refinement
   checked and proved as that of `TokenIssue` is.
2. `PushCache`, once something reads it.

A module keeps one or two runs, each of which asks several questions of the same instance, with its
cases as alternatives chosen in `Init`. A run stays within three actors and one disturbance of each
kind, as above, unless a property needs more. What a run of a disagreement shows is settled once it is
read: such runs gave way to the list above.
