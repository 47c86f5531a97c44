------------------------- MODULE TagLifecycleProofs -------------------------
(***************************************************************************)
(* Proofs about TagLifecycle, for every number of images, repositories,    *)
(* handlers, reapers and frontends, and for every bound.                   *)
(***************************************************************************)
EXTENDS TagLifecycle, SequenceTheorems, TLAPS

\* A handler that is about to upsert has the push event at hand.
AtPush == \A h \in Handler : pc[h] = "upsert" => body[h] # << >> /\ Head(body[h]).action = "push"

TypeInv == TypeOK /\ AtPush

-----------------------------------------------------------------------------
(* The operators of Retention.                                             *)

\* What a suffix asks for is well-formed: a TTL has a window and an expiry.
LEMMA ParseIsTyped ==
    ASSUME NEW i \in Image, NEW at \in Nat
    PROVE  LET p == ParseTagRetention(i, at) IN
             /\ p.mode \in Mode
             /\ p.value \in Nat \cup {NULL}
             /\ p.expiresAt \in Nat \cup {NULL}
             /\ p.mode = "ttl" => p.value # NULL /\ p.expiresAt # NULL
             /\ p.mode = "idle" => p.value # NULL
<1>1. SuffixOf[i] \in Suffix
    BY RetentionAssumption
<1>2. CASE SuffixOf[i].kind = "none" \/ SuffixOf[i].label \notin DOMAIN SuffixSeconds
    <2>1. ParseTagRetention(i, at) = KeepLatest
        BY <1>2 DEF ParseTagRetention
    <2>2. QED
        BY <2>1 DEF KeepLatest, Mode
<1>3. CASE ~(SuffixOf[i].kind = "none" \/ SuffixOf[i].label \notin DOMAIN SuffixSeconds)
    <2> DEFINE s == SuffixOf[i]
               w == SuffixSeconds[s.label]
    <2>1. s.kind \in {"ttl", "idle"}
        BY <1>1, <1>3 DEF Suffix
    <2>2. w \in Nat
        BY <1>3, RetentionAssumption
    <2>3. ParseTagRetention(i, at) = [mode |-> s.kind, value |-> w,
                                      expiresAt |-> IF s.kind = "ttl" THEN at + w ELSE NULL]
        BY <1>3 DEF ParseTagRetention
    <2> HIDE DEF s, w
    <2>4. QED
        BY <2>1, <2>2, <2>3, NullAssumption DEF Mode
<1>4. QED
    BY <1>2, <1>3

\* An upsert leaves a well-formed row.
LEMMA UpsertedIsRow ==
    ASSUME NEW old \in Row \cup {NULL}, NEW id \in Nat, NEW i \in Image,
           NEW d \in Digest \cup {NULL}, NEW at \in Nat, NEW t \in Nat
    PROVE  Upserted(old, id, i, d, at, t) \in Row
<1> DEFINE p == ParseTagRetention(i, at)
<1>1. /\ p.mode \in Mode
      /\ p.value \in Nat \cup {NULL}
      /\ p.expiresAt \in Nat \cup {NULL}
      /\ p.mode = "ttl" => p.value # NULL /\ p.expiresAt # NULL
      /\ p.mode = "idle" => p.value # NULL
    BY ParseIsTyped
<1>0. Provenance(RepoOf[i]) \in Provenances
    BY DEF Provenance, Provenances
<1> HIDE DEF p
<1>2. CASE old = NULL
    <2>1. Upserted(old, id, i, d, at, t) =
             [id |-> id, digest |-> d, createdAt |-> t, pushedAt |-> at, pulledAt |-> NULL,
              mode |-> p.mode, value |-> p.value, expiresAt |-> p.expiresAt,
              provenance |-> Provenance(RepoOf[i])]
        BY <1>2 DEF Upserted, p
    <2>2. QED
        BY <1>0, <1>1, <1>2, <2>1 DEF Row
<1>3. CASE old # NULL
    <2>1. old \in Row
        BY <1>3
    <2>2. Upserted(old, id, i, d, at, t) =
             [old EXCEPT !.digest = IF d = NULL THEN @ ELSE d, !.pushedAt = at,
                         !.mode = p.mode, !.value = p.value, !.expiresAt = p.expiresAt,
                         !.provenance = Provenance(RepoOf[i])]
        BY <1>3 DEF Upserted, p
    <2>3. QED
        BY <1>0, <1>1, <2>1, <2>2 DEF Row
<1>4. QED
    BY <1>2, <1>3

\* An upsert never changes the id of a row.
LEMMA UpsertedKeepsId ==
    ASSUME NEW old \in Row, NEW id, NEW i, NEW d, NEW at, NEW t
    PROVE  Upserted(old, id, i, d, at, t).id = old.id
<1>1. old # NULL
    BY NoRowAssumption
<1>2. QED
    BY <1>1 DEF Upserted, Row

\* A recorded pull leaves a well-formed row with the same id.
LEMMA PulledIsRow ==
    ASSUME NEW r \in Row, NEW t \in Nat
    PROVE  Pulled(r, t) \in Row /\ Pulled(r, t).id = r.id
BY DEF Pulled, Row

\* A snapshot of rows is a set of candidates, each with the id and the digest
\* of the row that it was taken from.
LEMMA SnapshotIsTyped ==
    ASSUME NEW rows \in [Image -> Row \cup {NULL}], NEW images \in SUBSET Image,
           \A i \in images : rows[i] # NULL
    PROVE  Snapshot(rows, images) \subseteq Candidate
<1>1. \A i \in images : rows[i] \in Row
    OBVIOUS
<1>2. \A i \in images : rows[i].id \in Nat /\ rows[i].digest \in Digest \cup {NULL}
    BY <1>1 DEF Row
<1>3. QED
    BY <1>2 DEF Snapshot, Candidate

\* The query only returns rows that exist, in repositories that the calling
\* process does not protect.
LEMMA SelectedIsStale ==
    ASSUME NEW rows, NEW scope, NEW env, NEW t, NEW i \in Selected(rows, scope, env, t)
    PROVE  i \in Image /\ rows[i] # NULL /\ ~Protected(env, RepoOf[i])
BY DEF Selected, Stale

-----------------------------------------------------------------------------
(* Type correctness, action by action.                                     *)

\* A notification of the right shape keeps the queues well-typed.
LEMMA NotifyIsTyped ==
    ASSUME TypeOK, NEW f \in Frontend, NEW a \in {"push", "pull", "delete", "blob"},
           NEW r \in Repo, NEW i \in Image \cup {NULL}, NEW d \in Digest \cup {NULL},
           a \in {"push", "pull"} => i \in Image /\ r = RepoOf[i],
           Notify(f, a, r, i, d)
    PROVE  queue' \in [Frontend -> Seq(Event)]
<1> DEFINE e == [action |-> a, repo |-> r, image |-> i, digest |-> d]
<1>1. e \in Event
    BY DEF Event
<1>2. queue[f] \in Seq(Event)
    BY DEF TypeOK
<1>3. Append(queue[f], e) \in Seq(Event)
    BY <1>1, <1>2
<1>4. QED
    BY <1>3 DEF Notify, TypeOK

\* Spending keeps the budgets well-typed.
LEMMA SpendIsTyped ==
    ASSUME TypeOK, NEW b \in Budget, Spend(b)
    PROVE  used' \in [Budget -> Nat]
BY DEF TypeOK, Spend

\* A push keeps the types: the digest is one of Digest, the event names the tag.
LEMMA TypePushTag ==
    ASSUME TypeInv, NEW i \in Image, NEW d \in Digest, PushTag(i, d)
    PROVE  TypeInv'
<1>1. RepoOf[i] \in Repo /\ FrontendOf[RepoOf[i]] \in Frontend
    BY RetentionAssumption, LifecycleAssumption
<1>2. queue' \in [Frontend -> Seq(Event)]
    BY <1>1, NotifyIsTyped DEF PushTag, TypeInv
<1>3. used' \in [Budget -> Nat]
    BY SpendIsTyped DEF PushTag, TypeInv, Budget
<1>4. QED
    BY <1>1, <1>2, <1>3 DEF PushTag, TypeInv, TypeOK, AtPush, tableVars, handlerVars, procVars

\* A pull keeps the types: the event carries the digest the tag points to.
LEMMA TypePullTag ==
    ASSUME TypeInv, NEW i \in Image, PullTag(i)
    PROVE  TypeInv'
<1>1. RepoOf[i] \in Repo /\ FrontendOf[RepoOf[i]] \in Frontend
    BY RetentionAssumption, LifecycleAssumption
<1>2. tag[i] \in Digest \cup {NULL}
    BY DEF TypeInv, TypeOK
<1>3. queue' \in [Frontend -> Seq(Event)]
    BY <1>1, <1>2, NotifyIsTyped DEF PullTag, TypeInv
<1>4. used' \in [Budget -> Nat]
    BY SpendIsTyped DEF PullTag, TypeInv, Budget
<1>5. QED
    BY <1>3, <1>4 DEF PullTag, TypeInv, TypeOK, AtPush, registryVars, tableVars, handlerVars, procVars

\* Blob traffic keeps the types: its events name no tag and no digest.
LEMMA TypeBlobTraffic ==
    ASSUME TypeInv, NEW r \in Repo, BlobTraffic(r)
    PROVE  TypeInv'
<1>1. FrontendOf[r] \in Frontend
    BY LifecycleAssumption
<1>2. queue' \in [Frontend -> Seq(Event)]
    BY <1>1, NotifyIsTyped DEF BlobTraffic, TypeInv
<1>3. used' \in [Budget -> Nat]
    BY SpendIsTyped DEF BlobTraffic, TypeInv, Budget
<1>4. QED
    BY <1>2, <1>3 DEF BlobTraffic, TypeInv, TypeOK, AtPush, registryVars, tableVars, handlerVars, procVars

\* Removing a manifest leaves digests or nothing in the tags.
LEMMA UntagIsTyped ==
    ASSUME TypeOK, NEW r, NEW d
    PROVE  Untag(r, d) \in [Image -> Digest \cup {NULL}]
BY DEF TypeOK, Untag

\* A client's delete keeps the types.
LEMMA TypeDeleteByClient ==
    ASSUME TypeInv, NEW r \in Repo, NEW d \in Digest, DeleteByClient(r, d)
    PROVE  TypeInv'
<1>1. FrontendOf[r] \in Frontend
    BY LifecycleAssumption
<1>2. queue' \in [Frontend -> Seq(Event)]
    BY <1>1, NotifyIsTyped DEF DeleteByClient, TypeInv
<1>3. used' \in [Budget -> Nat]
    BY SpendIsTyped DEF DeleteByClient, TypeInv, Budget
<1>4. tag' \in [Image -> Digest \cup {NULL}]
    BY UntagIsTyped DEF DeleteByClient, TypeInv
<1>5. QED
    BY <1>2, <1>3, <1>4 DEF DeleteByClient, TypeInv, TypeOK, AtPush, tableVars, handlerVars, procVars

\* A delivery keeps the types: the request is a prefix of the queue.
LEMMA TypeDeliver ==
    ASSUME TypeInv, NEW f \in Frontend, NEW h \in Handler, Deliver(f, h)
    PROVE  TypeInv'
<1>1. PICK n \in 1 .. bound.batch :
         /\ n <= Len(queue[f])
         /\ body' = [body EXCEPT ![h] = SubSeq(queue[f], 1, n)]
         /\ sent' = [sent EXCEPT ![f] = n]
    BY DEF Deliver
<1>2. queue[f] \in Seq(Event) /\ n \in Nat
    BY LifecycleAssumption DEF TypeInv, TypeOK
<1>3. \A k \in 1 .. n : queue[f][k] \in Event
    BY <1>1, <1>2
<1>4. SubSeq(queue[f], 1, n) \in Seq(Event)
    BY <1>2, <1>3, SubSeqProperties
<1>5. body' \in [Handler -> Seq(Event)] /\ sent' \in [Frontend -> Nat]
    BY <1>1, <1>2, <1>4 DEF TypeInv, TypeOK
<1>6. pc' \in [Proc -> PC] /\ toReap' \in [Handler -> SUBSET Repo]
    BY DEF Deliver, TypeInv, TypeOK, PC
<1>7. AtPush'
    BY <1>1 DEF Deliver, TypeInv, TypeOK, AtPush, Proc
<1>8. QED
    BY <1>5, <1>6, <1>7 DEF Deliver, TypeInv, TypeOK, registryVars, tableVars

\* A timeout keeps the types: nobody is waited for any more.
LEMMA TypeTimeout ==
    ASSUME TypeInv, NEW f \in Frontend, Timeout(f)
    PROVE  TypeInv'
<1>1. used' \in [Budget -> Nat]
    BY SpendIsTyped DEF Timeout, TypeInv, Budget
<1>2. QED
    BY <1>1 DEF Timeout, TypeInv, TypeOK, AtPush, registryVars, tableVars, handlerVars, procVars

\* A restart of the registry keeps the types: the queue is empty.
LEMMA TypeRegistryRestart ==
    ASSUME TypeInv, NEW f \in Frontend, RegistryRestart(f)
    PROVE  TypeInv'
<1>1. used' \in [Budget -> Nat]
    BY SpendIsTyped DEF RegistryRestart, TypeInv, Budget
<1>2. queue' \in [Frontend -> Seq(Event)]
    BY DEF RegistryRestart, TypeInv, TypeOK
<1>3. QED
    BY <1>1, <1>2 DEF RegistryRestart, TypeInv, TypeOK, AtPush, registryVars, tableVars, handlerVars, procVars

\* Going on to the next event keeps the events and the program counters typed.
LEMMA NextEventIsTyped ==
    ASSUME TypeInv, NEW h \in Handler, body[h] # << >>, NextEvent(h)
    PROVE  /\ body' \in [Handler -> Seq(Event)]
           /\ pc' \in [Proc -> PC]
           /\ AtPush'
<1>1. Tail(body[h]) \in Seq(Event)
    BY DEF TypeInv, TypeOK
<1>2. body' \in [Handler -> Seq(Event)] /\ pc' \in [Proc -> PC]
    BY <1>1 DEF NextEvent, TypeInv, TypeOK, PC
<1>3. AtPush'
    BY DEF NextEvent, TypeInv, TypeOK, AtPush, Proc
<1>4. QED
    BY <1>2, <1>3

\* The event at hand is an event.
LEMMA HeadIsEvent ==
    ASSUME TypeInv, NEW h \in Handler, body[h] # << >>
    PROVE  Head(body[h]) \in Event
BY DEF TypeInv, TypeOK

\* The start of a push keeps the types, and the push stays at hand.
LEMMA TypeStartPush ==
    ASSUME TypeInv, NEW h \in Handler, StartPush(h)
    PROVE  TypeInv'
<1>1. body[h] # << >> /\ Head(body[h]).action = "push"
    BY DEF StartPush, AtEvent
<1>2. Head(body[h]).image \in Image
    BY <1>1, HeadIsEvent DEF Event
<1>3. cached' \subseteq Image
    BY <1>2 DEF StartPush, TypeInv, TypeOK
<1>4. used' \in [Budget -> Nat]
    BY SpendIsTyped DEF StartPush, TypeInv, TypeOK, Budget
<1>5. body' \in [Handler -> Seq(Event)] /\ pc' \in [Proc -> PC] /\ AtPush'
    <2>1. CASE Parses(Head(body[h]).repo)
        BY <1>1, <2>1 DEF StartPush, TypeInv, TypeOK, AtPush, PC, Proc
    <2>2. CASE ~Parses(Head(body[h]).repo)
        BY <1>1, <2>2, NextEventIsTyped DEF StartPush
    <2>3. QED
        BY <2>1, <2>2
<1>6. pushedAt' \in [Handler -> Nat]
    BY DEF StartPush, TypeInv, TypeOK
<1>7. QED
    BY <1>3, <1>4, <1>5, <1>6 DEF StartPush, TypeInv, TypeOK, registryVars, notifyVars, tableVars

\* An upsert keeps the types: the row is well-formed, the repository known.
LEMMA TypeUpsertTag ==
    ASSUME TypeInv, NEW h \in Handler, UpsertTag(h)
    PROVE  TypeInv'
<1> DEFINE e == Head(body[h])
<1>1. body[h] # << >> /\ e.action = "push"
    BY DEF UpsertTag, TypeInv, AtPush
<1>2. e \in Event /\ e.image \in Image /\ e.repo \in Repo /\ e.digest \in Digest \cup {NULL}
    BY <1>1, HeadIsEvent DEF Event
<1>3. row[e.image] \in Row \cup {NULL} /\ pushedAt[h] \in Nat /\ now \in Nat /\ nextId \in Nat
    BY <1>2 DEF TypeInv, TypeOK
<1>4. Upserted(row[e.image], nextId, e.image, e.digest, pushedAt[h], now) \in Row
    BY <1>2, <1>3, UpsertedIsRow
<1>5. row' \in [Image -> Row \cup {NULL}]
    BY <1>4 DEF UpsertTag, TypeInv, TypeOK
<1>6. nextId' \in Nat
    BY <1>3 DEF UpsertTag
<1>7. toReap' \in [Handler -> SUBSET Repo]
    <2>1. UNCHANGED toReap \/ toReap' = [toReap EXCEPT ![h] = @ \cup {e.repo}]
        BY DEF UpsertTag
    <2>2. e.repo \in Repo /\ toReap \in [Handler -> SUBSET Repo]
        BY <1>2 DEF TypeInv, TypeOK
    <2> HIDE DEF e
    <2>3. QED
        BY <2>1, <2>2
<1>8. body' \in [Handler -> Seq(Event)] /\ pc' \in [Proc -> PC] /\ AtPush'
    BY <1>1, NextEventIsTyped DEF UpsertTag
<1>9. used' \in [Budget -> Nat]
    <2>1. UNCHANGED used \/ Spend("fault")
        BY DEF UpsertTag
    <2>2. QED
        BY <2>1, SpendIsTyped DEF TypeInv, TypeOK, Budget
<1>10. UNCHANGED <<registryVars, notifyVars, cached, pushedAt, work, now, bound>>
    BY DEF UpsertTag
<1>11. QED
    BY <1>5, <1>6, <1>7, <1>8, <1>9, <1>10 DEF TypeInv, TypeOK, registryVars, notifyVars

\* A rolled back upsert keeps the types.
LEMMA TypeUpsertFails ==
    ASSUME TypeInv, NEW h \in Handler, UpsertFails(h)
    PROVE  TypeInv'
<1>1. body[h] # << >>
    BY DEF UpsertFails, TypeInv, AtPush
<1>2. body' \in [Handler -> Seq(Event)] /\ pc' \in [Proc -> PC] /\ AtPush'
    BY <1>1, NextEventIsTyped DEF UpsertFails
<1>3. used' \in [Budget -> Nat]
    BY SpendIsTyped DEF UpsertFails, TypeInv, TypeOK, Budget
<1>4. QED
    BY <1>2, <1>3 DEF UpsertFails, TypeInv, TypeOK, registryVars, notifyVars, tableVars

\* A recorded delete keeps the types: rows stay or go.
LEMMA TypeRecordDelete ==
    ASSUME TypeInv, NEW h \in Handler, RecordDelete(h)
    PROVE  TypeInv'
<1>1. body[h] # << >>
    BY DEF RecordDelete, AtEvent
<1>2. body' \in [Handler -> Seq(Event)] /\ pc' \in [Proc -> PC] /\ AtPush'
    BY <1>1, NextEventIsTyped DEF RecordDelete
<1>3. row' \in [Image -> Row \cup {NULL}]
    BY DEF RecordDelete, TypeInv, TypeOK
<1>4. QED
    BY <1>2, <1>3 DEF RecordDelete, TypeInv, TypeOK, registryVars, notifyVars

\* A recorded pull keeps the types.
LEMMA TypeRecordPull ==
    ASSUME TypeInv, NEW h \in Handler, RecordPull(h)
    PROVE  TypeInv'
<1> DEFINE e == Head(body[h])
<1>1. body[h] # << >> /\ e.action = "pull"
    BY DEF RecordPull, AtEvent
<1>2. body' \in [Handler -> Seq(Event)] /\ pc' \in [Proc -> PC] /\ AtPush'
    BY <1>1, NextEventIsTyped DEF RecordPull
<1>3. e.image \in Image
    BY <1>1, HeadIsEvent DEF Event
<1>4. row[e.image] # NULL => Pulled(row[e.image], now) \in Row
    BY <1>3, PulledIsRow DEF TypeInv, TypeOK
<1>5. row' \in [Image -> Row \cup {NULL}]
    BY <1>4 DEF RecordPull, TypeInv, TypeOK
<1>6. QED
    BY <1>2, <1>5 DEF RecordPull, TypeInv, TypeOK, registryVars, notifyVars

\* A skipped event keeps the types.
LEMMA TypeSkipEvent ==
    ASSUME TypeInv, NEW h \in Handler, SkipEvent(h)
    PROVE  TypeInv'
<1>1. body' \in [Handler -> Seq(Event)] /\ pc' \in [Proc -> PC] /\ AtPush'
    BY NextEventIsTyped DEF SkipEvent
<1>2. used' \in [Budget -> Nat]
    BY SpendIsTyped DEF SkipEvent, TypeInv, TypeOK, Budget
<1>3. QED
    BY <1>1, <1>2 DEF SkipEvent, TypeInv, TypeOK, registryVars, notifyVars, tableVars

\* A reply keeps the types: what it acknowledges leaves the front of a queue.
LEMMA TypeReply ==
    ASSUME TypeInv, NEW h \in Handler, Reply(h)
    PROVE  TypeInv'
<1>1. ASSUME NEW f \in Frontend
      PROVE  SubSeq(queue[f], sent[f] + 1, Len(queue[f])) \in Seq(Event)
    <2>1. queue[f] \in Seq(Event) /\ sent[f] \in Nat
        BY DEF TypeInv, TypeOK
    <2>2. \A k \in sent[f] + 1 .. Len(queue[f]) : queue[f][k] \in Event
        BY <2>1
    <2>3. QED
        BY <2>1, <2>2, SubSeqProperties
<1>2. queue' \in [Frontend -> Seq(Event)]
    BY <1>1 DEF Reply, TypeInv, TypeOK
<1>3. awaiting' \in [Frontend -> Handler \cup {NULL}]
    BY DEF Reply, TypeInv, TypeOK
<1>4. pc' \in [Proc -> PC] /\ AtPush'
    BY DEF Reply, TypeInv, TypeOK, AtPush, PC, Proc, handlerVars
<1>5. QED
    BY <1>2, <1>3, <1>4 DEF Reply, TypeInv, TypeOK, registryVars, tableVars, handlerVars

\* What a process selects is a set of candidates: rows of the table as it is,
\* in repositories that the process does not protect.
LEMMA SelectIsTyped ==
    ASSUME TypeInv, NEW p \in Proc, NEW scope, Select(p, scope)
    PROVE  /\ work' \in [Proc -> SUBSET Candidate]
           /\ pc' \in [Proc -> PC]
           /\ \A c \in work'[p] : /\ c.image \in Image
                                  /\ row[c.image] # NULL
                                  /\ c.id = row[c.image].id
                                  /\ ~Protected(EnvOf[p], RepoOf[c.image])
           /\ \A q \in Proc : q # p => work'[q] = work[q] /\ pc'[q] = pc[q]
           /\ pc'[p] # "upsert"
<1> DEFINE images == Selected(row, scope, EnvOf[p], now)
<1>1. images \in SUBSET Image /\ \A i \in images : row[i] # NULL /\ ~Protected(EnvOf[p], RepoOf[i])
    <2>1. ASSUME NEW i \in images
          PROVE  i \in Image /\ row[i] # NULL /\ ~Protected(EnvOf[p], RepoOf[i])
        BY <2>1, SelectedIsStale
    <2>2. QED
        BY <2>1
<1>2. /\ work' = [work EXCEPT ![p] = Snapshot(row, images)]
      /\ pc' = [pc EXCEPT ![p] = IF images = {} THEN AfterReap(p) ELSE "reap"]
    BY DEF Select
<1> HIDE DEF images
<1>3. row \in [Image -> Row \cup {NULL}] /\ work \in [Proc -> SUBSET Candidate] /\ pc \in [Proc -> PC]
    BY DEF TypeInv, TypeOK
<1>4. Snapshot(row, images) \subseteq Candidate
    BY <1>1, <1>3, SnapshotIsTyped
<1>5. \A c \in Snapshot(row, images) : /\ c.image \in Image
                                       /\ row[c.image] # NULL
                                       /\ c.id = row[c.image].id
                                       /\ ~Protected(EnvOf[p], RepoOf[c.image])
    BY <1>1 DEF Snapshot
<1>6. AfterReap(p) \in {"idle", "next"}
    BY DEF AfterReap
<1> DEFINE snap == Snapshot(row, images)
             next == IF images = {} THEN AfterReap(p) ELSE "reap"
<1>8. next \in {"idle", "next", "reap"}
    BY <1>6
<1>9. work' = [work EXCEPT ![p] = snap] /\ pc' = [pc EXCEPT ![p] = next]
    BY <1>2
<1> HIDE DEF snap, next
<1>10. work' \in [Proc -> SUBSET Candidate] /\ work'[p] = snap
    BY <1>3, <1>4, <1>9 DEF snap
<1>11. pc' \in [Proc -> PC] /\ pc'[p] = next
    BY <1>3, <1>8, <1>9 DEF PC
<1>12. \A q \in Proc : q # p => work'[q] = work[q] /\ pc'[q] = pc[q]
    BY <1>3, <1>9
<1>13. QED
    BY <1>5, <1>8, <1>10, <1>11, <1>12 DEF snap

\* The start of a reap keeps the types.
LEMMA TypeStartReap ==
    ASSUME TypeInv, NEW h \in Handler, StartReap(h)
    PROVE  TypeInv'
<1>1. PICK r \in toReap[h] :
         /\ toReap' = [toReap EXCEPT ![h] = @ \ {r}]
         /\ \/ Select(h, {r}) /\ UNCHANGED used
            \/ Spend("fault") /\ UNCHANGED procVars
    BY DEF StartReap
<1>2. h \in Proc
    BY DEF Proc
<1>3. used' \in [Budget -> Nat]
    BY <1>1, SpendIsTyped DEF TypeInv, TypeOK, Budget
<1>4. toReap' \in [Handler -> SUBSET Repo]
    BY <1>1 DEF TypeInv, TypeOK
<1>5. work' \in [Proc -> SUBSET Candidate] /\ pc' \in [Proc -> PC] /\ AtPush'
    <2>1. CASE Select(h, {r})
        BY <1>2, <2>1, SelectIsTyped DEF StartReap, TypeInv, AtPush, Proc
    <2>2. CASE UNCHANGED procVars
        BY <2>2 DEF StartReap, TypeInv, TypeOK, AtPush, procVars
    <2>3. QED
        BY <1>1, <2>1, <2>2
<1>6. QED
    BY <1>3, <1>4, <1>5 DEF StartReap, TypeInv, TypeOK, registryVars, notifyVars, tableVars

\* A tick of the scheduled reaper keeps the types.
LEMMA TypeCronTick ==
    ASSUME TypeInv, NEW c \in Cron, CronTick(c)
    PROVE  TypeInv'
<1>1. c \in Proc
    BY DEF Proc
<1>2. PICK scope : Select(c, scope)
    BY DEF CronTick
<1>3. work' \in [Proc -> SUBSET Candidate] /\ pc' \in [Proc -> PC]
    BY <1>1, <1>2, SelectIsTyped
<1>4. AtPush'
    BY <1>1, <1>2, SelectIsTyped DEF CronTick, handlerVars, TypeInv, AtPush, Proc
<1>5. QED
    BY <1>3, <1>4 DEF CronTick, TypeInv, TypeOK, registryVars, notifyVars, tableVars, handlerVars

\* Going on to the next selected row only takes one away.
LEMMA AdvanceIsTyped ==
    ASSUME TypeInv, NEW p \in Proc, NEW c \in work[p], Advance(p, c)
    PROVE  /\ work' \in [Proc -> SUBSET Candidate]
           /\ pc' \in [Proc -> PC]
           /\ \A q \in Proc : pc'[q] = "upsert" => pc[q] = "upsert"
           /\ \A q \in Proc : work'[q] \subseteq work[q]
<1>1. AfterReap(p) \in {"idle", "next"}
    BY DEF AfterReap
<1>2. QED
    BY <1>1 DEF Advance, TypeInv, TypeOK, PC

\* The HEAD of a tag keeps the types: it puts a digest of the registry in the
\* candidate, or none.
LEMMA TypeHeadTag ==
    ASSUME TypeInv, NEW p \in Proc, NEW c \in work[p], HeadTag(p, c)
    PROVE  TypeInv'
<1>1. c \in Candidate
    BY DEF TypeInv, TypeOK
<1>2. tag[c.image] \in Digest \cup {NULL}
    BY <1>1 DEF TypeInv, TypeOK, Candidate
<1>3. [c EXCEPT !.digest = tag[c.image]] \in Candidate
    BY <1>1, <1>2 DEF Candidate
<1>4. work' \in [Proc -> SUBSET Candidate]
    <2> DEFINE e == [c EXCEPT !.digest = tag[c.image]]
    <2>1. work' = work \/ work' = [work EXCEPT ![p] = (@ \ {c}) \cup {e}]
        BY DEF HeadTag
    <2> HIDE DEF e
    <2>2. e \in Candidate
        BY <1>3 DEF e
    <2>3. work \in [Proc -> SUBSET Candidate]
        BY DEF TypeInv, TypeOK
    <2>4. (work[p] \ {c}) \cup {e} \in SUBSET Candidate
        BY <2>2, <2>3
    <2>5. QED
        BY <2>1, <2>3, <2>4
<1>5. pc' \in [Proc -> PC] /\ AtPush'
    BY DEF HeadTag, TypeInv, TypeOK, AtPush, PC, Proc, handlerVars
<1>6. queue' \in [Frontend -> Seq(Event)]
    <2>1. c.image \in Image /\ RepoOf[c.image] \in Repo /\ Main \in Frontend
        BY <1>1, RetentionAssumption, LifecycleAssumption DEF Candidate
    <2>2. QED
        BY <2>1, <1>2, NotifyIsTyped DEF HeadTag, TypeInv, TypeOK
<1>7. QED
    BY <1>4, <1>5, <1>6 DEF HeadTag, TypeInv, TypeOK, registryVars, tableVars, handlerVars

\* The delete of a manifest by a reaper keeps the types.
LEMMA TypeDeleteManifest ==
    ASSUME TypeInv, NEW p \in Proc, NEW c \in work[p], DeleteManifest(p, c)
    PROVE  TypeInv'
<1> DEFINE r == RepoOf[c.image]
<1>1. c \in Candidate
    BY DEF TypeInv, TypeOK
<1>2. r \in Repo /\ Main \in Frontend /\ c.digest \in Digest \cup {NULL}
    BY <1>1, RetentionAssumption, LifecycleAssumption DEF Candidate
<1>3. queue' \in [Frontend -> Seq(Event)]
    BY <1>2, NotifyIsTyped DEF DeleteManifest, TypeInv, TypeOK
<1>4. tag' \in [Image -> Digest \cup {NULL}] /\ manifest' \subseteq Repo \X Digest
    BY UntagIsTyped DEF DeleteManifest, TypeInv, TypeOK
<1>5. /\ work' \in [Proc -> SUBSET Candidate]
      /\ pc' \in [Proc -> PC]
      /\ \A q \in Proc : pc'[q] = "upsert" => pc[q] = "upsert"
    <2>1. CASE Accepted(DeleteStatus(r, c.digest))
        BY <2>1 DEF DeleteManifest, TypeInv, TypeOK, PC
    <2>2. CASE ~Accepted(DeleteStatus(r, c.digest))
        BY <2>2, AdvanceIsTyped DEF DeleteManifest
    <2>3. QED
        BY <2>1, <2>2
<1>6. QED
    BY <1>3, <1>4, <1>5 DEF DeleteManifest, TypeInv, TypeOK, AtPush, Proc, tableVars, handlerVars

\* A refusal by the registry keeps the types.
LEMMA TypeRegistryRefuses ==
    ASSUME TypeInv, NEW p \in Proc, NEW c \in work[p], RegistryRefuses(p, c)
    PROVE  TypeInv'
<1>1. used' \in [Budget -> Nat]
    BY SpendIsTyped DEF RegistryRefuses, TypeInv, TypeOK, Budget
<1>2. QED
    BY <1>1, AdvanceIsTyped
    DEF RegistryRefuses, TypeInv, TypeOK, AtPush, Proc, registryVars, notifyVars, tableVars, handlerVars

\* The delete of a row by id keeps the types.
LEMMA TypeDropRow ==
    ASSUME TypeInv, NEW p \in Proc, NEW c \in work[p], DropRow(p, c)
    PROVE  TypeInv'
<1>1. row' \in [Image -> Row \cup {NULL}] /\ nextId' \in Nat
    BY DEF DropRow, DeleteRow, TypeInv, TypeOK
<1>2. /\ work' \in [Proc -> SUBSET Candidate]
      /\ pc' \in [Proc -> PC]
      /\ \A q \in Proc : pc'[q] = "upsert" => pc[q] = "upsert"
    BY AdvanceIsTyped DEF DropRow, TypeInv, TypeOK, PC
<1>3. QED
    BY <1>1, <1>2
    DEF DropRow, TypeInv, TypeOK, AtPush, Proc, registryVars, notifyVars, handlerVars

\* Removing the entry of the cache keeps the types.
LEMMA TypeUncache ==
    ASSUME TypeInv, NEW p \in Proc, NEW c \in work[p], Uncache(p, c)
    PROVE  TypeInv'
<1>1. used' \in [Budget -> Nat]
    BY SpendIsTyped DEF Uncache, TypeInv, TypeOK, Budget
<1>2. cached' \subseteq Image
    BY DEF Uncache, TypeInv, TypeOK
<1>3. QED
    BY <1>1, <1>2, AdvanceIsTyped
    DEF Uncache, TypeInv, TypeOK, AtPush, Proc, registryVars, notifyVars, tableVars, handlerVars

\* So does the delete of the row of a tag that is gone.
LEMMA TypeForgetRow ==
    ASSUME TypeInv, NEW p \in Proc, NEW c \in work[p], ForgetRow(p, c)
    PROVE  TypeInv'
<1>1. row' \in [Image -> Row \cup {NULL}] /\ nextId' \in Nat
    BY DEF ForgetRow, DeleteRow, TypeInv, TypeOK
<1>2. QED
    BY <1>1, AdvanceIsTyped
    DEF ForgetRow, TypeInv, TypeOK, AtPush, Proc, registryVars, notifyVars, handlerVars

\* A failed delete of a row keeps the types.
LEMMA TypeDropFails ==
    ASSUME TypeInv, NEW p \in Proc, NEW c \in work[p], DropFails(p, c)
    PROVE  TypeInv'
<1>1. used' \in [Budget -> Nat]
    BY SpendIsTyped DEF DropFails, TypeInv, TypeOK, Budget
<1>2. QED
    BY <1>1, AdvanceIsTyped
    DEF DropFails, TypeInv, TypeOK, AtPush, Proc, registryVars, notifyVars, tableVars, handlerVars

\* Restarts of the hooks process and of the scheduled reaper keep the types.
LEMMA TypeRestarts ==
    ASSUME TypeInv, HooksRestart \/ \E c \in Cron : ReaperRestart(c)
    PROVE  TypeInv'
<1>1. used' \in [Budget -> Nat]
    BY SpendIsTyped DEF HooksRestart, ReaperRestart, TypeInv, TypeOK, Budget
<1>2. CASE HooksRestart
    <2>1. body' \in [Handler -> Seq(Event)]
        BY <1>2 DEF HooksRestart
    <2>2. QED
        BY <1>1, <1>2, <2>1 DEF HooksRestart, TypeInv, TypeOK, AtPush, PC, Proc, registryVars, tableVars
<1>3. CASE \E c \in Cron : ReaperRestart(c)
    BY <1>1, <1>3 DEF ReaperRestart, TypeInv, TypeOK, AtPush, PC, Proc,
                      registryVars, notifyVars, tableVars, handlerVars
<1>4. QED
    BY <1>2, <1>3

\* So does a tick of the clock.
LEMMA TypeTick ==
    ASSUME TypeInv, Tick
    PROVE  TypeInv'
BY DEF Tick, TypeInv, TypeOK, AtPush, registryVars, notifyVars, tableVars, handlerVars, procVars

\* A system as an upgrade leaves it is well-typed.
LEMMA TypeInit ==
    ASSUME Init
    PROVE  TypeInv
<1>1. LegacyRow \in Row
    BY DEF LegacyRow, Row, Mode, Provenances
<1>2. 0 \in Digest /\ \A i \in Image : RepoOf[i] \in Repo
    BY LifecycleAssumption, RetentionAssumption
<1>3. Legacy \subseteq Image
    BY LifecycleAssumption
<1>4. manifest \subseteq Repo \X Digest
    BY <1>2, <1>3 DEF Init
<1>5. row \in [Image -> Row \cup {NULL}] /\ tag \in [Image -> Digest \cup {NULL}]
    BY <1>1, <1>2 DEF Init
<1>6. << >> \in Seq(Event)
    OBVIOUS
<1>7. QED
    BY <1>4, <1>5, <1>6 DEF Init, TypeInv, TypeOK, AtPush, PC, Proc

\* No step of anybody breaks the types.
LEMMA TypeStep ==
    ASSUME TypeInv, [Next]_vars
    PROVE  TypeInv'
<1>1. CASE UNCHANGED vars
    BY <1>1 DEF TypeInv, TypeOK, AtPush, vars, registryVars, notifyVars, tableVars, handlerVars, procVars
<1>2. CASE Client
    BY <1>2, TypePushTag, TypePullTag, TypeBlobTraffic, TypeDeleteByClient DEF Client
<1>3. CASE \E f \in Frontend, h \in Handler : Deliver(f, h)
    BY <1>3, TypeDeliver
<1>4. CASE \E h \in Handler : HookStep(h)
    BY <1>4, TypeStartPush, TypeUpsertTag, TypeUpsertFails, TypeRecordDelete, TypeRecordPull,
       TypeSkipEvent, TypeStartReap, TypeReply DEF HookStep
<1>5. CASE \E p \in Proc : ReapStep(p)
    BY <1>5, TypeHeadTag, TypeDeleteManifest, TypeRegistryRefuses, TypeDropRow, TypeUncache,
       TypeForgetRow, TypeDropFails DEF ReapStep
<1>6. CASE \E c \in Cron : CronTick(c)
    BY <1>6, TypeCronTick
<1>7. CASE Trouble
    BY <1>7, TypeTimeout, TypeRegistryRestart, TypeRestarts DEF Trouble
<1>8. CASE Tick
    BY <1>8, TypeTick
<1>9. QED
    BY <1>1, <1>2, <1>3, <1>4, <1>5, <1>6, <1>7, <1>8 DEF Next

\* Every reachable state is well-typed, and a handler that is about to upsert
\* has the event of the push at hand.
LEMMA TypeInvariance == Spec => []TypeInv
<1>1. Init => TypeInv
    BY TypeInit
<1>2. TypeInv /\ [Next]_vars => TypeInv'
    BY TypeStep
<1>3. QED
    BY <1>1, <1>2, PTL DEF Spec

\* The variables of the registry, the notifications, the table and the
\* processes keep their types whatever clients, deliveries, reapers, failures
\* and restarts do: in particular a row's TTL always comes with an expiry and
\* an idle row with its window (hooks/src/util/tagRetention.ts:106-148).
THEOREM TypeCorrect == Spec => []TypeOK
<1>1. TypeInv => TypeOK
    BY DEF TypeInv
<1>2. QED
    BY <1>1, TypeInvariance, PTL

-----------------------------------------------------------------------------
(* Rows: only an announced delete or a reap of that very row removes it.   *)

\* Rows keep their identity in every step that is not a delete by event or by
\* id: an upsert and a recorded pull change the row in place.
RowKept(i) == row[i] # NULL => row'[i] # NULL /\ row'[i].id = row[i].id

\* An upsert keeps the identity of every row.
LEMMA UpsertKeepsRows ==
    ASSUME TypeInv, NEW h \in Handler, UpsertTag(h)
    PROVE  \A i \in Image : RowKept(i)
<1> DEFINE e == Head(body[h])
<1>1. body[h] # << >> /\ e.action = "push"
    BY DEF UpsertTag, TypeInv, AtPush
<1>2. e.image \in Image /\ e.digest \in Digest \cup {NULL}
    BY <1>1, HeadIsEvent DEF Event
<1>3. row[e.image] \in Row \cup {NULL} /\ pushedAt[h] \in Nat /\ now \in Nat /\ nextId \in Nat
    BY <1>2 DEF TypeInv, TypeOK
<1>4. row' = [row EXCEPT ![e.image] = Upserted(row[e.image], nextId, e.image, e.digest, pushedAt[h], now)]
    BY DEF UpsertTag
<1> HIDE DEF e
<1> DEFINE old == row[e.image]
           new == Upserted(old, nextId, e.image, e.digest, pushedAt[h], now)
<1>5. new \in Row
    BY <1>2, <1>3, UpsertedIsRow
<1>6. old \in Row => new.id = old.id
    BY UpsertedKeepsId
<1> HIDE DEF new
<1>7. row \in [Image -> Row \cup {NULL}] /\ new # NULL
    BY <1>5, NoRowAssumption DEF TypeInv, TypeOK
<1>8. row' = [row EXCEPT ![e.image] = new]
    BY <1>4 DEF new
<1>9. QED
    BY <1>2, <1>6, <1>7, <1>8 DEF RowKept

\* So does a recorded pull.
LEMMA PullKeepsRows ==
    ASSUME TypeInv, NEW h \in Handler, RecordPull(h)
    PROVE  \A i \in Image : RowKept(i)
<1> DEFINE e == Head(body[h])
<1>1. e.image \in Image
    BY HeadIsEvent DEF RecordPull, AtEvent, Event
<1>2. row[e.image] \in Row \cup {NULL} /\ now \in Nat
    BY <1>1 DEF TypeInv, TypeOK
<1> DEFINE new == Pulled(row[e.image], now)
<1>3. row[e.image] # NULL => new \in Row /\ new.id = row[e.image].id
    BY <1>2, PulledIsRow
<1>4. row' = [row EXCEPT ![e.image] = IF row[e.image] = NULL THEN row[e.image] ELSE new]
    BY DEF RecordPull
<1> HIDE DEF new, e
<1>5. QED
    BY <1>1, <1>3, <1>4, NoRowAssumption DEF RowKept, TypeInv, TypeOK

\* A recorded delete only takes the rows that it condemns.
LEMMA DeleteTakesCondemned ==
    ASSUME TypeInv, NEW h \in Handler, RecordDelete(h)
    PROVE  \A i \in Image : ~Condemned(i) => RowKept(i)
BY DEF RecordDelete, Condemned, RowKept

\* A reaper deletes by id, so it only takes the row that it selected.
LEMMA ReapTakesCondemned ==
    ASSUME TypeInv, NEW p \in Proc, NEW c \in work[p], DeleteRow(c)
    PROVE  \A i \in Image : ~Condemned(i) => RowKept(i)
BY DEF DeleteRow, SameRow, Condemned, RowKept, TypeInv, TypeOK

\* Every other step leaves the table alone.
LEMMA StepTakesCondemned ==
    ASSUME TypeInv, [Next]_vars
    PROVE  \A i \in Image : ~Condemned(i) => RowKept(i)
<1>1. ASSUME UNCHANGED row
      PROVE  \A i \in Image : RowKept(i)
    BY <1>1 DEF RowKept
<1>2. CASE UNCHANGED vars
    BY <1>1, <1>2 DEF vars, tableVars
<1>3. CASE Client
    BY <1>1, <1>3 DEF Client, PushTag, PullTag, BlobTraffic, DeleteByClient, tableVars
<1>4. CASE \E f \in Frontend, h \in Handler : Deliver(f, h)
    BY <1>1, <1>4 DEF Deliver, tableVars
<1>5. ASSUME NEW h \in Handler, HookStep(h)
      PROVE  \A i \in Image : ~Condemned(i) => RowKept(i)
    <2>1. CASE UpsertTag(h)
        BY <2>1, UpsertKeepsRows
    <2>2. CASE RecordDelete(h)
        BY <2>2, DeleteTakesCondemned
    <2>3. CASE RecordPull(h)
        BY <2>3, PullKeepsRows
    <2>4. CASE StartPush(h) \/ UpsertFails(h) \/ SkipEvent(h) \/ StartReap(h) \/ Reply(h)
        BY <1>1, <2>4 DEF StartPush, UpsertFails, SkipEvent, StartReap, Reply, tableVars
    <2>5. QED
        BY <1>5, <2>1, <2>2, <2>3, <2>4 DEF HookStep
<1>6. ASSUME NEW p \in Proc, NEW c \in work[p],
             \/ HeadTag(p, c) \/ DeleteManifest(p, c) \/ RegistryRefuses(p, c)
             \/ DropRow(p, c) \/ Uncache(p, c) \/ ForgetRow(p, c) \/ DropFails(p, c)
      PROVE  \A i \in Image : ~Condemned(i) => RowKept(i)
    <2>1. CASE DropRow(p, c) \/ ForgetRow(p, c)
        BY <2>1, ReapTakesCondemned DEF DropRow, ForgetRow
    <2>2. CASE \/ HeadTag(p, c) \/ DeleteManifest(p, c) \/ RegistryRefuses(p, c)
               \/ Uncache(p, c) \/ DropFails(p, c)
        BY <1>1, <2>2 DEF HeadTag, DeleteManifest, RegistryRefuses, Uncache, DropFails, tableVars
    <2>3. QED
        BY <1>6, <2>1, <2>2
<1>7. CASE \E c \in Cron : CronTick(c)
    BY <1>1, <1>7 DEF CronTick, tableVars
<1>8. CASE Trouble
    BY <1>1, <1>8 DEF Trouble, Timeout, RegistryRestart, HooksRestart, ReaperRestart, tableVars
<1>9. CASE Tick
    BY <1>1, <1>9 DEF Tick, tableVars
<1>10. QED
    BY <1>2, <1>3, <1>4, <1>5, <1>6, <1>7, <1>8, <1>9 DEF Next, ReapStep

\* However many reapers and handlers run, on however stale snapshots, and
\* whatever is delivered twice, late or never: a row leaves the table only if
\* a reaper selected that very row or a delete notification in progress names
\* its digest (hooks/src/util/imageRetention.ts:298, hookEvents.ts:28-35).
THEOREM RowsSurvive == Spec => UnselectedRowSurvives
<1>1. TypeInv /\ [Next]_vars =>
        [\A i \in Image : row[i] # NULL /\ ~Condemned(i)
                             => row'[i] # NULL /\ row'[i].id = row[i].id]_vars
    BY StepTakesCondemned DEF RowKept
<1>2. QED
    BY <1>1, TypeInvariance, PTL DEF Spec, UnselectedRowSurvives

-----------------------------------------------------------------------------
(* Protected namespaces.                                                   *)

\* Nobody has selected a row of a repository that every process protects.
NoProtectedWork ==
    \A p \in Proc : \A c \in work[p] : ~ProtectedRepo(RepoOf[c.image])

\* A selection does not select protected rows.
LEMMA SelectAvoidsProtected ==
    ASSUME TypeInv, NoProtectedWork, NEW p \in Proc, NEW scope, Select(p, scope)
    PROVE  NoProtectedWork'
<1>1. \A c \in work'[p] : ~Protected(EnvOf[p], RepoOf[c.image])
    BY SelectIsTyped
<1>2. \A c \in work'[p] : ~ProtectedRepo(RepoOf[c.image])
    BY <1>1 DEF Protected, ProtectedRepo
<1>3. \A q \in Proc : q # p => work'[q] = work[q]
    BY SelectIsTyped
<1>4. QED
    BY <1>2, <1>3 DEF NoProtectedWork

\* Looking up the digest of a selected row does not change whose row it is.
LEMMA HeadAvoidsProtected ==
    ASSUME TypeInv, NoProtectedWork, NEW p \in Proc, NEW c \in work[p], HeadTag(p, c)
    PROVE  NoProtectedWork'
<1> DEFINE e == [c EXCEPT !.digest = tag[c.image]]
<1>1. c \in Candidate
    BY DEF TypeInv, TypeOK
<1>2. e.image = c.image
    BY <1>1 DEF Candidate
<1>3. work' = work \/ work' = [work EXCEPT ![p] = (@ \ {c}) \cup {e}]
    BY DEF HeadTag
<1> HIDE DEF e
<1>4. \A q \in Proc : work'[q] \subseteq work[q] \cup {e}
    BY <1>3 DEF TypeInv, TypeOK
<1>5. ~ProtectedRepo(RepoOf[e.image])
    BY <1>2 DEF NoProtectedWork
<1>6. QED
    BY <1>4, <1>5 DEF NoProtectedWork

\* No step selects a row of a repository that every process protects.
LEMMA StepAvoidsProtected ==
    ASSUME TypeInv, NoProtectedWork, [Next]_vars
    PROVE  NoProtectedWork'
<1>1. ASSUME \A p \in Proc : work'[p] \subseteq work[p]
      PROVE  NoProtectedWork'
    BY <1>1 DEF NoProtectedWork
<1>2. CASE UNCHANGED vars
    BY <1>1, <1>2 DEF vars, procVars
<1>3. CASE Client
    BY <1>1, <1>3 DEF Client, PushTag, PullTag, BlobTraffic, DeleteByClient, procVars
<1>4. CASE \E f \in Frontend, h \in Handler : Deliver(f, h)
    BY <1>1, <1>4 DEF Deliver
<1>5. ASSUME NEW h \in Handler, HookStep(h)
      PROVE  NoProtectedWork'
    <2>1. CASE StartReap(h)
        <3>1. h \in Proc
            BY DEF Proc
        <3>2. UNCHANGED work \/ \E r : Select(h, {r})
            BY <2>1 DEF StartReap, procVars
        <3>3. QED
            BY <1>1, <3>1, <3>2, SelectAvoidsProtected
    <2>2. CASE \/ UpsertTag(h) \/ RecordDelete(h) \/ RecordPull(h)
               \/ StartPush(h) \/ UpsertFails(h) \/ SkipEvent(h) \/ Reply(h)
        BY <1>1, <2>2 DEF UpsertTag, RecordDelete, RecordPull, StartPush, UpsertFails, SkipEvent, Reply
    <2>3. QED
        BY <1>5, <2>1, <2>2 DEF HookStep
<1>6. ASSUME NEW p \in Proc, NEW c \in work[p],
             \/ HeadTag(p, c) \/ DeleteManifest(p, c) \/ RegistryRefuses(p, c)
             \/ DropRow(p, c) \/ Uncache(p, c) \/ ForgetRow(p, c) \/ DropFails(p, c)
      PROVE  NoProtectedWork'
    <2>1. CASE HeadTag(p, c)
        BY <2>1, HeadAvoidsProtected
    <2>2. CASE \/ DeleteManifest(p, c) \/ RegistryRefuses(p, c)
               \/ DropRow(p, c) \/ Uncache(p, c) \/ ForgetRow(p, c) \/ DropFails(p, c)
        BY <1>1, <2>2, AdvanceIsTyped
        DEF DeleteManifest, RegistryRefuses, DropRow, Uncache, ForgetRow, DropFails
    <2>3. QED
        BY <1>6, <2>1, <2>2
<1>7. ASSUME NEW c \in Cron, CronTick(c)
      PROVE  NoProtectedWork'
    BY <1>7, SelectAvoidsProtected DEF CronTick, Proc
<1>8. CASE Trouble
    <2>1. CASE \E f \in Frontend : Timeout(f) \/ RegistryRestart(f)
        BY <1>1, <2>1 DEF Timeout, RegistryRestart, procVars
    <2>2. CASE HooksRestart
        BY <1>1, <2>2 DEF HooksRestart
    <2>3. CASE \E c \in Cron : ReaperRestart(c)
        BY <1>1, <2>3 DEF ReaperRestart, TypeInv, TypeOK
    <2>4. QED
        BY <1>8, <2>1, <2>2, <2>3 DEF Trouble
<1>9. CASE Tick
    BY <1>1, <1>9 DEF Tick, procVars
<1>10. QED
    BY <1>2, <1>3, <1>4, <1>5, <1>6, <1>7, <1>8, <1>9 DEF Next, ReapStep

\* A client's push or delete is seen in the budget that it spends.
LEMMA SpendIsSeen ==
    ASSUME TypeInv, NEW b \in {"push", "delete"}, Spend(b)
    PROVE  ClientStep
<1>1. used[b] \in Nat /\ used'[b] = used[b] + 1
    BY DEF Spend, TypeInv, TypeOK, Budget
<1>2. QED
    BY <1>1 DEF ClientStep

\* Only clients, and reapers that delete a manifest, change tags.
LEMMA WhoChangesTags ==
    ASSUME [Next]_vars
    PROVE  \/ UNCHANGED tag
           \/ \E i \in Image, d \in Digest : PushTag(i, d)
           \/ \E r \in Repo, d \in Digest : DeleteByClient(r, d)
           \/ \E p \in Proc : \E c \in work[p] : DeleteManifest(p, c)
<1>1. CASE UNCHANGED vars
    BY <1>1 DEF vars, registryVars
<1>2. CASE Client
    BY <1>2 DEF Client, PullTag, BlobTraffic, registryVars
<1>3. CASE \E f \in Frontend, h \in Handler : Deliver(f, h)
    BY <1>3 DEF Deliver, registryVars
<1>4. CASE \E h \in Handler : HookStep(h)
    BY <1>4 DEF HookStep, StartPush, UpsertTag, UpsertFails, RecordDelete, RecordPull,
                SkipEvent, StartReap, Reply, registryVars
<1>5. CASE \E p \in Proc : ReapStep(p)
    BY <1>5 DEF ReapStep, HeadTag, RegistryRefuses, DropRow, Uncache, ForgetRow, DropFails, registryVars
<1>6. CASE \E c \in Cron : CronTick(c)
    BY <1>6 DEF CronTick, registryVars
<1>7. CASE Trouble
    BY <1>7 DEF Trouble, Timeout, RegistryRestart, HooksRestart, ReaperRestart, registryVars
<1>8. CASE Tick
    BY <1>8 DEF Tick, registryVars
<1>9. QED
    BY <1>1, <1>2, <1>3, <1>4, <1>5, <1>6, <1>7, <1>8 DEF Next

\* Only clients and reapers change a tag, and reapers not a protected one.
LEMMA StepKeepsProtected ==
    ASSUME TypeInv, NoProtectedWork, [Next]_vars
    PROVE  \A i \in Image : ProtectedRepo(RepoOf[i]) /\ tag'[i] # tag[i] => ClientStep
<1>1. CASE UNCHANGED tag
    BY <1>1
<1>2. CASE \E i \in Image, d \in Digest : PushTag(i, d)
    BY <1>2, SpendIsSeen DEF PushTag
<1>3. CASE \E r \in Repo, d \in Digest : DeleteByClient(r, d)
    BY <1>3, SpendIsSeen DEF DeleteByClient
<1>4. ASSUME NEW p \in Proc, NEW c \in work[p], DeleteManifest(p, c),
             NEW i \in Image, ProtectedRepo(RepoOf[i])
      PROVE  tag'[i] = tag[i]
    <2>1. RepoOf[i] # RepoOf[c.image]
        BY <1>4 DEF NoProtectedWork
    <2>2. tag' = tag \/ tag' = Untag(RepoOf[c.image], c.digest)
        BY <1>4 DEF DeleteManifest
    <2>3. QED
        BY <2>1, <2>2 DEF Untag
<1>5. QED
    BY <1>1, <1>2, <1>3, <1>4, WhoChangesTags

\* A tag under a namespace that every process protects, the namespace itself
\* or anything below it, is never reaped, not even by a reap that works on a
\* row without a digest and resolves the tag late
\* (hooks/src/util/imageRetention.ts:262-273, 280-306).
THEOREM ProtectedStay == Spec => ProtectedTagsStay
<1>1. Init => NoProtectedWork
    BY DEF Init, NoProtectedWork
<1>2. TypeInv /\ NoProtectedWork /\ [Next]_vars => NoProtectedWork'
    BY StepAvoidsProtected
<1>3. Spec => []NoProtectedWork
    BY <1>1, <1>2, TypeInvariance, PTL DEF Spec
<1>4. TypeInv /\ NoProtectedWork /\ [Next]_vars =>
        [\A i \in Image : ProtectedRepo(RepoOf[i]) /\ tag'[i] # tag[i] => ClientStep]_vars
    BY StepKeepsProtected
<1>5. QED
    BY <1>3, <1>4, TypeInvariance, PTL DEF Spec, ProtectedTagsStay

-----------------------------------------------------------------------------
(* TTL tags.  Where every push brings content of its own, a digest says of *)
(* what tag and of what time it is: o and s below are the image and the    *)
(* time of the push of each digest.  The state does not hold them, they    *)
(* are only claimed to exist.                                              *)

HasTtl(i) == SuffixOf[i].kind = "ttl" /\ SuffixOf[i].label \in DOMAIN SuffixSeconds
Window(i) == SuffixSeconds[SuffixOf[i].label]

\* d is content that was pushed to i.
Pushed(o, d, i) == d \in Digest \ {0} /\ d =< used["push"] /\ o[d] = i

\* The digest of an image: content pushed to it or, not for a TTL tag, what it
\* had before.
ContentOf(o, d, i) == (d \in {NULL, 0} /\ ~HasTtl(i)) \/ Pushed(o, d, i)

EventsIn(events) == {events[k] : k \in 1 .. Len(events)}

\* The notifications that are queued or in progress.
IsNews(e) ==
    \/ \E f \in Frontend : e \in EventsIn(queue[f])
    \/ \E h \in Handler : e \in EventsIn(body[h])

\* A TTL tag points to the content of its last push, the time of which it has.
TagsKnown(o, s) ==
    \A i \in Image : tag[i] # NULL =>
       ContentOf(o, tag[i], i) /\ (HasTtl(i) => s[tag[i]] = taggedAt[i])

\* A push is announced for the tag that it was of, however late and often.
NewsKnown(o) ==
    \A e \in Event : IsNews(e) /\ e.action = "push" => Pushed(o, e.digest, e.image)

\* A handler has read the clock after the push.
PushesKnown(s) ==
    \A h \in Handler : pc[h] = "upsert" => s[Head(body[h]).digest] =< pushedAt[h]

\* The row of a TTL tag expires no earlier than its content may go.
RowsKnown(o, s) ==
    \A i \in Image : row[i] # NULL =>
       /\ ContentOf(o, row[i].digest, i)
       /\ HasTtl(i) => /\ row[i].mode = "ttl"
                       /\ s[row[i].digest] + Window(i) =< row[i].expiresAt

\* The content of a selected row of a TTL tag may go, whatever the tag points to
\* by now.
WorkKnown(o, s) ==
    \A p \in Proc : \A c \in work[p] :
       /\ ContentOf(o, c.digest, c.image)
       /\ HasTtl(c.image) => s[c.digest] + Window(c.image) =< now

Known(o, s) ==
    TagsKnown(o, s) /\ NewsKnown(o) /\ PushesKnown(s) /\ RowsKnown(o, s) /\ WorkKnown(o, s)

KnownInv ==
    \E o \in [Digest -> Image \cup {NULL}], s \in [Digest -> 0 .. now] : Known(o, s)

-----------------------------------------------------------------------------
(* What the operators of Retention make of a TTL tag.                      *)

\* A TTL tag's suffix asks for its window from the time of the push.
LEMMA ParseOfTtl ==
    ASSUME NEW i \in Image, NEW at, HasTtl(i)
    PROVE  /\ ParseTagRetention(i, at).mode = "ttl"
           /\ ParseTagRetention(i, at).expiresAt = at + Window(i)
<1>1. ParseTagRetention(i, at) = [mode |-> "ttl", value |-> Window(i),
                                  expiresAt |-> at + Window(i)]
    BY DEF HasTtl, Window, ParseTagRetention
<1>2. QED
    BY <1>1

\* A window is a time.
LEMMA WindowIsNat ==
    ASSUME NEW i \in Image, HasTtl(i)
    PROVE  Window(i) \in Nat
BY RetentionAssumption DEF HasTtl, Window

\* An upsert puts the digest of the push into the row and, for a TTL tag, the
\* expiry counted from the clock that the handler read.
LEMMA UpsertOfTtl ==
    ASSUME NEW old \in Row \cup {NULL}, NEW id, NEW i \in Image,
           NEW d \in Digest, NEW at, NEW t
    PROVE  /\ Upserted(old, id, i, d, at, t).digest = d
           /\ HasTtl(i) => /\ Upserted(old, id, i, d, at, t).mode = "ttl"
                           /\ Upserted(old, id, i, d, at, t).expiresAt = at + Window(i)
<1> DEFINE p == ParseTagRetention(i, at)
<1>1. HasTtl(i) => p.mode = "ttl" /\ p.expiresAt = at + Window(i)
    BY ParseOfTtl
<1>2. d # NULL
    BY NullAssumption
<1> HIDE DEF p
<1>3. CASE old = NULL
    <2>1. Upserted(old, id, i, d, at, t) =
             [id |-> id, digest |-> d, createdAt |-> t, pushedAt |-> at, pulledAt |-> NULL,
              mode |-> p.mode, value |-> p.value, expiresAt |-> p.expiresAt,
              provenance |-> Provenance(RepoOf[i])]
        BY <1>3 DEF Upserted, p
    <2>2. QED
        BY <1>1, <2>1
<1>4. CASE old # NULL
    <2>1. old \in Row
        BY <1>4
    <2>2. Upserted(old, id, i, d, at, t) =
             [old EXCEPT !.digest = d, !.pushedAt = at,
                         !.mode = p.mode, !.value = p.value, !.expiresAt = p.expiresAt,
                         !.provenance = Provenance(RepoOf[i])]
        BY <1>2, <1>4 DEF Upserted, p
    <2>3. QED
        BY <1>1, <2>1, <2>2 DEF Row
<1>5. QED
    BY <1>3, <1>4

\* A recorded pull changes neither the content nor the expiry of a row.
LEMMA PulledKeepsExpiry ==
    ASSUME NEW r \in Row, NEW t
    PROVE  LET n == Pulled(r, t) IN
             n.digest = r.digest /\ n.mode = r.mode /\ n.expiresAt = r.expiresAt
BY DEF Pulled, Row

\* A row of mode ttl is stale only when it has expired.
LEMMA TtlIsStaleWhenExpired ==
    ASSUME NEW rows, NEW scope, NEW env, NEW t, NEW i \in Selected(rows, scope, env, t),
           rows[i].mode = "ttl"
    PROVE  rows[i].expiresAt =< t
BY DEF Selected, Stale, Superseded, Plain, TtlExpired, IdleExpired, MirrorIdleExpired

-----------------------------------------------------------------------------
(* Sequences of notifications.                                             *)

\* What is appended is the only new event.
LEMMA EventsOfAppend ==
    ASSUME NEW events \in Seq(Event), NEW e
    PROVE  EventsIn(Append(events, e)) \subseteq EventsIn(events) \cup {e}
<1>1. /\ Len(Append(events, e)) = Len(events) + 1
      /\ \A k \in 1 .. Len(events) : Append(events, e)[k] = events[k]
      /\ Append(events, e)[Len(events) + 1] = e
    OBVIOUS
<1>2. QED
    BY <1>1 DEF EventsIn

\* A part of a sequence has no other events.
LEMMA EventsOfPart ==
    ASSUME NEW events \in Seq(Event), NEW m \in Nat \ {0}, NEW n \in Nat, n =< Len(events)
    PROVE  EventsIn(SubSeq(events, m, n)) \subseteq EventsIn(events)
<1>1. \A k \in m .. n : events[k] \in Event
    OBVIOUS
<1>2. /\ Len(SubSeq(events, m, n)) = IF m =< n THEN n - m + 1 ELSE 0
      /\ \A k \in 1 .. n - m + 1 : SubSeq(events, m, n)[k] = events[m + k - 1]
    BY <1>1, SubSeqProperties
<1>3. ASSUME NEW k \in 1 .. Len(SubSeq(events, m, n))
      PROVE  SubSeq(events, m, n)[k] \in EventsIn(events)
    <2>1. k \in 1 .. n - m + 1 /\ m + k - 1 \in 1 .. Len(events)
        BY <1>2
    <2>2. QED
        BY <1>2, <2>1 DEF EventsIn
<1>4. QED
    BY <1>3 DEF EventsIn

\* Neither has the rest of one.
LEMMA EventsOfTail ==
    ASSUME NEW events \in Seq(Event), events # << >>
    PROVE  EventsIn(Tail(events)) \subseteq EventsIn(events)
<1>1. Len(Tail(events)) = Len(events) - 1
      /\ \A k \in 1 .. Len(events) - 1 : Tail(events)[k] = events[k + 1]
    BY HeadTailProperties
<1>2. QED
    BY <1>1 DEF EventsIn

\* The first event of a sequence is one of its events.
LEMMA HeadIsIn ==
    ASSUME NEW events \in Seq(Event), events # << >>
    PROVE  Head(events) \in EventsIn(events)
<1>1. Len(events) >= 1 /\ Head(events) = events[1]
    BY EmptySeq
<1>2. QED
    BY <1>1 DEF EventsIn

-----------------------------------------------------------------------------
(* Steps that leave alone what is known of the content.                    *)

TagsKept == \A i \in Image : tag'[i] # NULL => tag'[i] = tag[i] /\ taggedAt'[i] = taggedAt[i]
NewsKept == \A e \in Event : e.action = "push" /\ IsNews(e)' => IsNews(e)
PushesKept ==
    \A h \in Handler : pc'[h] = "upsert" =>
       pc[h] = "upsert" /\ body'[h] = body[h] /\ pushedAt'[h] = pushedAt[h]
RowsKept ==
    \A i \in Image : row'[i] # NULL =>
       /\ row[i] # NULL /\ row'[i].digest = row[i].digest
       /\ row'[i].mode = row[i].mode /\ row'[i].expiresAt = row[i].expiresAt
WorkKept == \A p \in Proc : work'[p] \subseteq work[p]

\* Another account of the pushes that agrees about all those of the past.
Agrees(o, s, o2, s2) ==
    /\ used["push"] =< used'["push"] /\ now =< now'
    /\ \A d \in Digest \ {0} : d =< used["push"] => o2[d] = o[d] /\ s2[d] = s[d]

\* What was pushed once stays pushed.
LEMMA PushedStays ==
    ASSUME TypeInv, TypeInv', NEW o, NEW s, NEW o2, NEW s2, Agrees(o, s, o2, s2),
           NEW d, NEW i, Pushed(o, d, i)
    PROVE  Pushed(o2, d, i)' /\ s2[d] = s[d]
<1>1. used["push"] \in Nat /\ used'["push"] \in Nat /\ d \in Nat
    BY LifecycleAssumption DEF TypeInv, TypeOK, Budget, Pushed
<1>2. QED
    BY <1>1 DEF Agrees, Pushed

\* So does the content of an image.
LEMMA ContentStays ==
    ASSUME TypeInv, TypeInv', NEW o, NEW s, NEW o2, NEW s2, Agrees(o, s, o2, s2),
           NEW d, NEW i, ContentOf(o, d, i)
    PROVE  ContentOf(o2, d, i)' /\ (HasTtl(i) => s2[d] = s[d])
BY PushedStays DEF ContentOf, HasTtl

\* The event at hand is one of the notifications.
LEMMA AtHandIsNews ==
    ASSUME TypeInv, NEW h \in Handler, body[h] # << >>
    PROVE  IsNews(Head(body[h])) /\ Head(body[h]) \in Event
<1>1. body[h] \in Seq(Event)
    BY DEF TypeInv, TypeOK
<1>2. QED
    BY <1>1, HeadIsIn, HeadIsEvent DEF IsNews

\* Tags that are left alone, or removed, stay known.
LEMMA KeptTagsKnown ==
    ASSUME TypeInv, TypeInv', NEW o, NEW s, NEW o2, NEW s2, Agrees(o, s, o2, s2),
           TagsKnown(o, s), TagsKept
    PROVE  TagsKnown(o2, s2)'
<1>1. ASSUME NEW i \in Image, tag'[i] # NULL
      PROVE  (ContentOf(o2, tag[i], i) /\ (HasTtl(i) => s2[tag[i]] = taggedAt[i]))'
    <2>1. PICK d : d = tag[i] /\ tag'[i] = d /\ taggedAt'[i] = taggedAt[i]
        BY <1>1 DEF TagsKept
    <2>2. ContentOf(o, d, i) /\ (HasTtl(i) => s[d] = taggedAt[i])
        BY <1>1, <2>1 DEF TagsKnown
    <2>3. ContentOf(o2, d, i)' /\ (HasTtl(i) => s2[d] = s[d])
        BY <2>2, ContentStays
    <2>4. QED
        BY <2>1, <2>2, <2>3 DEF ContentOf, Pushed, HasTtl
<1>2. QED
    BY <1>1 DEF TagsKnown

\* Notifications that were there before stay known.
LEMMA KeptNewsKnown ==
    ASSUME TypeInv, TypeInv', NEW o, NEW s, NEW o2, NEW s2, Agrees(o, s, o2, s2),
           NewsKnown(o), NewsKept
    PROVE  NewsKnown(o2)'
<1>1. ASSUME NEW e \in Event, IsNews(e)', e.action = "push"
      PROVE  Pushed(o2, e.digest, e.image)'
    <2>1. Pushed(o, e.digest, e.image)
        BY <1>1 DEF NewsKept, NewsKnown
    <2>2. QED
        BY <2>1, PushedStays
<1>2. QED
    BY <1>1 DEF NewsKnown

\* So do pushes in progress.
LEMMA KeptPushesKnown ==
    ASSUME TypeInv, TypeInv', NEW o, NEW s, NEW o2, NEW s2, Agrees(o, s, o2, s2),
           NewsKnown(o), PushesKnown(s), PushesKept
    PROVE  PushesKnown(s2)'
<1>1. ASSUME NEW h \in Handler, pc'[h] = "upsert"
      PROVE  s2[Head(body'[h]).digest] =< pushedAt'[h]
    <2>1. pc[h] = "upsert" /\ body'[h] = body[h] /\ pushedAt'[h] = pushedAt[h]
        BY <1>1 DEF PushesKept
    <2>2. body[h] # << >> /\ Head(body[h]).action = "push"
        BY <2>1 DEF TypeInv, AtPush
    <2>3. Pushed(o, Head(body[h]).digest, Head(body[h]).image)
        BY <2>2, AtHandIsNews DEF NewsKnown
    <2>4. s2[Head(body[h]).digest] = s[Head(body[h]).digest]
        BY <2>3, PushedStays
    <2>5. QED
        BY <2>1, <2>4 DEF PushesKnown
<1>2. QED
    BY <1>1 DEF PushesKnown

\* Rows that keep their content and their expiry, or go, stay known.
LEMMA KeptRowsKnown ==
    ASSUME TypeInv, TypeInv', NEW o, NEW s, NEW o2, NEW s2, Agrees(o, s, o2, s2),
           RowsKnown(o, s), RowsKept
    PROVE  RowsKnown(o2, s2)'
<1>1. ASSUME NEW i \in Image, row'[i] # NULL
      PROVE  (/\ ContentOf(o2, row[i].digest, i)
              /\ HasTtl(i) => /\ row[i].mode = "ttl"
                              /\ s2[row[i].digest] + Window(i) =< row[i].expiresAt)'
    <2>1. PICK d : /\ row[i] # NULL /\ d = row[i].digest /\ row'[i].digest = d
                   /\ row'[i].mode = row[i].mode /\ row'[i].expiresAt = row[i].expiresAt
        BY <1>1 DEF RowsKept
    <2>2. /\ ContentOf(o, d, i)
          /\ HasTtl(i) => row[i].mode = "ttl" /\ s[d] + Window(i) =< row[i].expiresAt
        BY <2>1 DEF RowsKnown
    <2>3. ContentOf(o2, d, i)' /\ (HasTtl(i) => s2[d] = s[d])
        BY <2>2, ContentStays
    <2>4. QED
        BY <2>1, <2>2, <2>3 DEF ContentOf, Pushed, HasTtl, Window
<1>2. QED
    BY <1>1 DEF RowsKnown

\* What was selected before stays known: its content may still go.
LEMMA KeptWorkKnown ==
    ASSUME TypeInv, TypeInv', NEW o, NEW s \in [Digest -> Nat], NEW o2, NEW s2,
           Agrees(o, s, o2, s2), WorkKnown(o, s), WorkKept
    PROVE  WorkKnown(o2, s2)'
<1>1. ASSUME NEW p \in Proc, NEW c \in work'[p]
      PROVE  /\ ContentOf(o2, c.digest, c.image)'
             /\ HasTtl(c.image) => s2[c.digest] + Window(c.image) =< now'
    <2>1. c \in work[p] /\ c \in Candidate /\ c.image \in Image
        BY DEF WorkKept, TypeInv, TypeOK, Candidate
    <2>2. /\ ContentOf(o, c.digest, c.image)
          /\ HasTtl(c.image) => s[c.digest] + Window(c.image) =< now
        BY <2>1 DEF WorkKnown
    <2>3. ContentOf(o2, c.digest, c.image)' /\ (HasTtl(c.image) => s2[c.digest] = s[c.digest])
        BY <2>2, ContentStays
    <2>4. ASSUME HasTtl(c.image)
          PROVE  s2[c.digest] + Window(c.image) =< now'
        <3>1. c.digest \in Digest /\ Window(c.image) \in Nat
            BY <2>1, <2>2, <2>4, WindowIsNat DEF ContentOf, Pushed
        <3>2. s[c.digest] \in Nat /\ now \in Nat /\ now' \in Nat /\ now =< now'
            BY <3>1 DEF TypeInv, TypeOK, Agrees
        <3>3. QED
            BY <2>2, <2>3, <2>4, <3>1, <3>2
    <2>5. QED
        BY <2>3, <2>4
<1>2. QED
    BY <1>1 DEF WorkKnown

-----------------------------------------------------------------------------
(* Which steps leave what alone.                                           *)

Pushing == \E i \in Image, d \in Digest : PushTag(i, d)

\* Every other notification of the registry is not about a push.
LEMMA NotifyKeepsNews ==
    ASSUME TypeInv, NEW f \in Frontend, NEW a, NEW r, NEW i, NEW d, Notify(f, a, r, i, d),
           a # "push", UNCHANGED body
    PROVE  NewsKept
<1> DEFINE n == [action |-> a, repo |-> r, image |-> i, digest |-> d]
<1>1. queue' = [queue EXCEPT ![f] = Append(queue[f], n)] /\ n.action # "push"
    BY DEF Notify
<1> HIDE DEF n
<1>2. queue \in [Frontend -> Seq(Event)]
    BY DEF TypeInv, TypeOK
<1>3. ASSUME NEW e \in Event, e.action = "push", NEW g \in Frontend, e \in EventsIn(queue'[g])
      PROVE  e \in EventsIn(queue[g])
    <2>1. CASE g = f
        <3>1. queue'[g] = Append(queue[g], n) /\ queue[g] \in Seq(Event)
            BY <1>1, <1>2, <2>1
        <3>2. e \in EventsIn(queue[g]) \cup {n}
            BY <1>3, <3>1, EventsOfAppend
        <3>3. QED
            BY <1>1, <1>3, <3>2
    <2>2. CASE g # f
        BY <1>1, <1>2, <1>3, <2>2
    <2>3. QED
        BY <2>1, <2>2
<1>4. QED
    BY <1>3 DEF NewsKept, IsNews, EventsIn

\* A handler that goes on to the next event only forgets one.
LEMMA NextKeepsNews ==
    ASSUME TypeInv, NEW h \in Handler, body[h] # << >>, UNCHANGED queue,
           NextEvent(h) \/ UNCHANGED body
    PROVE  NewsKept
<1>1. body \in [Handler -> Seq(Event)]
    BY DEF TypeInv, TypeOK
<1>2. ASSUME NEW g \in Handler
      PROVE  EventsIn(body'[g]) \subseteq EventsIn(body[g])
    <2>1. body'[g] = body[g] \/ (body'[g] = Tail(body[g]) /\ body[g] # << >>)
        BY <1>1 DEF NextEvent
    <2>2. QED
        BY <1>1, <2>1, EventsOfTail
<1>3. QED
    BY <1>2 DEF NewsKept, IsNews, EventsIn

\* A delivery copies events of the queue.
LEMMA DeliverKeepsNews ==
    ASSUME TypeInv, NEW f \in Frontend, NEW h \in Handler, Deliver(f, h)
    PROVE  NewsKept
<1>1. PICK n \in 1 .. bound.batch :
         n <= Len(queue[f]) /\ body' = [body EXCEPT ![h] = SubSeq(queue[f], 1, n)]
    BY DEF Deliver
<1>2. /\ n \in Nat /\ queue[f] \in Seq(Event) /\ body \in [Handler -> Seq(Event)]
      /\ UNCHANGED queue
    BY DEF Deliver, TypeInv, TypeOK
<1>3. EventsIn(SubSeq(queue[f], 1, n)) \subseteq EventsIn(queue[f])
    BY <1>1, <1>2, EventsOfPart
<1>4. ASSUME NEW e, NEW g \in Handler, e \in EventsIn(body'[g])
      PROVE  e \in EventsIn(body[g]) \/ e \in EventsIn(queue[f])
    BY <1>1, <1>2, <1>3, <1>4
<1>5. QED
    BY <1>2, <1>4 DEF NewsKept, IsNews, EventsIn

\* What is acknowledged leaves the queue.
LEMMA ReplyKeepsNews ==
    ASSUME TypeInv, NEW h \in Handler, Reply(h)
    PROVE  NewsKept
<1>1. ASSUME NEW f \in Frontend
      PROVE  EventsIn(queue'[f]) \subseteq EventsIn(queue[f])
    <2>1. queue[f] \in Seq(Event) /\ sent[f] \in Nat /\ Len(queue[f]) \in Nat
        BY DEF TypeInv, TypeOK
    <2>2. EventsIn(SubSeq(queue[f], sent[f] + 1, Len(queue[f]))) \subseteq EventsIn(queue[f])
        BY <2>1, EventsOfPart
    <2>3. queue'[f] \in {queue[f], SubSeq(queue[f], sent[f] + 1, Len(queue[f]))}
        BY DEF Reply
    <2>4. QED
        BY <2>2, <2>3
<1>2. UNCHANGED body
    BY DEF Reply, handlerVars
<1>3. QED
    BY <1>1, <1>2 DEF NewsKept, IsNews, EventsIn

\* A restart forgets queues and requests.
LEMMA RestartKeepsNews ==
    ASSUME TypeInv,
           HooksRestart \/ \E f \in Frontend : RegistryRestart(f)
    PROVE  NewsKept
<1>1. CASE HooksRestart
    <2>1. \A h \in Handler : body'[h] = << >>
        BY <1>1 DEF HooksRestart
    <2>2. UNCHANGED queue
        BY <1>1 DEF HooksRestart
    <2>3. QED
        BY <2>1, <2>2 DEF NewsKept, IsNews, EventsIn
<1>2. ASSUME NEW f \in Frontend, RegistryRestart(f)
      PROVE  NewsKept
    <2>1. \A g \in Frontend : queue'[g] = queue[g] \/ queue'[g] = << >>
        BY <1>2 DEF RegistryRestart, TypeInv, TypeOK
    <2>2. UNCHANGED body
        BY <1>2 DEF RegistryRestart, handlerVars
    <2>3. QED
        BY <2>1, <2>2 DEF NewsKept, IsNews, EventsIn
<1>3. QED
    BY <1>1, <1>2

\* Only a push announces a push.
LEMMA StepKeepsNews ==
    ASSUME TypeInv, [Next]_vars
    PROVE  NewsKept \/ Pushing
<1>1. ASSUME UNCHANGED <<queue, body>>
      PROVE  NewsKept
    BY <1>1 DEF NewsKept, IsNews
<1>2. CASE UNCHANGED vars \/ Tick
    BY <1>1, <1>2 DEF vars, Tick, notifyVars, handlerVars
<1>3. CASE Client
    <2>1. ASSUME NEW i \in Image, PullTag(i)
          PROVE  NewsKept
        <3>1. FrontendOf[RepoOf[i]] \in Frontend
            BY RetentionAssumption, LifecycleAssumption
        <3>2. QED
            BY <2>1, <3>1, NotifyKeepsNews DEF PullTag, handlerVars
    <2>2. ASSUME NEW r \in Repo, BlobTraffic(r) \/ \E d \in Digest : DeleteByClient(r, d)
          PROVE  NewsKept
        <3>1. FrontendOf[r] \in Frontend
            BY LifecycleAssumption
        <3>2. QED
            BY <2>2, <3>1, NotifyKeepsNews DEF BlobTraffic, DeleteByClient, handlerVars
    <2>3. QED
        BY <1>3, <2>1, <2>2 DEF Client, Pushing
<1>4. CASE \E f \in Frontend, h \in Handler : Deliver(f, h)
    BY <1>4, DeliverKeepsNews
<1>5. ASSUME NEW h \in Handler, HookStep(h)
      PROVE  NewsKept
    <2>1. CASE StartPush(h) \/ UpsertTag(h) \/ UpsertFails(h) \/ RecordDelete(h)
               \/ RecordPull(h) \/ SkipEvent(h)
        <3>1. body[h] # << >>
            BY <2>1 DEF StartPush, UpsertTag, UpsertFails, RecordDelete, RecordPull, SkipEvent,
                        AtEvent, TypeInv, AtPush
        <3>2. UNCHANGED queue /\ (NextEvent(h) \/ UNCHANGED body)
            BY <2>1 DEF StartPush, UpsertTag, UpsertFails, RecordDelete, RecordPull, SkipEvent,
                        notifyVars
        <3>3. QED
            BY <3>1, <3>2, NextKeepsNews
    <2>2. CASE StartReap(h)
        BY <1>1, <2>2 DEF StartReap, notifyVars
    <2>3. CASE Reply(h)
        BY <2>3, ReplyKeepsNews
    <2>4. QED
        BY <1>5, <2>1, <2>2, <2>3 DEF HookStep
<1>6. ASSUME NEW p \in Proc, NEW c \in work[p],
             \/ HeadTag(p, c) \/ DeleteManifest(p, c) \/ RegistryRefuses(p, c)
             \/ DropRow(p, c) \/ Uncache(p, c) \/ ForgetRow(p, c) \/ DropFails(p, c)
      PROVE  NewsKept
    <2>1. Main \in Frontend
        BY LifecycleAssumption
    <2>2. CASE HeadTag(p, c)
        BY <1>1, <2>1, <2>2, NotifyKeepsNews DEF HeadTag, handlerVars
    <2>3. CASE DeleteManifest(p, c)
        BY <1>1, <2>1, <2>3, NotifyKeepsNews DEF DeleteManifest, handlerVars
    <2>4. CASE RegistryRefuses(p, c) \/ DropRow(p, c) \/ Uncache(p, c) \/ ForgetRow(p, c) \/ DropFails(p, c)
        BY <1>1, <2>4 DEF RegistryRefuses, DropRow, Uncache, ForgetRow, DropFails, notifyVars, handlerVars
    <2>5. QED
        BY <1>6, <2>2, <2>3, <2>4
<1>7. CASE \E c \in Cron : CronTick(c)
    BY <1>1, <1>7 DEF CronTick, notifyVars, handlerVars
<1>8. CASE Trouble
    <2>1. CASE \E f \in Frontend : Timeout(f)
        BY <1>1, <2>1 DEF Timeout, handlerVars
    <2>2. CASE \E c \in Cron : ReaperRestart(c)
        BY <1>1, <2>2 DEF ReaperRestart, notifyVars, handlerVars
    <2>3. QED
        BY <1>8, <2>1, <2>2, RestartKeepsNews DEF Trouble
<1>9. QED
    BY <1>2, <1>3, <1>4, <1>5, <1>6, <1>7, <1>8 DEF Next, ReapStep

\* Only a push moves a tag to other content; deletes take tags away.
LEMMA StepKeepsTags ==
    ASSUME TypeInv, [Next]_vars
    PROVE  TagsKept \/ Pushing
<1>1. ASSUME UNCHANGED <<tag, taggedAt>>
      PROVE  TagsKept
    BY <1>1 DEF TagsKept
<1>2. ASSUME NEW r, NEW d, tag' = Untag(r, d), UNCHANGED taggedAt
      PROVE  TagsKept
    BY <1>2 DEF TagsKept, Untag
<1>3. CASE Client
    BY <1>1, <1>2, <1>3 DEF Client, Pushing, PullTag, BlobTraffic, DeleteByClient, registryVars
<1>4. CASE UNCHANGED vars \/ Tick
    BY <1>1, <1>4 DEF vars, Tick, registryVars
<1>5. CASE \E f \in Frontend, h \in Handler : Deliver(f, h)
    BY <1>1, <1>5 DEF Deliver, registryVars
<1>6. CASE \E h \in Handler : HookStep(h)
    BY <1>1, <1>6 DEF HookStep, StartPush, UpsertTag, UpsertFails, RecordDelete, RecordPull,
                      SkipEvent, StartReap, Reply, registryVars
<1>7. ASSUME NEW p \in Proc, NEW c \in work[p],
             \/ HeadTag(p, c) \/ DeleteManifest(p, c) \/ RegistryRefuses(p, c)
             \/ DropRow(p, c) \/ Uncache(p, c) \/ ForgetRow(p, c) \/ DropFails(p, c)
      PROVE  TagsKept
    <2>1. CASE DeleteManifest(p, c)
        BY <1>1, <1>2, <2>1 DEF DeleteManifest
    <2>2. CASE HeadTag(p, c) \/ RegistryRefuses(p, c) \/ DropRow(p, c) \/ Uncache(p, c) \/ ForgetRow(p, c)
               \/ DropFails(p, c)
        BY <1>1, <2>2 DEF HeadTag, RegistryRefuses, DropRow, Uncache, ForgetRow, DropFails, registryVars
    <2>3. QED
        BY <1>7, <2>1, <2>2
<1>8. CASE \E c \in Cron : CronTick(c)
    BY <1>1, <1>8 DEF CronTick, registryVars
<1>9. CASE Trouble
    BY <1>1, <1>9 DEF Trouble, Timeout, RegistryRestart, HooksRestart, ReaperRestart, registryVars
<1>10. QED
    BY <1>3, <1>4, <1>5, <1>6, <1>7, <1>8, <1>9 DEF Next, ReapStep

\* A handler that is about to upsert stays there, with the same event, until it
\* is done; only the start of a push brings another one there.
LEMMA StepKeepsPushes ==
    ASSUME TypeInv, [Next]_vars
    PROVE  PushesKept \/ \E h \in Handler : StartPush(h)
<1> USE DEF PushesKept
<1>1. ASSUME UNCHANGED <<body, pushedAt>>, \A h \in Handler : pc'[h] = "upsert" => pc[h] = "upsert"
      PROVE  PushesKept
    BY <1>1
<1>2. CASE UNCHANGED vars \/ Tick \/ Client
    BY <1>1, <1>2 DEF vars, Tick, Client, PushTag, PullTag, BlobTraffic, DeleteByClient,
                      procVars, handlerVars
<1>3. ASSUME NEW f \in Frontend, NEW h \in Handler, Deliver(f, h)
      PROVE  PushesKept
    <2>1. UNCHANGED pushedAt /\ pc' = [pc EXCEPT ![h] = "next"]
          /\ \A g \in Handler : g # h => body'[g] = body[g]
        BY <1>3 DEF Deliver, TypeInv, TypeOK
    <2>2. QED
        BY <2>1 DEF TypeInv, TypeOK, Proc
<1>4. ASSUME NEW h \in Handler, NextEvent(h), UNCHANGED pushedAt
      PROVE  PushesKept
    BY <1>4 DEF NextEvent, TypeInv, TypeOK, Proc
<1>5. ASSUME NEW h \in Handler, HookStep(h), ~StartPush(h)
      PROVE  PushesKept
    <2>1. CASE UpsertTag(h) \/ UpsertFails(h) \/ RecordDelete(h) \/ RecordPull(h) \/ SkipEvent(h)
        BY <1>4, <2>1 DEF UpsertTag, UpsertFails, RecordDelete, RecordPull, SkipEvent
    <2>2. CASE StartReap(h)
        <3>1. h \in Proc /\ \A g \in Handler : g \in Proc
            BY DEF Proc
        <3>2. UNCHANGED procVars \/ \E r : Select(h, {r})
            BY <2>2 DEF StartReap
        <3>3. \A g \in Handler : pc'[g] = "upsert" => pc[g] = "upsert"
            BY <3>1, <3>2, SelectIsTyped DEF procVars
        <3>4. QED
            BY <1>1, <2>2, <3>3 DEF StartReap
    <2>3. CASE Reply(h)
        BY <2>3 DEF Reply, handlerVars, TypeInv, TypeOK, Proc
    <2>4. QED
        BY <1>5, <2>1, <2>2, <2>3 DEF HookStep
<1>6. ASSUME NEW p \in Proc, NEW c \in work[p],
             \/ HeadTag(p, c) \/ DeleteManifest(p, c) \/ RegistryRefuses(p, c)
             \/ DropRow(p, c) \/ Uncache(p, c) \/ ForgetRow(p, c) \/ DropFails(p, c)
      PROVE  PushesKept
    <2>1. \A g \in Handler : g \in Proc
        BY DEF Proc
    <2>2. ASSUME Advance(p, c)
          PROVE  \A g \in Handler : pc'[g] = "upsert" => pc[g] = "upsert"
        BY <2>1, <2>2, AdvanceIsTyped
    <2>3. CASE HeadTag(p, c)
        BY <1>1, <2>1, <2>3 DEF HeadTag, handlerVars, TypeInv, TypeOK
    <2>4. CASE DeleteManifest(p, c)
        <3>1. \A g \in Handler : pc'[g] = "upsert" => pc[g] = "upsert"
            BY <2>1, <2>2, <2>4 DEF DeleteManifest, TypeInv, TypeOK
        <3>2. QED
            BY <1>1, <2>4, <3>1 DEF DeleteManifest, handlerVars
    <2>5. CASE DropRow(p, c)
        <3>1. \A g \in Handler : pc'[g] = "upsert" => pc[g] = "upsert"
            BY <2>1, <2>2, <2>5 DEF DropRow, TypeInv, TypeOK
        <3>2. QED
            BY <1>1, <2>5, <3>1 DEF DropRow, handlerVars
    <2>6. CASE RegistryRefuses(p, c) \/ Uncache(p, c) \/ ForgetRow(p, c) \/ DropFails(p, c)
        BY <1>1, <2>2, <2>6 DEF RegistryRefuses, Uncache, ForgetRow, DropFails, handlerVars
    <2>7. QED
        BY <1>6, <2>3, <2>4, <2>5, <2>6
<1>7. ASSUME NEW c \in Cron, CronTick(c)
      PROVE  PushesKept
    <2>1. c \in Proc /\ \A g \in Handler : g \in Proc /\ g # c
        BY LifecycleAssumption DEF Proc
    <2>2. \E scope : Select(c, scope)
        BY <1>7 DEF CronTick
    <2>3. \A g \in Handler : pc'[g] = pc[g]
        BY <2>1, <2>2, SelectIsTyped
    <2>4. QED
        BY <1>1, <1>7, <2>3 DEF CronTick, handlerVars
<1>8. CASE Trouble
    <2>1. CASE \E f \in Frontend : Timeout(f) \/ RegistryRestart(f)
        BY <1>1, <2>1 DEF Timeout, RegistryRestart, procVars, handlerVars
    <2>2. CASE HooksRestart
        BY <2>2 DEF HooksRestart, Proc
    <2>3. CASE \E c \in Cron : ReaperRestart(c)
        BY <1>1, <2>3 DEF ReaperRestart, handlerVars, TypeInv, TypeOK, Proc
    <2>4. QED
        BY <1>8, <2>1, <2>2, <2>3 DEF Trouble
<1>9. QED
    BY <1>2, <1>3, <1>5, <1>6, <1>7, <1>8 DEF Next, ReapStep

\* Only an upsert gives a row other content, or another expiry.
LEMMA StepKeepsRows ==
    ASSUME TypeInv, [Next]_vars
    PROVE  RowsKept \/ \E h \in Handler : UpsertTag(h)
<1>1. ASSUME UNCHANGED row
      PROVE  RowsKept
    BY <1>1 DEF RowsKept
<1>2. CASE UNCHANGED vars \/ Tick \/ Client
    BY <1>1, <1>2 DEF vars, Tick, Client, PushTag, PullTag, BlobTraffic, DeleteByClient, tableVars
<1>3. CASE \E f \in Frontend, h \in Handler : Deliver(f, h)
    BY <1>1, <1>3 DEF Deliver, tableVars
<1>4. ASSUME NEW h \in Handler, HookStep(h), ~UpsertTag(h)
      PROVE  RowsKept
    <2>1. CASE RecordDelete(h)
        BY <2>1 DEF RecordDelete, RowsKept
    <2>2. CASE RecordPull(h)
        <3> DEFINE i == Head(body[h]).image
                   new == Pulled(row[i], now)
        <3>1. i \in Image
            BY <2>2, HeadIsEvent DEF RecordPull, AtEvent, Event
        <3>2. row[i] \in Row \cup {NULL}
            BY <3>1 DEF TypeInv, TypeOK
        <3>3. row[i] # NULL => /\ new.digest = row[i].digest /\ new.mode = row[i].mode
                               /\ new.expiresAt = row[i].expiresAt
            BY <3>2, PulledKeepsExpiry
        <3>4. row' = [row EXCEPT ![i] = IF row[i] = NULL THEN row[i] ELSE new]
            BY <2>2 DEF RecordPull
        <3> HIDE DEF i, new
        <3>5. QED
            BY <3>1, <3>3, <3>4 DEF RowsKept, TypeInv, TypeOK
    <2>3. CASE StartPush(h) \/ UpsertFails(h) \/ SkipEvent(h) \/ StartReap(h) \/ Reply(h)
        BY <1>1, <2>3 DEF StartPush, UpsertFails, SkipEvent, StartReap, Reply, tableVars
    <2>4. QED
        BY <1>4, <2>1, <2>2, <2>3 DEF HookStep
<1>5. ASSUME NEW p \in Proc, NEW c \in work[p],
             \/ HeadTag(p, c) \/ DeleteManifest(p, c) \/ RegistryRefuses(p, c)
             \/ DropRow(p, c) \/ Uncache(p, c) \/ ForgetRow(p, c) \/ DropFails(p, c)
      PROVE  RowsKept
    <2>1. CASE DropRow(p, c) \/ ForgetRow(p, c)
        BY <2>1 DEF DropRow, ForgetRow, DeleteRow, RowsKept, TypeInv, TypeOK
    <2>2. CASE \/ HeadTag(p, c) \/ DeleteManifest(p, c) \/ RegistryRefuses(p, c)
               \/ Uncache(p, c) \/ DropFails(p, c)
        BY <1>1, <2>2 DEF HeadTag, DeleteManifest, RegistryRefuses, Uncache, DropFails, tableVars
    <2>3. QED
        BY <1>5, <2>1, <2>2
<1>6. CASE \E c \in Cron : CronTick(c)
    BY <1>1, <1>6 DEF CronTick, tableVars
<1>7. CASE Trouble
    BY <1>1, <1>7 DEF Trouble, Timeout, RegistryRestart, HooksRestart, ReaperRestart, tableVars
<1>8. QED
    BY <1>2, <1>3, <1>4, <1>5, <1>6, <1>7 DEF Next, ReapStep

\* Only a query selects rows, and only a HEAD puts a digest into a selected row.
LEMMA StepKeepsWork ==
    ASSUME TypeInv, [Next]_vars
    PROVE  \/ WorkKept
           \/ \E p \in Proc : \E scope : Select(p, scope) /\ UNCHANGED <<used, now>>
           \/ \E p \in Proc : \E c \in work[p] : HeadTag(p, c)
<1>1. ASSUME UNCHANGED work
      PROVE  WorkKept
    BY <1>1 DEF WorkKept
<1>2. CASE UNCHANGED vars \/ Tick \/ Client
    BY <1>1, <1>2 DEF vars, Tick, Client, PushTag, PullTag, BlobTraffic, DeleteByClient, procVars
<1>3. CASE \E f \in Frontend, h \in Handler : Deliver(f, h)
    BY <1>1, <1>3 DEF Deliver
<1>4. ASSUME NEW h \in Handler, HookStep(h)
      PROVE  WorkKept \/ \E scope : Select(h, scope) /\ UNCHANGED <<used, now>>
    <2>1. CASE StartReap(h)
        BY <1>1, <2>1 DEF StartReap, procVars
    <2>2. CASE \/ UpsertTag(h) \/ RecordDelete(h) \/ RecordPull(h)
               \/ StartPush(h) \/ UpsertFails(h) \/ SkipEvent(h) \/ Reply(h)
        BY <1>1, <2>2 DEF UpsertTag, RecordDelete, RecordPull, StartPush, UpsertFails, SkipEvent, Reply
    <2>3. QED
        BY <1>4, <2>1, <2>2 DEF HookStep
<1>5. ASSUME NEW p \in Proc, NEW c \in work[p],
             \/ DeleteManifest(p, c) \/ RegistryRefuses(p, c)
             \/ DropRow(p, c) \/ Uncache(p, c) \/ ForgetRow(p, c) \/ DropFails(p, c)
      PROVE  WorkKept
    BY <1>5, AdvanceIsTyped
    DEF DeleteManifest, RegistryRefuses, DropRow, Uncache, ForgetRow, DropFails, WorkKept
<1>6. ASSUME NEW c \in Cron, CronTick(c)
      PROVE  \E scope : Select(c, scope) /\ UNCHANGED <<used, now>>
    BY <1>6 DEF CronTick
<1>7. CASE Trouble
    <2>1. CASE \E f \in Frontend : Timeout(f) \/ RegistryRestart(f)
        BY <1>1, <2>1 DEF Timeout, RegistryRestart, procVars
    <2>2. CASE HooksRestart \/ \E c \in Cron : ReaperRestart(c)
        BY <2>2 DEF HooksRestart, ReaperRestart, WorkKept, TypeInv, TypeOK
    <2>3. QED
        BY <1>7, <2>1, <2>2 DEF Trouble
<1>8. QED
    BY <1>2, <1>3, <1>4, <1>5, <1>6, <1>7 DEF Next, ReapStep, Proc

-----------------------------------------------------------------------------
(* The steps that do not leave it alone.                                   *)

\* Budgets are not given back, and the clock does not go back.
LEMMA TimeGoesOn ==
    ASSUME TypeInv, [Next]_vars
    PROVE  used["push"] =< used'["push"] /\ now =< now'
<1> USE DEF registryVars, notifyVars, tableVars, handlerVars, procVars
<1>1. now \in Nat /\ used \in [Budget -> Nat] /\ "push" \in Budget
    BY DEF TypeInv, TypeOK, Budget
<1>2. ASSUME NEW b \in Budget, Spend(b) \/ UNCHANGED used
      PROVE  used["push"] =< used'["push"]
    BY <1>1, <1>2 DEF Spend
<1> DEFINE Spends == \E b \in Budget : Spend(b) \/ UNCHANGED used
           Goes == (now' = now \/ now' = now + 1) /\ Spends
<1>3. "push" \in Budget /\ (UNCHANGED used => Spends) /\ \A b \in Budget : Spend(b) => Spends
    BY DEF Budget
<1>4. Goes
    <2>1. CASE UNCHANGED vars \/ Tick
        BY <1>3, <2>1 DEF vars, Tick
    <2>2. CASE Client
        BY <1>3, <2>2 DEF Client, PushTag, PullTag, BlobTraffic, DeleteByClient, Budget
    <2>3. CASE \E f \in Frontend, h \in Handler : Deliver(f, h)
        BY <1>3, <2>3 DEF Deliver
    <2>4. ASSUME NEW h \in Handler, HookStep(h)
          PROVE  Goes
        <3>1. CASE StartPush(h) \/ UpsertTag(h) \/ UpsertFails(h) \/ RecordDelete(h)
            BY <1>3, <3>1 DEF StartPush, UpsertTag, UpsertFails, RecordDelete, Budget
        <3>2. CASE RecordPull(h) \/ SkipEvent(h) \/ StartReap(h) \/ Reply(h)
            BY <1>3, <3>2 DEF RecordPull, SkipEvent, StartReap, Reply, Budget
        <3>3. QED
            BY <2>4, <3>1, <3>2 DEF HookStep
    <2>5. ASSUME NEW p \in Proc, NEW c \in work[p], HeadTag(p, c) \/ DeleteManifest(p, c)
          PROVE  Goes
        BY <1>3, <2>5 DEF HeadTag, DeleteManifest, Budget
    <2>6. ASSUME NEW p \in Proc, NEW c \in work[p],
                 \/ RegistryRefuses(p, c) \/ DropRow(p, c) \/ Uncache(p, c)
                 \/ ForgetRow(p, c) \/ DropFails(p, c)
          PROVE  Goes
        BY <1>3, <2>6 DEF RegistryRefuses, DropRow, Uncache, ForgetRow, DropFails, Budget
    <2>7. CASE \E c \in Cron : CronTick(c)
        BY <1>3, <2>7 DEF CronTick
    <2>8. CASE Trouble
        BY <1>3, <2>8 DEF Trouble, Timeout, RegistryRestart, HooksRestart, ReaperRestart, Budget
    <2>9. QED
        BY <2>1, <2>2, <2>3, <2>4, <2>5, <2>6, <2>7, <2>8 DEF Next, ReapStep
<1>5. QED
    BY <1>1, <1>2, <1>4

\* A push brings a digest that nothing in the system has yet: it is the tag's, of
\* this time.
LEMMA PushIsKnown ==
    ASSUME ~SharedContent, TypeInv, TypeInv', NEW i \in Image, NEW d \in Digest, PushTag(i, d),
           NEW o \in [Digest -> Image \cup {NULL}], NEW s \in [Digest -> 0 .. now], Known(o, s)
    PROVE  KnownInv'
<1>1. /\ d = used["push"] + 1 /\ used' = [used EXCEPT !["push"] = @ + 1]
      /\ tag' = [tag EXCEPT ![i] = d] /\ taggedAt' = [taggedAt EXCEPT ![i] = now]
      /\ Notify(FrontendOf[RepoOf[i]], "push", RepoOf[i], i, d)
      /\ UNCHANGED <<row, body, pushedAt, pc, work, now>>
    BY DEF PushTag, Spend, tableVars, handlerVars, procVars
<1>2. used["push"] \in Nat /\ used'["push"] = d /\ now \in Nat
    BY <1>1 DEF TypeInv, TypeOK, Budget
<1>3. PICK o2, s2 : o2 = [o EXCEPT ![d] = i] /\ s2 = [s EXCEPT ![d] = now]
    OBVIOUS
<1>4. o2 \in [Digest -> Image \cup {NULL}] /\ s2 \in [Digest -> 0 .. now]
    BY <1>2, <1>3
<1>5. Agrees(o, s, o2, s2) /\ Pushed(o2, d, i)'
    <2>1. \A x \in Digest \ {0} : x =< used["push"] => x # d /\ x \in Nat
        BY <1>1, <1>2, LifecycleAssumption
    <2>2. Agrees(o, s, o2, s2)
        BY <2>1, <1>1, <1>2, <1>3 DEF Agrees
    <2>3. QED
        BY <2>2, <1>1, <1>2, <1>3 DEF Pushed
<1>6. TagsKnown(o2, s2)'
    <2>1. ASSUME NEW j \in Image, tag'[j] # NULL
          PROVE  (ContentOf(o2, tag[j], j) /\ (HasTtl(j) => s2[tag[j]] = taggedAt[j]))'
        <3>1. CASE j = i
            <4>1. tag'[j] = d /\ taggedAt'[j] = now /\ s2[d] = now
                BY <3>1, <1>1, <1>3 DEF TypeInv, TypeOK
            <4>2. QED
                BY <3>1, <4>1, <1>5 DEF ContentOf, Pushed
        <3>2. CASE j # i
            <4>1. PICK x : x = tag[j] /\ tag'[j] = x /\ taggedAt'[j] = taggedAt[j]
                BY <3>2, <1>1 DEF TypeInv, TypeOK
            <4>2. ContentOf(o, x, j) /\ (HasTtl(j) => s[x] = taggedAt[j])
                BY <2>1, <4>1 DEF Known, TagsKnown
            <4>3. ContentOf(o2, x, j)' /\ (HasTtl(j) => s2[x] = s[x])
                BY <4>2, <1>5, ContentStays
            <4>4. QED
                BY <4>1, <4>2, <4>3 DEF ContentOf, Pushed, HasTtl
        <3>3. QED
            BY <3>1, <3>2
    <2>2. QED
        BY <2>1 DEF TagsKnown
<1>7. NewsKnown(o2)'
    <2> DEFINE f == FrontendOf[RepoOf[i]]
               n == [action |-> "push", repo |-> RepoOf[i], image |-> i, digest |-> d]
    <2>1. f \in Frontend /\ queue[f] \in Seq(Event) /\ queue' = [queue EXCEPT ![f] = Append(@, n)]
        BY <1>1, RetentionAssumption, LifecycleAssumption DEF Notify, TypeInv, TypeOK
    <2>2. n.digest = d /\ n.image = i
        OBVIOUS
    <2> HIDE DEF f, n
    <2>3. EventsIn(Append(queue[f], n)) \subseteq EventsIn(queue[f]) \cup {n}
        BY <2>1, EventsOfAppend
    <2>4. ASSUME NEW e \in Event, IsNews(e)'
          PROVE  IsNews(e) \/ e = n
        BY <2>1, <2>3, <2>4, <1>1 DEF IsNews, EventsIn, TypeInv, TypeOK
    <2>5. ASSUME NEW e \in Event, IsNews(e)', e.action = "push"
          PROVE  Pushed(o2, e.digest, e.image)'
        <3>1. CASE IsNews(e)
            <4>1. Pushed(o, e.digest, e.image)
                BY <2>5, <3>1 DEF Known, NewsKnown
            <4>2. QED
                BY <4>1, <1>5, PushedStays
        <3>2. CASE e = n
            <4>1. e.digest = d /\ e.image = i
                BY <2>2, <3>2
            <4>2. QED
                BY <4>1, <1>5
        <3>3. QED
            BY <2>4, <2>5, <3>1, <3>2
    <2>6. QED
        BY <2>5 DEF NewsKnown
<1>8. PushesKnown(s2)' /\ RowsKnown(o2, s2)' /\ WorkKnown(o2, s2)'
    <2>1. PushesKept /\ RowsKept /\ WorkKept
        BY <1>1 DEF PushesKept, RowsKept, WorkKept
    <2>2. s \in [Digest -> Nat]
        BY <1>2
    <2>3. QED
        BY <1>5, <2>1, <2>2, KeptPushesKnown, KeptRowsKnown, KeptWorkKnown DEF Known
<1>9. QED
    BY <1>1, <1>4, <1>6, <1>7, <1>8 DEF KnownInv, Known

\* A handler that starts with a push reads a clock that is past the push.
LEMMA StartedIsKnown ==
    ASSUME TypeInv, TypeInv', NEW h \in Handler, StartPush(h),
           NEW o \in [Digest -> Image \cup {NULL}], NEW s \in [Digest -> 0 .. now], Known(o, s)
    PROVE  PushesKnown(s)'
<1>1. ASSUME NEW g \in Handler, pc'[g] = "upsert"
      PROVE  s[Head(body'[g]).digest] =< pushedAt'[g]
    <2>1. CASE g = h
        <3>1. body' = body /\ pushedAt'[h] = now
            BY <1>1, <2>1 DEF StartPush, NextEvent, TypeInv, TypeOK, Proc
        <3>2. body[h] # << >> /\ Head(body[h]).action = "push"
            BY DEF StartPush, AtEvent
        <3>3. Pushed(o, Head(body[h]).digest, Head(body[h]).image)
            BY <3>2, AtHandIsNews DEF Known, NewsKnown
        <3>4. s[Head(body[h]).digest] \in 0 .. now /\ now \in Nat
            BY <3>3 DEF Pushed, TypeInv, TypeOK
        <3>5. QED
            BY <2>1, <3>1, <3>4
    <2>2. CASE g # h
        <3>1. pc[g] = "upsert" /\ body'[g] = body[g] /\ pushedAt'[g] = pushedAt[g]
            BY <1>1, <2>2 DEF StartPush, NextEvent, TypeInv, TypeOK, Proc
        <3>2. QED
            BY <3>1 DEF Known, PushesKnown
    <2>3. QED
        BY <2>1, <2>2
<1>2. QED
    BY <1>1 DEF PushesKnown

\* An upsert gives the row of a TTL tag the content of the push and an expiry that
\* is no earlier than the end of its window.
LEMMA UpsertedIsKnown ==
    ASSUME TypeInv, TypeInv', NEW h \in Handler, UpsertTag(h),
           NEW o \in [Digest -> Image \cup {NULL}], NEW s \in [Digest -> 0 .. now], Known(o, s)
    PROVE  RowsKnown(o, s)'
<1>1. PICK e \in Event : e = Head(body[h]) /\ e.action = "push" /\ IsNews(e)
    BY AtHandIsNews DEF UpsertTag, TypeInv, AtPush
<1>2. e.image \in Image /\ e.digest \in Digest /\ Pushed(o, e.digest, e.image)
    BY <1>1 DEF Known, NewsKnown, Event, Pushed
<1>3. /\ row[e.image] \in Row \cup {NULL} /\ pushedAt[h] \in Nat /\ now \in Nat /\ nextId \in Nat
      /\ s[e.digest] \in 0 .. now /\ s[e.digest] =< pushedAt[h]
    BY <1>1, <1>2 DEF TypeInv, TypeOK, UpsertTag, Known, PushesKnown
<1>4. PICK new : /\ new = Upserted(row[e.image], nextId, e.image, e.digest, pushedAt[h], now)
                 /\ row' = [row EXCEPT ![e.image] = new]
    BY <1>1 DEF UpsertTag
<1>5. /\ new.digest = e.digest
      /\ HasTtl(e.image) => new.mode = "ttl" /\ new.expiresAt = pushedAt[h] + Window(e.image)
    <2>1. PICK old \in Row \cup {NULL}, id \in Nat, i \in Image, d \in Digest, at \in Nat, t \in Nat :
             /\ old = row[e.image] /\ id = nextId /\ i = e.image /\ d = e.digest
             /\ at = pushedAt[h] /\ t = now
        BY <1>2, <1>3, Zenon
    <2>2. new = Upserted(old, id, i, d, at, t)
        BY <1>4, <2>1
    <2>3. new.digest = d
        BY <2>2, UpsertOfTtl
    <2>4. ASSUME HasTtl(i)
          PROVE  new.mode = "ttl" /\ new.expiresAt = at + Window(i)
        <3>1. new.mode = "ttl"
            BY <2>2, <2>4, UpsertOfTtl
        <3>2. new.expiresAt = at + Window(i)
            BY <2>2, <2>4, UpsertOfTtl
        <3>3. QED
            BY <3>1, <3>2
    <2>5. QED
        BY <2>1, <2>3, <2>4
<1>6. \A d, i : Pushed(o, d, i) => Pushed(o, d, i)'
    <2>1. UNCHANGED used \/ Spend("fault")
        BY DEF UpsertTag
    <2>2. used'["push"] = used["push"]
        BY <2>1 DEF Spend, TypeInv, TypeOK, Budget
    <2>3. QED
        BY <2>2 DEF Pushed
<1>7. ASSUME NEW i \in Image, row'[i] # NULL
      PROVE  (/\ ContentOf(o, row[i].digest, i)
              /\ HasTtl(i) => /\ row[i].mode = "ttl"
                              /\ s[row[i].digest] + Window(i) =< row[i].expiresAt)'
    <2>1. CASE i = e.image
        <3>1. row'[i] = new
            BY <1>4, <2>1 DEF TypeInv, TypeOK
        <3>2. HasTtl(i) => s[e.digest] + Window(i) =< new.expiresAt
            BY <1>2, <1>3, <1>5, <2>1, WindowIsNat
        <3>3. QED
            BY <1>2, <1>5, <1>6, <2>1, <3>1, <3>2 DEF ContentOf, HasTtl, Window
    <2>2. CASE i # e.image
        <3>1. row'[i] = row[i]
            BY <1>4, <2>2 DEF TypeInv, TypeOK
        <3>2. /\ ContentOf(o, row[i].digest, i)
              /\ HasTtl(i) => /\ row[i].mode = "ttl"
                              /\ s[row[i].digest] + Window(i) =< row[i].expiresAt
            BY <1>7, <3>1 DEF Known, RowsKnown
        <3>3. QED
            BY <1>6, <3>1, <3>2 DEF ContentOf, HasTtl, Window
    <2>3. QED
        BY <2>1, <2>2
<1>8. QED
    BY <1>7 DEF RowsKnown

\* The query selects the row of a TTL tag only when its window has passed.
LEMMA SelectedIsKnown ==
    ASSUME TypeInv, TypeInv', NEW p \in Proc, NEW scope, Select(p, scope), UNCHANGED <<used, now>>,
           NEW o \in [Digest -> Image \cup {NULL}], NEW s \in [Digest -> 0 .. now], Known(o, s)
    PROVE  WorkKnown(o, s)'
<1> DEFINE images == Selected(row, scope, EnvOf[p], now)
<1>1. work' = [work EXCEPT ![p] = Snapshot(row, images)]
    BY DEF Select
<1>2. ASSUME NEW i \in images
      PROVE  i \in Image /\ row[i] # NULL /\ (row[i].mode = "ttl" => row[i].expiresAt =< now)
    BY <1>2, SelectedIsStale, TtlIsStaleWhenExpired
<1> HIDE DEF images
<1>3. ASSUME NEW q \in Proc, NEW c \in work'[q]
      PROVE  /\ ContentOf(o, c.digest, c.image)
             /\ HasTtl(c.image) => s[c.digest] + Window(c.image) =< now
    <2>1. CASE q = p
        <3>1. c \in Snapshot(row, images)
            BY <1>1, <1>3, <2>1 DEF TypeInv, TypeOK
        <3>2. PICK i \in images : c.image = i /\ c.digest = row[i].digest
            BY <3>1 DEF Snapshot
        <3>3. /\ ContentOf(o, c.digest, i)
              /\ HasTtl(i) => row[i].mode = "ttl" /\ s[c.digest] + Window(i) =< row[i].expiresAt
            BY <1>2, <3>2 DEF Known, RowsKnown
        <3>4. ASSUME HasTtl(i)
              PROVE  s[c.digest] + Window(i) =< now
            <4>1. row[i] \in Row /\ row[i].expiresAt \in Nat /\ row[i].expiresAt =< now
                BY <1>2, <3>3, <3>4 DEF TypeInv, TypeOK, Row
            <4>2. s[c.digest] \in 0 .. now /\ Window(i) \in Nat /\ now \in Nat
                BY <1>2, <3>3, <3>4, WindowIsNat DEF ContentOf, Pushed, TypeInv, TypeOK
            <4>3. QED
                BY <3>3, <3>4, <4>1, <4>2
        <3>5. QED
            BY <3>2, <3>3, <3>4
    <2>2. CASE q # p
        BY <1>1, <1>3, <2>2 DEF Known, WorkKnown, TypeInv, TypeOK
    <2>3. QED
        BY <2>1, <2>2
<1>4. QED
    BY <1>3 DEF WorkKnown, ContentOf, Pushed, HasTtl, Window

\* A HEAD looks up the digest of a row without one, which is not that of a TTL tag.
LEMMA HeadIsKnown ==
    ASSUME TypeInv, TypeInv', NEW p \in Proc, NEW c \in work[p], HeadTag(p, c),
           NEW o \in [Digest -> Image \cup {NULL}], NEW s \in [Digest -> 0 .. now], Known(o, s)
    PROVE  WorkKnown(o, s)'
<1>1. c \in Candidate /\ c.image \in Image /\ c.digest = NULL /\ UNCHANGED <<used, now>>
    BY DEF HeadTag, TypeInv, TypeOK, Candidate
<1>2. ~HasTtl(c.image)
    BY <1>1, NullAssumption DEF Known, WorkKnown, ContentOf, Pushed
<1>3. PICK e : /\ e = [c EXCEPT !.digest = tag[c.image]]
               /\ \/ work' = work
                  \/ tag[c.image] # NULL /\ work' = [work EXCEPT ![p] = (@ \ {c}) \cup {e}]
    BY DEF HeadTag
<1>4. e.image = c.image /\ e.digest = tag[c.image]
    BY <1>1, <1>3 DEF Candidate
<1>5. ASSUME NEW q \in Proc, NEW x \in work'[q]
      PROVE  x \in work[q] \/ (x = e /\ tag[c.image] # NULL)
    <2>1. CASE work' = work
        BY <1>5, <2>1
    <2>2. CASE tag[c.image] # NULL /\ work' = [work EXCEPT ![p] = (@ \ {c}) \cup {e}]
        <3>1. work'[q] \subseteq work[q] \cup {e}
            BY <2>2 DEF TypeInv, TypeOK
        <3>2. QED
            BY <1>5, <2>2, <3>1
    <2>3. QED
        BY <1>3, <2>1, <2>2
<1>6. tag[c.image] # NULL => ContentOf(o, e.digest, e.image) /\ ~HasTtl(e.image)
    BY <1>1, <1>2, <1>4 DEF Known, TagsKnown
<1>7. ASSUME NEW q \in Proc, NEW x \in work'[q]
      PROVE  /\ ContentOf(o, x.digest, x.image)
             /\ HasTtl(x.image) => s[x.digest] + Window(x.image) =< now
    BY <1>5, <1>6 DEF Known, WorkKnown
<1>8. QED
    BY <1>1, <1>7 DEF WorkKnown, ContentOf, Pushed, HasTtl, Window

\* Without shared content, every step leaves an account of the pushes.
LEMMA KnownStep ==
    ASSUME ~SharedContent, TypeInv, TypeInv', KnownInv, [Next]_vars
    PROVE  KnownInv'
<1>1. PICK o \in [Digest -> Image \cup {NULL}], s \in [Digest -> 0 .. now] : Known(o, s)
    BY DEF KnownInv
<1>2. CASE Pushing
    BY <1>1, <1>2, PushIsKnown DEF Pushing
<1>3. CASE ~Pushing
    <2>1. Agrees(o, s, o, s)
        BY TimeGoesOn DEF Agrees
    <2>2. now \in Nat /\ now' \in Nat /\ now =< now' /\ s \in [Digest -> Nat]
        BY TimeGoesOn DEF TypeInv, TypeOK
    <2>3. TagsKnown(o, s)' /\ NewsKnown(o)'
        BY <1>1, <1>3, <2>1, StepKeepsTags, StepKeepsNews, KeptTagsKnown, KeptNewsKnown DEF Known
    <2>4. PushesKnown(s)'
        BY <1>1, <2>1, StepKeepsPushes, KeptPushesKnown, StartedIsKnown DEF Known
    <2>5. RowsKnown(o, s)'
        BY <1>1, <2>1, StepKeepsRows, KeptRowsKnown, UpsertedIsKnown DEF Known
    <2>6. WorkKnown(o, s)'
        BY <1>1, <2>1, <2>2, StepKeepsWork, KeptWorkKnown, SelectedIsKnown, HeadIsKnown DEF Known
    <2>7. s \in [Digest -> 0 .. now']
        BY <2>2
    <2>8. QED
        BY <2>3, <2>4, <2>5, <2>6, <2>7 DEF KnownInv, Known
<1>4. QED
    BY <1>2, <1>3

\* At the start there is nothing but what an upgrade left.
LEMMA KnownInit ==
    ASSUME \A i \in Legacy : ~HasTtl(i), Init
    PROVE  KnownInv
<1> DEFINE o == [d \in Digest |-> NULL]
           s == [d \in Digest |-> 0]
<1>1. o \in [Digest -> Image \cup {NULL}] /\ s \in [Digest -> 0 .. now]
    BY DEF Init
<1>2. TagsKnown(o, s) /\ RowsKnown(o, s)
    BY DEF Init, TagsKnown, RowsKnown, ContentOf, LegacyRow
<1>3. NewsKnown(o) /\ PushesKnown(s) /\ WorkKnown(o, s)
    BY DEF Init, NewsKnown, IsNews, EventsIn, PushesKnown, WorkKnown, Proc
<1>4. QED
    BY <1>1, <1>2, <1>3 DEF KnownInv, Known

\* A reaper that deletes the content of a TTL tag has selected that very content.
LEMMA TtlGoesWhenExpired ==
    ASSUME TypeInv, KnownInv, [Next]_vars, ~ClientStep,
           NEW i \in Image, HasTtl(i), tag[i] # NULL, tag'[i] = NULL
    PROVE  taggedAt[i] + Window(i) =< now
<1>1. PICK o \in [Digest -> Image \cup {NULL}], s \in [Digest -> 0 .. now] : Known(o, s)
    BY DEF KnownInv
<1>2. ~(\E j \in Image, d \in Digest : PushTag(j, d))
      /\ ~(\E r \in Repo, d \in Digest : DeleteByClient(r, d))
    BY SpendIsSeen DEF PushTag, DeleteByClient
<1>3. PICK p \in Proc : \E c \in work[p] : DeleteManifest(p, c)
    BY <1>2, WhoChangesTags
<1>4. PICK c \in work[p] : DeleteManifest(p, c)
    BY <1>3
<1>5. tag[i] = c.digest
    <2>1. tag' = tag \/ tag' = Untag(RepoOf[c.image], c.digest)
        BY <1>4 DEF DeleteManifest
    <2>2. QED
        BY <2>1 DEF Untag
<1>6. Pushed(o, tag[i], i) /\ s[tag[i]] = taggedAt[i]
    BY <1>1 DEF Known, TagsKnown, ContentOf
<1>7. c.image = i
    BY <1>1, <1>5, <1>6, NullAssumption DEF Known, WorkKnown, ContentOf, Pushed
<1>8. QED
    BY <1>1, <1>5, <1>6, <1>7 DEF Known, WorkKnown

\* A TTL tag is not reaped before its time: however many reapers work on however
\* stale snapshots, and whatever notification is late, repeated, reordered or lost,
\* a tag with a known --ttl- suffix keeps its content until the window since its
\* last push has passed, unless a client takes it.  Two things are needed: no
\* content is pushed twice (with a digest under two tags the reap of one takes the
\* other: run "shared"), and a TTL tag does not go back to before the migrations,
\* which leave its row keep-latest and without a digest until it is pushed again
\* (README.md:45, hooks/src/util/imageRetention.ts:157-166, 280-306,
\* db/migrate-latest-only.sql:32-54).
THEOREM PullableTillExpiry ==
    ASSUME ~SharedContent, \A i \in Legacy : ~HasTtl(i)
    PROVE  Spec => PullableUntilExpiry
<1>1. Init => KnownInv
    BY KnownInit
<1>2. TypeInv /\ TypeInv' /\ KnownInv /\ [Next]_vars => KnownInv'
    BY KnownStep
<1>3. Spec => []KnownInv
    BY <1>1, <1>2, TypeInvariance, PTL DEF Spec
<1>4. TypeInv /\ KnownInv /\ [Next]_vars =>
        [\A i \in Image :
           /\ SuffixOf[i].kind = "ttl" /\ SuffixOf[i].label \in DOMAIN SuffixSeconds
           /\ tag[i] # NULL /\ tag'[i] = NULL /\ ~ClientStep
           => taggedAt[i] + SuffixSeconds[SuffixOf[i].label] <= now]_vars
    BY TtlGoesWhenExpired DEF HasTtl, Window
<1>5. QED
    BY <1>3, <1>4, TypeInvariance, PTL DEF Spec, PullableUntilExpiry

=============================================================================
