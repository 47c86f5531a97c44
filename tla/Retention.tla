----------------------------- MODULE Retention -----------------------------
(***************************************************************************)
(* The retention rules of aocr, as operators on a snapshot of the images   *)
(* table: what a tag's suffix asks for (hooks/src/util/tagRetention.ts),   *)
(* what the upsert of a push leaves in the row, and which rows the reaper's*)
(* query selects (hooks/src/util/imageRetention.ts).  No state here: the   *)
(* processes that read and write the table are in TagLifecycle.            *)
(*                                                                         *)
(* An Image is one "repository:tag".  Its tag is only looked at through    *)
(* its suffix and its place in the order of tags, so those two are         *)
(* constants.  A repository is the sequence of its path segments.          *)
(***************************************************************************)
EXTENDS Integers, Sequences, FiniteSets

CONSTANTS
    Image,          \* the "repository:tag" names in play
    Repo,           \* the repositories
    RepoOf,         \* [Image -> Repo]
    PathOf,         \* [Repo -> Seq(STRING)], the segments of the path
    LabelSegment,   \* path segments that CLUSTER_ID_PATTERN matches
    UuidSegment,    \* path segments that PostgreSQL accepts as a UUID
    SuffixOf,       \* [Image -> Suffix], what TTL_TAG_PATTERN finds
    SuffixSeconds,  \* [label -> seconds], TTL_SUFFIX_SECONDS
    TagRank,        \* [Image -> Nat], ORDER BY organization, name, tag
    Digest,         \* manifest digests
    Debounce,       \* the hour between two recorded pulls
    Limit,          \* rows per reap (500 in the code)
    NULL            \* SQL's and TypeScript's null

Mode == {"keep-latest", "ttl", "idle"}
Suffix == [kind : {"none", "ttl", "idle"}, label : STRING]

(***************************************************************************)
(* A path has at least one segment, and a TTL or idle window is positive.  *)
(***************************************************************************)
ASSUME RetentionAssumption ==
    /\ RepoOf \in [Image -> Repo]
    /\ \A r \in Repo : PathOf[r] \in Seq(STRING) /\ PathOf[r] # << >>
    /\ SuffixOf \in [Image -> Suffix]
    /\ SuffixSeconds \in [DOMAIN SuffixSeconds -> Nat \ {0}]
    /\ TagRank \in [Image -> Nat]
    /\ \A i, j \in Image : TagRank[i] = TagRank[j] => i = j
    /\ Debounce \in Nat
    /\ Limit \in Nat \ {0}

ASSUME NullAssumption ==
    /\ NULL \notin Nat
    /\ NULL \notin Image
    /\ NULL \notin Digest

-----------------------------------------------------------------------------
(* Paths: provenance and namespaces.                                       *)

Provenances == {"cluster-snapshot", "mirror", "pushed"}

Provenance(r) ==
    CASE Head(PathOf[r]) = "cluster" -> "cluster-snapshot"
      [] Head(PathOf[r]) = "mirror"  -> "mirror"
      [] OTHER                       -> "pushed"

\* inferredProvenance returns null when there is no <org>/<name> split.
Parses(r) == Len(PathOf[r]) >= 2

\* images.cluster_id is a UUID column, and inferredProvenance gives it any label
\* of the pattern, or else null: PostgreSQL refuses a label that is no UUID.
Storable(r) ==
    Provenance(r) = "cluster-snapshot" /\ PathOf[r][2] \in LabelSegment
        => PathOf[r][2] \in UuidSegment

\* path = prefix OR path LIKE prefix || '/%'.
Under(path, prefix) ==
    /\ Len(prefix) <= Len(path)
    /\ SubSeq(path, 1, Len(prefix)) = prefix

\* Only the namespace root itself: the LIKE half of the guard forgotten.
Protected_RootOnly(env, r) == PathOf[r] \in env.protected

Protected(env, r) == \E p \in env.protected : Under(PathOf[r], p)

\* Seconds for mirror rows without a window of their own: the longest
\* override whose LIKE pattern matches the upstream_ref, else the default.  An
\* override is the repositories that its pattern matches (a prefix of the
\* string, not of the path), the length of the pattern, and the seconds.
MirrorIdle(env, r) ==
    LET hits == {o \in env.overrides : r \in o.matches}
        longest == {o \in hits : \A q \in hits : q.length <= o.length}
    IN  IF hits = {} THEN env.defaultIdle ELSE (CHOOSE o \in longest : TRUE).seconds

-----------------------------------------------------------------------------
(* The retention that a tag's suffix asks for, and the row of a push.      *)

KeepLatest == [mode |-> "keep-latest", value |-> NULL, expiresAt |-> NULL]

\* A suffix that is not in TTL_SUFFIX_SECONDS kept as a mode with no window.
ParseTagRetention_UnknownKept(i, at) ==
    LET s == SuffixOf[i] IN
    CASE s.kind = "none" -> KeepLatest
      [] s.kind # "none" /\ s.label \notin DOMAIN SuffixSeconds ->
            [mode |-> s.kind, value |-> NULL, expiresAt |-> NULL]
      [] OTHER -> [mode |-> s.kind, value |-> SuffixSeconds[s.label],
                   expiresAt |-> IF s.kind = "ttl" THEN at + SuffixSeconds[s.label] ELSE NULL]

\* The window of a TTL tag forgotten: it expires when it is pushed.
ParseTagRetention_NoWindow(i, at) ==
    LET s == SuffixOf[i] IN
    IF s.kind = "none" \/ s.label \notin DOMAIN SuffixSeconds
    THEN KeepLatest
    ELSE [mode |-> s.kind, value |-> SuffixSeconds[s.label],
          expiresAt |-> IF s.kind = "ttl" THEN at ELSE NULL]

ParseTagRetention(i, at) ==
    LET s == SuffixOf[i] IN
    IF s.kind = "none" \/ s.label \notin DOMAIN SuffixSeconds
    THEN KeepLatest
    ELSE [mode |-> s.kind, value |-> SuffixSeconds[s.label],
          expiresAt |-> IF s.kind = "ttl" THEN at + SuffixSeconds[s.label] ELSE NULL]

\* A row of the images table.  The id tells a row from one inserted later
\* under the same (repository, tag).
Row == {r \in [id : Nat, digest : Digest \cup {NULL}, createdAt : Nat, pushedAt : Nat,
               pulledAt : Nat \cup {NULL}, mode : Mode, value : Nat \cup {NULL},
               expiresAt : Nat \cup {NULL}, provenance : Provenances] :
          /\ r.mode = "ttl"  => r.value # NULL /\ r.expiresAt # NULL
          /\ r.mode = "idle" => r.value # NULL}

ASSUME NoRowAssumption == NULL \notin Row

\* INSERT ... ON CONFLICT (repository_id, tag) DO UPDATE, for the tag i with
\* digest d, by a handler that read the clock at `at`; t is the database's
\* clock.  last_pulled_at, created_at and id survive an update.
Upserted(old, id, i, d, at, t) ==
    LET p == ParseTagRetention(i, at) IN
    IF old = NULL
    THEN [id |-> id, digest |-> d, createdAt |-> t, pushedAt |-> at, pulledAt |-> NULL,
          mode |-> p.mode, value |-> p.value, expiresAt |-> p.expiresAt,
          provenance |-> Provenance(RepoOf[i])]
    ELSE [old EXCEPT !.digest = IF d = NULL THEN @ ELSE d, !.pushedAt = at,
                     !.mode = p.mode, !.value = p.value, !.expiresAt = p.expiresAt,
                     !.provenance = Provenance(RepoOf[i])]

\* UPDATE_LAST_PULLED_AT_SQL: at most one write per Debounce.
Pulled(r, t) ==
    IF r.pulledAt = NULL \/ (r.pulledAt # NULL /\ r.pulledAt < t - Debounce)
    THEN [r EXCEPT !.pulledAt = t] ELSE r

-----------------------------------------------------------------------------
(* The reaper's query.                                                     *)

Plain(rows, i) ==
    /\ rows[i] # NULL
    /\ rows[i].mode = "keep-latest"
    /\ rows[i].provenance # "mirror"

\* ORDER BY last_pushed_at DESC, created_at DESC, tag DESC.
Ahead(rows, j, i) ==
    LET a == rows[j]
        b == rows[i]
    IN  \/ a.pushedAt > b.pushedAt
        \/ a.pushedAt = b.pushedAt /\ a.createdAt > b.createdAt
        \/ a.pushedAt = b.pushedAt /\ a.createdAt = b.createdAt /\ TagRank[j] > TagRank[i]

\* keep_latest_images, row_num > 1.
Superseded(rows, i) ==
    /\ Plain(rows, i)
    /\ \E j \in Image : RepoOf[j] = RepoOf[i] /\ Plain(rows, j) /\ Ahead(rows, j, i)

\* expired_ttl_images: every provenance.
TtlExpired(rows, i, t) ==
    /\ rows[i].mode = "ttl"
    /\ rows[i].expiresAt # NULL
    /\ rows[i].expiresAt <= t

\* COALESCE(last_pulled_at, last_pushed_at, created_at).
IdleSince(r) == IF r.pulledAt # NULL THEN r.pulledAt ELSE r.pushedAt

\* expired_idle_images: every provenance but the mirror's.
IdleExpired(rows, i, t) ==
    /\ rows[i].mode = "idle"
    /\ rows[i].value # NULL
    /\ rows[i].provenance # "mirror"
    /\ IdleSince(rows[i]) + rows[i].value <= t

\* expired_mirror_idle_images: the row's own window, else its upstream's.
MirrorIdleExpired(rows, i, env, t) ==
    /\ rows[i].provenance = "mirror"
    /\ rows[i].mode # "ttl"
    /\ LET window == IF rows[i].value # NULL THEN rows[i].value ELSE MirrorIdle(env, RepoOf[i])
       IN  IdleSince(rows[i]) + window <= t

\* reap_candidates minus the protected namespaces.
Stale(rows, i, env, t) ==
    /\ rows[i] # NULL
    /\ \/ Superseded(rows, i)
       \/ TtlExpired(rows, i, t)
       \/ IdleExpired(rows, i, t)
       \/ MirrorIdleExpired(rows, i, env, t)
    /\ ~Protected(env, RepoOf[i])

\* What reapObsoleteImages reads from the database: the first Limit stale
\* rows of the repositories in scope.
Selected(rows, scope, env, t) ==
    LET stale == {i \in Image : RepoOf[i] \in scope /\ Stale(rows, i, env, t)} IN
    {i \in stale : Cardinality({j \in stale : TagRank[j] < TagRank[i]}) < Limit}

\* A ReapCandidateRow.
Candidate == [image : Image, id : Nat, digest : Digest \cup {NULL}]

Snapshot(rows, images) ==
    {[image |-> i, id |-> rows[i].id, digest |-> rows[i].digest] : i \in images}
=============================================================================
