---------------------------- MODULE ImageListing ----------------------------
(***************************************************************************)
(* GET /v1/images (auth/src/imageList.ts and createApp.ts): a client walks *)
(* the images page by page, by offset, while images are pushed, pushed     *)
(* again and removed and repositories change hands.                        *)
(*                                                                         *)
(* A page is what one query sees.  Times are those of last_pushed_at, 0    *)
(* for NULL; among rows of the same time a query may take any order, and   *)
(* the next one another.                                                   *)
(***************************************************************************)
EXTENDS Integers, FiniteSetsExt

CONSTANTS
    Image,         \* rows that the images table may have
    RepoOf,        \* [Image -> Repository]
    Repository,
    User, Nobody,
    Caller,        \* clients, one of which walks in a behaviour
    StrategyOf,    \* [Caller -> how validatePresentedToken knows it]
    UserOf,        \* [Caller -> User or Nobody]
    Asks,          \* [Caller -> Int or NaN]: the limit parameter, parsed by parseInt
    NaN,
    MinLimit, MaxLimit, DefaultLimit,
    Lag,           \* bound: how old the time of a push may be when it is written
    MaxTime,       \* bound: the clock
    MaxChanges,    \* bound: removals, claims and failed queries
    Start          \* bound: tables that a behaviour may start from

ASSUME ImageListingAssumption ==
    /\ IsFiniteSet(Image) /\ RepoOf \in [Image -> Repository]
    /\ Nobody \notin User /\ UserOf \in [Caller -> User \cup {Nobody}]
    /\ NaN \notin Int /\ \A c \in Caller : Asks[c] = NaN \/ Asks[c] \in Int
    /\ MinLimit \in Nat \ {0} /\ MaxLimit \in Nat /\ DefaultLimit \in Nat
    /\ MinLimit =< DefaultLimit /\ DefaultLimit =< MaxLimit
    /\ Lag \in Nat /\ MaxTime \in Nat /\ MaxChanges \in Nat
    /\ \A s \in Start : s.images \subseteq Image /\ s.pushedAt \in [Image -> {0, 1}]
                        /\ s.ownerOf \in [Repository -> User \cup {Nobody}]

VARIABLES
    images,    \* table: the rows, a subset of Image
    pushedAt,  \* table: last_pushed_at, [Image -> Nat]
    ownerOf,   \* table: repositories.user_id, [Repository -> User \cup {Nobody}]
    now, changes,
    caller,    \* client: who walks
    offset,    \* client: next_offset of the last page, NaN before the first
    phase,     \* client: "walking", "listed" or "denied"
    status,    \* client: of the last answer, 0 before the first
    seen,      \* client: what it was given
    twice,     \* client: what it was given more than once
    first,     \* history: what there was to list at the start
    touched,   \* history: rows pushed since
    fell,      \* history: a row has left the list, or its place towards the end
    grew,      \* history: a row has come into the list
    tied       \* history: a query had rows of the same time

tableVars  == <<images, pushedAt, ownerOf, now, changes>>
clientVars == <<caller, offset, phase, status, seen, twice>>
historyVars == <<first, touched, fell, grew, tied>>
vars == <<tableVars, clientVars, historyVars>>

-----------------------------------------------------------------------------
(* The parameters and the query.                                           *)

\* Mutant: only the upper bound is looked at.
Limit_AtMost(raw) == IF raw = NaN THEN DefaultLimit ELSE Min({MaxLimit, raw})

\* parseLimit, with clampLimit.
Limit(raw) ==
    IF raw = NaN \/ raw =< 0 THEN DefaultLimit ELSE Max({MinLimit, Min({MaxLimit, raw})})

\* parseOffset, with clampOffset.
Offset(raw) == IF raw = NaN \/ raw < 0 THEN 0 ELSE raw

\* Mutant: a user is shown everything.
Visible_All(c, rows, owners) == rows

\* The rows of the list: all of them for a static PAT, else those of the user's own.
Visible(c, rows, owners) ==
    IF StrategyOf[c] = "pat" THEN rows
    ELSE {i \in rows : owners[RepoOf[i]] = UserOf[c]}

List == Visible(caller, images, ownerOf)

\* The orders in which ORDER BY last_pushed_at DESC NULLS LAST may number the rows.
Numberings(V) ==
    {pos \in [V -> 0 .. Cardinality(V) - 1] :
        \A i, j \in V : i # j => /\ pos[i] # pos[j]
                                 /\ pushedAt[i] > pushedAt[j] => pos[i] < pos[j]}

\* LIMIT n OFFSET m.
Rows(pos, m, n) == {i \in DOMAIN pos : pos[i] >= m /\ pos[i] < m + n}

-----------------------------------------------------------------------------
Init ==
    /\ \E s \in Start : images = s.images /\ pushedAt = s.pushedAt /\ ownerOf = s.ownerOf
    /\ now = 1 /\ changes = 0
    /\ caller \in Caller
    /\ offset = NaN /\ phase = "walking" /\ status = 0
    /\ seen = {} /\ twice = {}
    /\ first = List /\ touched = {} /\ fell = FALSE /\ grew = FALSE /\ tied = FALSE

-----------------------------------------------------------------------------
(* The client.                                                             *)

\* What the handler refuses before it looks at the table: a cluster PAT; a wrapped
\* token, which does not get through its validation without a scope; and whoever is
\* not validated, for which an outage of the validation service is enough.
RefusedWith(code) ==
    \/ code = 403 /\ StrategyOf[caller] = "cluster-pat"
    \/ code = 401 /\ StrategyOf[caller] \in {"wrapped-upstream", "none"}
    \/ code = 401 /\ StrategyOf[caller] = "api" /\ changes < MaxChanges

Refused ==
    /\ phase = "walking"
    /\ \E code \in {401, 403} : RefusedWith(code) /\ status' = code
    /\ phase' = "denied"
    /\ UNCHANGED <<tableVars, caller, offset, seen, twice, historyVars>>

Served == StrategyOf[caller] \in {"pat", "api"}

\* trimOverflow: the query asks for a row more than the page has.
More(pos, m, n) == Cardinality(Rows(pos, m, n + 1)) > n

\* Mutant: the next page starts a row too late, where the extra row was.
Next_Late(m, page) == m + Cardinality(page) + 1

NextOffset(m, page) == m + Cardinality(page)

\* A page; the client goes on with next_offset until has_more is false.
Page ==
    /\ phase = "walking" /\ Served
    /\ \E pos \in Numberings(List) :
          LET m == Offset(offset)
              n == Limit(Asks[caller])
              page == Rows(pos, m, n)
          IN
          /\ offset' = NextOffset(m, page)
          /\ phase' = IF More(pos, m, n) THEN "walking" ELSE "listed"
          /\ seen' = seen \cup page
          /\ twice' = twice \cup (seen \cap page)
    /\ status' = 200
    /\ tied' = (tied \/ \E i, j \in List : i # j /\ pushedAt[i] = pushedAt[j])
    /\ UNCHANGED <<tableVars, caller, first, touched, fell, grew>>

\* The query fails; the client asks for the same page again.
QueryFails ==
    /\ phase = "walking" /\ Served /\ changes < MaxChanges
    /\ status' = 500 /\ changes' = changes + 1
    /\ UNCHANGED <<images, pushedAt, ownerOf, now, caller, offset, phase, seen, twice, historyVars>>

-----------------------------------------------------------------------------
(* The table meanwhile.                                                    *)

\* What the step does to the list.
Observed ==
    /\ fell' = (fell \/ ~(List \subseteq List')
                     \/ \E i \in List : pushedAt'[i] < pushedAt[i])
    /\ grew' = (grew \/ ~(List' \subseteq List))

\* The times that a push may be written with: the hooks took it up a little earlier.
PushTimes == {t \in 1 .. now : t + Lag >= now}

\* The hooks write a push (hookEvents.ts): a new row, or a new time for an old one,
\* which may be before that of another written earlier.
Push(i) ==
    /\ \E t \in PushTimes : pushedAt' = [pushedAt EXCEPT ![i] = t]
    /\ images' = images \cup {i}
    /\ touched' = touched \cup {i}
    /\ UNCHANGED <<ownerOf, now, changes, clientVars, first, tied>>
    /\ Observed

\* The reaper, a delete event or the collector removes a row.
Remove(i) ==
    /\ i \in images /\ changes < MaxChanges
    /\ images' = images \ {i} /\ changes' = changes + 1
    /\ UNCHANGED <<pushedAt, ownerOf, now, clientVars, first, touched, tied>>
    /\ Observed

\* A token for the repository is issued to a user (TokenIssue).
Claim(r, u) ==
    /\ ownerOf[r] # u /\ changes < MaxChanges
    /\ ownerOf' = [ownerOf EXCEPT ![r] = u] /\ changes' = changes + 1
    /\ UNCHANGED <<images, pushedAt, now, clientVars, first, touched, tied>>
    /\ Observed

Tick ==
    /\ now < MaxTime
    /\ now' = now + 1
    /\ UNCHANGED <<images, pushedAt, ownerOf, changes, clientVars, historyVars>>

-----------------------------------------------------------------------------
Answer == Refused \/ Page

Next ==
    \/ phase = "walking" /\ \/ \E i \in Image : Push(i) \/ Remove(i)
                            \/ \E r \in Repository, u \in User : Claim(r, u)
                            \/ Tick
    \/ Answer
    \/ QueryFails

\* The client goes on asking, and the service and the database answer.
Spec == Init /\ [][Next]_vars /\ WF_vars(Answer)

-----------------------------------------------------------------------------
(* Properties.                                                             *)

\* However much is pushed, and pushed again, between two pages: an image that stays
\* as it is is on one of them, if no row left the list or fell back in it, and no two
\* had the same time.  Each of the conditions is needed: paging is by offset
\* (imageList.ts:43-44, 72-76; README.md:104-106).
NothingStableIsMissed ==
    phase = "listed" /\ ~fell /\ ~tied => first \ touched \subseteq seen

\* What README.md:65-71 says the caller may see.
Entitled == {i \in images : StrategyOf[caller] = "pat" \/ ownerOf[RepoOf[i]] = UserOf[caller]}

\* A list at rest is given exactly, row by row, whatever the limit: a user's images
\* to the user, all of them to the operator, none of them twice; and a client is told
\* of more only while there is more (imageList.ts:43-94).
RestingListIsExact ==
    touched = {} /\ ~fell /\ ~grew /\ ~tied =>
       /\ phase = "listed" => seen = Entitled
       /\ phase = "walking" /\ offset # NaN => seen # Entitled
       /\ twice = {} /\ seen \subseteq Entitled

\* A client that follows next_offset comes to the end of it, whatever limit it asks
\* for, though rows come and go and queries fail (createApp.ts:248-256).
WalkEnds == <>(phase # "walking")
=============================================================================
