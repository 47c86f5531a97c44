----------------------------- MODULE TokenIssue -----------------------------
(***************************************************************************)
(* The token endpoint, GET /v2/token (auth/src/createApp.ts): requests are *)
(* served concurrently by one process, each of them through awaits of the  *)
(* validation service, of a client of the connection pool and of every     *)
(* statement of the transaction that writes the user and the repositories  *)
(* of the scope to PostgreSQL.                                             *)
(*                                                                         *)
(* What lies between two awaits is one step.  What a wrapped token goes    *)
(* through is the subject of WrappedAuth; here it is accepted or not.      *)
(***************************************************************************)
EXTENDS Credentials

CONSTANTS
    Request,     \* requests for a token
    Asked,       \* [Request -> [header, account, scope]]
    ConfigOf,    \* [Request -> the configuration that it meets]
    MaxScopes,   \* MAX_REQUESTED_SCOPES
    PoolMax,     \* max of the pool
    WrappedTtl, TokenTtl,   \* lifetimes of tokens
    Together,    \* bound: sets of requests that one behaviour may serve
    MaxFaults    \* bound: failed statements, lost connections and crashes

Scope(q)   == Asked[q].scope
Config(q)  == ConfigOf[q]
TokenOf(q) == Asked[q].header.token
Subject(q) == Known[TokenOf(q)]
By == [q \in Request |-> Strategy(Config(q), TokenOf(q))]

\* Mutant: nobody looks at the account parameter.
Identifies_NotAccount(q) == IdentityMatches({PresentedIdentity(Asked[q].header)}, Subject(q))
Identifies(q) ==
    IdentityMatches({PresentedIdentity(Asked[q].header), Asked[q].account}, Subject(q))

-----------------------------------------------------------------------------
(* The rows that a request writes: the user's at 0, and at n the one of    *)
(* the n-th entry of the scope, which is known by its first two segments.  *)

UserRow(u) == <<u>>

RepositoryRow(name) == SubSeq(name, 1, 2)

Statements ==
    [q \in Request |->
       {0} \cup {n \in Resources(Scope(q)) :
                    Scope(q)[n].type = "repository" /\ Len(Scope(q)[n].name) >= 2}]

RowAt(q, n) == IF n = 0 THEN UserRow(Subject(q)) ELSE RepositoryRow(Scope(q)[n].name)

Rows == [q \in Request |-> {RowAt(q, n) : n \in Statements[q]}]

Row == UNION {Rows[q] : q \in {p \in Request : Subject(p) # NoUser}}

Free == "free"

ASSUME TokenIssueAssumption ==
    /\ Free \notin Request
    /\ DOMAIN ConfigOf = Request /\ DOMAIN Asked = Request
    /\ \A q \in Request : TokenOf(q) \in Token
    /\ \A q \in Request : LET list == Config(q).clusters IN
          Len(list) \in Nat /\ DOMAIN list = 1 .. Len(list)
    /\ Together \subseteq SUBSET Request
    /\ PoolMax \in Nat \ {0} /\ MaxScopes \in Nat /\ MaxFaults \in Nat

VARIABLES
    pc,       \* request: where it is
    answer,   \* request: what it was answered
    done,     \* request: its statements that went through
    held,     \* pool: the requests that have a client
    lock,     \* row: the transaction that has written it and is not over
    pending,  \* row: what that transaction wrote
    owner,    \* row: the user that is committed
    made,     \* the requests that this behaviour may serve
    faults,   \* what has failed so far
    sent,     \* history: <<request, token>> that the validation service saw
    settled   \* history: the requests whose transaction took effect

tableVars == <<lock, pending, owner>>
vars == <<pc, answer, done, held, tableVars, made, faults, sent, settled>>

Answer(status, access, ttl) == [status |-> status, access |-> access, ttl |-> ttl]
NoAnswer == Answer(0, {}, 0)
Refusal(status) == Answer(status, {}, 0)

TypeOK ==
    /\ pc \in [Request -> {"new", "wrapping", "asking", "connecting", "syncing",
                           "rollingBack", "answered", "lost"}]
    /\ DOMAIN answer = Request /\ DOMAIN done = Request
    /\ \A q \in Request : answer[q].status \in {0, 200, 400, 401}
    /\ \A q \in Request : done[q] \subseteq Statements[q]
    /\ held \subseteq Request /\ Cardinality(held) =< PoolMax
    /\ lock \in [Row -> Request \cup {Free}]
    /\ pending \in [Row -> User \cup {NoUser}]
    /\ owner \in [Row -> User \cup {NoUser}]
    /\ made \in Together
    /\ faults \in 0 .. MaxFaults
    /\ sent \subseteq Request \X Token
    /\ settled \subseteq Request

Init ==
    /\ pc = [q \in Request |-> "new"]
    /\ answer = [q \in Request |-> NoAnswer]
    /\ done = [q \in Request |-> {}]
    /\ held = {}
    /\ lock = [r \in Row |-> Free]
    /\ pending = [r \in Row |-> NoUser]
    /\ owner = [r \in Row |-> NoUser]
    /\ made \in Together
    /\ faults = 0
    /\ sent = {} /\ settled = {}

-----------------------------------------------------------------------------
(* The answer.                                                             *)

\* The resource and the actions that the token grants for the n-th entry.
Granted(q, n) ==
    LET s == Scope(q)[n]
        asked == RequestedActions(Scope(q), n)
    IN
    [type |-> s.type, name |-> s.name,
     actions |-> IF By[q] = "cluster-pat"
                   THEN ClusterActions(ClusterOf(Config(q), TokenOf(q)), s.name, asked)
                   ELSE asked]

MayUse(q, n) ==
    By[q] = "cluster-pat" => ClusterMayUse(ClusterOf(Config(q), TokenOf(q)), Scope(q)[n])

\* The token, or 401: one resource that is not for the cluster fails all of them,
\* and without a key nothing can be signed.
Issued(q) ==
    IF Config(q).key /\ \A n \in Resources(Scope(q)) : MayUse(q, n)
      THEN Answer(200, {Granted(q, n) : n \in Resources(Scope(q))},
                  IF By[q] = "wrapped-upstream" THEN WrappedTtl ELSE TokenTtl)
      ELSE Refusal(401)

Answered(q, a) ==
    /\ pc' = [pc EXCEPT ![q] = "answered"]
    /\ answer' = [answer EXCEPT ![q] = a]

\* What Receive answers before anybody is asked.
TooMany(q)    == Cardinality(Resources(Scope(q))) > MaxScopes
Unidentified(q) == ~HasCredentials(Asked[q].header) \/ By[q] = "none"

\* The handler up to its first await.
Receive(q) ==
    /\ pc[q] = "new" /\ q \in made
    /\ \/ TooMany(q) /\ Answered(q, Refusal(400)) /\ UNCHANGED sent
       \/ ~TooMany(q) /\ Unidentified(q) /\ Answered(q, Refusal(401)) /\ UNCHANGED sent
       \/ /\ ~TooMany(q) /\ ~Unidentified(q) /\ By[q] \in {"pat", "cluster-pat"}
          /\ Answered(q, Issued(q)) /\ UNCHANGED sent
       \/ /\ ~TooMany(q) /\ ~Unidentified(q) /\ By[q] = "wrapped-upstream"
          /\ pc' = [pc EXCEPT ![q] = "wrapping"] /\ UNCHANGED <<answer, sent>>
       \/ /\ ~TooMany(q) /\ ~Unidentified(q) /\ By[q] = "api"
          /\ pc' = [pc EXCEPT ![q] = "asking"]
          /\ sent' = sent \cup {<<q, TokenOf(q)>>} /\ UNCHANGED answer
    /\ UNCHANGED <<done, held, tableVars, made, faults, settled>>

\* validateWrappedUpstream returns or throws; without a repository it always throws.
Unwrapped(q) ==
    /\ pc[q] = "wrapping"
    /\ \/ Resources(Scope(q)) # {} /\ Answered(q, Issued(q))
       \/ Answered(q, Refusal(401))
    /\ UNCHANGED <<done, held, tableVars, made, faults, sent, settled>>

\* The validation service answers, or it does not within its 10 seconds.  A user
\* whom the request names otherwise gets no token, and no row.
Validated(q) ==
    /\ pc[q] = "asking"
    /\ \/ /\ Subject(q) # NoUser /\ Identifies(q)
          /\ pc' = [pc EXCEPT ![q] = "connecting"] /\ UNCHANGED answer
       \/ Answered(q, Refusal(401))
    /\ UNCHANGED <<done, held, tableVars, made, faults, sent, settled>>

-----------------------------------------------------------------------------
(* The transaction.                                                        *)

\* Mutant: one client more than the pool may have.
ClientIsFree_OneMore == Cardinality(held) =< PoolMax

ClientIsFree == Cardinality(held) < PoolMax

\* A client is free, and BEGIN goes through.  The pool serves who came first; the
\* order makes no difference here, and is left open.
Connect(q) ==
    /\ pc[q] = "connecting"
    /\ ClientIsFree
    /\ held' = held \cup {q}
    /\ pc' = [pc EXCEPT ![q] = "syncing"]
    /\ UNCHANGED <<answer, done, tableVars, made, faults, sent, settled>>

\* The statement that comes next.
Due(q, n) ==
    /\ n \in Statements[q] \ done[q]
    /\ \A m \in Statements[q] \ done[q] : n =< m

\* Mutant: the statements go through the pool, and each commits by itself.
Written_Alone(q, r) ==
    /\ owner' = [owner EXCEPT ![r] = Subject(q)]
    /\ UNCHANGED <<lock, pending>>

\* The row is written, for this transaction to see, and locked.
Written(q, r) ==
    /\ lock' = [lock EXCEPT ![r] = q]
    /\ pending' = [pending EXCEPT ![r] = Subject(q)]
    /\ UNCHANGED owner

\* An INSERT ... ON CONFLICT DO UPDATE; it waits for a transaction that wrote the row.
Upsert(q) ==
    /\ pc[q] = "syncing"
    /\ \E n \in Statements[q] :
          /\ Due(q, n)
          /\ lock[RowAt(q, n)] \in {Free, q}
          /\ Written(q, RowAt(q, n))
          /\ done' = [done EXCEPT ![q] = @ \cup {n}]
    /\ UNCHANGED <<pc, answer, held, made, faults, sent, settled>>

\* The rows of the transaction are free again.
Unlocked(q) ==
    /\ lock' = [r \in Row |-> IF lock[r] = q THEN Free ELSE lock[r]]
    /\ pending' = [r \in Row |-> IF lock[r] = q THEN NoUser ELSE pending[r]]

Committed(q) ==
    /\ owner' = [r \in Row |-> IF lock[r] = q THEN pending[r] ELSE owner[r]]
    /\ settled' = settled \cup {q}

\* Mutant: the client goes back to the pool only after a COMMIT.
Released_Committed(q) == held' = held \ (settled' \cap {q})

\* finally: the client goes back to the pool.
Released(q) == held' = held \ {q}

\* COMMIT, release, and the answer.
Commit(q) ==
    /\ pc[q] = "syncing" /\ done[q] = Statements[q]
    /\ Committed(q) /\ Unlocked(q)
    /\ Released(q)
    /\ Answered(q, Issued(q))
    /\ UNCHANGED <<done, made, faults, sent>>

\* q waits for a row of p.
WaitsFor(q, p) ==
    /\ pc[q] = "syncing" /\ q # p
    /\ \E n \in Statements[q] : Due(q, n) /\ lock[RowAt(q, n)] = p

\* A statement fails; the transaction keeps its locks until the ROLLBACK.
Failed(q) ==
    /\ pc[q] = "syncing"
    /\ pc' = [pc EXCEPT ![q] = "rollingBack"]
    /\ UNCHANGED <<answer, done, held, tableVars, made, sent, settled>>

\* PostgreSQL finds a circle of transactions that wait for each other, and ends one.
Deadlock(q) ==
    /\ \E S \in SUBSET held :
          q \in S /\ \A p \in S : \E s \in S : WaitsFor(p, s)
    /\ Failed(q) /\ UNCHANGED faults

\* ROLLBACK, release, and the answer: a token, as if the rows had been written.  The
\* pool sets no timeout for statements, and PostgreSQL has no error of its own for a
\* ROLLBACK: one that fails has lost its connection.
Rollback(q) ==
    /\ pc[q] = "rollingBack"
    /\ Unlocked(q) /\ UNCHANGED <<owner, settled>>
    /\ Released(q)
    /\ Answered(q, Issued(q))
    /\ UNCHANGED <<done, made, faults, sent>>

-----------------------------------------------------------------------------
(* Faults.                                                                 *)

Fault == faults < MaxFaults /\ faults' = faults + 1

SqlError(q) == Fault /\ Failed(q)

\* The database is away when a client is wanted: the whole request fails.
ConnectFails(q) ==
    /\ Fault
    /\ pc[q] = "connecting"
    /\ Answered(q, Refusal(401))
    /\ UNCHANGED <<done, held, tableVars, made, sent, settled>>

\* A connection breaks.  The ROLLBACK fails as well, so the request does too; the
\* database undoes the transaction, unless the COMMIT had arrived.
ConnectionLost(q) ==
    /\ Fault
    /\ pc[q] \in {"syncing", "rollingBack"}
    /\ \/ pc[q] = "syncing" /\ done[q] = Statements[q] /\ Committed(q)
       \/ UNCHANGED <<owner, settled>>
    /\ Unlocked(q)
    /\ Released(q)
    /\ Answered(q, Refusal(401))
    /\ UNCHANGED <<done, made, sent>>

\* The process ends: what it was serving is lost, and its transactions are undone.
Crash ==
    /\ Fault
    /\ pc' = [q \in Request |->
                IF pc[q] \in {"new", "answered"} THEN pc[q] ELSE "lost"]
    /\ held' = {}
    /\ lock' = [r \in Row |-> Free]
    /\ pending' = [r \in Row |-> NoUser]
    /\ UNCHANGED <<answer, done, owner, made, sent, settled>>

-----------------------------------------------------------------------------
Progress(q) ==
    \/ Receive(q) \/ Unwrapped(q) \/ Validated(q) \/ Connect(q)
    \/ Upsert(q) \/ Commit(q) \/ Deadlock(q) \/ Rollback(q)

Broken(q) == SqlError(q) \/ ConnectFails(q) \/ ConnectionLost(q)

Next == (\E q \in Request : Progress(q) \/ Broken(q)) \/ Crash

\* The event loop and the database go on while they have something to do.  Nothing
\* more is asked: each request is served once, so none can be passed over for ever.
Spec == Init /\ [][Next]_vars /\ WF_vars(\E q \in Request : Progress(q))

-----------------------------------------------------------------------------
(* Properties.                                                             *)

\* The PATs in force for a cluster: the one that its last well-formed entry gives.
PatsInForce(config, id) ==
    LET own == {n \in DOMAIN config.clusters :
                   Kept(config.clusters[n]) /\ config.clusters[n].id = id}
    IN {config.clusters[n].token : n \in {k \in own : \A m \in own : m =< k}}

\* The validation service sees none of the service's own secrets: no wrapped
\* credentials, no static PAT and no PAT that is in force for a cluster, whatever
\* entries share a cluster or a token (serverHelpers.ts:328-390).
OwnSecretsStay ==
    \A p \in sent :
       p[2] \notin Wrapped \cup StaticPats(Config(p[1]))
                  \cup UNION {PatsInForce(Config(p[1]), id) : id \in ClusterId}

\* A token issued to a cluster, however its scope repeats and mixes resources, can
\* write under cluster/<its id> only, and reaches nothing of another cluster; a PAT
\* that was replaced gets none (clusterPat.ts:78-127, createApp.ts:164-192).
ClustersStayHome ==
    \A q \in Request : answer[q].status = 200 /\ By[q] = "cluster-pat" =>
       \E id \in ClusterId :
          /\ TokenOf(q) \in PatsInForce(Config(q), id)
          /\ \A g \in answer[q].access :
                Own(id, g.name) \/ (SharedPlace(g.name) /\ g.actions \subseteq {"pull"})

\* Who names itself otherwise than the validated user gets neither a token nor a row,
\* whichever of the header and the account has the wrong name, however well the other
\* one fits; nor does who presents no token at all, however many blanks and commas
\* there are in the configuration (createApp.ts:116-118, serverHelpers.ts:101-120,
\* 414-437).
ImpostorsGetNothing ==
    \A q \in Request :
       \/ /\ By[q] = "api" /\ Subject(q) # NoUser
          /\ \E name \in {PresentedIdentity(Asked[q].header), Asked[q].account} :
                name # NoName /\ name \notin NamesOf[Subject(q)]
       \/ TokenOf(q) = NoToken /\ Subject(q) = NoUser
       => answer[q].status # 200 /\ q \notin settled

\* Who may claim rows: requests that the validation service vouches for, and that
\* name its user.
Entitled == {q \in Request : /\ ~TooMany(q) /\ HasCredentials(Asked[q].header)
                             /\ By[q] = "api" /\ Subject(q) # NoUser /\ Identifies(q)}

Ledger == INSTANCE OwnershipLedger WITH
    Claim  <- Entitled,
    RowsOf <- [q \in Entitled |-> Rows[q]],
    UserOf <- [q \in Entitled |-> Subject(q)],
    Nobody <- NoUser

\* The transactions implement the ledger: with statements of many requests between
\* each other, deadlocks, failures, lost connections and crashes, a request gives all
\* of its rows to its user at one moment, or none ever (createApp.ts:121-160).
ImplementsLedger == Ledger!Spec

\* A request that is over holds no client of the pool and no row, however
\* it ended (createApp.ts:155-161).
NothingLeaks ==
    \A q \in Request : pc[q] \in {"answered", "lost"} =>
       /\ q \notin held
       /\ \A r \in Row : lock[r] # q

\* Every request is answered, or is lost with the process: no deadlock of the
\* transactions and no want of clients keeps one waiting.  (A request is served once,
\* so it is enough that time and again nobody waits.)
EverybodyIsAnswered ==
    []<>(\A q \in Request : pc[q] \in {"new", "answered", "lost"})
=============================================================================
