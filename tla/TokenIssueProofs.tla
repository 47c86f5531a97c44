--------------------------- MODULE TokenIssueProofs ---------------------------
(***************************************************************************)
(* For any requests, configurations, pool and number of faults: the        *)
(* transactions of the token endpoint implement the ledger of owners, and  *)
(* nothing that a request holds outlives it.                               *)
(***************************************************************************)
EXTENDS TokenIssue, FiniteSetTheorems, WellFoundedInduction, TLAPS

Places == {"new", "wrapping", "asking", "connecting", "syncing",
           "rollingBack", "answered", "lost"}

\* q has a transaction.
Serving(q) == pc[q] \in {"syncing", "rollingBack"}

\* Where a request is tells who it is, and whether it has claimed its rows.
FlowInv ==
    /\ pc \in [Request -> Places]
    /\ DOMAIN answer = Request /\ settled \subseteq Request
    /\ sent \subseteq Request \X Token
    /\ made \in Together /\ faults \in 0 .. MaxFaults
    /\ \A q \in Request :
          /\ answer[q] \in {NoAnswer, Refusal(400), Refusal(401), Issued(q)}
          /\ answer[q].status = 200 => By[q] # "none"
          /\ answer[q].status = 200 /\ By[q] = "api" => q \in Entitled
          /\ pc[q] = "wrapping" => By[q] = "wrapped-upstream"
          /\ pc[q] = "asking" => ~TooMany(q) /\ ~Unidentified(q) /\ By[q] = "api"
          /\ pc[q] \in {"connecting", "syncing", "rollingBack"} =>
                q \in Entitled /\ q \notin settled
          /\ q \in settled => q \in Entitled /\ pc[q] = "answered"
    /\ \A p \in sent : By[p[1]] = "api" /\ p[2] = TokenOf(p[1])

\* A transaction has locked exactly the rows of the statements that went through,
\* and has written its user into them.
RowInv ==
    /\ lock \in [Row -> Request \cup {Free}]
    /\ pending \in [Row -> User \cup {NoUser}]
    /\ owner \in [Row -> User \cup {NoUser}]
    /\ DOMAIN done = Request
    /\ \A q \in Request :
          /\ done[q] \subseteq Statements[q]
          /\ pc[q] \in {"new", "wrapping", "asking", "connecting"} => done[q] = {}
          /\ Serving(q) => \A n \in done[q] : lock[RowAt(q, n)] = q
    /\ \A r \in Row : lock[r] # Free =>
          /\ Serving(lock[r]) /\ r \in Rows[lock[r]]
          /\ pending[r] = Subject(lock[r])

\* Clients are out only for transactions, and not more of them than there are.
PoolInv ==
    /\ held \subseteq Request /\ IsFiniteSet(held) /\ Cardinality(held) =< PoolMax
    /\ \A q \in held : Serving(q)

IInv == FlowInv /\ RowInv /\ PoolInv

-----------------------------------------------------------------------------
(* Facts about requests.                                                   *)

\* An entitled request is one of a user, and its rows are rows of the tables.
LEMMA EntitledFacts ==
    ASSUME NEW q \in Entitled
    PROVE  /\ q \in Request /\ By[q] = "api"
           /\ Subject(q) \in User
           /\ \A n \in Statements[q] : RowAt(q, n) \in Rows[q] /\ RowAt(q, n) \in Row
    <1>1. q \in Request /\ By[q] = "api" /\ Subject(q) # NoUser
        BY DEF Entitled
    <1>2. Subject(q) \in User
        BY <1>1, CredentialsAssumption, TokenIssueAssumption DEF Subject
    <1>3. ASSUME NEW n \in Statements[q]
          PROVE  RowAt(q, n) \in Rows[q] /\ RowAt(q, n) \in Row
        BY <1>1 DEF Rows, Row
    <1>4. QED
        BY <1>1, <1>2, <1>3

\* The statuses of the answers there are.
LEMMA Statuses ==
    ASSUME NEW q \in Request
    PROVE  /\ Issued(q).status \in {200, 401} /\ NoAnswer.status = 0
           /\ Refusal(400).status = 400 /\ Refusal(401).status = 401
    BY DEF Issued, Answer, Refusal, NoAnswer

\* A transaction whose statements all went through has locked exactly its rows.
LEMMA FullLocks ==
    ASSUME IInv, NEW q \in Request, Serving(q), done[q] = Statements[q]
    PROVE  \A r \in Row : lock[r] = q <=> r \in Rows[q]
    <1>1. q # Free
        BY TokenIssueAssumption
    <1>2. ASSUME NEW r \in Row, r \in Rows[q]
          PROVE  lock[r] = q
        <2>1. PICK n \in Statements[q] : r = RowAt(q, n)
            BY <1>2 DEF Rows
        <2>2. QED
            BY <2>1 DEF IInv, RowInv
    <1>3. QED
        BY <1>1, <1>2 DEF IInv, RowInv
-----------------------------------------------------------------------------
(* Every step preserves the invariant, part by part.                       *)

\* Initially no request has anything.
LEMMA InitInv == Init => IInv
    <1> SUFFICES ASSUME Init PROVE IInv
        OBVIOUS
    <1>1. FlowInv
        BY TokenIssueAssumption, Statuses DEF Init, FlowInv, Places
    <1>2. RowInv
        BY DEF Init, RowInv, Serving
    <1>3. PoolInv
        BY FS_EmptySet, TokenIssueAssumption DEF Init, PoolInv
    <1>4. QED
        BY <1>1, <1>2, <1>3 DEF IInv

\* Steps that move one request, and leave the transactions alone.
LEMMA FlowOutside ==
    ASSUME IInv, NEW q \in Request, pc[q] \in {"new", "wrapping", "asking", "connecting"},
           pc' = [pc EXCEPT ![q] = "answered"] \/ pc' = [pc EXCEPT ![q] = "wrapping"]
           \/ pc' = [pc EXCEPT ![q] = "asking"] \/ pc' = [pc EXCEPT ![q] = "connecting"],
           pc'[q] = "connecting" => done[q] = {},
           UNCHANGED <<done, held, tableVars>>
    PROVE  RowInv' /\ PoolInv'
    <1>1. ASSUME NEW p \in Request
          PROVE  /\ Serving(p) => Serving(p)' /\ p # q
                 /\ Serving(p)' => Serving(p)
                 /\ pc'[p] \in {"new", "wrapping", "asking", "connecting"} => done[p] = {}
        BY DEF IInv, FlowInv, RowInv, Serving
    <1>2. Row = Row' /\ \A p \in Request : Rows[p] = Rows[p]'
        OBVIOUS
    <1>3. RowInv'
        BY <1>1, <1>2, TokenIssueAssumption DEF IInv, RowInv, tableVars
    <1>4. PoolInv'
        BY <1>1 DEF IInv, PoolInv
    <1>5. QED
        BY <1>3, <1>4

\* The steps before the transaction, and the end of a request that never has one.
LEMMA StepOutside ==
    ASSUME IInv, NEW q \in Request,
           Receive(q) \/ Unwrapped(q) \/ Validated(q) \/ ConnectFails(q)
    PROVE  IInv'
    <1>1. pc[q] \in {"new", "wrapping", "asking", "connecting"}
        BY DEF Receive, Unwrapped, Validated, ConnectFails
    <1>2. /\ \/ pc' = [pc EXCEPT ![q] = "answered"] \/ pc' = [pc EXCEPT ![q] = "wrapping"]
             \/ pc' = [pc EXCEPT ![q] = "asking"] \/ pc' = [pc EXCEPT ![q] = "connecting"]
          /\ UNCHANGED <<done, held, tableVars, made, settled>>
        BY DEF Receive, Unwrapped, Validated, ConnectFails, Answered
    <1>3. RowInv' /\ PoolInv'
        BY <1>1, <1>2, FlowOutside DEF IInv, RowInv
    <1>4. FlowInv'
        <2>1. CASE Receive(q)
            BY <2>1, Statuses, TokenIssueAssumption
            DEF IInv, FlowInv, Receive, Answered, Places
        <2>2. CASE Unwrapped(q)
            BY <2>2, Statuses DEF IInv, FlowInv, Unwrapped, Answered, Places
        <2>3. CASE Validated(q)
            <3>1. pc[q] = "asking" /\ ~TooMany(q) /\ ~Unidentified(q) /\ By[q] = "api"
                BY <2>3 DEF IInv, FlowInv, Validated
            <3>2. CASE Answered(q, Refusal(401))
                BY <2>3, <3>1, <3>2, Statuses DEF IInv, FlowInv, Validated, Answered, Places
            <3>3. CASE /\ Subject(q) # NoUser /\ Identifies(q)
                       /\ pc' = [pc EXCEPT ![q] = "connecting"] /\ UNCHANGED answer
                <4>1. q \in Entitled /\ q \notin settled
                    BY <3>1, <3>3 DEF IInv, FlowInv, Entitled, Unidentified
                <4>2. QED
                    BY <2>3, <3>1, <3>3, <4>1 DEF IInv, FlowInv, Validated, Places
            <3>4. QED
                BY <2>3, <3>2, <3>3 DEF Validated
        <2>4. CASE ConnectFails(q)
            BY <2>4, Statuses, TokenIssueAssumption
            DEF IInv, FlowInv, ConnectFails, Fault, Answered, Places
        <2>5. QED
            BY <2>1, <2>2, <2>3, <2>4
    <1>5. QED
        BY <1>3, <1>4 DEF IInv

\* A client is taken only while one is free.
LEMMA StepConnect ==
    ASSUME IInv, NEW q \in Request, Connect(q)
    PROVE  IInv'
    <1>1. FlowInv'
        BY DEF IInv, FlowInv, Connect, Places
    <1>2. RowInv'
        <2>1. done[q] = {} /\ UNCHANGED <<done, lock, pending, owner>>
            BY DEF IInv, RowInv, Connect, tableVars
        <2>2. \A p \in Request : (Serving(p) => Serving(p)') /\ (Serving(p)' => Serving(p) \/ p = q)
            BY DEF IInv, FlowInv, Connect, Serving
        <2>3. \A p \in Request : pc'[p] \in {"new", "wrapping", "asking", "connecting"} => pc'[p] = pc[p]
            BY DEF IInv, FlowInv, Connect
        <2>4. QED
            BY <2>1, <2>2, <2>3, TokenIssueAssumption DEF IInv, RowInv
    <1>3. PoolInv'
        <2>1. \A p \in held' : Serving(p)'
            BY DEF IInv, FlowInv, PoolInv, Connect, Serving
        <2>2. held' = held \cup {q} /\ IsFiniteSet(held) /\ Cardinality(held) < PoolMax
            BY DEF IInv, PoolInv, Connect, ClientIsFree
        <2>3. /\ IsFiniteSet(held') /\ Cardinality(held) \in Nat
              /\ Cardinality(held') \in {Cardinality(held), Cardinality(held) + 1}
            BY <2>2, FS_AddElement, FS_CardinalityType
        <2>4. Cardinality(held') =< PoolMax
            BY <2>2, <2>3, TokenIssueAssumption
        <2>5. QED
            BY <2>1, <2>3, <2>4 DEF IInv, PoolInv, Connect
    <1>4. QED
        BY <1>1, <1>2, <1>3 DEF IInv

\* A statement writes a row that is free or that the transaction has already.
LEMMA StepUpsert ==
    ASSUME IInv, NEW q \in Request, Upsert(q)
    PROVE  IInv'
    <1> PICK n \in Statements[q] :
            /\ Due(q, n) /\ lock[RowAt(q, n)] \in {Free, q} /\ Written(q, RowAt(q, n))
            /\ done' = [done EXCEPT ![q] = @ \cup {n}]
        BY DEF Upsert
    <1>1. pc[q] = "syncing" /\ UNCHANGED <<pc, answer, held, made, faults, sent, settled>>
        BY DEF Upsert
    <1>2. FlowInv' /\ PoolInv'
        BY <1>1 DEF IInv, FlowInv, PoolInv, Serving
    <1>3. q \in Entitled
        BY <1>1 DEF IInv, FlowInv
    <1>4. RowAt(q, n) \in Row /\ RowAt(q, n) \in Rows[q] /\ Subject(q) \in User
        BY <1>3, EntitledFacts
    <1>5. RowInv'
        <2> DEFINE row == RowAt(q, n)
        <2>1. /\ lock' = [lock EXCEPT ![row] = q]
              /\ pending' = [pending EXCEPT ![row] = Subject(q)] /\ UNCHANGED owner
            BY DEF Written
        <2>2. \A p \in Request : Serving(p)' <=> Serving(p)
            BY <1>1 DEF Serving
        <2>3. ASSUME NEW p \in Request, Serving(p)', NEW m \in done'[p]
              PROVE  lock'[RowAt(p, m)] = p
            <3>1. CASE p = q /\ m = n
                BY <3>1, <2>1, <1>4 DEF IInv, RowInv
            <3>2. CASE ~(p = q /\ m = n)
                <4>1. m \in done[p]
                    BY <3>2, <2>3 DEF IInv, RowInv
                <4>2. lock[RowAt(p, m)] = p
                    BY <4>1, <2>2, <2>3 DEF IInv, RowInv
                <4>3. CASE RowAt(p, m) = row
                    BY <4>2, <4>3, <2>1, <1>4, TokenIssueAssumption DEF IInv, RowInv
                <4>4. CASE RowAt(p, m) # row
                    BY <4>2, <4>4, <2>1 DEF IInv, RowInv
                <4>5. QED
                    BY <4>3, <4>4
            <3>3. QED
                BY <3>1, <3>2
        <2>4. \A r \in Row : lock'[r] # Free =>
                 pc'[lock'[r]] \in {"syncing", "rollingBack"} /\ r \in Rows[lock'[r]] /\ pending'[r] = Subject(lock'[r])
            BY <1>1, <1>4, <2>1, <2>2 DEF IInv, RowInv, Serving
        <2>5. \A p \in Request : /\ done'[p] \subseteq Statements[p]
                                 /\ pc'[p] \in {"new", "wrapping", "asking", "connecting"} => done'[p] = {}
            BY <1>1 DEF IInv, RowInv
        <2>6. /\ lock' \in [Row -> Request \cup {Free}] /\ pending' \in [Row -> User \cup {NoUser}]
              /\ owner' \in [Row -> User \cup {NoUser}] /\ DOMAIN done' = Request
            BY <1>4, <2>1 DEF IInv, RowInv
        <2>7. QED
            BY <2>3, <2>4, <2>5, <2>6 DEF RowInv, Serving
    <1>6. QED
        BY <1>2, <1>5 DEF IInv

\* A transaction ends: its rows and its client are free, and its request is over.
LEMMA TransactionOver ==
    ASSUME IInv, NEW q \in Request, Serving(q), Unlocked(q), Released(q),
           owner' \in [Row -> User \cup {NoUser}], UNCHANGED done,
           pc' = [pc EXCEPT ![q] = "answered"]
    PROVE  RowInv' /\ PoolInv'
    <1>1. \A p \in Request : /\ Serving(p)' <=> Serving(p) /\ p # q
                             /\ pc'[p] \in {"new", "wrapping", "asking", "connecting"} => pc'[p] = pc[p]
        BY DEF IInv, FlowInv, Serving
    <1>2. RowInv'
        <2>1. /\ lock' \in [Row -> Request \cup {Free}] /\ pending' \in [Row -> User \cup {NoUser}]
              /\ DOMAIN done' = Request
            BY DEF IInv, RowInv, Unlocked
        <2>2. \A p \in Request : /\ done'[p] \subseteq Statements[p]
                                 /\ pc'[p] \in {"new", "wrapping", "asking", "connecting"} => done'[p] = {}
            BY <1>1 DEF IInv, RowInv
        <2>3. ASSUME NEW p \in Request, Serving(p)', NEW m \in done'[p]
              PROVE  lock'[RowAt(p, m)] = p
            <3>1. p # q /\ Serving(p) /\ m \in done[p] /\ lock[RowAt(p, m)] = p
                BY <1>1, <2>3 DEF IInv, RowInv
            <3>2. p \in Entitled /\ m \in Statements[p]
                BY <3>1 DEF IInv, FlowInv, RowInv, Serving
            <3>3. QED
                BY <3>1, <3>2, EntitledFacts DEF Unlocked
        <2>4. \A r \in Row : lock'[r] # Free =>
                 pc'[lock'[r]] \in {"syncing", "rollingBack"} /\ r \in Rows[lock'[r]] /\ pending'[r] = Subject(lock'[r])
            BY <1>1, TokenIssueAssumption DEF IInv, RowInv, Unlocked, Serving
        <2>5. QED
            BY <2>1, <2>2, <2>3, <2>4 DEF RowInv, Serving
    <1>3. PoolInv'
        <2>1. held' \subseteq held /\ IsFiniteSet(held)
            BY DEF IInv, PoolInv, Released
        <2>2. IsFiniteSet(held') /\ Cardinality(held') =< Cardinality(held)
            BY <2>1, FS_Subset
        <2>3. Cardinality(held) \in Nat /\ Cardinality(held') \in Nat
            BY <2>1, <2>2, FS_CardinalityType
        <2>4. QED
            BY <1>1, <2>1, <2>2, <2>3, TokenIssueAssumption DEF IInv, PoolInv, Released
    <1>4. QED
        BY <1>2, <1>3

\* The ends of a transaction: COMMIT, ROLLBACK, or the loss of its connection.
LEMMA StepOver ==
    ASSUME IInv, NEW q \in Request, Commit(q) \/ Rollback(q) \/ ConnectionLost(q)
    PROVE  IInv'
    <1>1. /\ Serving(q) /\ Unlocked(q) /\ Released(q)
          /\ UNCHANGED <<done, made, sent>>
          /\ pc' = [pc EXCEPT ![q] = "answered"]
          /\ Committed(q) \/ UNCHANGED <<owner, settled>>
          /\ faults' \in 0 .. MaxFaults
        BY TokenIssueAssumption
        DEF Commit, Rollback, ConnectionLost, Fault, Answered, Serving, IInv, FlowInv
    <1>2. owner' \in [Row -> User \cup {NoUser}]
        BY <1>1 DEF Committed, IInv, RowInv
    <1>3. RowInv' /\ PoolInv'
        BY <1>1, <1>2, TransactionOver
    <1>4. q \in Entitled
        BY <1>1 DEF IInv, FlowInv, Serving
    <1>5. settled' \in {settled, settled \cup {q}}
        BY <1>1 DEF Committed
    <1>6. \/ answer' = [answer EXCEPT ![q] = Issued(q)]
          \/ answer' = [answer EXCEPT ![q] = Refusal(401)]
        BY DEF Commit, Rollback, ConnectionLost, Answered
    <1>7. FlowInv'
        <2>1. ASSUME NEW p \in Request
              PROVE  /\ answer'[p] \in {NoAnswer, Refusal(400), Refusal(401), Issued(p)}
                     /\ answer'[p].status = 200 => By[p] # "none"
                     /\ answer'[p].status = 200 /\ By[p] = "api" => p \in Entitled
            <3>1. CASE p = q
                <4>1. By[q] = "api"
                    BY <1>4, EntitledFacts
                <4>2. answer'[q] \in {Issued(q), Refusal(401)}
                    BY <1>6 DEF IInv, FlowInv
                <4>3. QED
                    BY <3>1, <4>1, <4>2, <1>4
            <3>2. CASE p # q
                BY <1>6, <3>2 DEF IInv, FlowInv
            <3>3. QED
                BY <3>1, <3>2
        <2>2. /\ pc' \in [Request -> Places] /\ DOMAIN answer' = Request
              /\ settled' \subseteq Request
              /\ \A p \in Request :
                    /\ pc'[p] = "wrapping" => By[p] = "wrapped-upstream"
                    /\ pc'[p] = "asking" => ~TooMany(p) /\ ~Unidentified(p) /\ By[p] = "api"
                    /\ pc'[p] \in {"connecting", "syncing", "rollingBack"} =>
                          p \in Entitled /\ p \notin settled'
                    /\ p \in settled' => p \in Entitled /\ pc'[p] = "answered"
            BY <1>1, <1>4, <1>5, <1>6 DEF IInv, FlowInv, Places
        <2>3. QED
            BY <1>1, <2>1, <2>2 DEF IInv, FlowInv
    <1>8. QED
        BY <1>3, <1>7 DEF IInv

\* A statement that fails leaves the locks where they are.
LEMMA StepFailed ==
    ASSUME IInv, NEW q \in Request, Deadlock(q) \/ SqlError(q)
    PROVE  IInv'
    <1>1. Failed(q) /\ faults' \in 0 .. MaxFaults
        BY TokenIssueAssumption DEF Deadlock, SqlError, Fault, IInv, FlowInv
    <1>2. FlowInv'
        BY <1>1 DEF Failed, IInv, FlowInv, Places
    <1>3. \A p \in Request : Serving(p)' <=> Serving(p)
        BY <1>1 DEF Failed, Serving, IInv, FlowInv
    <1>4. RowInv'
        <2>1. UNCHANGED <<done, lock, pending, owner>>
            BY <1>1 DEF Failed, tableVars
        <2>2. \A p \in Request : pc'[p] \in {"new", "wrapping", "asking", "connecting"} => pc'[p] = pc[p]
            BY <1>1 DEF Failed, IInv, FlowInv
        <2>3. QED
            BY <1>3, <2>1, <2>2, TokenIssueAssumption DEF IInv, RowInv
    <1>5. PoolInv'
        BY <1>1, <1>3 DEF Failed, IInv, PoolInv
    <1>6. QED
        BY <1>2, <1>4, <1>5 DEF IInv

\* With the process go its transactions and its clients.
LEMMA StepCrash ==
    ASSUME IInv, Crash
    PROVE  IInv'
    <1>1. FlowInv'
        BY TokenIssueAssumption DEF Crash, Fault, IInv, FlowInv, Places
    <1>2. \A p \in Request : ~Serving(p)' /\
             (pc'[p] \in {"new", "wrapping", "asking", "connecting"} => pc[p] = "new")
        BY DEF Crash, Serving, IInv, FlowInv
    <1>3. RowInv'
        BY <1>2 DEF Crash, IInv, RowInv
    <1>4. PoolInv'
        BY FS_EmptySet, TokenIssueAssumption DEF Crash, PoolInv
    <1>5. QED
        BY <1>1, <1>3, <1>4 DEF IInv

\* The invariant is inductive.
LEMMA Inductive == IInv /\ [Next]_vars => IInv'
    <1>1. CASE UNCHANGED vars
        BY <1>1 DEF vars, tableVars, IInv, FlowInv, RowInv, PoolInv, Serving
    <1>2. CASE Next
        BY <1>2, StepOutside, StepConnect, StepUpsert, StepOver, StepFailed, StepCrash
        DEF Next, Progress, Broken
    <1>3. QED
        BY <1>1, <1>2

\* The inductive invariant holds in every state.
THEOREM InvariantHolds == Spec => []IInv
    BY InitInv, Inductive, PTL DEF Spec

-----------------------------------------------------------------------------
(* What follows from the invariant.                                        *)

\* The variables of the endpoint stay within their types (TypeOK): in particular the
\* pool never lends more clients than it has.
THEOREM TypesHold == Spec => []TypeOK
    <1>1. IInv => TypeOK
        BY Statuses DEF IInv, FlowInv, RowInv, PoolInv, TypeOK, Places
    <1>2. QED
        BY <1>1, InvariantHolds, PTL

\* However a request ends, no client of the pool and no row stays behind
\* (NothingLeaks).
THEOREM LeavesNothing == Spec => []NothingLeaks
    <1>1. IInv => NothingLeaks
        BY TokenIssueAssumption DEF IInv, FlowInv, RowInv, PoolInv, Serving, NothingLeaks
    <1>2. QED
        BY <1>1, InvariantHolds, PTL

\* No strategy knows the empty token: it is not wrapped, and neither list of PATs keeps
\* it.
LEMMA NothingIsNoPat ==
    ASSUME NEW q \in Request, TokenOf(q) = NoToken
    PROVE  By[q] \in {"api", "none"}
    <1>1. ~IsClusterPat(Config(q), NoToken) /\ ~IsStaticPat(Config(q), NoToken)
        BY DEF IsClusterPat, IsStaticPat, StaticPats, HasPat, Kept
    <1>2. QED
        BY <1>1, CredentialsAssumption DEF By, Strategy

\* Who presents a user's token under another name, or no token at all, gets no token,
\* and no row is written for it (ImpostorsGetNothing).
THEOREM NoImpostors == Spec => []ImpostorsGetNothing
    <1>1. \A q \in Entitled : \A name \in {PresentedIdentity(Asked[q].header), Asked[q].account} :
             name # NoName => name \in NamesOf[Subject(q)]
        BY DEF Entitled, Identifies, IdentityMatches
    <1>2. \A q \in Entitled : Subject(q) # NoUser
        BY DEF Entitled
    <1>3. IInv => ImpostorsGetNothing
        BY <1>1, <1>2, NothingIsNoPat DEF IInv, FlowInv, ImpostorsGetNothing
    <1>4. QED
        BY <1>3, InvariantHolds, PTL

\* A PAT in force for a cluster is recognised as one.
LEMMA PatsAreKnown ==
    ASSUME NEW q \in Request, NEW id \in ClusterId, NEW t \in PatsInForce(Config(q), id)
    PROVE  IsClusterPat(Config(q), t)
    <1> DEFINE list == Config(q).clusters
    <1> DEFINE own == {n \in DOMAIN list : Kept(list[n]) /\ list[n].id = id}
    <1>1. PICK n \in own : list[n].token = t /\ \A m \in own : m =< n
        BY DEF PatsInForce
    <1>2. Len(list) \in Nat /\ DOMAIN list = 1 .. Len(list)
        BY TokenIssueAssumption
    <1>3. \A m \in n + 1 .. Len(list) : Kept(list[m]) => list[m].id # id
        BY <1>1, <1>2
    <1>4. HasPat(Config(q), id, t)
        BY <1>1, <1>3 DEF HasPat
    <1>5. QED
        BY <1>4 DEF IsClusterPat

\* The validation service is sent no wrapped credentials, no static PAT and no PAT of
\* a cluster (OwnSecretsStay).
THEOREM SecretsStay == Spec => []OwnSecretsStay
    <1>1. ASSUME NEW q \in Request, By[q] = "api"
          PROVE  /\ TokenOf(q) \notin Wrapped \cup StaticPats(Config(q))
                 /\ ~IsClusterPat(Config(q), TokenOf(q))
        BY <1>1 DEF By, Strategy, IsStaticPat
    <1>2. IInv => OwnSecretsStay
        BY <1>1, PatsAreKnown DEF IInv, FlowInv, OwnSecretsStay
    <1>3. QED
        BY <1>2, InvariantHolds, PTL

\* The PAT of a cluster, as the code looks it up, is one that is in force for it.
LEMMA PatsAreInForce ==
    ASSUME NEW q \in Request, NEW id \in ClusterId, NEW t, HasPat(Config(q), id, t)
    PROVE  t \in PatsInForce(Config(q), id)
    <1> DEFINE list == Config(q).clusters
    <1> DEFINE own == {n \in DOMAIN list : Kept(list[n]) /\ list[n].id = id}
    <1>1. PICK n \in DOMAIN list :
             /\ Kept(list[n]) /\ list[n].id = id /\ list[n].token = t
             /\ \A m \in n + 1 .. Len(list) : Kept(list[m]) => list[m].id # id
        BY DEF HasPat
    <1>2. Len(list) \in Nat /\ DOMAIN list = 1 .. Len(list)
        BY TokenIssueAssumption
    <1>3. n \in own /\ \A m \in own : m =< n
        BY <1>1, <1>2
    <1>4. QED
        BY <1>1, <1>3 DEF PatsInForce

\* A set of numbers that is not empty has a least element.
LEMMA Least ==
    ASSUME NEW S, S \subseteq Nat, S # {}
    PROVE  \E n \in S : \A m \in S : n =< m
    <1>1. PICK n \in S : \A m \in S : <<m, n>> \notin OpToRel(<, Nat)
        BY NatLessThanWellFounded, WFMin, Zenon
    <1>2. OpToRel(<, Nat) = {ss \in Nat \X Nat : ss[1] < ss[2]}
        BY DEF OpToRel
    <1>3. ASSUME NEW m \in S
          PROVE  n =< m
        <2>1. <<m, n>> \in Nat \X Nat /\ ~(m < n)
            BY <1>1, <1>2
        <2>2. QED
            BY <2>1
    <1>4. QED
        BY <1>3

\* The cluster that the code finds for a token has the token as its PAT in force.
LEMMA ClusterIsFound ==
    ASSUME NEW q \in Request, IsClusterPat(Config(q), TokenOf(q))
    PROVE  /\ ClusterOf(Config(q), TokenOf(q)) \in ClusterId
           /\ TokenOf(q) \in PatsInForce(Config(q), ClusterOf(Config(q), TokenOf(q)))
    <1> DEFINE list == Config(q).clusters
    <1> DEFINE holders == {n \in DOMAIN list : /\ Kept(list[n])
                                               /\ HasPat(Config(q), list[n].id, TokenOf(q))}
    <1>1. Len(list) \in Nat /\ DOMAIN list = 1 .. Len(list)
        BY TokenIssueAssumption
    <1>2. holders # {} /\ holders \subseteq Nat
        BY <1>1 DEF IsClusterPat, HasPat
    <1>3. PICK n \in holders : \A m \in holders : n =< m
        BY <1>2, Least
    <1>4. PICK k \in holders : ClusterOf(Config(q), TokenOf(q)) = list[k].id
        BY <1>3 DEF ClusterOf
    <1>5. list[k].id \in ClusterId /\ HasPat(Config(q), list[k].id, TokenOf(q))
        BY DEF Kept
    <1>6. QED
        BY <1>4, <1>5, PatsAreInForce

\* A cluster's token writes under cluster/<its id> only, and reaches nothing of another
\* cluster, for any scope and any list of PATs (ClustersStayHome).
THEOREM StayHome == Spec => []ClustersStayHome
    <1>1. ASSUME NEW q \in Request, By[q] = "cluster-pat", Issued(q).status = 200,
                 NEW g \in Issued(q).access
          PROVE  LET id == ClusterOf(Config(q), TokenOf(q)) IN
                 Own(id, g.name) \/ (SharedPlace(g.name) /\ g.actions \subseteq {"pull"})
        <2>1. PICK n \in Resources(Scope(q)) : g = Granted(q, n) /\ MayUse(q, n)
            BY <1>1 DEF Issued, Answer, Refusal
        <2>2. QED
            BY <1>1, <2>1 DEF Granted, MayUse, ClusterMayUse, ClusterActions
    <1>2. ASSUME NEW q \in Request, By[q] = "cluster-pat"
          PROVE  IsClusterPat(Config(q), TokenOf(q))
        BY <1>2 DEF By, Strategy
    <1>3. ASSUME IInv, NEW q \in Request, answer[q].status = 200
          PROVE  answer[q] = Issued(q)
        BY <1>3, Statuses DEF IInv, FlowInv
    <1>4. IInv => ClustersStayHome
        BY <1>1, <1>2, <1>3, ClusterIsFound DEF ClustersStayHome
    <1>5. QED
        BY <1>4, InvariantHolds, PTL

-----------------------------------------------------------------------------
(* The refinement.                                                         *)

\* A step that takes effect settles its claim; no other step shows.
LEMMA LedgerStep == IInv /\ [Next]_vars => [Ledger!Next]_<<owner, settled>>
    <1> SUFFICES ASSUME IInv, [Next]_vars PROVE [Ledger!Next]_<<owner, settled>>
        OBVIOUS
    <1>1. ASSUME NEW q \in Request, Serving(q), done[q] = Statements[q], Committed(q)
          PROVE  Ledger!Next
        <2>1. q \in Entitled /\ q \notin settled
            BY <1>1 DEF IInv, FlowInv, Serving
        <2>2. \A r \in Row : lock[r] = q <=> r \in Rows[q]
            BY <1>1, FullLocks
        <2>3. \A r \in Row : lock[r] = q => pending[r] = Subject(q)
            BY <2>1, TokenIssueAssumption, EntitledFacts DEF IInv, RowInv
        <2>4. owner' = [r \in Row |-> IF r \in Rows[q] THEN Subject(q) ELSE owner[r]]
            BY <1>1, <2>2, <2>3 DEF Committed
        <2>5. Ledger!Settle(q)
            BY <1>1, <2>1, <2>4 DEF Ledger!Settle, Committed
        <2>6. QED
            BY <2>1, <2>5 DEF Ledger!Next
    <1>2. ASSUME NEW q \in Request, Commit(q) \/ ConnectionLost(q)
          PROVE  [Ledger!Next]_<<owner, settled>>
        BY <1>1, <1>2 DEF Commit, ConnectionLost, Serving
    <1>3. ASSUME NEW q \in Request,
                 Receive(q) \/ Unwrapped(q) \/ Validated(q) \/ ConnectFails(q) \/ Connect(q)
                 \/ Upsert(q) \/ Deadlock(q) \/ SqlError(q) \/ Rollback(q)
          PROVE  UNCHANGED <<owner, settled>>
        BY <1>3 DEF Receive, Unwrapped, Validated, ConnectFails, Connect, Upsert, Written,
                    Deadlock, SqlError, Failed, Rollback, tableVars
    <1>4. CASE Crash \/ UNCHANGED vars
        BY <1>4 DEF Crash, vars, tableVars
    <1>5. QED
        BY <1>2, <1>3, <1>4 DEF Next, Progress, Broken

\* The token endpoint implements the ledger of owners (ImplementsLedger): the rows of
\* a request change hands together, once, and only for requests that are entitled.
THEOREM Refinement == Spec => ImplementsLedger
    <1>1. Init => Ledger!Init
        BY DEF Init, Ledger!Init
    <1>2. QED
        BY <1>1, LedgerStep, InvariantHolds, PTL DEF Spec, ImplementsLedger, Ledger!Spec
=============================================================================
