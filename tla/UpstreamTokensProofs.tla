------------------------ MODULE UpstreamTokensProofs ------------------------
(***************************************************************************)
(* Whoever is served is given what it means, and tokens fit and age out,   *)
(* proved for any number of requests, any names, and any faults.           *)
(***************************************************************************)
EXTENDS UpstreamTokens, SequenceTheorems, TLAPS

-----------------------------------------------------------------------------
(* Paths.                                                                  *)

\* What can be asked is typed.
LEMMA AsksAreTyped ==
    ASSUME NEW a \in Asks
    PROVE  /\ a.name \in Seq(STRING) /\ Len(a.name) \in Nat \ {0}
           /\ a.resource \in STRING /\ a.reference \in STRING
<1>1. a.name \in Seq(STRING) /\ a.name # <<>>
    BY UpstreamTokensAssumption
<1>2. Len(a.name) \in Nat \ {0}
    BY <1>1, EmptySeq
<1> QED BY <1>1, <1>2, UpstreamTokensAssumption

\* The bounds are numbers.
LEMMA BoundsAreTyped ==
    /\ Workloads \subseteq [Request -> Asks]
    /\ Ttl \in Nat \ {0} /\ Patience \in Nat /\ MaxTime \in Nat /\ MaxFaults \in Nat
    BY UpstreamTokensAssumption

\* A path is the name, the resource and the reference.
LEMMA PathIsTyped ==
    ASSUME NEW a \in Asks
    PROVE  /\ Path(a) \in Seq(STRING) /\ Len(Path(a)) = Len(a.name) + 2
           /\ \A i \in 1 .. Len(a.name) : Path(a)[i] = a.name[i]
           /\ Path(a)[Len(a.name) + 1] = a.resource
           /\ Path(a)[Len(a.name) + 2] = a.reference
<1> DEFINE tail == <<a.resource, a.reference>>
<1>1. tail \in Seq(STRING) /\ Len(tail) = 2 /\ tail[1] = a.resource /\ tail[2] = a.reference
    BY AsksAreTyped
<1>2. /\ a.name \o tail \in Seq(STRING) /\ Len(a.name \o tail) = Len(a.name) + Len(tail)
      /\ \A i \in 1 .. Len(a.name) + Len(tail) : (a.name \o tail)[i] =
              IF i <= Len(a.name) THEN a.name[i] ELSE tail[i - Len(a.name)]
    BY <1>1, AsksAreTyped, ConcatProperties
<1> HIDE DEF tail
<1>3. Path(a) = a.name \o tail
    BY DEF Path, tail
<1> QED BY <1>1, <1>2, <1>3, AsksAreTyped

\* A path that splits does so at a marker with something before and behind it.
LEMMA SplitIsLast ==
    ASSUME NEW a \in Asks, Splits(Path(a))
    PROVE  /\ Split(Path(a)) \in 2 .. Len(a.name) + 1
           /\ Path(a)[Split(Path(a))] = Resource(Path(a))
<1>1. \E n \in DOMAIN Path(a) : Last(n, Path(a))
    BY DEF Splits
<1>2. Last(Split(Path(a)), Path(a))
    BY <1>1 DEF Split
<1>3. Split(Path(a)) \in Places(Resource(Path(a)), Path(a))
    BY <1>2 DEF Last, Found
<1> QED BY <1>3, PathIsTyped, AsksAreTyped DEF Places

\* Whoever splits a path right before its last segment has what the client means.
LEMMA SplitAtEndIsMeant ==
    ASSUME NEW a \in Asks, Splits(Path(a)), Split(Path(a)) = Len(a.name) + 1
    PROVE  Target(a) = Meant(a)
<1> DEFINE n == Split(Path(a))
           len == Len(a.name)
<1>1. n \in 2 .. len + 1 /\ len \in Nat /\ Len(Path(a)) = len + 2
    BY SplitIsLast, AsksAreTyped, PathIsTyped
<1>2. \A i \in 1 .. len + 2 : Path(a)[i] \in STRING
    BY <1>1, PathIsTyped
<1>3. n = len + 1
    OBVIOUS
<1>4. Reference(Path(a)) = <<a.reference>>
  <2> DEFINE sub == SubSeq(Path(a), len + 2, len + 2)
  <2>1. \A i \in len + 2 .. len + 2 : Path(a)[i] \in STRING
      BY <1>1, <1>2
  <2>2. sub \in Seq(STRING) /\ Len(sub) = 1 /\ sub[1] = Path(a)[len + 2]
      BY <2>1, <1>1, SubSeqProperties
  <2> HIDE DEF sub
  <2>3. sub = <<a.reference>>
      BY <2>2, PathIsTyped
  <2> QED BY <2>3, <1>1, <1>3 DEF Reference, sub
<1>5. Name(a) = a.name
  <2> DEFINE sub == SubSeq(Path(a), 1, len)
  <2>1. \A i \in 1 .. len : Path(a)[i] \in STRING
      BY <1>1, <1>2
  <2>2. sub \in Seq(STRING) /\ Len(sub) = len /\ \A i \in 1 .. len : sub[i] = Path(a)[i]
      BY <2>1, <1>1, SubSeqProperties
  <2> HIDE DEF sub
  <2>3. \A i \in 1 .. len : sub[i] = a.name[i]
      BY <2>2, PathIsTyped
  <2>4. sub = a.name
      BY <2>2, <2>3, AsksAreTyped
  <2> QED BY <2>4, <1>3 DEF Name, NameOf, sub
<1>6. Resource(Path(a)) = a.resource
    BY <1>1, <1>3, SplitIsLast, PathIsTyped
<1> QED BY <1>4, <1>5, <1>6 DEF Target, Meant

\* A reference of one segment stands at the end.
LEMMA OneSegmentIsMeant ==
    ASSUME NEW a \in Asks, Splits(Path(a)), Exists(Target(a))
    PROVE  Target(a) = Meant(a)
<1> DEFINE n == Split(Path(a))
           len == Len(a.name)
<1>1. n \in 2 .. len + 1 /\ len \in Nat /\ Len(Path(a)) = len + 2
    BY SplitIsLast, AsksAreTyped, PathIsTyped
<1>2. \A i \in n + 1 .. len + 2 : Path(a)[i] \in STRING
    BY <1>1, PathIsTyped
<1>3. Len(SubSeq(Path(a), n + 1, len + 2)) = len + 2 - n
    BY <1>1, <1>2, SubSeqProperties
<1>4. Reference(Path(a)) = SubSeq(Path(a), n + 1, len + 2)
    BY <1>1 DEF Reference
<1>5. len + 2 - n = 1
    BY <1>3, <1>4 DEF Exists, Target
<1>6. n = len + 1
    BY <1>1, <1>5
<1> QED BY <1>6, SplitAtEndIsMeant

\* A marker that the client means is the last one of its path, unless "manifests" is
\* found in front of a blob.
LEMMA MarkersAreMeant ==
    ASSUME NEW a \in Asks, Splits(Path(a)),
           \/ a.resource = "manifests"
           \/ a.resource = "blobs" /\ Places("manifests", Path(a)) = {}
    PROVE  Target(a) = Meant(a)
<1> DEFINE len == Len(a.name)
<1>1. /\ len \in Nat \ {0} /\ Len(Path(a)) = len + 2
      /\ Path(a)[len + 1] = a.resource
    BY AsksAreTyped, PathIsTyped
<1>2. len + 1 \in Places(a.resource, Path(a))
    BY <1>1 DEF Places
<1>3. Resource(Path(a)) = a.resource
    BY <1>2 DEF Resource
<1>4. Last(Split(Path(a)), Path(a))
    BY DEF Splits, Split
<1>5. Split(Path(a)) \in 2 .. len + 1 /\ len + 1 =< Split(Path(a))
    BY <1>2, <1>3, <1>4, SplitIsLast DEF Last, Found
<1>6. Split(Path(a)) = len + 1
    BY <1>1, <1>5
<1> QED BY <1>6, SplitAtEndIsMeant

\* The provers do not know that a literal is a string.
Names == STRING \cup {"mirror", "library"}

\* What is mirrored splits, and the name of its repository is typed.
LEMMA MirroredIsTyped ==
    ASSUME NEW a \in Mirrored
    PROVE  a \in Asks /\ Splits(Path(a)) /\ Repository(Name(a)) \in Seq(Names)
<1>1. a \in Asks /\ Splits(Path(a)) /\ ~Unknown(Name(a))
    BY DEF Mirrored, Resolves
<1> DEFINE n == Split(Path(a))
           name == Name(a)
<1>2. n \in 2 .. Len(a.name) + 1 /\ Len(a.name) \in Nat
    BY <1>1, SplitIsLast, AsksAreTyped
<1>3. name \in Seq(STRING)
  <2>1. \A i \in 1 .. n - 1 : Path(a)[i] \in STRING
      BY <1>1, <1>2, PathIsTyped
  <2> QED BY <2>1, <1>2, SubSeqProperties DEF Name, NameOf
<1>4. Segments(name) \in Seq(STRING)
  <2> HIDE DEF name
  <2>1. \A i \in 3 .. Len(name) : name[i] \in STRING
      BY <1>3
  <2>2. SubSeq(name, 3, Len(name)) \in Seq(STRING)
      BY <1>3, <2>1, SubSeqProperties
  <2> QED BY <1>3, <2>2 DEF Segments
<1> HIDE DEF name
<1>5. Segments(name) \in Seq(Names) /\ <<"library">> \in Seq(Names)
    BY <1>4, SeqMonotonic DEF Names
<1>6. <<"library">> \o Segments(name) \in Seq(Names)
    BY <1>5, ConcatProperties
<1> QED BY <1>1, <1>5, <1>6 DEF Repository, name

\* A place in the writer has its upstream and its repository in it.
LEMMA PlacesDiffer ==
    ASSUME NEW a \in Mirrored, NEW b \in Mirrored, Place(Target(a)) = Place(Target(b))
    PROVE  Target(a) = Target(b)
<1> DEFINE s == Target(a).slug      r == Target(a).repository
           t == Target(b).slug      u == Target(b).repository
<1>1. r \in Seq(Names) /\ u \in Seq(Names)
    BY MirroredIsTyped DEF Target
<1>2. /\ Storage(s, r) = Storage(t, u)
      /\ Target(a).resource = Target(b).resource
      /\ Target(a).reference = Target(b).reference
    BY DEF Place
<1> HIDE DEF s, r, t, u
<1> DEFINE S == Names \cup {s, t}
<1>3. /\ <<"mirror", s>> \in Seq(S) /\ <<"mirror", t>> \in Seq(S)
      /\ r \in Seq(S) /\ u \in Seq(S)
  <2>1. "mirror" \in S /\ s \in S /\ t \in S /\ Names \subseteq S
      BY DEF Names
  <2> HIDE DEF S
  <2> QED BY <1>1, <2>1, SeqMonotonic
<1> HIDE DEF S
<1>4. s = t
  <2>1. (<<"mirror", s>> \o r)[2] = s
      BY <1>3, ConcatProperties
  <2>2. (<<"mirror", t>> \o u)[2] = t
      BY <1>3, ConcatProperties
  <2> QED BY <2>1, <2>2, <1>2 DEF Storage
<1>5. r = u
  <2>1. <<"mirror", s>> \o r = <<"mirror", s>> \o u
      BY <1>2, <1>4 DEF Storage
  <2> QED BY <2>1, <1>3, ConcatSimplifications
<1> QED BY <1>2, <1>4, <1>5 DEF Target, s, r, t, u

-----------------------------------------------------------------------------
(* Types.                                                                  *)

Busy(q) == pc[q] \in {"fetching", "storing", "calling"}

\* Only what resolves is fetched for.
BusyIsMirrored == \A q \in Request : Busy(q) => Accepted(q)

TypeInv == TypeOK /\ BusyIsMirrored

RequestStep(q) ==
    \/ Refuse(q) \/ ServeHit(q) \/ TakeToken(q) \/ Miss(q)
    \/ Mint(q) \/ Store(q) \/ FetchFails(q) \/ CallServed(q) \/ CallRefused(q)

\* The steps of the specification are those of its requests, and two of the world.
LEMMA NextSplit == Next => (\E q \in Request : RequestStep(q)) \/ Revoke \/ Tick
    BY DEF Next, RequestStep

\* The target of what is mirrored is the one of its path.
LEMMA GoalIsTarget ==
    ASSUME NEW q \in Request, Accepted(q)
    PROVE  /\ ask[q] \in Mirrored /\ Goal(q) = Target(ask[q])
           /\ Key(Goal(q)) \in Keys
           /\ Goal(q).slug \in {Target(a).slug : a \in Mirrored}
           /\ Goal(q).repository \in {Target(a).repository : a \in Mirrored}
    BY DEF Accepted, Goal, Targets, Keys

\* A token that is minted is a token.
LEMMA MintedIsTyped ==
    ASSUME NEW q \in Request, Accepted(q), now \in Nat
    PROVE  Minted(Goal(q)) \in Tokens
    BY GoalIsTarget DEF Minted, Tokens

\* An answer keeps the types.
LEMMA AnsweredIsTyped ==
    ASSUME TypeOK, NEW q \in Request, NEW code \in {200, 400, 404, 502}, NEW content,
           Answered(q, code, content)
    PROVE  /\ pc' \in [Request -> {"new", "fetching", "storing", "calling", "answered"}]
           /\ got' \in [Request -> Tokens \cup {NoToken}]
           /\ began' \in [Request -> Nat] /\ taken' \in [Request -> Nat]
           /\ status' \in [Request -> {0, 200, 400, 404, 502}]
           /\ DOMAIN served' = Request
           /\ \A p \in Request : p # q => pc'[p] = pc[p]
           /\ pc'[q] = "answered"
    BY DEF Answered, TypeOK

\* The steps of a request keep the types.
LEMMA TypeRequest ==
    ASSUME TypeInv, NEW q \in Request, RequestStep(q)
    PROVE  TypeInv'
<1> USE DEF TypeInv, BusyIsMirrored, Busy, Accepted
<1>0. MaxFaults \in Nat /\ MaxTime \in Nat /\ Ttl \in Nat
    BY BoundsAreTyped
<1>1. CASE Refuse(q) \/ ServeHit(q) \/ FetchFails(q) \/ CallRefused(q) \/ CallServed(q)
  <2>1. /\ \E code \in {200, 400, 404, 502} : \E content : Answered(q, code, content)
        /\ UNCHANGED <<ask, entries, voided, now>>
    <3>1. CASE Refuse(q)
        BY <3>1 DEF Refuse
    <3>2. CASE ServeHit(q)
        BY <3>2 DEF ServeHit
    <3>3. CASE FetchFails(q)
        BY <3>3 DEF FetchFails
    <3>4. CASE CallRefused(q)
        BY <3>4 DEF CallRefused
    <3>5. CASE CallServed(q)
        BY <3>5 DEF CallServed
    <3> QED BY <1>1, <3>1, <3>2, <3>3, <3>4, <3>5
  <2>2. faults' \in 0 .. MaxFaults
      BY <1>0, <1>1 DEF Refuse, ServeHit, FetchFails, CallRefused, CallServed, TypeOK
  <2>3. PICK code \in {200, 400, 404, 502} : \E content : Answered(q, code, content)
      BY <2>1
  <2>4. PICK content : Answered(q, code, content)
      BY <2>3
  <2>5. /\ pc' \in [Request -> {"new", "fetching", "storing", "calling", "answered"}]
        /\ got' \in [Request -> Tokens \cup {NoToken}]
        /\ began' \in [Request -> Nat] /\ taken' \in [Request -> Nat]
        /\ status' \in [Request -> {0, 200, 400, 404, 502}]
        /\ DOMAIN served' = Request
        /\ \A p \in Request : p # q => pc'[p] = pc[p]
        /\ pc'[q] = "answered"
      BY <2>4, AnsweredIsTyped
  <2> QED BY <2>1, <2>2, <2>5 DEF TypeOK
<1>2. CASE TakeToken(q)
  <2>1. CASE Anonymous(q)
      BY <2>1, <1>2 DEF TakeToken, TypeOK, AfterHit
  <2>2. CASE ~Anonymous(q)
    <3>1. entries[Key(Goal(q))].token \in Tokens
        BY <1>2, <2>2, GoalIsTarget DEF TakeToken, Live, TypeOK
    <3> QED BY <3>1, <1>2, <2>2 DEF TakeToken, TypeOK, AfterHit
  <2> QED BY <2>1, <2>2
<1>3. CASE Miss(q)
    BY <1>3 DEF Miss, TypeOK
<1>4. CASE Mint(q)
    BY <1>0, <1>4, MintedIsTyped DEF Mint, TypeOK
<1>5. CASE Store(q)
  <2>1. entries' \in [Keys -> [token : Tokens, expires : Nat] \cup {NoEntry}]
      BY <1>0, <1>5, GoalIsTarget DEF Store, Stores, TypeOK
  <2> QED BY <2>1, <1>5 DEF Store, TypeOK
<1> QED BY <1>1, <1>2, <1>3, <1>4, <1>5 DEF RequestStep

\* A step keeps the types.
LEMMA TypeStep == TypeInv /\ [Next]_vars => TypeInv'
<1> SUFFICES ASSUME TypeInv, [Next]_vars PROVE TypeInv'
    OBVIOUS
<1>1. CASE Revoke
    BY <1>1, BoundsAreTyped
    DEF Revoke, TypeInv, TypeOK, BusyIsMirrored, Busy, Accepted, requestVars
<1>2. CASE Tick
    BY <1>2, BoundsAreTyped
    DEF Tick, TypeInv, TypeOK, BusyIsMirrored, Busy, Accepted, requestVars
<1>3. CASE UNCHANGED vars
    BY <1>3 DEF TypeInv, TypeOK, BusyIsMirrored, Busy, Accepted, vars, requestVars
<1> QED BY <1>1, <1>2, <1>3, NextSplit, TypeRequest

\* The types hold in every reachable state, whatever the requests and the faults.
LEMMA TypeInvariant == Spec => []TypeInv
<1>1. Init => TypeInv
    BY BoundsAreTyped DEF Init, TypeInv, TypeOK, BusyIsMirrored, Busy, NoContent
<1>2. TypeInv /\ [Next]_vars => TypeInv'
    BY TypeStep
<1> QED BY <1>1, <1>2, PTL DEF Spec

\* TypeOK holds in every reachable state.
THEOREM TypesHold == Spec => []TypeOK
<1>1. TypeInv => TypeOK
    BY DEF TypeInv
<1> QED BY <1>1, TypeInvariant, PTL
-----------------------------------------------------------------------------
(* Tokens.                                                                 *)

Fits(token, key) == Key(token) = key

\* Whatever has come in or is stored was issued for the key that it is used under.
TokensBelong ==
    /\ \A q \in Request :
          /\ pc[q] \in {"new", "fetching"} => got[q] = NoToken
          /\ pc[q] \in {"storing", "calling"} /\ got[q] # NoToken =>
                Fits(got[q], Key(Goal(q)))
    /\ \A k \in Keys : entries[k] # NoEntry => Fits(entries[k].token, k)

\* How old a token is, from the fetch to the call.
TokensAreFresh ==
    /\ \A q \in Request :
          /\ pc[q] \in {"fetching", "storing"} =>
                began[q] =< now /\ now =< began[q] + Patience
          /\ pc[q] = "storing" /\ got[q] # NoToken => began[q] =< got[q].minted
    /\ \A k \in Keys : entries[k] # NoEntry =>
          entries[k].expires =< entries[k].token.minted + Ttl + Patience
    /\ TokensAgeOut

TokenInv == TypeInv /\ TokensBelong /\ TokensAreFresh

\* Who is answered is busy no more, and for the others nothing changes.
LEMMA AnsweredIsDone ==
    ASSUME TypeOK, NEW q \in Request, NEW code, NEW content, Answered(q, code, content)
    PROVE  /\ pc'[q] = "answered"
           /\ \A p \in Request \ {q} :
                 pc'[p] = pc[p] /\ got'[p] = got[p] /\ began'[p] = began[p]
                 /\ taken'[p] = taken[p] /\ served'[p] = served[p]
           /\ served'[q] = content
    BY DEF Answered, TypeOK

\* Steps that end a request answer it, and change nothing that tokens depend on.
LEMMA EndsAreAnswers ==
    ASSUME NEW q \in Request,
           Refuse(q) \/ ServeHit(q) \/ FetchFails(q) \/ CallRefused(q) \/ CallServed(q)
    PROVE  /\ \E code \in {200, 400, 404, 502} : \E content : Answered(q, code, content)
           /\ UNCHANGED <<ask, entries, voided, now>>
<1>1. CASE Refuse(q)
    BY <1>1 DEF Refuse
<1>2. CASE ServeHit(q)
    BY <1>2 DEF ServeHit
<1>3. CASE FetchFails(q)
    BY <1>3 DEF FetchFails
<1>4. CASE CallRefused(q)
    BY <1>4 DEF CallRefused
<1>5. CASE CallServed(q)
    BY <1>5 DEF CallServed
<1> QED BY <1>1, <1>2, <1>3, <1>4, <1>5

\* An entry has a token; a token is a record of the three fields.
LEMMA EntriesAreTyped ==
    ASSUME TypeOK, NEW k \in Keys, entries[k] # NoEntry
    PROVE  /\ entries[k].token \in Tokens /\ entries[k].token.minted \in Nat
           /\ entries[k].expires \in Nat
    BY DEF TypeOK, Tokens

\* The steps of a request keep what is known of the tokens.
LEMMA TokenRequest ==
    ASSUME TokenInv, NEW q \in Request, RequestStep(q)
    PROVE  (TokensBelong /\ TokensAreFresh)'
<1> USE DEF TokenInv, TypeInv, TokensBelong, TokensAreFresh, TokensAgeOut, Goal
<1>0. Ttl \in Nat \ {0} /\ Patience \in Nat /\ now \in Nat /\ now' = now /\ ask' = ask
    BY BoundsAreTyped DEF RequestStep, Refuse, ServeHit, TakeToken, Miss, Mint, Store,
       FetchFails, CallServed, CallRefused, TypeOK
<1>1. CASE Refuse(q) \/ ServeHit(q) \/ FetchFails(q) \/ CallRefused(q) \/ CallServed(q)
  <2>1. PICK code \in {200, 400, 404, 502} : \E content : Answered(q, code, content)
      BY <1>1, EndsAreAnswers
  <2>2. PICK content : Answered(q, code, content)
      BY <2>1
  <2>3. entries' = entries
      BY <1>1, EndsAreAnswers
  <2> QED BY <1>0, <2>2, <2>3, AnsweredIsDone
<1>2. CASE TakeToken(q)
  <2>1. entries' = entries /\ \A p \in Request \ {q} :
            pc'[p] = pc[p] /\ got'[p] = got[p] /\ began'[p] = began[p] /\ taken'[p] = taken[p]
      BY <1>2 DEF TakeToken, AfterHit, TypeOK
  <2>2. pc'[q] = "calling" /\ taken'[q] = now
      BY <1>2 DEF TakeToken, TypeOK
  <2>3. CASE Anonymous(q)
    <3>1. got'[q] = NoToken
        BY <1>2, <2>3 DEF TakeToken
    <3> QED BY <1>0, <2>1, <2>2, <3>1
  <2>4. CASE ~Anonymous(q)
    <3>1. /\ Key(Goal(q)) \in Keys /\ got'[q] = entries[Key(Goal(q))].token
          /\ entries[Key(Goal(q))] # NoEntry /\ now < entries[Key(Goal(q))].expires
        BY <1>2, <2>4, GoalIsTarget DEF TakeToken, Live, TypeOK
    <3>2. got'[q].minted \in Nat /\ entries[Key(Goal(q))].expires \in Nat
        BY <3>1, EntriesAreTyped
    <3> QED BY <1>0, <2>1, <2>2, <3>1, <3>2
  <2> QED BY <2>3, <2>4
<1>3. CASE Miss(q)
  <2>1. /\ pc[q] = "new" /\ pc'[q] = "fetching" /\ began'[q] = now
        /\ entries' = entries /\ got' = got /\ taken' = taken
        /\ \A p \in Request \ {q} : pc'[p] = pc[p] /\ began'[p] = began[p]
      BY <1>3 DEF Miss, TypeOK
  <2>2. now =< now + Patience
      BY <1>0
  <2> QED BY <1>0, <2>1, <2>2
<1>4. CASE Mint(q)
  <2>1. /\ pc'[q] = "storing" /\ entries' = entries /\ began' = began /\ taken' = taken
        /\ \A p \in Request \ {q} : pc'[p] = pc[p] /\ got'[p] = got[p]
        /\ got'[q] # NoToken => got'[q] = Minted(Goal(q))
      BY <1>4 DEF Mint, TypeOK
  <2>2. Key(Minted(Goal(q))) = Key(Goal(q)) /\ Minted(Goal(q)).minted = now
      BY DEF Minted, Key
  <2>3. began[q] =< now /\ now =< began[q] + Patience
      BY <1>4 DEF Mint
  <2> QED BY <1>0, <2>1, <2>2, <2>3 DEF Fits
<1>5. CASE Store(q)
  <2> DEFINE key == Key(Goal(q))
  <2>1. key \in Keys /\ Accepted(q)
      BY <1>5, GoalIsTarget DEF Store, BusyIsMirrored, Busy
  <2>2. /\ pc'[q] = "calling" /\ taken'[q] = now /\ got' = got /\ began' = began
        /\ \A p \in Request \ {q} : pc'[p] = pc[p] /\ taken'[p] = taken[p]
        /\ pc[q] = "storing"
      BY <1>5 DEF Store, TypeOK
  <2>3. /\ \A k \in Keys \ {key} : entries'[k] = entries[k]
        /\ got[q] = NoToken => entries' = entries
        /\ got[q] # NoToken =>
              entries'[key] = [token |-> got[q], expires |-> now + Ttl]
      BY <1>5, <2>1 DEF Store, Stores, TypeOK
  <2>4. got[q] # NoToken => got[q].minted \in Nat /\ now =< got[q].minted + Patience
    <3> SUFFICES ASSUME got[q] # NoToken
                 PROVE  got[q].minted \in Nat /\ now =< got[q].minted + Patience
        OBVIOUS
    <3>1. got[q] \in Tokens /\ began[q] \in Nat
        BY DEF TypeOK
    <3>2. got[q].minted \in Nat
        BY <3>1 DEF Tokens
    <3> QED BY <1>0, <2>2, <3>1, <3>2
  <2>5. TokensBelong'
    <3>1. \A k \in Keys : entries'[k] # NoEntry => Fits(entries'[k].token, k)
        BY <2>2, <2>3
    <3> QED BY <1>0, <2>2, <3>1
  <2>6. TokensAreFresh'
    <3>1. \A k \in Keys : entries'[k] # NoEntry =>
              entries'[k].expires =< entries'[k].token.minted + Ttl + Patience
      <4>1. got[q] # NoToken => now + Ttl =< got[q].minted + Ttl + Patience
          BY <1>0, <2>4
      <4> QED BY <2>3, <4>1
    <3>2. got[q] # NoToken => now < got[q].minted + Ttl + Patience
        BY <1>0, <2>4
    <3> QED BY <1>0, <2>2, <3>1, <3>2
  <2> QED BY <2>5, <2>6
<1> QED BY <1>1, <1>2, <1>3, <1>4, <1>5 DEF RequestStep

\* What is known of the tokens holds in every reachable state.
LEMMA TokenInvariant == Spec => []TokenInv
<1>1. Init => TokenInv
  <2> SUFFICES ASSUME Init PROVE TokenInv
      OBVIOUS
  <2>1. TypeInv
      BY BoundsAreTyped DEF Init, TypeInv, TypeOK, BusyIsMirrored, Busy, NoContent
  <2> QED BY <2>1 DEF Init, TokenInv, TokensBelong, TokensAreFresh, TokensAgeOut
<1>2. TokenInv /\ [Next]_vars => TokenInv'
  <2> SUFFICES ASSUME TokenInv, [Next]_vars PROVE TokenInv'
      OBVIOUS
  <2> USE DEF TokenInv
  <2>1. TypeInv'
      BY TypeStep
  <2>2. CASE Revoke
      BY <2>1, <2>2 DEF Revoke, requestVars, TokensBelong, TokensAreFresh, TokensAgeOut,
         Goal
  <2>3. CASE Tick
    <3>1. TokensBelong'
        BY <2>3 DEF Tick, requestVars, TokensBelong, Goal
    <3>2. \A q \in Request : pc[q] \in {"fetching", "storing"} =>
              began[q] =< now' /\ now' =< began[q] + Patience
      <4>1. now \in Nat /\ began \in [Request -> Nat] /\ Patience \in Nat /\ now' = now + 1
          BY <2>3, BoundsAreTyped DEF Tick, TypeInv, TypeOK
      <4> QED BY <2>3, <4>1 DEF Tick, TokensAreFresh
    <3> QED BY <2>1, <2>3, <3>1, <3>2 DEF Tick, requestVars, TokensAreFresh, TokensAgeOut
  <2>4. CASE UNCHANGED vars
      BY <2>1, <2>4 DEF vars, requestVars, TokensBelong, TokensAreFresh, TokensAgeOut, Goal
  <2> QED BY <2>1, <2>2, <2>3, <2>4, NextSplit, TokenRequest
<1> QED BY <1>1, <1>2, PTL DEF Spec

\* A token is presented only where it was issued for, whoever fetched it.
THEOREM TokensAreForTheirKeys == Spec => []TokensFit
<1>1. TokenInv => TokensFit
    BY DEF TokenInv, TokensBelong, Fits, Key, TokensFit
<1> QED BY <1>1, TokenInvariant, PTL

\* A token that is taken is younger than an entry and a fetch can last together.
THEOREM OldTokensGo == Spec => []TokensAgeOut
<1>1. TokenInv => TokensAgeOut
    BY DEF TokenInv, TokensAreFresh
<1> QED BY <1>1, TokenInvariant, PTL
-----------------------------------------------------------------------------
(* Content.                                                                *)

\* What is kept is kept where it belongs, and exists at its upstream.
KeptInPlace ==
    \A h \in kept : \E a \in Mirrored :
       h = <<Place(Target(a)), Target(a)>> /\ Exists(Target(a))

\* What is given exists, and is the content that the request ends at.
GivenIsGoal ==
    \A q \in Request :
       served[q] # NoContent =>
          Accepted(q) /\ Exists(Goal(q)) /\ served[q] = {Goal(q)}

ContentInv == TypeInv /\ KeptInPlace /\ GivenIsGoal

\* A hit finds the content of the request, whoever it was kept for.
LEMMA HitsAreGoals ==
    ASSUME KeptInPlace, NEW q \in Request, ServeHit(q)
    PROVE  Accepted(q) /\ Exists(Goal(q)) /\ Answered(q, 200, {Goal(q)}) /\ kept' = kept
<1>1. /\ Accepted(q) /\ kept' = kept
      /\ \E content \in {k[2] : k \in {h \in kept : h[1] = Place(Goal(q))}} :
            Answered(q, 200, {content})
    BY DEF ServeHit
<1>2. PICK h \in kept : h[1] = Place(Goal(q)) /\ Answered(q, 200, {h[2]})
    BY <1>1
<1>3. PICK a \in Mirrored : h = <<Place(Target(a)), Target(a)>> /\ Exists(Target(a))
    BY DEF KeptInPlace
<1>4. Place(Target(a)) = Place(Target(ask[q])) /\ h[2] = Target(a)
    BY <1>1, <1>2, <1>3, GoalIsTarget
<1>5. Target(a) = Target(ask[q])
    BY <1>1, <1>4, GoalIsTarget, PlacesDiffer
<1> QED BY <1>1, <1>2, <1>3, <1>4, <1>5, GoalIsTarget

\* The steps of a request keep what is known of the content.
LEMMA ContentRequest ==
    ASSUME ContentInv, NEW q \in Request, RequestStep(q)
    PROVE  (KeptInPlace /\ GivenIsGoal)'
<1> USE DEF ContentInv, TypeInv
<1>0. ask' = ask
    BY DEF RequestStep, Refuse, ServeHit, TakeToken, Miss, Mint, Store,
       FetchFails, CallServed, CallRefused
<1>1. CASE ServeHit(q)
  <2>1. Accepted(q) /\ Exists(Goal(q)) /\ Answered(q, 200, {Goal(q)}) /\ kept' = kept
      BY <1>1, HitsAreGoals
  <2>2. served'[q] = {Goal(q)} /\ \A p \in Request \ {q} : served'[p] = served[p]
      BY <2>1, AnsweredIsDone
  <2> QED BY <1>0, <2>1, <2>2 DEF KeptInPlace, GivenIsGoal, Goal, Accepted
<1>2. CASE CallServed(q)
  <2>1. /\ Accepted(q) /\ Exists(Goal(q)) /\ Answered(q, 200, {Goal(q)})
        /\ kept' = kept \/ kept' = kept \cup {<<Place(Goal(q)), Goal(q)>>}
      BY <1>2 DEF CallServed, BusyIsMirrored, Busy
  <2>2. KeptInPlace'
      BY <2>1, GoalIsTarget DEF KeptInPlace
  <2> QED BY <1>0, <2>1, <2>2, AnsweredIsDone DEF GivenIsGoal, Goal, Accepted
<1>3. CASE Refuse(q) \/ FetchFails(q) \/ CallRefused(q)
  <2>1. kept' = kept /\ \E code \in {400, 404, 502} : Answered(q, code, NoContent)
      BY <1>3 DEF Refuse, FetchFails, CallRefused
  <2> QED BY <1>0, <2>1, AnsweredIsDone DEF KeptInPlace, GivenIsGoal, Goal, Accepted
<1>4. CASE TakeToken(q) \/ Miss(q) \/ Mint(q) \/ Store(q)
  <2>1. kept' = kept /\ served' = served
      BY <1>4 DEF TakeToken, Miss, Mint, Store
  <2> QED BY <1>0, <2>1 DEF KeptInPlace, GivenIsGoal, Goal, Accepted
<1> QED BY <1>1, <1>2, <1>3, <1>4 DEF RequestStep

\* What is known of the content holds in every reachable state.
LEMMA ContentInvariant == Spec => []ContentInv
<1>1. Init => ContentInv
  <2> SUFFICES ASSUME Init PROVE ContentInv
      OBVIOUS
  <2>1. TypeInv
      BY BoundsAreTyped DEF Init, TypeInv, TypeOK, BusyIsMirrored, Busy, NoContent
  <2> QED BY <2>1 DEF Init, ContentInv, KeptInPlace, GivenIsGoal
<1>2. ContentInv /\ [Next]_vars => ContentInv'
  <2> SUFFICES ASSUME ContentInv, [Next]_vars PROVE ContentInv'
      OBVIOUS
  <2> USE DEF ContentInv
  <2>1. TypeInv'
      BY TypeStep
  <2>2. CASE Revoke \/ Tick \/ UNCHANGED vars
    <3>1. kept' = kept /\ served' = served /\ ask' = ask
        BY <2>2 DEF Revoke, Tick, vars, requestVars
    <3> QED BY <2>1, <3>1 DEF KeptInPlace, GivenIsGoal, Goal, Accepted
  <2> QED BY <2>1, <2>2, NextSplit, ContentRequest
<1> QED BY <1>1, <1>2, PTL DEF Spec

\* Whoever is served is given the content that it means, of the upstream and the
\* repository that it means, whoever it was kept for.
THEOREM NobodyIsGivenAnother == Spec => []ServedAsMeant
<1>1. ContentInv => ServedAsMeant
  <2> SUFFICES ASSUME ContentInv, NEW q \in Request, served[q] # NoContent
               PROVE  served[q] \subseteq {Meant(ask[q])}
      BY DEF ServedAsMeant, NoContent
  <2>1. Accepted(q) /\ Exists(Goal(q)) /\ served[q] = {Goal(q)}
      BY DEF ContentInv, GivenIsGoal
  <2>2. Goal(q) = Meant(ask[q])
      BY <2>1, GoalIsTarget, MirroredIsTyped, OneSegmentIsMeant
  <2> QED BY <2>1, <2>2
<1> QED BY <1>1, ContentInvariant, PTL

\* A repository may have the markers among its segments: what is asked of an upstream
\* is what the client means, unless "manifests" is in front of a blob.
THEOREM NamesSurvive == Spec => []AskedAsMeant
<1>1. TypeInv => AskedAsMeant
    BY GoalIsTarget, MirroredIsTyped, MarkersAreMeant
    DEF TypeInv, BusyIsMirrored, Busy, AskedAsMeant
<1> QED BY <1>1, TypeInvariant, PTL

\* The token service asks for proofs where the mirror fetches.
LEMMA RoutesAgree ==
    ASSUME NEW name, NEW route \in ProofRoute(name)
    PROVE  /\ route.slug = SlugOf(name)
           /\ \/ route.slug = "docker" /\ Len(route.repository) = 1
              \/ route.repository = Repository(name)
<1>1. CASE Prefixed(name)
  <2>1. route = [slug |-> name[2], repository |-> SubSeq(name, 3, Len(name))]
      BY <1>1 DEF ProofRoute, AtHub, Prefixed
  <2>2. SlugOf(name) = name[2] /\ name[2] # "docker"
      BY <1>1 DEF Prefixed, SlugOf
  <2> QED BY <1>1, <2>1, <2>2 DEF Prefixed, Repository, Segments
<1>2. CASE AtHub(name)
  <2>1. route = [slug |-> "docker", repository |-> name] /\ ~Explicit(name)
      BY <1>2 DEF ProofRoute, AtHub, Prefixed
  <2> QED BY <2>1 DEF SlugOf, Repository, Segments
<1> QED BY <1>1, <1>2 DEF ProofRoute

\* Whatever an upstream is asked for, the token service would have a proof of it from
\* that upstream.
THEOREM ProofsGoWhereFetchesGo == Spec => []ProofsAreOfTheGoal
<1>1. TypeInv => ProofsAreOfTheGoal
  <2> SUFFICES ASSUME TypeInv, NEW q \in Request, pc[q] = "calling",
                      NEW route \in ProofRoute(Name(ask[q]))
               PROVE  /\ route.slug = Goal(q).slug
                      /\ \/ route.slug = "docker" /\ Len(route.repository) = 1
                         \/ route.repository = Goal(q).repository
      BY DEF ProofsAreOfTheGoal
  <2>1. Goal(q) = Target(ask[q])
      BY GoalIsTarget DEF TypeInv, BusyIsMirrored, Busy
  <2> QED BY <2>1, RoutesAgree DEF Target
<1> QED BY <1>1, TypeInvariant, PTL
=============================================================================
