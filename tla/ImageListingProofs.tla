------------------------- MODULE ImageListingProofs -------------------------
(***************************************************************************)
(* What a client that walks the images by offset is given, for any number  *)
(* of images, repositories and users, any page size, and any changes of    *)
(* the table between two pages.                                            *)
(***************************************************************************)
EXTENDS ImageListing, FiniteSetTheorems, TLAPS

\* The rows in front of i, and where the next page starts.
Ahead(i) == {j \in List : pushedAt[j] > pushedAt[i]}
Reached == Offset(offset)

Distinct == \A i, j \in List : i # j => pushedAt[i] # pushedAt[j]

TypeInv ==
    /\ images \subseteq Image
    /\ pushedAt \in [Image -> Nat]
    /\ now \in Nat
    /\ caller \in Caller
    /\ offset \in Nat \cup {NaN}

\* A row that stays as it is has been given, or is not reached yet: what was in
\* front of it when it was passed over is there still.
StableInv ==
    ~fell /\ ~tied =>
       \A i \in first \ touched :
          /\ i \in List
          /\ i \in seen \/ (phase # "listed" /\ Reached =< Cardinality(Ahead(i)))

\* Of a list at rest, what was given is what there is in front of the next page.
ExactInv ==
    touched = {} /\ ~fell /\ ~grew /\ ~tied =>
       /\ seen = {i \in List : Cardinality(Ahead(i)) < Reached}
       /\ Reached =< Cardinality(List)
       /\ twice = {}
       /\ phase = "listed" => seen = List
       /\ phase = "walking" /\ offset # NaN => seen # List

ListingInv == TypeInv /\ StableInv /\ ExactInv

-----------------------------------------------------------------------------
(* The parameters.                                                         *)

\* Whatever a client asks for, a page has a natural number of rows at most.
LEMMA LimitIsNat ==
    ASSUME NEW c \in Caller
    PROVE  Limit(Asks[c]) \in Nat
<1> DEFINE raw == Asks[c]
<1>1. /\ MinLimit \in Nat /\ MaxLimit \in Nat /\ DefaultLimit \in Nat
      /\ raw = NaN \/ raw \in Int
    BY ImageListingAssumption
<1>2. CASE raw = NaN \/ raw =< 0
    BY <1>1, <1>2 DEF Limit
<1>3. CASE raw \in Int /\ ~(raw = NaN \/ raw =< 0)
    <2>1. ASSUME NEW a \in Nat, NEW b \in Nat
          PROVE  Max({a, b}) \in Nat /\ Min({a, b}) \in Nat
        <3>1. \E x \in {a, b} : \A y \in {a, b} : x >= y
            OBVIOUS
        <3>2. \E x \in {a, b} : \A y \in {a, b} : x =< y
            OBVIOUS
        <3>3. QED
            BY <3>1, <3>2 DEF Max, Min
    <2>2. Min({MaxLimit, raw}) \in Nat
        BY <1>1, <1>3, <2>1
    <2>3. Max({MinLimit, Min({MaxLimit, raw})}) \in Nat
        BY <1>1, <2>1, <2>2
    <2>4. QED
        BY <1>3, <2>3 DEF Limit
<1>4. QED
    BY <1>1, <1>2, <1>3

\* The next page starts at a natural number.
LEMMA ReachedIsNat ==
    ASSUME TypeInv
    PROVE  Reached \in Nat
BY ImageListingAssumption DEF TypeInv, Reached, Offset

\* There are finitely many rows.
LEMMA ListIsFinite ==
    ASSUME TypeInv
    PROVE  List \subseteq Image /\ IsFiniteSet(List) /\ Cardinality(List) \in Nat
<1>1. List \subseteq Image /\ IsFiniteSet(Image)
    BY ImageListingAssumption DEF TypeInv, List, Visible
<1>2. QED
    BY <1>1, FS_Subset, FS_CardinalityType

-----------------------------------------------------------------------------
(* A query.                                                                *)

\* A query numbers the rows without a gap.
LEMMA EveryNumberIsUsed ==
    ASSUME NEW V, IsFiniteSet(V), NEW pos \in Numberings(V)
    PROVE  /\ pos \in [V -> 0 .. Cardinality(V) - 1]
           /\ \A k \in 0 .. Cardinality(V) - 1 : \E i \in V : pos[i] = k
<1> DEFINE T == 0 .. Cardinality(V) - 1
<1>1. Cardinality(V) \in Nat
    BY FS_CardinalityType
<1>2. IsFiniteSet(T) /\ Cardinality(T) = Cardinality(V)
    BY <1>1, FS_Interval
<1>3. pos \in [V -> T] /\ \A i, j \in V : i # j => pos[i] # pos[j]
    BY DEF Numberings
<1>4. pos \in Injection(V, T)
    BY <1>3 DEF Injection, IsInjective
<1>5. pos \in Surjection(V, T)
    BY <1>2, <1>4, FS_Injection
<1>6. QED
    BY <1>3, <1>5 DEF Surjection

\* A page is full, or it is the end of the list.
LEMMA PageSize ==
    ASSUME NEW V, IsFiniteSet(V), NEW pos \in Numberings(V), NEW m \in Nat, NEW n \in Nat
    PROVE  Cardinality(Rows(pos, m, n)) =
              IF m + n =< Cardinality(V) THEN n
              ELSE IF m =< Cardinality(V) THEN Cardinality(V) - m ELSE 0
<1> DEFINE R == Rows(pos, m, n)
           N == Cardinality(V)
<1>1. N \in Nat
    BY FS_CardinalityType
<1>2. /\ pos \in [V -> 0 .. N - 1]
      /\ \A k \in 0 .. N - 1 : \E i \in V : pos[i] = k
      /\ \A i, j \in V : i # j => pos[i] # pos[j]
    BY EveryNumberIsUsed DEF Numberings
<1>3. R = {i \in V : pos[i] >= m /\ pos[i] < m + n}
    BY <1>2 DEF Rows
<1>4. IsFiniteSet(R)
    BY <1>3, FS_Subset
<1> HIDE DEF R, N
<1>5. ASSUME NEW hi \in Nat, m =< hi, hi =< N, \A i \in V : i \in R <=> pos[i] \in m .. hi - 1
      PROVE  Cardinality(R) = hi - m
    <2> DEFINE f == [i \in R |-> pos[i]]
    <2>1. f \in [R -> m .. hi - 1]
        BY <1>3, <1>5
    <2>2. \A i, j \in R : f[i] = f[j] => i = j
        BY <1>2, <1>3
    <2>3. ASSUME NEW k \in m .. hi - 1
          PROVE  \E i \in R : f[i] = k
        <3>1. PICK i \in V : pos[i] = k
            BY <1>1, <1>2, <1>5
        <3>2. i \in R
            BY <1>5, <3>1
        <3>3. QED
            BY <3>1, <3>2
    <2> HIDE DEF f
    <2>4. f \in Bijection(R, m .. hi - 1)
        <3>1. f \in Injection(R, m .. hi - 1)
            BY <2>1, <2>2 DEF Injection, IsInjective
        <3>2. f \in Surjection(R, m .. hi - 1)
            BY <2>1, <2>3 DEF Surjection
        <3>3. QED
            BY <3>1, <3>2 DEF Bijection
    <2>5. Cardinality(m .. hi - 1) = Cardinality(R)
        BY <1>4, <2>4, FS_Bijection DEF ExistsBijection
    <2>6. QED
        BY <1>5, <2>5, FS_Interval
<1>6. CASE m + n =< N
    <2>1. m + n \in Nat /\ m =< m + n /\ \A i \in V : i \in R <=> pos[i] \in m .. (m + n) - 1
        BY <1>1, <1>2, <1>3
    <2>2. Cardinality(R) = (m + n) - m
        BY <1>5, <1>6, <2>1
    <2>3. QED
        BY <1>6, <2>2 DEF R, N
<1>7. CASE m =< N /\ N < m + n
    <2>1. \A i \in V : i \in R <=> pos[i] \in m .. N - 1
        BY <1>1, <1>2, <1>3, <1>7
    <2>2. Cardinality(R) = N - m
        BY <1>1, <1>5, <1>7, <2>1
    <2>3. QED
        BY <1>1, <1>7, <2>2 DEF R, N
<1>8. CASE N < m
    <2>1. R = {}
        BY <1>1, <1>2, <1>3, <1>8
    <2>2. QED
        BY <1>1, <1>8, <2>1, FS_EmptySet DEF R, N
<1>9. QED
    BY <1>1, <1>6, <1>7, <1>8

\* A page has a natural number of rows.
LEMMA PageSizeIsNat ==
    ASSUME NEW V, IsFiniteSet(V), NEW pos \in Numberings(V), NEW m \in Nat, NEW n \in Nat
    PROVE  Cardinality(Rows(pos, m, n)) \in Nat
<1>1. Rows(pos, m, n) \in SUBSET V
    BY DEF Rows, Numberings
<1>2. IsFiniteSet(Rows(pos, m, n))
    BY <1>1, FS_Subset
<1>3. QED
    BY <1>2, FS_CardinalityType

\* Without rows of the same time, the number of a row is that of the rows in front
\* of it.
LEMMA NumberIsAhead ==
    ASSUME TypeInv, Distinct, NEW pos \in Numberings(List), NEW i \in List
    PROVE  Cardinality(Ahead(i)) = pos[i]
<1>1. List \subseteq Image /\ IsFiniteSet(List) /\ Cardinality(List) \in Nat
    BY ListIsFinite
<1>2. pos \in [List -> 0 .. Cardinality(List) - 1]
    BY DEF Numberings
<1>3. \A j \in List : pushedAt[j] \in Nat /\ pushedAt[i] \in Nat
    BY <1>1 DEF TypeInv
<1>4. ASSUME NEW j \in List
      PROVE  pushedAt[j] > pushedAt[i] <=> pos[j] < pos[i]
    <2>1. /\ pushedAt[j] > pushedAt[i] => pos[j] < pos[i]
          /\ j # i /\ pushedAt[i] > pushedAt[j] => pos[i] < pos[j]
        BY <1>3 DEF Numberings
    <2>2. j # i => pushedAt[j] # pushedAt[i]
        BY DEF Distinct
    <2>3. QED
        BY <1>2, <1>3, <2>1, <2>2
<1>5. Ahead(i) = Rows(pos, 0, pos[i])
    BY <1>2, <1>4 DEF Ahead, Rows
<1>6. 0 + pos[i] =< Cardinality(List) /\ pos[i] \in Nat
    BY <1>1, <1>2
<1>7. QED
    BY <1>1, <1>5, <1>6, PageSize

-----------------------------------------------------------------------------
(* The table between two pages.                                            *)

\* Whatever a step does, the variables that the pages depend on keep their types.
LEMMA TypeStep ==
    ASSUME TypeInv, [Next]_vars
    PROVE  TypeInv'
<1>1. ASSUME NEW i \in Image, Push(i)
      PROVE  TypeInv'
    BY <1>1 DEF Push, PushTimes, TypeInv, clientVars
<1>2. ASSUME NEW i \in Image, Remove(i)
      PROVE  TypeInv'
    BY <1>2 DEF Remove, TypeInv, clientVars
<1>3. ASSUME NEW r \in Repository, NEW u \in User, Claim(r, u)
      PROVE  TypeInv'
    BY <1>3 DEF Claim, TypeInv, clientVars
<1>4. CASE Tick
    BY <1>4 DEF Tick, TypeInv, clientVars
<1>5. CASE Page
    <2>1. PICK pos \in Numberings(List) :
             offset' = NextOffset(Reached, Rows(pos, Reached, Limit(Asks[caller])))
        BY <1>5 DEF Page, Reached
    <2>2. /\ Reached \in Nat /\ Limit(Asks[caller]) \in Nat
          /\ IsFiniteSet(List) /\ Cardinality(List) \in Nat
        BY ReachedIsNat, LimitIsNat, ListIsFinite DEF TypeInv
    <2>3. Cardinality(Rows(pos, Reached, Limit(Asks[caller]))) \in Nat
        BY <2>2, PageSizeIsNat
    <2>4. offset' \in Nat
        BY <2>1, <2>2, <2>3 DEF NextOffset
    <2>5. QED
        BY <1>5, <2>4 DEF Page, TypeInv, tableVars
<1>6. CASE Refused \/ QueryFails \/ UNCHANGED vars
    BY <1>6 DEF Refused, QueryFails, TypeInv, vars, tableVars, clientVars
<1>7. QED
    BY <1>1, <1>2, <1>3, <1>4, <1>5, <1>6 DEF Next, Answer

\* While no row leaves the list or falls back, a row that stays as it is has no
\* fewer rows in front of it.
LEMMA AheadGrows ==
    ASSUME TypeInv, TypeInv', NEW i \in Image, pushedAt'[i] = pushedAt[i],
           List \subseteq List', \A j \in List : ~(pushedAt'[j] < pushedAt[j])
    PROVE  Cardinality(Ahead(i)) =< Cardinality(Ahead(i)')
<1>1. IsFiniteSet(List') /\ List \subseteq Image
    <2>1. List' \subseteq Image /\ IsFiniteSet(Image)
        BY ImageListingAssumption DEF TypeInv, List, Visible
    <2>2. QED
        BY <2>1, ListIsFinite, FS_Subset
<1>2. \A j \in List : pushedAt[j] \in Nat /\ pushedAt'[j] \in Nat /\ pushedAt[i] \in Nat
    BY <1>1 DEF TypeInv
<1>3. Ahead(i) \in SUBSET Ahead(i)'
    BY <1>2 DEF Ahead
<1>4. IsFiniteSet(Ahead(i)')
    <2>1. Ahead(i)' \in SUBSET List'
        BY DEF Ahead
    <2>2. QED
        BY <1>1, <2>1, FS_Subset
<1>5. QED
    BY <1>3, <1>4, FS_Subset

\* What a change of the table leaves alone.
TableChange ==
    /\ Observed
    /\ UNCHANGED <<clientVars, first, tied>>
    /\ touched \subseteq touched'
    /\ \A i \in Image : i \notin touched' => pushedAt'[i] = pushedAt[i]

\* A push, a removal and a claim are such changes.
LEMMA ChangeOfTable ==
    ASSUME TypeInv,
           \/ \E i \in Image : Push(i) \/ Remove(i)
           \/ \E r \in Repository, u \in User : Claim(r, u)
    PROVE  TableChange
<1>1. ASSUME NEW i \in Image, Push(i)
      PROVE  TableChange
    BY <1>1 DEF Push, TableChange, TypeInv
<1>2. ASSUME NEW i \in Image, Remove(i)
      PROVE  TableChange
    BY <1>2 DEF Remove, TableChange
<1>3. ASSUME NEW r \in Repository, NEW u \in User, Claim(r, u)
      PROVE  TableChange
    BY <1>3 DEF Claim, TableChange
<1>4. QED
    BY <1>1, <1>2, <1>3

\* A change of the table misses no row that stays as it is.
LEMMA StableChange ==
    ASSUME TypeInv, TypeInv', StableInv, TableChange
    PROVE  StableInv'
<1> SUFFICES ASSUME ~fell', ~tied', NEW i \in first' \ touched'
             PROVE  /\ i \in List'
                    /\ i \in seen' \/ (phase' # "listed" /\ Reached' =< Cardinality(Ahead(i)'))
    BY DEF StableInv
<1>1. UNCHANGED <<offset, phase, seen, first, tied>> /\ touched \subseteq touched'
    BY DEF TableChange, clientVars
<1>2. ~fell /\ List \subseteq List' /\ \A j \in List : ~(pushedAt'[j] < pushedAt[j])
    BY DEF TableChange, Observed
<1>3. i \in List /\ (i \in seen \/ (phase # "listed" /\ Reached =< Cardinality(Ahead(i))))
    BY <1>1, <1>2 DEF StableInv
<1>4. i \in Image /\ pushedAt'[i] = pushedAt[i]
    BY <1>3, ListIsFinite DEF TableChange
<1>5. Cardinality(Ahead(i)) =< Cardinality(Ahead(i)')
    BY <1>2, <1>4, AheadGrows
<1>6. /\ Reached \in Nat /\ Reached' = Reached
      /\ Cardinality(Ahead(i)) \in Nat /\ Cardinality(Ahead(i)') \in Nat
    <2>1. Reached \in Nat /\ Reached' = Reached
        BY <1>1, ReachedIsNat DEF Reached
    <2>2. IsFiniteSet(Ahead(i)) /\ IsFiniteSet(Ahead(i)')
        <3>1. List \subseteq Image /\ List' \subseteq Image /\ IsFiniteSet(Image)
            BY ImageListingAssumption DEF TypeInv, List, Visible
        <3>2. Ahead(i) \in SUBSET Image /\ Ahead(i)' \in SUBSET Image
            BY <3>1 DEF Ahead
        <3>3. QED
            BY <3>1, <3>2, FS_Subset
    <2>3. QED
        BY <2>1, <2>2, FS_CardinalityType
<1>7. QED
    BY <1>1, <1>2, <1>3, <1>5, <1>6

\* While nothing happens to the list, everything is as it was.
LEMMA ExactChange ==
    ASSUME TypeInv, TypeInv', ExactInv, TableChange
    PROVE  ExactInv'
<1> SUFFICES ASSUME touched' = {}, ~fell', ~grew', ~tied'
             PROVE  /\ seen' = {i \in List' : Cardinality(Ahead(i)') < Reached'}
                    /\ Reached' =< Cardinality(List')
                    /\ twice' = {}
                    /\ phase' = "listed" => seen' = List'
                    /\ phase' = "walking" /\ offset' # NaN => seen' # List'
    BY DEF ExactInv
<1>1. UNCHANGED <<offset, phase, seen, twice, tied>> /\ touched = {}
    BY DEF TableChange, clientVars
<1>2. ~fell /\ ~grew /\ List' = List
    BY DEF TableChange, Observed
<1>3. pushedAt' = pushedAt
    BY DEF TableChange, TypeInv
<1>4. Reached' = Reached /\ \A i : Ahead(i)' = Ahead(i)
    BY <1>1, <1>2, <1>3 DEF Reached, Ahead
<1>5. QED
    BY <1>1, <1>2, <1>4 DEF ExactInv

\* A refusal, a failed query and the clock give nothing and leave the table alone.
LEMMA NothingGiven ==
    ASSUME StableInv, ExactInv,
           UNCHANGED <<images, pushedAt, ownerOf, caller, offset, seen, twice, historyVars>>,
           phase' \in {phase, "denied"}
    PROVE  StableInv' /\ ExactInv'
<1>1. List' = List /\ Reached' = Reached /\ \A i : Ahead(i)' = Ahead(i)
    BY DEF List, Reached, Ahead, Visible
<1>2. StableInv'
    BY <1>1 DEF StableInv, historyVars
<1>3. ExactInv'
    BY <1>1 DEF ExactInv, historyVars
<1>4. QED
    BY <1>2, <1>3

-----------------------------------------------------------------------------
(* A page.                                                                 *)

\* The numbering that the query chose, and the page that it gave with it.
PageWith(pos) ==
    LET n == Limit(Asks[caller]) page == Rows(pos, Reached, n) IN
    /\ offset' = Reached + Cardinality(page)
    /\ phase' = IF More(pos, Reached, n) THEN "walking" ELSE "listed"
    /\ seen' = seen \cup page
    /\ twice' = twice \cup (seen \cap page)
    /\ Reached' = Reached + Cardinality(page)

\* What a page changes, and what it leaves alone.
LEMMA PageIs ==
    ASSUME TypeInv, TypeInv', Page
    PROVE  /\ \E pos \in Numberings(List) : PageWith(pos)
           /\ List' = List /\ \A i : Ahead(i)' = Ahead(i)
           /\ UNCHANGED <<first, touched, fell, grew>>
           /\ (tied => tied') /\ (~tied' => Distinct)
<1>1. PICK pos \in Numberings(List) :
         LET n == Limit(Asks[caller]) page == Rows(pos, Reached, n) IN
         /\ offset' = NextOffset(Reached, page)
         /\ phase' = IF More(pos, Reached, n) THEN "walking" ELSE "listed"
         /\ seen' = seen \cup page
         /\ twice' = twice \cup (seen \cap page)
    BY DEF Page, Reached
<1>2. /\ Reached \in Nat /\ Limit(Asks[caller]) \in Nat
      /\ IsFiniteSet(List) /\ Cardinality(List) \in Nat
    BY ReachedIsNat, LimitIsNat, ListIsFinite DEF TypeInv
<1>3. Cardinality(Rows(pos, Reached, Limit(Asks[caller]))) \in Nat
    BY <1>2, PageSizeIsNat
<1>4. offset' = Reached + Cardinality(Rows(pos, Reached, Limit(Asks[caller]))) /\ offset' \in Nat
    BY <1>1, <1>2, <1>3 DEF NextOffset
<1>5. Reached' = offset'
    BY <1>4, ImageListingAssumption DEF Reached, Offset
<1>6. PageWith(pos)
    BY <1>1, <1>4, <1>5 DEF PageWith
<1>7. List' = List /\ \A i : Ahead(i)' = Ahead(i)
    BY DEF Page, tableVars, List, Visible, Ahead
<1>8. UNCHANGED <<first, touched, fell, grew>> /\ (tied => tied') /\ (~tied' => Distinct)
    BY DEF Page, Distinct
<1>9. QED
    BY <1>6, <1>7, <1>8

\* A row that has not been reached is on the page, or behind it; and if nothing is
\* behind it, it is on the page.
LEMMA StablePage ==
    ASSUME TypeInv, TypeInv', StableInv, Page
    PROVE  StableInv'
<1> SUFFICES ASSUME ~fell', ~tied', NEW i \in first' \ touched'
             PROVE  /\ i \in List'
                    /\ i \in seen' \/ (phase' # "listed" /\ Reached' =< Cardinality(Ahead(i)'))
    BY DEF StableInv
<1>1. PICK pos \in Numberings(List) : PageWith(pos)
    BY PageIs
<1>2. /\ List' = List /\ Ahead(i)' = Ahead(i) /\ i \in first \ touched
      /\ ~fell /\ ~tied /\ Distinct
    BY PageIs
<1>3. i \in List /\ (i \in seen \/ Reached =< Cardinality(Ahead(i)))
    BY <1>2 DEF StableInv
<1>4. CASE i \in seen
    BY <1>1, <1>2, <1>3, <1>4 DEF PageWith
<1>5. CASE Reached =< Cardinality(Ahead(i)) /\ i \notin seen'
    <2> DEFINE n == Limit(Asks[caller])
               page == Rows(pos, Reached, n)
               N == Cardinality(List)
    <2>1. Reached \in Nat /\ n \in Nat /\ IsFiniteSet(List) /\ N \in Nat
        BY ReachedIsNat, LimitIsNat, ListIsFinite DEF TypeInv
    <2>2. pos[i] = Cardinality(Ahead(i)) /\ pos[i] \in 0 .. N - 1 /\ DOMAIN pos = List
        BY <1>2, <1>3, NumberIsAhead DEF Numberings
    <2>3. i \notin page
        BY <1>1, <1>5 DEF PageWith
    <2>4. pos[i] >= Reached + n
        BY <1>3, <1>5, <2>1, <2>2, <2>3 DEF Rows
    <2>5. Reached + n =< N /\ Reached + (n + 1) =< N
        BY <2>1, <2>2, <2>4
    <2>6. Cardinality(page) = n /\ Cardinality(Rows(pos, Reached, n + 1)) = n + 1
        BY <2>1, <2>5, PageSize
    <2>7. phase' = "walking" /\ Reached' = Reached + n
        BY <1>1, <2>1, <2>6 DEF PageWith, More
    <2>8. QED
        BY <1>2, <1>3, <2>1, <2>2, <2>4, <2>7
<1>6. QED
    BY <1>1, <1>2, <1>3, <1>4, <1>5

\* Of a list at rest, the page is what follows in front of the next page.
LEMMA ExactPage ==
    ASSUME TypeInv, TypeInv', ExactInv, Page
    PROVE  ExactInv'
<1> SUFFICES ASSUME touched' = {}, ~fell', ~grew', ~tied'
             PROVE  /\ seen' = {i \in List' : Cardinality(Ahead(i)') < Reached'}
                    /\ Reached' =< Cardinality(List')
                    /\ twice' = {}
                    /\ phase' = "listed" => seen' = List'
                    /\ phase' = "walking" /\ offset' # NaN => seen' # List'
    BY DEF ExactInv
<1> DEFINE n == Limit(Asks[caller])
           N == Cardinality(List)
           front(k) == {i \in List : Cardinality(Ahead(i)) < k}
<1>1. PICK pos \in Numberings(List) : PageWith(pos)
    BY PageIs
<1>2. /\ List' = List /\ \A i : Ahead(i)' = Ahead(i)
      /\ touched = {} /\ ~fell /\ ~grew /\ ~tied /\ Distinct
    BY PageIs
<1>3. /\ Reached \in Nat /\ n \in Nat /\ IsFiniteSet(List) /\ N \in Nat
    BY ReachedIsNat, LimitIsNat, ListIsFinite DEF TypeInv
<1>4. seen = front(Reached) /\ Reached =< N /\ twice = {}
    BY <1>2 DEF ExactInv
<1>5. /\ DOMAIN pos = List
      /\ \A i \in List : pos[i] = Cardinality(Ahead(i)) /\ pos[i] \in 0 .. N - 1
      /\ \A k \in 0 .. N - 1 : \E i \in List : pos[i] = k
    BY <1>2, <1>3, NumberIsAhead, EveryNumberIsUsed
<1> DEFINE page == Rows(pos, Reached, n)
           c == Cardinality(page)
<1>6. c = (IF Reached + n =< N THEN n ELSE N - Reached)
      /\ (More(pos, Reached, n) <=> Reached + n < N)
    <2>1. c = (IF Reached + n =< N THEN n ELSE N - Reached)
        BY <1>3, <1>4, PageSize
    <2>2. Cardinality(Rows(pos, Reached, n + 1)) =
             IF Reached + (n + 1) =< N THEN n + 1 ELSE N - Reached
        <3>1. n + 1 \in Nat
            BY <1>3
        <3>2. QED
            BY <1>3, <1>4, <3>1, PageSize
    <2>3. More(pos, Reached, n) <=> Reached + n < N
        BY <1>3, <1>4, <2>2 DEF More
    <2>4. QED
        BY <2>1, <2>3
<1>7. seen \cup page = front(Reached + n) /\ seen \cap page = {}
    <2>1. \A i \in List : i \in page <=> (pos[i] >= Reached /\ pos[i] < Reached + n)
        BY <1>5 DEF Rows
    <2>2. page \subseteq List
        BY <1>5 DEF Rows
    <2>3. \A i \in List : i \in seen <=> pos[i] < Reached
        BY <1>4, <1>5
    <2>4. \A i \in List : i \in front(Reached + n) <=> pos[i] < Reached + n
        BY <1>5
    <2> HIDE DEF page, front
    <2>5. seen \subseteq List /\ front(Reached + n) \subseteq List
        BY <1>4 DEF front
    <2>6. \A i \in List : /\ (i \in seen \/ i \in page) <=> i \in front(Reached + n)
                          /\ ~(i \in seen /\ i \in page)
        BY <1>3, <1>5, <2>1, <2>3, <2>4
    <2>7. QED
        BY <2>2, <2>5, <2>6
<1>8. front(Reached + n) = front(Reached + c)
    <2>1. ASSUME NEW i \in List
          PROVE  pos[i] < Reached + n <=> pos[i] < Reached + c
        BY <1>3, <1>4, <1>5, <1>6
    <2> HIDE DEF c, n
    <2>2. QED
        BY <1>5, <2>1
<1> HIDE DEF page, c, n, N
<1>9. /\ seen' = front(Reached + c) /\ Reached' = Reached + c /\ twice' = {}
      /\ phase' = IF Reached + n < N THEN "walking" ELSE "listed"
    BY <1>1, <1>4, <1>6, <1>7, <1>8 DEF PageWith, page, c, n
<1>10. Reached + c =< N /\ (Reached + n >= N => Reached + c = N)
    BY <1>3, <1>4, <1>6
<1>11. phase' = "listed" => seen' = List
    <2>1. ASSUME Reached + n >= N
          PROVE  front(Reached + c) = List
        BY <1>3, <1>5, <1>10, <2>1
    <2>2. QED
        BY <1>3, <1>9, <2>1
<1>12. phase' = "walking" => seen' # List
    <2>1. ASSUME Reached + n < N
          PROVE  front(Reached + n) # List
        <3>1. PICK i \in List : pos[i] = Reached + n
            <4>1. Reached + n \in 0 .. N - 1
                BY <1>3, <2>1
            <4>2. QED
                BY <1>5, <4>1
        <3>2. i \notin front(Reached + n)
            BY <1>3, <1>5, <3>1
        <3>3. QED
            BY <3>2
    <2>2. QED
        BY <1>8, <1>9, <2>1
<1>13. QED
    BY <1>2, <1>9, <1>10, <1>11, <1>12 DEF N

-----------------------------------------------------------------------------
(* The theorems.                                                           *)

\* At the start nothing was given.
LEMMA ListingInit == Init => ListingInv
<1> SUFFICES ASSUME Init
             PROVE  ListingInv
    OBVIOUS
<1>1. TypeInv
    <2>1. PICK s \in Start : images = s.images /\ pushedAt = s.pushedAt
        BY DEF Init
    <2>2. s.images \subseteq Image /\ s.pushedAt \in [Image -> {0, 1}]
        BY ImageListingAssumption
    <2>3. QED
        BY <2>1, <2>2 DEF Init, TypeInv
<1>2. Reached = 0 /\ first = List /\ seen = {} /\ twice = {} /\ phase = "walking" /\ offset = NaN
    BY DEF Init, Reached, Offset
<1>3. \A i \in List : Cardinality(Ahead(i)) \in Nat
    <2>1. \A i \in List : Ahead(i) \in SUBSET List
        BY DEF Ahead
    <2>2. QED
        BY <1>1, <2>1, ListIsFinite, FS_Subset, FS_CardinalityType
<1>4. StableInv
    BY <1>2, <1>3 DEF StableInv
<1>5. ExactInv
    BY <1>1, <1>2, <1>3, ListIsFinite DEF ExactInv
<1>6. QED
    BY <1>1, <1>4, <1>5 DEF ListingInv

\* Every step keeps the invariant.
LEMMA ListingStep ==
    ASSUME ListingInv, [Next]_vars
    PROVE  ListingInv'
<1>1. TypeInv /\ TypeInv' /\ StableInv /\ ExactInv
    BY TypeStep DEF ListingInv
<1>2. CASE \/ \E i \in Image : Push(i) \/ Remove(i)
           \/ \E r \in Repository, u \in User : Claim(r, u)
    BY <1>1, <1>2, ChangeOfTable, StableChange, ExactChange DEF ListingInv
<1>3. CASE Tick \/ Refused \/ QueryFails \/ UNCHANGED vars
    <2>1. /\ UNCHANGED <<images, pushedAt, ownerOf, caller, offset, seen, twice, historyVars>>
          /\ phase' \in {phase, "denied"}
        BY <1>3 DEF Tick, Refused, QueryFails, vars, tableVars, clientVars
    <2>2. QED
        BY <1>1, <2>1, NothingGiven DEF ListingInv
<1>4. CASE Page
    BY <1>1, <1>4, StablePage, ExactPage DEF ListingInv
<1>5. QED
    BY <1>2, <1>3, <1>4 DEF Next, Answer

\* Paging by offset misses no image that stays as it is, however much is pushed
\* meanwhile, if no row leaves the list or falls back and no two have the same time
\* (NothingStableIsMissed, imageList.ts:43-44, 72-76).
THEOREM StableIsListed == Spec => []NothingStableIsMissed
<1>1. ListingInv => NothingStableIsMissed
    BY DEF ListingInv, StableInv, NothingStableIsMissed
<1>2. QED
    BY <1>1, ListingInit, ListingStep, PTL DEF Spec

\* A list at rest is given whole and row by row, and nothing but what the caller may
\* see (RestingListIsExact, imageList.ts:43-94, README.md:65-71).
THEOREM RestingListIsListed == Spec => []RestingListIsExact
<1>1. List = Entitled
    BY DEF List, Visible, Entitled
<1>2. ListingInv => RestingListIsExact
    BY <1>1 DEF ListingInv, ExactInv, RestingListIsExact
<1>3. QED
    BY <1>2, ListingInit, ListingStep, PTL DEF Spec
=============================================================================
