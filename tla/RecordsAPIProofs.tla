--------------------------- MODULE RecordsAPIProofs ---------------------------
(***************************************************************************)
(* What the calls of the SDK report is true, and a walk through the list   *)
(* of records is exact, for any number of clients, calls, attempts and     *)
(* records.                                                                *)
(*                                                                         *)
(* Two arguments meet.  The first is about the exchange: a client waits    *)
(* for one request and has at most one answer under way, because answers    *)
(* to attempts that were given up go nowhere (Exchange).  So what an answer *)
(* says is said of the call that takes it, and what is said stays true,    *)
(* since documents never go and what is settled stays settled (Grows).     *)
(* The second is about order: the rank of a record in a finite ordered set *)
(* is a position, so that a page of the list is a prefix of what is behind *)
(* the cursor (PageIsExact).                                               *)
(***************************************************************************)
EXTENDS RecordsAPI, FiniteSetTheorems, SequenceTheorems, TLAPS

-----------------------------------------------------------------------------
(* Ranks                                                                    *)

Ahead(S, R, x) == {y \in S : <<y, x>> \in R}

StrictOrder(S, R) ==
  /\ \A x \in S : <<x, x>> \notin R
  /\ \A x, y, z \in S : <<x, y>> \in R /\ <<y, z>> \in R => <<x, z>> \in R
  /\ \A x, y \in S : x = y \/ <<x, y>> \in R \/ <<y, x>> \in R

Rank(S, R) == [x \in S |-> Cardinality(Ahead(S, R, x))]

LEMMA AheadIsSmall ==
    ASSUME NEW S, IsFiniteSet(S), NEW R, StrictOrder(S, R), NEW x \in S
    PROVE  /\ IsFiniteSet(Ahead(S, R, x))
           /\ Cardinality(Ahead(S, R, x)) \in 0 .. Cardinality(S) - 1
<1>1. IsFiniteSet(S \ {x}) /\ Cardinality(S \ {x}) = Cardinality(S) - 1
  BY FS_RemoveElement
<1>2. Ahead(S, R, x) \in SUBSET (S \ {x})
  BY DEF Ahead, StrictOrder
<1>3. IsFiniteSet(Ahead(S, R, x)) /\ Cardinality(Ahead(S, R, x)) <= Cardinality(S) - 1
  BY <1>1, <1>2, FS_Subset
<1> QED
  BY <1>3, FS_CardinalityType

LEMMA RankFollowsOrder ==
    ASSUME NEW S, IsFiniteSet(S), NEW R, StrictOrder(S, R), NEW x \in S, NEW y \in S, <<x, y>> \in R
    PROVE  Rank(S, R)[x] < Rank(S, R)[y]
<1>1. /\ IsFiniteSet(Ahead(S, R, x)) /\ Cardinality(Ahead(S, R, x)) \in Nat
      /\ IsFiniteSet(Ahead(S, R, y)) /\ Cardinality(Ahead(S, R, y)) \in Nat
  BY AheadIsSmall, FS_CardinalityType
<1>2. x \in Ahead(S, R, y) /\ Ahead(S, R, x) \in SUBSET (Ahead(S, R, y) \ {x})
  BY DEF Ahead, StrictOrder
<1>3. /\ IsFiniteSet(Ahead(S, R, y) \ {x})
      /\ Cardinality(Ahead(S, R, y) \ {x}) = Cardinality(Ahead(S, R, y)) - 1
  BY <1>1, <1>2, FS_RemoveElement
<1>4. Cardinality(Ahead(S, R, x)) <= Cardinality(Ahead(S, R, y)) - 1
  BY <1>2, <1>3, FS_Subset
<1> QED
  BY <1>1, <1>4 DEF Rank

LEMMA RankIsPosition ==
    ASSUME NEW S, IsFiniteSet(S), NEW R, StrictOrder(S, R)
    PROVE  /\ Rank(S, R) \in [S -> 0 .. Cardinality(S) - 1]
           /\ \A x, y \in S : Rank(S, R)[x] = Rank(S, R)[y] => x = y
           /\ \A k \in 0 .. Cardinality(S) - 1 : \E x \in S : Rank(S, R)[x] = k
<1> DEFINE n == Cardinality(S)
<1>1. n \in Nat
  BY FS_CardinalityType
<1>2. Rank(S, R) \in [S -> 0 .. n - 1]
  BY AheadIsSmall DEF Rank
<1>3. ASSUME NEW x \in S, NEW y \in S, Rank(S, R)[x] = Rank(S, R)[y], x # y
      PROVE  FALSE
  <2>1. Rank(S, R)[x] \in Int /\ Rank(S, R)[y] \in Int
    BY <1>1, <1>2
  <2>2. Rank(S, R)[x] < Rank(S, R)[y] \/ Rank(S, R)[y] < Rank(S, R)[x]
    BY <1>3, RankFollowsOrder DEF StrictOrder
  <2> QED
    BY <1>3, <2>1, <2>2
<1>4. Rank(S, R) \in Injection(S, 0 .. n - 1)
  BY <1>2, <1>3 DEF Injection, IsInjective
<1>5. IsFiniteSet(0 .. n - 1) /\ Cardinality(0 .. n - 1) = n
  BY <1>1, FS_Interval
<1>6. Rank(S, R) \in Surjection(S, 0 .. n - 1)
  BY <1>4, <1>5, FS_Injection
<1> QED
  BY <1>2, <1>3, <1>6 DEF Surjection

\* The first k of a finite ordered set are all of it or at least k.
LEMMA FirstOnes ==
    ASSUME NEW S, IsFiniteSet(S), NEW R, StrictOrder(S, R), NEW k \in Nat,
           NEW T, T = {x \in S : Rank(S, R)[x] < k}
    PROVE  T = S \/ Cardinality(T) >= k
<1> DEFINE n == Cardinality(S)
<1>1. n \in Nat
  BY FS_CardinalityType
<1>2. Rank(S, R) \in [S -> 0 .. n - 1]
  BY RankIsPosition
<1>3. CASE n <= k
  BY <1>1, <1>2, <1>3
<1>4. CASE k < n
  <2> DEFINE f == [x \in T |-> Rank(S, R)[x]]
  <2>1. f \in [T -> 0 .. k - 1]
    BY <1>1, <1>2
  <2>2. ASSUME NEW j \in 0 .. k - 1
        PROVE  \E x \in T : f[x] = j
    <3>1. j \in 0 .. n - 1
      BY <1>1, <1>4
    <3>2. PICK x \in S : Rank(S, R)[x] = j
      BY <3>1, RankIsPosition
    <3> QED
      BY <3>2
  <2>3. f \in Surjection(T, 0 .. k - 1)
    BY <2>1, <2>2 DEF Surjection
  <2>4. IsFiniteSet(T)
    BY FS_Subset
  <2>5. Cardinality(0 .. k - 1) <= Cardinality(T)
    BY <2>3, <2>4, FS_Surjection
  <2>6. Cardinality(0 .. k - 1) = k
    BY FS_Interval
  <2> QED
    BY <2>5, <2>6
<1> QED
  BY <1>1, <1>3, <1>4

-----------------------------------------------------------------------------
(* Records in the order of the list                                         *)

Timed(S) == IsFiniteSet(S) /\ S \subseteq Nat /\ \A i \in S : store[i].at \in Nat

Pairs(S) == {p \in S \X S : Before(p[1], p[2])}

OldPairs(S) == {p \in S \X S : Older(p[1], p[2])}

LEMMA ListIsOrdered == ASSUME NEW S, Timed(S) PROVE StrictOrder(S, Pairs(S)) /\ StrictOrder(S, OldPairs(S))
<1>1. \A x, y \in S : (<<x, y>> \in Pairs(S) <=> Before(x, y)) /\ (<<x, y>> \in OldPairs(S) <=> Older(x, y))
  BY DEF Pairs, OldPairs, Before, Older
<1>2. \A x \in S : ~Before(x, x) /\ ~Older(x, x)
  BY DEF Timed, Before, Older
<1>3. \A x, y, z \in S : (Before(x, y) /\ Before(y, z) => Before(x, z)) /\ (Older(x, y) /\ Older(y, z) => Older(x, z))
  BY DEF Timed, Before, Older
<1>4. \A x, y \in S : (x = y \/ Before(x, y) \/ Before(y, x)) /\ (x = y \/ Older(x, y) \/ Older(y, x))
  <2>1. SUFFICES ASSUME NEW x \in S, NEW y \in S, x # y
                 PROVE  (Before(x, y) \/ Before(y, x)) /\ (Older(x, y) \/ Older(y, x))
    OBVIOUS
  <2>2. x \in Nat /\ y \in Nat /\ store[x].at \in Nat /\ store[y].at \in Nat
    BY DEF Timed
  <2> QED
    BY <2>1, <2>2 DEF Before, Older
<1> QED
  BY <1>1, <1>2, <1>3, <1>4 DEF StrictOrder

\* A batch takes all candidates or a full batch of them.
LEMMA ChoiceIsFull ==
    ASSUME NEW S, Timed(S), NEW T, T = {i \in S : Cardinality({j \in S : Older(j, i)}) < BatchSize}
    PROVE  T = S \/ Cardinality(T) >= BatchSize
<1>1. \A i \in S : {j \in S : Older(j, i)} = Ahead(S, OldPairs(S), i)
  BY DEF Ahead, OldPairs
<1>2. T = {i \in S : Rank(S, OldPairs(S))[i] < BatchSize}
  BY <1>1 DEF Rank
<1>3. IsFiniteSet(S) /\ StrictOrder(S, OldPairs(S)) /\ BatchSize \in Nat
  BY ListIsOrdered, RecordsAssumption DEF Timed
<1> HIDE DEF Timed
<1> QED
  BY <1>2, <1>3, FirstOnes

LEMMA InOrderIsSorted ==
    ASSUME NEW S, Timed(S)
    PROVE  /\ Cardinality(S) \in Nat
           /\ InOrder(S) \in [1 .. Cardinality(S) -> S]
           /\ \A k, l \in 1 .. Cardinality(S) : k < l => Before(InOrder(S)[k], InOrder(S)[l])
           /\ \A i \in S : /\ Cardinality({j \in S : Before(j, i)}) \in 0 .. Cardinality(S) - 1
                           /\ InOrder(S)[Cardinality({j \in S : Before(j, i)}) + 1] = i
<1> DEFINE n == Cardinality(S)
           rank == Rank(S, Pairs(S))
<1>1. IsFiniteSet(S) /\ StrictOrder(S, Pairs(S)) /\ n \in Nat
  BY ListIsOrdered, FS_CardinalityType DEF Timed
<1>2. \A i \in S : {j \in S : Before(j, i)} = Ahead(S, Pairs(S), i)
  BY DEF Ahead, Pairs
<1>3. \A i \in S : Cardinality({j \in S : Before(j, i)}) = rank[i]
  BY <1>2 DEF Rank
<1>4. /\ rank \in [S -> 0 .. n - 1]
      /\ \A x, y \in S : rank[x] = rank[y] => x = y
      /\ \A k \in 0 .. n - 1 : \E x \in S : rank[x] = k
  BY <1>1, RankIsPosition
<1>5. InOrder(S) = [k \in 1 .. n |-> CHOOSE i \in S : rank[i] = k - 1]
  BY <1>3 DEF InOrder
<1> HIDE DEF rank
<1>6. ASSUME NEW k \in 1 .. n
      PROVE  InOrder(S)[k] \in S /\ rank[InOrder(S)[k]] = k - 1
  <2>1. \E i \in S : rank[i] = k - 1
    BY <1>1, <1>4
  <2> QED
    BY <2>1, <1>5
<1>7. InOrder(S) \in [1 .. n -> S]
  BY <1>5, <1>6
<1>8. ASSUME NEW k \in 1 .. n, NEW l \in 1 .. n, k < l
      PROVE  Before(InOrder(S)[k], InOrder(S)[l])
  <2> DEFINE x == InOrder(S)[k]
             y == InOrder(S)[l]
  <2>1. x \in S /\ y \in S /\ rank[x] < rank[y]
    BY <1>1, <1>6, <1>8
  <2> HIDE DEF x, y
  <2>2. x # y /\ ~(rank[y] < rank[x])
    BY <2>1, <1>1, <1>4
  <2>3. <<x, y>> \in Pairs(S) \/ <<y, x>> \in Pairs(S)
    BY <2>1, <2>2, <1>1 DEF StrictOrder
  <2>4. <<x, y>> \in Pairs(S)
    BY <2>1, <2>2, <2>3, <1>1, RankFollowsOrder DEF rank
  <2>5. Before(x, y)
    BY <2>4 DEF Pairs
  <2> QED
    BY <2>5 DEF x, y
<1>9. ASSUME NEW i \in S
      PROVE  rank[i] \in 0 .. n - 1 /\ InOrder(S)[rank[i] + 1] = i
  <2>1. rank[i] \in 0 .. n - 1 /\ rank[i] + 1 \in 1 .. n /\ (rank[i] + 1) - 1 = rank[i]
    BY <1>1, <1>4
  <2>2. InOrder(S)[rank[i] + 1] \in S /\ rank[InOrder(S)[rank[i] + 1]] = rank[i]
    BY <2>1, <1>6
  <2> QED
    BY <2>1, <2>2, <1>4
<1> QED
  BY <1>1, <1>3, <1>7, <1>8, <1>9

LEMMA MinOfTwo ==
    ASSUME NEW a \in Int, NEW b \in Int
    PROVE  Min({a, b}) = IF a <= b THEN a ELSE b
BY DEF Min

\* The records that a page may show: behind its cursor, or behind its offset.
Candidates(cursor) == {i \in Visible : Behind(i, cursor)}
Skipped(offset, cursor) == IF cursor = NoCursor THEN offset ELSE 0
Due(offset, cursor) ==
  {i \in Candidates(cursor) : Cardinality({j \in Candidates(cursor) : Before(j, i)}) >= Skipped(offset, cursor)}

\* What a page shows and where the next one begins.
LEMMA PageIsExact ==
    ASSUME NEW offset \in Nat, NEW cursor, cursor = NoCursor \/ (cursor.at \in Nat /\ cursor.id \in Nat),
           Timed(Visible),
           NEW page, page = ListRecords(offset, cursor)
    PROVE  /\ page.ids \in Seq(Candidates(cursor)) /\ IsInjective(page.ids)
           /\ page.next = NoCursor => Due(offset, cursor) \subseteq Range(page.ids)
           /\ page.next # NoCursor =>
                /\ page.next.at \in Nat /\ page.next.id \in Nat
                /\ \A i \in Nat : store[i].at \in Nat /\ Behind(i, page.next) => Behind(i, cursor)
                /\ \A i \in Range(page.ids) : ~Behind(i, page.next)
                /\ \A i \in Due(offset, cursor) : i \in Range(page.ids) \/ Behind(i, page.next)
<1> DEFINE S == Candidates(cursor)
           n == Cardinality(S)
           all == InOrder(S)
           skip == Skipped(offset, cursor)
           m == IF n <= skip + Limit THEN n ELSE skip + Limit
           ids == page.ids
<1>1. Timed(S)
  <2>1. S \in SUBSET Visible
    BY DEF Candidates
  <2> QED
    BY <2>1, FS_Subset DEF Timed
<1>2. /\ n \in Nat /\ all \in [1 .. n -> S]
      /\ \A k, l \in 1 .. n : k < l => Before(all[k], all[l])
      /\ \A i \in S : /\ Cardinality({j \in S : Before(j, i)}) \in 0 .. n - 1
                      /\ all[Cardinality({j \in S : Before(j, i)}) + 1] = i
  BY <1>1, InOrderIsSorted
<1>3. skip \in Nat /\ Limit \in Nat /\ Limit >= 1
  BY RecordsAssumption DEF Skipped
<1>4. Len(all) = n /\ all \in Seq(S)
  BY <1>2
<1>5. Min({n, skip + Limit}) = m
  <2> HIDE DEF n, skip
  <2> QED
    BY <1>2, <1>3, MinOfTwo
<1>6. ids = SubSeq(all, skip + 1, m) /\ page.next = IF Len(ids) = Limit THEN encodeCursor(Last(ids)) ELSE NoCursor
  BY <1>4, <1>5 DEF ListRecords, Candidates, Skipped
<1>7. \A i \in S : i \in Nat /\ store[i].at \in Nat
  BY <1>1 DEF Timed
<1>8. m \in Int /\ m <= n /\ \A k \in skip + 1 .. m : all[k] \in S
  BY <1>2, <1>3
<1> HIDE DEF S, n, all, skip
<1>9. /\ ids \in Seq(S) /\ Len(ids) = IF skip + 1 <= m THEN m - skip ELSE 0
      /\ \A k \in 1 .. m - skip : ids[k] = all[skip + k]
  <2>1. /\ SubSeq(all, skip + 1, m) \in Seq(S)
        /\ Len(SubSeq(all, skip + 1, m)) = IF skip + 1 <= m THEN m - (skip + 1) + 1 ELSE 0
        /\ \A k \in 1 .. m - (skip + 1) + 1 : SubSeq(all, skip + 1, m)[k] = all[skip + 1 + k - 1]
    BY <1>3, <1>8, SubSeqProperties
  <2>2. m - (skip + 1) + 1 = m - skip /\ \A k \in Int : skip + 1 + k - 1 = skip + k
    BY <1>3, <1>8
  <2> HIDE DEF m
  <2> QED
    <3>1. ASSUME NEW k \in 1 .. m - skip
          PROVE  SubSeq(all, skip + 1, m)[k] = all[skip + k]
      BY <2>1, <2>2
    <3>2. Len(SubSeq(all, skip + 1, m)) = IF skip + 1 <= m THEN m - skip ELSE 0
      BY <2>1, <2>2
    <3> HIDE DEF ids
    <3>3. ids = SubSeq(all, skip + 1, m)
      BY <1>6
    <3> QED
      BY <2>1, <3>1, <3>2, <3>3
<1>10. ASSUME NEW k \in 1 .. Len(ids), NEW l \in 1 .. Len(ids), k < l
       PROVE  Before(ids[k], ids[l])
  <2>1. k \in 1 .. m - skip /\ l \in 1 .. m - skip /\ skip + k < skip + l /\ skip + k \in 1 .. n /\ skip + l \in 1 .. n
    BY <1>2, <1>3, <1>8, <1>9, <1>10
  <2>2. ids[k] = all[skip + k] /\ ids[l] = all[skip + l]
    BY <2>1, <1>9
  <2> QED
    BY <2>1, <2>2, <1>2
<1>11. \A k \in 1 .. Len(ids) : ids[k] \in S
  BY <1>9
<1>12. ids \in [1 .. Len(ids) -> S] /\ Len(ids) \in Nat /\ Range(ids) = {ids[k] : k \in 1 .. Len(ids)}
  BY <1>9 DEF Range
<1>13. IsInjective(ids)
  <2>1. SUFFICES ASSUME NEW k \in 1 .. Len(ids), NEW l \in 1 .. Len(ids), k < l
                 PROVE  ids[k] # ids[l]
    BY <1>12 DEF IsInjective
  <2>2. Before(ids[k], ids[l])
    BY <2>1, <1>10
  <2> QED
    BY <2>2, <1>7, <1>11 DEF Before
<1>14. ASSUME NEW i \in Due(offset, cursor), i \notin Range(ids)
       PROVE  skip + Limit < n /\ m = skip + Limit /\ Before(all[m], i)
  <2> DEFINE r == Cardinality({j \in S : Before(j, i)})
  <2>1. i \in S /\ r >= skip
    BY DEF Due, S, skip
  <2>2. r \in 0 .. n - 1 /\ all[r + 1] = i
    BY <2>1, <1>2
  <2> HIDE DEF r
  <2>3. r + 1 > m
    <3>1. SUFFICES ASSUME r + 1 <= m
                   PROVE  FALSE
      BY <2>2, <1>2, <1>3, <1>8
    <3>2. r + 1 - skip \in 1 .. m - skip /\ skip + (r + 1 - skip) = r + 1 /\ r + 1 - skip \in 1 .. Len(ids)
      BY <2>1, <2>2, <3>1, <1>2, <1>3, <1>8, <1>9
    <3>3. ids[r + 1 - skip] = i
      BY <3>2, <2>2, <1>9
    <3> QED
      BY <3>2, <3>3, <1>12, <1>14
  <2>4. m = skip + Limit /\ skip + Limit < n
    BY <2>2, <2>3, <1>2, <1>3
  <2>5. m \in 1 .. n /\ r + 1 \in 1 .. n
    BY <2>2, <2>4, <1>2, <1>3
  <2> QED
    BY <2>2, <2>3, <2>4, <2>5, <1>2
<1>15. CASE Len(ids) = Limit
  <2> DEFINE last == ids[Limit]
  <2>1. page.next = [at |-> store[last].at, id |-> last] /\ last \in S /\ Limit \in 1 .. Len(ids)
    <3> HIDE DEF ids
    <3>1. Limit \in 1 .. Len(ids)
      BY <1>3, <1>15
    <3>2. page.next = encodeCursor(ids[Limit])
      BY <1>6, <1>15 DEF Last
    <3> QED
      BY <3>1, <3>2, <1>11 DEF encodeCursor
  <2> HIDE DEF last
  <2>2. page.next.at = store[last].at /\ page.next.id = last /\ page.next.at \in Nat /\ page.next # NoCursor
    BY <2>1, <1>7 DEF NoCursor
  <2>3. ASSUME NEW i \in Range(ids)
        PROVE  ~Behind(i, page.next)
    <3>1. PICK k \in 1 .. Len(ids) : i = ids[k]
      BY <1>12
    <3>2. i \in S
      BY <3>1, <1>11
    <3>3. CASE k = Limit
      BY <3>1, <3>2, <3>3, <2>1, <2>2, <1>7 DEF Behind, last
    <3>4. CASE k < Limit
      <4>1. Before(i, last)
        BY <3>1, <3>4, <2>1, <1>10 DEF last
      <4> QED
        BY <4>1, <3>2, <2>1, <2>2, <1>7 DEF Behind, Before
    <3> QED
      BY <3>1, <3>3, <3>4, <1>3, <1>15
  <2>4. ASSUME NEW i \in Due(offset, cursor), i \notin Range(ids)
        PROVE  Behind(i, page.next)
    <3>1. m = skip + Limit /\ Before(all[m], i)
      BY <2>4, <1>14
    <3>2. Limit \in 1 .. m - skip /\ last = all[m]
      BY <3>1, <2>1, <1>3, <1>9 DEF last
    <3>3. i \in S
      BY DEF Due, S
    <3> QED
      BY <3>1, <3>2, <3>3, <2>1, <2>2, <1>7 DEF Behind, Before
  <2>5. ASSUME NEW i \in Nat, store[i].at \in Nat, Behind(i, page.next)
        PROVE  Behind(i, cursor)
    <3>1. Behind(last, cursor)
      BY <2>1 DEF S, Candidates
    <3>2. last \in Nat /\ store[last].at \in Nat
      BY <2>1, <1>7
    <3> QED
      BY <2>2, <2>5, <3>1, <3>2 DEF Behind
  <2>6. page.next.id \in Nat
    BY <2>1, <2>2, <1>7
  <2> QED
    BY <2>2, <2>3, <2>4, <2>5, <2>6, <1>9, <1>13 DEF S
<1>16. CASE Len(ids) # Limit
  <2>1. page.next = NoCursor
    BY <1>6, <1>16
  <2>2. ASSUME NEW i \in Due(offset, cursor)
        PROVE  i \in Range(ids)
    <3>1. SUFFICES ASSUME i \notin Range(ids)
                   PROVE  FALSE
      OBVIOUS
    <3>2. m = skip + Limit
      BY <3>1, <1>14
    <3>3. Len(ids) = Limit
      BY <3>2, <1>3, <1>9
    <3> QED
      BY <3>3, <1>16
  <2> QED
    BY <2>1, <2>2, <1>9, <1>13 DEF S
<1> QED
  BY <1>15, <1>16

-----------------------------------------------------------------------------
(* Types                                                                    *)

Results == {"none", "ok", "mismatch", "conflict", "error"}

Documents ==
  /\ IsFiniteSet(DOMAIN store) /\ DOMAIN store \subseteq used /\ used \subseteq Ids
  /\ clock \in Nat /\ calls \in Nat
  /\ \A i \in DOMAIN store : store[i] \in [at : 0 .. clock, deleted : BOOLEAN, batched : BOOLEAN]

CallType ==
  [op : {"create", "batch"}, n : Nat, id : Nat, attempt : 0 .. maxRetries, result : Results,
   before : SUBSET DOMAIN store, settled : SUBSET Settled]

CallShape ==
  /\ DOMAIN call = Clients
  /\ \A c \in Clients :
       call[c] = NoCall \/ (call[c] \in CallType /\ call[c].n < calls /\ (call[c].op = "create" => call[c].id \in used))

RequestType ==
  [client : Clients, n : Nat, attempt : 0 .. maxRetries, op : {"create", "batch"}, id : Nat,
   at : -1 .. clock, chosen : SUBSET DOMAIN store]

RequestShape ==
  \A q \in requests : q \in RequestType /\ q.n < calls /\ (q.op = "create" => q.id \in used)

AnswerShape == \A a \in answers : a.client \in Clients /\ a.code \in {200, 201, 409, 500}

Shape == Documents /\ CallShape /\ RequestShape /\ AnswerShape

-----------------------------------------------------------------------------
(* What a step does to the documents                                        *)

\* Documents are added and change, but none goes, and what is settled stays so.
Grows ==
  /\ DOMAIN store \subseteq DOMAIN store'
  /\ clock <= clock' /\ clock' \in Nat
  /\ \A i \in DOMAIN store : /\ store'[i].at = store[i].at
                             /\ store[i].deleted => store'[i].deleted
                             /\ store[i].batched => store'[i].batched

LEMMA StoreUnchanged ==
    ASSUME Documents, store' = store, clock' = clock, calls' \in Nat, used' = used
    PROVE  Documents' /\ Grows
BY DEF Documents, Grows

LEMMA StoreWith ==
    ASSUME Documents, NEW q \in requests, q \in RequestType, q.op = "create", q.id \in used, q.at >= 0,
           store' \in {store, With(q)}, UNCHANGED <<clock, calls, used>>
    PROVE  /\ Documents' /\ Grows /\ Visible \subseteq Visible'
           /\ store' = With(q) => q.id \in DOMAIN store'
<1>1. CASE store' = store
  <2>1. q.id \in DOMAIN With(q)
    BY DEF With
  <2> QED
    BY <1>1, <2>1 DEF Documents, Grows, Visible
<1>2. CASE store' = With(q)
  <2>1. DOMAIN store' = DOMAIN store \cup {q.id}
    BY <1>2 DEF With
  <2>2. \A i \in DOMAIN store : store'[i] = store[i]
    BY <1>2 DEF With
  <2>3. q.id \notin DOMAIN store => store'[q.id] = [at |-> q.at, deleted |-> FALSE, batched |-> FALSE]
    BY <1>2 DEF With
  <2>4. q.at \in 0 .. clock
    BY DEF RequestType, Documents
  <2>5. \A i \in DOMAIN store' : store'[i] \in [at : 0 .. clock, deleted : BOOLEAN, batched : BOOLEAN]
    <3>1. [at |-> q.at, deleted |-> FALSE, batched |-> FALSE] \in [at : 0 .. clock, deleted : BOOLEAN, batched : BOOLEAN]
      BY <2>4
    <3> QED
      BY <2>1, <2>2, <2>3, <3>1 DEF Documents
  <2>6. IsFiniteSet(DOMAIN store')
    BY <2>1, FS_AddElement DEF Documents
  <2>7. Documents'
    BY <2>1, <2>5, <2>6 DEF Documents
  <2>8. Grows
    BY <2>1, <2>2 DEF Grows, Documents
  <2> QED
    BY <2>1, <2>2, <2>7, <2>8 DEF Visible
<1> QED
  BY <1>1, <1>2

LEMMA StoreClaimed ==
    ASSUME Documents, NEW q, store' \in {store, Claimed(q)}, UNCHANGED <<clock, calls, used>>
    PROVE  /\ Documents' /\ Grows /\ Visible \subseteq Visible'
           /\ store' = Claimed(q) => q.chosen \cap Pending' = {} /\ DOMAIN store' = DOMAIN store
<1>1. CASE store' = store /\ store' # Claimed(q)
  BY <1>1 DEF Documents, Grows, Visible
<1>2. CASE store' = Claimed(q)
  <2>1. DOMAIN store' = DOMAIN store
    BY <1>2 DEF Claimed
  <2>2. ASSUME NEW i \in DOMAIN store
        PROVE  /\ store'[i] \in [at : 0 .. clock, deleted : BOOLEAN, batched : BOOLEAN]
               /\ store'[i].at = store[i].at /\ store'[i].deleted = store[i].deleted
               /\ store[i].batched => store'[i].batched
               /\ i \in q.chosen => store'[i].batched \/ i \notin Pending
    <3>1. store'[i] = [store[i] EXCEPT !.batched = @ \/ i \in q.chosen \cap Pending]
      BY <1>2 DEF Claimed
    <3>2. store[i] \in [at : 0 .. clock, deleted : BOOLEAN, batched : BOOLEAN]
      BY DEF Documents
    <3> QED
      BY <3>1, <3>2
  <2>3. Documents'
    BY <2>1, <2>2 DEF Documents
  <2>4. Grows
    BY <2>1, <2>2 DEF Documents, Grows
  <2>5. Visible \subseteq Visible' /\ q.chosen \cap Pending' = {}
    BY <2>1, <2>2 DEF Visible, Pending
  <2> QED
    BY <2>1, <2>3, <2>4, <2>5
<1> QED
  BY <1>1, <1>2

LEMMA StoreDeleted ==
    ASSUME Documents, NEW id \in DOMAIN store, store' = [store EXCEPT ![id].deleted = TRUE],
           UNCHANGED <<clock, calls, used>>
    PROVE  Documents' /\ Grows /\ Visible \ {id} \subseteq Visible'
<1>1. DOMAIN store' = DOMAIN store
  OBVIOUS
<1>2. ASSUME NEW i \in DOMAIN store
      PROVE  /\ store'[i] \in [at : 0 .. clock, deleted : BOOLEAN, batched : BOOLEAN]
             /\ store'[i].at = store[i].at /\ store'[i].batched = store[i].batched
             /\ store[i].deleted => store'[i].deleted
             /\ i # id => store'[i] = store[i]
  <2>1. store[i] \in [at : 0 .. clock, deleted : BOOLEAN, batched : BOOLEAN]
    BY DEF Documents
  <2>2. store'[i] = IF i = id THEN [store[i] EXCEPT !.deleted = TRUE] ELSE store[i]
    OBVIOUS
  <2> QED
    BY <2>1, <2>2
<1>3. Documents'
  BY <1>1, <1>2 DEF Documents
<1>4. Grows
  BY <1>1, <1>2 DEF Documents, Grows
<1>5. Visible \ {id} \subseteq Visible'
  BY <1>1, <1>2 DEF Visible
<1> QED
  BY <1>3, <1>4, <1>5

LEMMA SettledGrows ==
    ASSUME Grows, Documents, Documents'
    PROVE  Settled \subseteq Settled' /\ Pending' \cap DOMAIN store \subseteq Pending
BY DEF Grows, Settled, Pending, Visible, Documents

LEMMA VisibleIsTimed ==
    ASSUME Documents
    PROVE  Timed(Visible) /\ Timed(Pending) /\ Visible \subseteq DOMAIN store /\ Pending \subseteq DOMAIN store
<1>1. Visible \in SUBSET DOMAIN store /\ Pending \in SUBSET DOMAIN store
  BY DEF Visible, Pending
<1>2. IsFiniteSet(Visible) /\ IsFiniteSet(Pending)
  BY <1>1, FS_Subset DEF Documents
<1>3. \A i \in DOMAIN store : i \in Nat /\ store[i].at \in Nat
  <2>1. ASSUME NEW i \in DOMAIN store
        PROVE  i \in Nat /\ store[i].at \in Nat
    <3>1. store[i] \in [at : 0 .. clock, deleted : BOOLEAN, batched : BOOLEAN] /\ clock \in Nat
      BY DEF Documents
    <3>2. i \in Nat
      BY RecordsAssumption DEF Documents
    <3> QED
      BY <3>1, <3>2
  <2> QED
    BY <2>1
<1> QED
  BY <1>1, <1>2, <1>3 DEF Timed

-----------------------------------------------------------------------------
(* Calls, requests and answers                                              *)

Calling(c) == call[c].op # "none"

\* A request belongs to a call that has begun, and to an attempt it has made.
Numbered ==
  \A q \in requests : Calling(q.client) /\ call[q.client].n = q.n => q.attempt <= call[q.client].attempt

\* What a client waits for is what it has asked for, once.
OwnRequest ==
  \A q \in requests : Awaited(q) =>
    /\ q.op = call[q.client].op /\ q.id = call[q.client].id
    /\ \A r \in requests : Awaited(r) /\ r.client = q.client => r = q
    /\ \A a \in answers : a.client # q.client

OneAnswer ==
  \A a \in answers : Under(a.client) /\ \A b \in answers : b.client = a.client => b = a

Exchange == Numbered /\ OwnRequest /\ OneAnswer

LEMMA CallIs ==
    ASSUME CallShape, NEW c \in Clients, Calling(c)
    PROVE  call[c] \in CallType /\ call[c].n < calls /\ (call[c].op = "create" => call[c].id \in used)
BY DEF CallShape, Calling, NoCall

LEMMA ExchangeSame ==
    ASSUME Exchange, UNCHANGED <<call, requests, answers>>
    PROVE  Exchange'
BY DEF Exchange, Numbered, OwnRequest, OneAnswer, Calling, Awaited, Under

LEMMA ExchangeBegin ==
    ASSUME Shape, Exchange, NEW c \in Clients, NEW op \in {"create", "batch"}, NEW id, NEW before,
           Begin(c, op, id, before)
    PROVE  /\ Exchange'
           /\ \A q \in requests' : Awaited(q)' /\ q.chosen # {} => q \in requests /\ Awaited(q) /\ q.client # c
<1> DEFINE k == [op |-> op, n |-> calls, id |-> id, attempt |-> 0, result |-> "none",
                 before |-> before, settled |-> Settled]
           s == [client |-> c, n |-> calls, attempt |-> 0, op |-> op, id |-> id, at |-> -1, chosen |-> {}]
<1>1. call' = [call EXCEPT ![c] = k] /\ requests' = requests \cup {s} /\ answers' = answers /\ ~Calling(c)
  BY DEF Begin, Send, Calling
<1>2. call'[c] = k /\ \A d \in Clients : d # c => call'[d] = call[d]
  BY <1>1 DEF Shape, CallShape
<1>3. k.op = op /\ k.n = calls /\ k.id = id /\ k.attempt = 0 /\ k.result = "none"
  OBVIOUS
<1>4. s.client = c /\ s.n = calls /\ s.attempt = 0 /\ s.op = op /\ s.id = id
  OBVIOUS
<1> HIDE DEF k, s
<1>5. \A q \in requests : q.client \in Clients /\ q.n < calls /\ q.n \in Nat
  BY DEF Shape, RequestShape, RequestType
<1>6. \A a \in answers : a.client \in Clients /\ a.client # c
  BY <1>1 DEF Shape, AnswerShape, Exchange, OneAnswer, Under, Calling
<1>7. calls \in Nat
  BY DEF Shape, Documents
<1>8. \A q \in requests : q.client = c => ~Awaited(q)'
  BY <1>2, <1>3, <1>5, <1>7 DEF Awaited
<1>9. \A q \in requests : q.client # c => (Awaited(q)' <=> Awaited(q)) /\ call'[q.client] = call[q.client]
  BY <1>2, <1>5 DEF Awaited, Under
<1>10. Numbered'
  BY <1>1, <1>2, <1>3, <1>4, <1>5, <1>7, <1>9 DEF Exchange, Numbered, Calling
<1>11. OwnRequest'
  BY <1>1, <1>2, <1>3, <1>4, <1>6, <1>8, <1>9 DEF Exchange, OwnRequest
<1>12. OneAnswer'
  BY <1>1, <1>2, <1>6 DEF Exchange, OneAnswer, Under
<1>13. s.chosen = {}
  BY DEF s
<1> QED
  BY <1>1, <1>8, <1>9, <1>10, <1>11, <1>12, <1>13 DEF Exchange

\* Another attempt of a call that nobody has answered, or its end.
LEMMA ExchangeRetry ==
    ASSUME Shape, Exchange, NEW c \in Clients, Under(c), Retry(c),
           answers' \subseteq answers, \A a \in answers' : a.client # c
    PROVE  /\ Exchange'
           /\ \A q \in requests' : Awaited(q)' /\ q.chosen # {} => q \in requests /\ Awaited(q) /\ q.client # c
<1>1. call[c] \in CallType
  BY CallIs DEF Shape, Under, Calling
<1>2. \A q \in requests : q.client \in Clients /\ q.n \in Nat /\ q.attempt \in 0 .. maxRetries
  BY DEF Shape, RequestShape, RequestType
<1>3. \A a \in answers : a.client \in Clients
  BY DEF Shape, AnswerShape
<1>4. maxRetries \in Nat
  BY RecordsAssumption
<1>5. CASE call[c].attempt < maxRetries
  <2> DEFINE s == [client |-> c, n |-> call[c].n, attempt |-> call[c].attempt + 1, op |-> call[c].op, id |-> call[c].id,
                   at |-> -1, chosen |-> {}]
  <2>1. call' = [call EXCEPT ![c].attempt = @ + 1] /\ requests' = requests \cup {s}
    BY <1>5 DEF Retry, Send
  <2>2. \A d \in Clients : d # c => call'[d] = call[d]
    BY <2>1 DEF Shape, CallShape
  <2>3. call'[c] = [call[c] EXCEPT !.attempt = @ + 1]
    BY <2>1 DEF Shape, CallShape
  <2>4. /\ call'[c].op = call[c].op /\ call'[c].n = call[c].n /\ call'[c].id = call[c].id
        /\ call'[c].result = call[c].result /\ call'[c].attempt = call[c].attempt + 1
        /\ call[c].attempt \in Nat
    BY <2>3, <1>1, <1>4 DEF CallType
  <2>5. s.client = c /\ s.n = call[c].n /\ s.attempt = call[c].attempt + 1 /\ s.op = call[c].op /\ s.id = call[c].id /\ s.chosen = {}
    OBVIOUS
  <2> HIDE DEF s
  <2>6. \A q \in requests : q.client = c => ~Awaited(q)'
    BY <2>4, <1>2, <1>4 DEF Awaited, Exchange, Numbered, Under, Calling
  <2>7. \A q \in requests : q.client # c => (Awaited(q)' <=> Awaited(q)) /\ call'[q.client] = call[q.client]
    BY <2>2, <1>2 DEF Awaited, Under
  <2>8. Numbered'
    <3>1. SUFFICES ASSUME NEW q \in requests', (Calling(q.client) /\ call[q.client].n = q.n)'
                   PROVE  q.attempt <= call'[q.client].attempt
      BY DEF Numbered
    <3>2. CASE q \in requests /\ q.client # c
      BY <3>1, <3>2, <2>7 DEF Exchange, Numbered, Calling
    <3>3. CASE q \in requests /\ q.client = c
      BY <3>1, <3>3, <2>4, <1>2, <1>4 DEF Exchange, Numbered, Calling
    <3>4. CASE q = s
      BY <3>4, <2>4, <2>5
    <3> QED
      BY <3>1, <3>2, <3>3, <3>4, <2>1
  <2>9. OwnRequest'
    BY <2>1, <2>4, <2>5, <2>6, <2>7 DEF Exchange, OwnRequest
  <2>10. OneAnswer'
    BY <1>3, <2>2 DEF Exchange, OneAnswer, Under
  <2> QED
    BY <2>1, <2>5, <2>6, <2>7, <2>8, <2>9, <2>10 DEF Exchange
<1>6. CASE ~(call[c].attempt < maxRetries)
  <2>1. call' = [call EXCEPT ![c].result = "error"] /\ requests' = requests
    BY <1>6 DEF Retry
  <2>2. \A d \in Clients : d # c => call'[d] = call[d]
    BY <2>1 DEF Shape, CallShape
  <2>3. call'[c] = [call[c] EXCEPT !.result = "error"]
    BY <2>1 DEF Shape, CallShape
  <2>4. /\ call'[c].op = call[c].op /\ call'[c].n = call[c].n /\ call'[c].attempt = call[c].attempt
        /\ call'[c].result = "error"
    BY <2>3, <1>1 DEF CallType
  <2>5. \A q \in requests : Awaited(q)' => Awaited(q) /\ q.client # c /\ call'[q.client] = call[q.client]
    BY <2>2, <2>4, <1>2 DEF Awaited, Under
  <2>6. Numbered'
    BY <2>1, <2>2, <2>4, <1>2 DEF Exchange, Numbered, Calling
  <2>7. OwnRequest'
    BY <2>1, <2>5 DEF Exchange, OwnRequest
  <2>8. OneAnswer'
    BY <1>3, <2>2 DEF Exchange, OneAnswer, Under
  <2> QED
    BY <2>1, <2>5, <2>6, <2>7, <2>8 DEF Exchange
<1> QED
  BY <1>5, <1>6

\* A final answer, and the return of the call.
LEMMA ExchangeEnd ==
    ASSUME Shape, Exchange, NEW c \in Clients,
           \A d \in Clients : d # c => call'[d] = call[d],
           call'[c].op = "none" \/ (/\ call'[c].op = call[c].op /\ call'[c].n = call[c].n
                                    /\ call'[c].attempt = call[c].attempt /\ call'[c].result # "none"),
           requests' = requests, answers' \subseteq answers, \A a \in answers' : a.client # c
    PROVE  /\ Exchange'
           /\ \A q \in requests' : Awaited(q)' /\ q.chosen # {} => q \in requests /\ Awaited(q) /\ q.client # c
<1>1. \A q \in requests : q.client \in Clients
  BY DEF Shape, RequestShape, RequestType
<1>2. \A a \in answers : a.client \in Clients
  BY DEF Shape, AnswerShape
<1>3. \A q \in requests : Awaited(q)' => Awaited(q) /\ q.client # c /\ call'[q.client] = call[q.client]
  BY <1>1 DEF Awaited, Under
<1>4. Numbered'
  BY <1>1 DEF Exchange, Numbered, Calling
<1>5. OwnRequest'
  BY <1>3 DEF Exchange, OwnRequest
<1>6. OneAnswer'
  BY <1>2 DEF Exchange, OneAnswer, Under
<1> QED
  BY <1>3, <1>4, <1>5, <1>6 DEF Exchange

\* A request that is taken a step further.
LEMMA ExchangeReplace ==
    ASSUME Exchange, NEW q \in requests, NEW r,
           r.client = q.client, r.n = q.n, r.attempt = q.attempt, r.op = q.op, r.id = q.id,
           requests' = (requests \ {q}) \cup {r}, UNCHANGED <<call, answers>>
    PROVE  Exchange'
<1>1. \A p : Awaited(p)' <=> Awaited(p)
  BY DEF Awaited, Under
<1>2. Awaited(r) <=> Awaited(q)
  BY DEF Awaited
<1>3. Numbered'
  BY DEF Exchange, Numbered, Calling
<1>4. OwnRequest'
  BY <1>1, <1>2 DEF Exchange, OwnRequest
<1>5. OneAnswer'
  BY DEF Exchange, OneAnswer, Under
<1> QED
  BY <1>3, <1>4, <1>5 DEF Exchange

LEMMA ExchangeReply ==
    ASSUME Exchange, NEW q \in requests, NEW code, NEW hash, Reply(q, code, hash), call' = call
    PROVE  Exchange'
<1>1. \A p : Awaited(p)' <=> Awaited(p)
  BY DEF Awaited, Under
<1>2. requests' = requests \ {q}
  BY DEF Reply
<1>3. Numbered'
  BY <1>2 DEF Exchange, Numbered, Calling
<1>4. CASE Awaited(q)
  <2> DEFINE a == [client |-> q.client, code |-> code, hash |-> hash]
  <2>1. answers' = answers \cup {a} /\ a.client = q.client
    BY <1>4 DEF Reply
  <2> HIDE DEF a
  <2>2. OwnRequest'
    BY <1>1, <1>2, <1>4, <2>1 DEF Exchange, OwnRequest
  <2>3. OneAnswer'
    BY <1>4, <2>1 DEF Exchange, OneAnswer, OwnRequest, Under, Awaited
  <2> QED
    BY <1>3, <2>2, <2>3 DEF Exchange
<1>5. CASE ~Awaited(q)
  <2>1. answers' = answers
    BY <1>5 DEF Reply
  <2> QED
    BY <1>1, <1>2, <1>3, <2>1 DEF Exchange, OwnRequest, OneAnswer, Under
<1> QED
  BY <1>4, <1>5

LEMMA ExchangeDrop ==
    ASSUME Exchange, requests' \subseteq requests, UNCHANGED <<call, answers>>
    PROVE  Exchange'
BY DEF Exchange, Numbered, OwnRequest, OneAnswer, Calling, Awaited, Under

-----------------------------------------------------------------------------
(* Types are kept                                                           *)

LEMMA ShapeKept ==
    ASSUME Shape, Documents', Grows, used \subseteq used', calls <= calls',
           DOMAIN call' = Clients,
           \A c \in Clients : \/ call'[c] = NoCall \/ call'[c] = call[c]
                              \/ /\ call'[c] \in CallType' /\ call'[c].n < calls'
                                 /\ call'[c].op = "create" => call'[c].id \in used',
           \A q \in requests' : \/ q \in requests
                                \/ q \in RequestType' /\ q.n < calls' /\ (q.op = "create" => q.id \in used'),
           \A a \in answers' : \/ a \in answers
                               \/ a.client \in Clients /\ a.code \in {200, 201, 409, 500}
    PROVE  Shape'
<1>1. Settled \subseteq Settled' /\ DOMAIN store \subseteq DOMAIN store'
  BY SettledGrows DEF Shape, Grows
<1>2. calls \in Nat /\ calls' \in Nat /\ clock \in Nat /\ clock' \in Nat /\ clock <= clock'
  BY DEF Shape, Documents, Grows
<1>3. ASSUME NEW k \in CallType
      PROVE  k \in CallType'
  BY <1>1, <1>3 DEF CallType
<1>4. ASSUME NEW q \in RequestType
      PROVE  q \in RequestType'
  BY <1>1, <1>2, <1>4 DEF RequestType
<1>5. CallShape'
  <2>1. \A c \in Clients :
          call[c] = NoCall \/ (call[c] \in CallType /\ call[c].n < calls /\ (call[c].op = "create" => call[c].id \in used))
    BY DEF Shape, CallShape
  <2>2. \A c \in Clients : call[c] \in CallType => call[c].n \in Nat
    BY DEF CallType
  <2> QED
    BY <1>2, <1>3, <2>1, <2>2 DEF CallShape
<1>6. RequestShape'
  <2>1. \A q \in requests : q \in RequestType /\ q.n \in Nat /\ q.n < calls /\ (q.op = "create" => q.id \in used)
    BY DEF Shape, RequestShape, RequestType
  <2> QED
    BY <1>2, <1>4, <2>1 DEF RequestShape
<1>7. AnswerShape'
  BY DEF Shape, AnswerShape
<1> QED
  BY <1>5, <1>6, <1>7 DEF Shape

LEMMA ShapeBegin ==
    ASSUME Shape, NEW c \in Clients, NEW op \in {"create", "batch"}, NEW id \in Nat, NEW before,
           before \subseteq DOMAIN store, op = "create" => id \in used',
           used \subseteq used', used' \subseteq Ids,
           Begin(c, op, id, before)
    PROVE  Shape' /\ Grows
<1> DEFINE k == [op |-> op, n |-> calls, id |-> id, attempt |-> 0, result |-> "none",
                 before |-> before, settled |-> Settled]
           s == [client |-> c, n |-> calls, attempt |-> 0, op |-> op, id |-> id, at |-> -1, chosen |-> {}]
<1>1. call' = [call EXCEPT ![c] = k] /\ requests' = requests \cup {s} /\ answers' = answers /\ calls' = calls + 1
      /\ store' = store /\ clock' = clock
  BY DEF Begin, Send
<1>2. calls \in Nat /\ clock \in Nat /\ maxRetries \in Nat
  BY RecordsAssumption DEF Shape, Documents
<1>3. Documents' /\ Grows
  BY <1>1, <1>2 DEF Shape, Documents, Grows
<1>4. Settled' = Settled
  BY <1>1 DEF Settled, Pending, Visible
<1>5. k \in CallType' /\ k.n < calls' /\ (k.op = "create" => k.id \in used')
  BY <1>1, <1>2, <1>4 DEF CallType, Results
<1>6. s \in RequestType' /\ s.n < calls' /\ (s.op = "create" => s.id \in used')
  BY <1>1, <1>2 DEF RequestType
<1> HIDE DEF k, s
<1>7. DOMAIN call' = Clients /\ \A d \in Clients : call'[d] = k \/ call'[d] = call[d]
  BY <1>1 DEF Shape, CallShape
<1> QED
  BY <1>1, <1>2, <1>3, <1>5, <1>6, <1>7, ShapeKept

LEMMA ShapeRetry ==
    ASSUME Shape, NEW c \in Clients, Under(c), Retry(c), answers' \subseteq answers,
           UNCHANGED <<store, clock, used, calls>>
    PROVE  Shape' /\ Grows
<1>1. call[c] \in CallType /\ call[c].n < calls /\ (call[c].op = "create" => call[c].id \in used)
  BY CallIs DEF Shape, Under, Calling
<1>2. calls \in Nat /\ clock \in Nat /\ maxRetries \in Nat /\ used \subseteq used' /\ calls <= calls'
  BY RecordsAssumption DEF Shape, Documents
<1>3. Documents' /\ Grows
  BY <1>2, StoreUnchanged DEF Shape
<1>4. CallType' = CallType /\ RequestType' = RequestType
  BY DEF CallType, RequestType, Settled, Pending, Visible
<1>5. DOMAIN call = Clients
  BY DEF Shape, CallShape
<1>6. CASE call[c].attempt < maxRetries
  <2> DEFINE s == [client |-> c, n |-> call[c].n, attempt |-> call[c].attempt + 1, op |-> call[c].op, id |-> call[c].id,
                   at |-> -1, chosen |-> {}]
             k == [call[c] EXCEPT !.attempt = @ + 1]
  <2>1. call' = [call EXCEPT ![c] = k] /\ requests' = requests \cup {s}
    BY <1>6 DEF Retry, Send
  <2>2. k \in CallType /\ k.n = call[c].n /\ k.op = call[c].op /\ k.id = call[c].id
    BY <1>1, <1>2, <1>6 DEF CallType
  <2>3. s \in RequestType /\ s.n = call[c].n
    BY <1>1, <1>2, <1>6 DEF RequestType, CallType
  <2>4. s.op = "create" => s.id \in used'
    BY <1>1, <1>2
  <2> HIDE DEF s, k
  <2>5. DOMAIN call' = Clients /\ \A d \in Clients : call'[d] = k \/ call'[d] = call[d]
    BY <1>5, <2>1
  <2> QED
    BY <1>1, <1>2, <1>3, <1>4, <2>1, <2>2, <2>3, <2>4, <2>5, ShapeKept
<1>7. CASE ~(call[c].attempt < maxRetries)
  <2> DEFINE k == [call[c] EXCEPT !.result = "error"]
  <2>1. call' = [call EXCEPT ![c] = k] /\ requests' = requests
    BY <1>7 DEF Retry
  <2>2. k \in CallType /\ k.n = call[c].n /\ k.op = call[c].op /\ k.id = call[c].id
    BY <1>1 DEF CallType, Results
  <2> HIDE DEF k
  <2>3. DOMAIN call' = Clients /\ \A d \in Clients : call'[d] = k \/ call'[d] = call[d]
    BY <1>5, <2>1
  <2> QED
    BY <1>1, <1>2, <1>3, <1>4, <2>1, <2>2, <2>3, ShapeKept
<1> QED
  BY <1>6, <1>7

-----------------------------------------------------------------------------
(* What answers mean                                                        *)

Covered(k) == k.before \cap Pending = {} \/ Cardinality(Settled \ k.settled) >= BatchSize

AnswersMean ==
  \A a \in answers :
    /\ a.code \in {201, 409} => call[a.client].op = "create" /\ call[a.client].id \in DOMAIN store
    /\ a.code = 200 => call[a.client].op = "batch" /\ Covered(call[a.client])

\* The records that a request has chosen are settled by it alone, if at all.
ChosenCovers ==
  \A q \in requests : Awaited(q) /\ q.chosen # {} =>
    /\ q.chosen \cap call[q.client].settled = {}
    /\ call[q.client].before \cap Pending \subseteq q.chosen \/ Cardinality(q.chosen) >= BatchSize

Truth == AnswersMean /\ ChosenCovers /\ AnsweredCreateIsStored /\ BatchCoversEarlier

LEMMA CoveredStays ==
    ASSUME Documents, Documents', Grows,
           NEW before, before \subseteq DOMAIN store, NEW settled,
           before \cap Pending = {} \/ Cardinality(Settled \ settled) >= BatchSize
    PROVE  before \cap Pending' = {} \/ Cardinality(Settled' \ settled) >= BatchSize
<1>1. Settled \subseteq Settled' /\ Pending' \cap DOMAIN store \subseteq Pending
  BY SettledGrows
<1>2. CASE before \cap Pending = {}
  BY <1>1, <1>2
<1>3. CASE Cardinality(Settled \ settled) >= BatchSize
  <2>1. Settled' \ settled \in SUBSET DOMAIN store'
    BY DEF Settled
  <2>2. IsFiniteSet(Settled' \ settled)
    BY <2>1, FS_Subset DEF Documents
  <2>3. Settled \ settled \in SUBSET (Settled' \ settled)
    BY <1>1
  <2>4. /\ Cardinality(Settled \ settled) <= Cardinality(Settled' \ settled)
        /\ Cardinality(Settled \ settled) \in Nat /\ Cardinality(Settled' \ settled) \in Nat
    BY <2>2, <2>3, FS_Subset, FS_CardinalityType
  <2> QED
    BY <1>3, <2>4, RecordsAssumption
<1> QED
  BY <1>2, <1>3

LEMMA CallStays ==
    ASSUME Shape, Documents', Grows, NEW c \in Clients, Calling(c)
    PROVE  /\ call[c].before \subseteq DOMAIN store /\ call[c].settled \subseteq Settled
           /\ Covered(call[c]) => /\ \/ call[c].before \cap Pending' = {}
                                     \/ Cardinality(Settled' \ call[c].settled) >= BatchSize
<1>1. call[c].before \subseteq DOMAIN store /\ call[c].settled \subseteq Settled
  BY CallIs DEF Shape, CallType
<1> QED
  BY <1>1, CoveredStays DEF Covered, Shape

\* The client has moved.
LEMMA TruthClient ==
    ASSUME Shape, Exchange, Truth, Documents', Grows, NEW c \in Clients,
           \A d \in Clients : d # c => call'[d] = call[d],
           answers' \subseteq answers, \A a \in answers' : a.client # c,
           \A q \in requests' : Awaited(q)' /\ q.chosen # {} => q \in requests /\ Awaited(q) /\ q.client # c,
           call'[c].op = "create" /\ call'[c].result \in {"ok", "mismatch", "conflict"} => call'[c].id \in DOMAIN store',
           call'[c].op = "batch" /\ call'[c].result = "ok" => Covered(call[c])' 
    PROVE  Truth'
<1>1. \A a \in answers : a.client \in Clients /\ Calling(a.client)
  BY DEF Shape, AnswerShape, Exchange, OneAnswer, Under, Calling
<1>2. \A q \in requests : q.client \in Clients
  BY DEF Shape, RequestShape, RequestType
<1>3. DOMAIN store \subseteq DOMAIN store' /\ Pending' \cap DOMAIN store \subseteq Pending
  BY SettledGrows DEF Grows, Shape
<1>4. AnswersMean'
  <2>1. SUFFICES ASSUME NEW a \in answers'
                 PROVE  /\ a.code \in {201, 409} => call'[a.client].op = "create" /\ call'[a.client].id \in DOMAIN store'
                        /\ a.code = 200 => /\ call'[a.client].op = "batch"
                                           /\ \/ call'[a.client].before \cap Pending' = {}
                                              \/ Cardinality(Settled' \ call'[a.client].settled) >= BatchSize
    BY DEF AnswersMean, Covered
  <2>2. a \in answers /\ a.client \in Clients /\ Calling(a.client) /\ call'[a.client] = call[a.client]
    BY <2>1, <1>1
  <2>3. a.code = 200 => Covered(call[a.client]) /\ call[a.client].op = "batch"
    BY <2>2 DEF Truth, AnswersMean
  <2>4. a.code \in {201, 409} => call[a.client].op = "create" /\ call[a.client].id \in DOMAIN store
    BY <2>2 DEF Truth, AnswersMean
  <2> QED
    BY <2>2, <2>3, <2>4, <1>3, CallStays
<1>5. ChosenCovers'
  <2>1. SUFFICES ASSUME NEW q \in requests', Awaited(q)', q.chosen # {}
                 PROVE  /\ q.chosen \cap call'[q.client].settled = {}
                        /\ call'[q.client].before \cap Pending' \subseteq q.chosen \/ Cardinality(q.chosen) >= BatchSize
    BY DEF ChosenCovers
  <2>2. q \in requests /\ Awaited(q) /\ q.client # c /\ q.client \in Clients /\ call'[q.client] = call[q.client]
    BY <2>1, <1>2
  <2>3. call[q.client].before \subseteq DOMAIN store
    BY <2>2, CallStays DEF Awaited, Under, Calling
  <2> QED
    BY <1>3, <2>1, <2>2, <2>3 DEF Truth, ChosenCovers
<1>6. AnsweredCreateIsStored'
  BY <1>3 DEF Truth, AnsweredCreateIsStored
<1>7. BatchCoversEarlier'
  <2>1. SUFFICES ASSUME NEW d \in Clients, call'[d].op = "batch", call'[d].result = "ok"
                 PROVE  call'[d].before \cap Pending' = {} \/ Cardinality(Settled' \ call'[d].settled) >= BatchSize
    BY DEF BatchCoversEarlier
  <2>2. CASE d = c
    BY <2>1, <2>2 DEF Covered
  <2>3. CASE d # c
    BY <2>1, <2>3, CallStays DEF Truth, BatchCoversEarlier, Covered, Calling
  <2> QED
    BY <2>2, <2>3
<1> QED
  BY <1>4, <1>5, <1>6, <1>7 DEF Truth

\* The server has moved.
LEMMA TruthServer ==
    ASSUME Shape, Exchange, Truth, Documents', Grows, call' = call,
           \A a \in answers' :
             \/ a \in answers
             \/ /\ a.client \in Clients
                /\ a.code \in {201, 409} => call[a.client].op = "create" /\ call[a.client].id \in DOMAIN store'
                /\ a.code = 200 => call[a.client].op = "batch" /\ Covered(call[a.client])',
           \A q \in requests' : Awaited(q) /\ q.chosen # {} =>
             \/ q \in requests
             \/ /\ q.chosen \cap call[q.client].settled = {}
                /\ call[q.client].before \cap Pending' \subseteq q.chosen \/ Cardinality(q.chosen) >= BatchSize
    PROVE  Truth'
<1>1. \A a \in answers : a.client \in Clients /\ Calling(a.client)
  BY DEF Shape, AnswerShape, Exchange, OneAnswer, Under, Calling
<1>2. \A q \in requests : q.client \in Clients
  BY DEF Shape, RequestShape, RequestType
<1>3. DOMAIN store \subseteq DOMAIN store' /\ Pending' \cap DOMAIN store \subseteq Pending
  BY SettledGrows DEF Grows, Shape
<1>4. AnswersMean'
  <2>1. SUFFICES ASSUME NEW a \in answers'
                 PROVE  /\ a.code \in {201, 409} => call'[a.client].op = "create" /\ call'[a.client].id \in DOMAIN store'
                        /\ a.code = 200 => /\ call'[a.client].op = "batch"
                                           /\ \/ call'[a.client].before \cap Pending' = {}
                                              \/ Cardinality(Settled' \ call'[a.client].settled) >= BatchSize
    BY DEF AnswersMean, Covered
  <2>2. CASE a \in answers
    <3>1. a.client \in Clients /\ Calling(a.client)
      BY <2>2, <1>1
    <3>2. a.code = 200 => Covered(call[a.client]) /\ call[a.client].op = "batch"
      BY <2>2 DEF Truth, AnswersMean
    <3>3. a.code \in {201, 409} => call[a.client].op = "create" /\ call[a.client].id \in DOMAIN store
      BY <2>2 DEF Truth, AnswersMean
    <3> QED
      BY <3>1, <3>2, <3>3, <1>3, CallStays
  <2>3. CASE a \notin answers
    BY <2>1, <2>3 DEF Covered
  <2> QED
    BY <2>2, <2>3
<1>5. ChosenCovers'
  <2>1. SUFFICES ASSUME NEW q \in requests', Awaited(q), q.chosen # {}, q \in requests
                 PROVE  /\ q.chosen \cap call[q.client].settled = {}
                        /\ call[q.client].before \cap Pending' \subseteq q.chosen \/ Cardinality(q.chosen) >= BatchSize
    BY DEF ChosenCovers, Awaited, Under
  <2>2. call[q.client].before \subseteq DOMAIN store
    BY <2>1, <1>2, CallStays DEF Awaited, Under, Calling
  <2> QED
    BY <1>3, <2>1, <2>2 DEF Truth, ChosenCovers
<1>6. AnsweredCreateIsStored'
  BY <1>3 DEF Truth, AnsweredCreateIsStored
<1>7. BatchCoversEarlier'
  BY CallStays DEF Truth, BatchCoversEarlier, Covered, Calling
<1> QED
  BY <1>4, <1>5, <1>6, <1>7 DEF Truth

\* An answer to whom it may concern.
LEMMA ReplyIsAnswer ==
    ASSUME Shape, Exchange, NEW q \in requests, NEW code \in {200, 201, 409, 500}, NEW hash, Reply(q, code, hash)
    PROVE  /\ requests' = requests \ {q}
           /\ \A a \in answers' : \/ a \in answers
                                  \/ /\ a.client = q.client /\ a.client \in Clients /\ a.code = code
                                     /\ Calling(q.client) /\ call[q.client].op = q.op /\ call[q.client].id = q.id
                                     /\ Awaited(q)
<1>1. q.client \in Clients
  BY DEF Shape, RequestShape, RequestType
<1>2. Awaited(q) => Calling(q.client) /\ call[q.client].op = q.op /\ call[q.client].id = q.id
  BY DEF Exchange, OwnRequest, Awaited, Under, Calling
<1> QED
  BY <1>1, <1>2 DEF Reply

-----------------------------------------------------------------------------
(* The walk                                                                 *)

\* What was read is not behind the cursor; what is still owed is.
WalkRight ==
  /\ walk = [pc |-> walk.pc, cursor |-> walk.cursor, seen |-> walk.seen, there |-> walk.there]
  /\ walk.pc \in {"walking", "done"}
  /\ walk.seen \in Seq(DOMAIN store) /\ IsInjective(walk.seen)
  /\ walk.there \subseteq Visible
  /\ walk.pc = "done" => walk.there \subseteq Range(walk.seen)
  /\ walk.pc = "walking" =>
       /\ walk.cursor # NoCursor /\ walk.cursor.at \in Nat /\ walk.cursor.id \in Nat
       /\ \A i \in Range(walk.seen) : ~Behind(i, walk.cursor)
       /\ \A i \in walk.there : i \in Range(walk.seen) \/ Behind(i, walk.cursor)

Walk == walk = NoWalk \/ WalkRight

LEMMA SeenIs ==
    ASSUME NEW S, NEW s \in Seq(S)
    PROVE  Range(s) = {s[k] : k \in 1 .. Len(s)} /\ Range(s) \subseteq S
BY DEF Range

\* The documents change and the reader does not move.
LEMMA WalkStays ==
    ASSUME Walk, Documents, Documents', Grows, Visible \subseteq Visible', walk' = walk
    PROVE  Walk'
<1>1. CASE walk = NoWalk
  BY <1>1 DEF Walk
<1>2. CASE WalkRight
  <2>1. walk.seen \in Seq(DOMAIN store) /\ Range(walk.seen) \subseteq DOMAIN store /\ walk.there \subseteq DOMAIN store
    BY <1>2, SeenIs DEF WalkRight, Visible
  <2>3. walk.seen \in Seq(DOMAIN store')
    <3>1. DOMAIN store \subseteq DOMAIN store'
      BY DEF Grows
    <3> QED
      BY <2>1, <3>1
  <2>4. \A i \in DOMAIN store : Behind(i, walk.cursor)' <=> Behind(i, walk.cursor)
    BY DEF Behind, Grows
  <2> QED
    BY <1>2, <2>1, <2>3, <2>4 DEF Walk, WalkRight
<1> QED
  BY <1>1, <1>2 DEF Walk

-----------------------------------------------------------------------------
(* Every step                                                               *)

Inv == Shape /\ Exchange /\ Truth /\ Walk

LEMMA WalkRests ==
    ASSUME Shape, Walk, Documents', Grows, UNCHANGED <<store, walk>>
    PROVE  Walk'
BY WalkStays DEF Shape, Visible

LEMMA StepBegin ==
    ASSUME Inv, NEW c \in Clients, NEW op \in {"create", "batch"}, NEW id \in Nat, NEW before,
           before \subseteq DOMAIN store, op = "create" => id \in used',
           used \subseteq used', used' \subseteq Ids,
           Begin(c, op, id, before)
    PROVE  Inv'
<1>1. Shape /\ Exchange /\ Truth /\ Walk
  BY DEF Inv
<1>2. Shape' /\ Grows
  BY <1>1, ShapeBegin
<1>3. /\ Exchange'
      /\ \A q \in requests' : Awaited(q)' /\ q.chosen # {} => q \in requests /\ Awaited(q) /\ q.client # c
  BY <1>1, ExchangeBegin
<1>4. /\ answers' = answers /\ store' = store /\ walk' = walk /\ ~Calling(c)
      /\ \A d \in Clients : d # c => call'[d] = call[d]
      /\ call'[c].result = "none"
  BY <1>1 DEF Begin, Calling, Shape, CallShape
<1>5. \A a \in answers : a.client # c
  BY <1>1, <1>4 DEF Exchange, OneAnswer, Under, Calling
<1>6. Documents'
  BY <1>2 DEF Shape
<1>7. Truth'
  BY <1>1, <1>2, <1>3, <1>4, <1>5, <1>6, TruthClient
<1>8. Walk'
  BY <1>1, <1>2, <1>4, <1>6, WalkRests
<1> QED
  BY <1>2, <1>3, <1>7, <1>8 DEF Inv

LEMMA StepCreateRecord ==
    ASSUME Inv, NEW c \in Clients, NEW id \in Ids, CreateRecord(c, id)
    PROVE  Inv'
<1>1. used \subseteq used' /\ used' \subseteq Ids /\ id \in used' /\ Begin(c, "create", id, {}) /\ id \in Nat
  BY RecordsAssumption DEF CreateRecord, Inv, Shape, Documents
<1> DEFINE none == {}
<1>2. none \subseteq DOMAIN store /\ Begin(c, "create", id, none)
  BY <1>1
<1> HIDE DEF none
<1> QED
  BY <1>1, <1>2, StepBegin

LEMMA StepBatchRecords ==
    ASSUME Inv, NEW c \in Clients, BatchRecords(c)
    PROVE  Inv'
<1>1. used' = used /\ used \subseteq Ids /\ Begin(c, "batch", 0, Pending)
  BY DEF BatchRecords, Inv, Shape, Documents
<1>2. Pending \subseteq DOMAIN store
  BY DEF Pending, Visible
<1> QED
  BY <1>1, <1>2, StepBegin

\* A retry, after an answer or without one.
LEMMA StepRetry ==
    ASSUME Inv, NEW c \in Clients, Under(c), Retry(c), answers' \subseteq answers, \A a \in answers' : a.client # c,
           UNCHANGED <<store, clock, walk, used, countVars>>
    PROVE  Inv'
<1>1. Shape /\ Exchange /\ Truth /\ Walk /\ UNCHANGED <<calls>>
  BY DEF Inv, countVars
<1>2. Shape' /\ Grows
  BY <1>1, ShapeRetry
<1>3. /\ Exchange'
      /\ \A q \in requests' : Awaited(q)' /\ q.chosen # {} => q \in requests /\ Awaited(q) /\ q.client # c
  BY <1>1, ExchangeRetry
<1>4. /\ \A d \in Clients : d # c => call'[d] = call[d]
      /\ call'[c].result \in {"none", "error"}
  <2>1. call[c] \in CallType /\ call[c].result = "none" /\ DOMAIN call = Clients
    BY <1>1, CallIs DEF Shape, CallShape, Under, Calling
  <2>2. CASE call[c].attempt < maxRetries
    <3>1. call' = [call EXCEPT ![c].attempt = @ + 1]
      BY <2>2 DEF Retry
    <3> QED
      BY <2>1, <3>1 DEF CallType
  <2>3. CASE ~(call[c].attempt < maxRetries)
    <3>1. call' = [call EXCEPT ![c].result = "error"]
      BY <2>3 DEF Retry
    <3> QED
      BY <2>1, <3>1 DEF CallType
  <2> QED
    BY <2>2, <2>3
<1>5. Documents'
  BY <1>2 DEF Shape
<1>6. Truth'
  BY <1>1, <1>2, <1>3, <1>4, <1>5, TruthClient
<1>7. Walk'
  BY <1>1, <1>2, <1>5, WalkRests
<1> QED
  BY <1>2, <1>3, <1>6, <1>7 DEF Inv

LEMMA StepGiveUp ==
    ASSUME Inv, NEW c \in Clients, GiveUp(c)
    PROVE  Inv'
<1>1. /\ Under(c) /\ Retry(c) /\ answers' = {a \in answers : a.client # c}
      /\ UNCHANGED <<store, clock, walk, used, countVars>>
  BY DEF GiveUp
<1>2. answers' \subseteq answers /\ \A a \in answers' : a.client # c
  BY <1>1
<1> QED
  BY <1>1, <1>2, StepRetry

\* A final answer, or the return of the call.
LEMMA StepEnd ==
    ASSUME Inv, NEW c \in Clients, NEW k, call' = [call EXCEPT ![c] = k],
           \/ k = NoCall
           \/ /\ k \in CallType /\ Calling(c) /\ k.op = call[c].op /\ k.n = call[c].n /\ k.id = call[c].id
              /\ k.attempt = call[c].attempt /\ k.result # "none",
           k.op = "create" /\ k.result \in {"ok", "mismatch", "conflict"} => k.id \in DOMAIN store,
           k.op = "batch" /\ k.result = "ok" => Covered(k),
           requests' = requests, answers' \subseteq answers, \A a \in answers' : a.client # c,
           UNCHANGED <<store, clock, walk, used, countVars>>
    PROVE  Inv'
<1>1. Shape /\ Exchange /\ Truth /\ Walk /\ calls' = calls /\ store' = store /\ used' = used
  BY DEF Inv, countVars
<1>2. Documents' /\ Grows
  BY <1>1, StoreUnchanged DEF Shape, Documents
<1>3. call'[c] = k /\ DOMAIN call' = Clients /\ \A d \in Clients : d # c => call'[d] = call[d]
  BY <1>1 DEF Shape, CallShape
<1>4. CallType' = CallType
  BY <1>1 DEF CallType, Settled, Pending, Visible
<1>5. Calling(c) => call[c] \in CallType /\ call[c].n < calls /\ (call[c].op = "create" => call[c].id \in used)
  BY <1>1, CallIs DEF Shape
<1>6. Shape'
  <2>1. calls <= calls'
    BY <1>1 DEF Shape, Documents
  <2> QED
    BY <1>1, <1>2, <1>3, <1>4, <1>5, <2>1, ShapeKept
<1>7. /\ Exchange'
      /\ \A q \in requests' : Awaited(q)' /\ q.chosen # {} => q \in requests /\ Awaited(q) /\ q.client # c
  BY <1>1, <1>3, ExchangeEnd DEF NoCall
<1>8. k.op = "batch" /\ k.result = "ok" => Covered(call[c])'
  BY <1>1, <1>3 DEF Covered, Settled, Pending, Visible
<1>9. Truth'
  BY <1>1, <1>2, <1>3, <1>7, <1>8, TruthClient
<1>10. Walk'
  BY <1>1, <1>2, WalkRests
<1> QED
  BY <1>6, <1>7, <1>9, <1>10 DEF Inv

LEMMA StepReturn ==
    ASSUME Inv, NEW c \in Clients, Return(c)
    PROVE  Inv'
<1>1. call' = [call EXCEPT ![c] = NoCall] /\ UNCHANGED <<store, clock, requests, answers, walk, used, countVars>>
      /\ call[c].result # "none"
  BY DEF Return
<1>2. \A a \in answers : a.client # c
  BY <1>1 DEF Inv, Exchange, OneAnswer, Under
<1>3. NoCall.op = "none"
  BY DEF NoCall
<1> QED
  BY <1>1, <1>2, <1>3, StepEnd

LEMMA StepReceive ==
    ASSUME Inv, NEW c \in Clients, Receive(c)
    PROVE  Inv'
<1>1. PICK a \in answers :
        /\ a.client = c
        /\ answers' = answers \ {a}
        /\ IF a.code >= 500 THEN Retry(c)
           ELSE call' = [call EXCEPT ![c].result = Outcome(c, a)] /\ UNCHANGED requests
  BY DEF Receive
<1>2. Under(c) /\ UNCHANGED <<store, clock, walk, used, countVars>>
  BY DEF Receive
<1>3. answers' \subseteq answers /\ \A b \in answers' : b.client # c
  BY <1>1 DEF Inv, Exchange, OneAnswer
<1>4. CASE a.code >= 500
  BY <1>1, <1>2, <1>3, <1>4, StepRetry
<1>5. CASE ~(a.code >= 500)
  <2> DEFINE k == [call[c] EXCEPT !.result = Outcome(c, a)]
  <2>1. a.code \in {200, 201, 409}
    BY <1>5 DEF Inv, Shape, AnswerShape
  <2>2. call[c] \in CallType /\ Calling(c)
    BY <1>2, CallIs DEF Inv, Shape, Under, Calling
  <2>3. Outcome(c, a) \in {"ok", "mismatch", "conflict"} /\ Outcome(c, a) \in Results /\ Outcome(c, a) # "none"
    BY <2>1 DEF Outcome, Results
  <2>4. call' = [call EXCEPT ![c] = k] /\ requests' = requests
    BY <1>1, <1>5
  <2>5. k \in CallType
    BY <2>2, <2>3 DEF CallType
  <2>6. /\ k.op = call[c].op /\ k.n = call[c].n /\ k.id = call[c].id /\ k.attempt = call[c].attempt
        /\ k.before = call[c].before /\ k.settled = call[c].settled /\ k.result = Outcome(c, a)
    BY <2>2 DEF CallType
  <2> HIDE DEF k
  <2>7. /\ a.code \in {201, 409} => call[c].op = "create" /\ call[c].id \in DOMAIN store
        /\ a.code = 200 => call[c].op = "batch" /\ Covered(call[c])
    BY <1>1 DEF Inv, Truth, AnswersMean
  <2>8. k.op = "create" => k.id \in DOMAIN store
    BY <2>1, <2>6, <2>7
  <2>9. k.op = "batch" => Covered(k)
    BY <2>1, <2>6, <2>7 DEF Covered
  <2> QED
    BY <1>2, <1>3, <2>2, <2>3, <2>4, <2>5, <2>6, <2>8, <2>9, StepEnd
<1> QED
  BY <1>4, <1>5

\* A request is taken a step further.
LEMMA StepReplace ==
    ASSUME Inv, NEW q \in requests, NEW r,
           r \in RequestType, r.client = q.client, r.n = q.n, r.attempt = q.attempt, r.op = q.op, r.id = q.id,
           requests' = (requests \ {q}) \cup {r},
           Awaited(q) /\ r.chosen # {} =>
             /\ r.chosen \cap call[q.client].settled = {}
             /\ call[q.client].before \cap Pending \subseteq r.chosen \/ Cardinality(r.chosen) >= BatchSize,
           UNCHANGED <<store, clock, call, answers, walk, used, countVars>>
    PROVE  Inv'
<1>1. Shape /\ Exchange /\ Truth /\ Walk /\ calls' = calls /\ store' = store /\ used' = used /\ clock' = clock
      /\ call' = call /\ answers' = answers
  BY DEF Inv, countVars
<1>2. Documents' /\ Grows
  BY <1>1, StoreUnchanged DEF Shape, Documents
<1>3. q \in RequestType /\ q.n < calls /\ (q.op = "create" => q.id \in used)
  BY <1>1 DEF Shape, RequestShape
<1>4. Shape'
  <2>1. RequestType' = RequestType
    BY <1>1 DEF RequestType
  <2>2. calls <= calls' /\ DOMAIN call' = Clients
    BY <1>1 DEF Shape, Documents, CallShape
  <2>3. \A p \in requests' : p \in requests \/ (p \in RequestType' /\ p.n < calls' /\ (p.op = "create" => p.id \in used'))
    BY <1>1, <1>3, <2>1
  <2> QED
    BY <1>1, <1>2, <2>2, <2>3, ShapeKept
<1>5. Exchange'
  BY <1>1, ExchangeReplace
<1>6. Truth'
  <2>1. Awaited(r) <=> Awaited(q)
    BY DEF Awaited
  <2>2. Pending' = Pending
    BY <1>1 DEF Pending, Visible
  <2>3. \A p \in requests' : Awaited(p) /\ p.chosen # {} =>
             \/ p \in requests
             \/ /\ p.chosen \cap call[p.client].settled = {}
                /\ call[p.client].before \cap Pending' \subseteq p.chosen \/ Cardinality(p.chosen) >= BatchSize
    BY <2>1, <2>2
  <2> QED
    BY <1>1, <1>2, <2>3, TruthServer
<1>7. Walk'
  BY <1>1, <1>2, WalkRests
<1> QED
  BY <1>4, <1>5, <1>6, <1>7 DEF Inv

\* What an answer tells is true after the step.
Warranted(q, code) ==
  /\ code \in {201, 409} => q.op = "create" /\ q.id \in DOMAIN store'
  /\ code = 200 => /\ q.op = "batch"
                   /\ \/ call[q.client].before \cap Pending' = {}
                      \/ Cardinality(Settled' \ call[q.client].settled) >= BatchSize

\* A request is answered.
LEMMA StepReply ==
    ASSUME Inv, NEW q \in requests, NEW code \in {200, 201, 409, 500}, NEW hash, Reply(q, code, hash),
           Documents', Grows, Visible \subseteq Visible',
           call' = call, walk' = walk, used' = used, calls' = calls,
           Awaited(q) => Warranted(q, code)
    PROVE  Inv'
<1>1. Shape /\ Exchange /\ Truth /\ Walk /\ Documents
  BY DEF Inv, Shape
<1>2. /\ requests' = requests \ {q}
      /\ \A a \in answers' : \/ a \in answers
                             \/ /\ a.client = q.client /\ a.client \in Clients /\ a.code = code
                                /\ Calling(q.client) /\ call[q.client].op = q.op /\ call[q.client].id = q.id
                                /\ Awaited(q)
  BY <1>1, ReplyIsAnswer
<1>3. Shape'
  <2>1. calls <= calls' /\ DOMAIN call' = Clients
    BY <1>1 DEF Shape, Documents, CallShape
  <2> QED
    BY <1>1, <1>2, <2>1, ShapeKept
<1>4. Exchange'
  BY <1>1, ExchangeReply
<1>5. Truth'
  <2>1. \A a \in answers' :
             \/ a \in answers
             \/ /\ a.client \in Clients
                /\ a.code \in {201, 409} => call[a.client].op = "create" /\ call[a.client].id \in DOMAIN store'
                /\ a.code = 200 => call[a.client].op = "batch" /\ Covered(call[a.client])'
    <3>1. SUFFICES ASSUME NEW a \in answers', a \notin answers
                   PROVE  /\ a.client \in Clients
                          /\ a.code \in {201, 409} => call[a.client].op = "create" /\ call[a.client].id \in DOMAIN store'
                          /\ a.code = 200 => call[a.client].op = "batch" /\ Covered(call[a.client])'
      OBVIOUS
    <3>2. /\ a.client = q.client /\ a.client \in Clients /\ a.code = code
          /\ call[q.client].op = q.op /\ call[q.client].id = q.id /\ Awaited(q)
      BY <3>1, <1>2
    <3>3. Covered(call[a.client])' <=> \/ call'[a.client].before \cap Pending' = {}
                                       \/ Cardinality(Settled' \ call'[a.client].settled) >= BatchSize
      BY DEF Covered
    <3> QED
      BY <3>2, <3>3 DEF Warranted
  <2> QED
    BY <1>1, <1>2, <2>1, TruthServer
<1>6. Walk'
  BY <1>1, WalkStays
<1> QED
  BY <1>3, <1>4, <1>5, <1>6 DEF Inv

LEMMA StepStamp ==
    ASSUME Inv, NEW q \in requests, Stamp(q)
    PROVE  Inv'
<1> DEFINE r == [q EXCEPT !.at = clock]
<1>1. q \in RequestType /\ clock \in Nat
  BY DEF Inv, Shape, RequestShape, Documents
<1>2. /\ r \in RequestType
      /\ r.client = q.client /\ r.n = q.n /\ r.attempt = q.attempt /\ r.op = q.op /\ r.id = q.id /\ r.chosen = q.chosen
  BY <1>1 DEF RequestType
<1>3. requests' = (requests \ {q}) \cup {r} /\ UNCHANGED <<store, clock, call, answers, walk, used, countVars>>
  BY DEF Stamp
<1> HIDE DEF r
<1>4. Awaited(q) /\ r.chosen # {} =>
        /\ r.chosen \cap call[q.client].settled = {}
        /\ call[q.client].before \cap Pending \subseteq r.chosen \/ Cardinality(r.chosen) >= BatchSize
  BY <1>2 DEF Inv, Truth, ChosenCovers
<1> QED
  BY <1>2, <1>3, <1>4, StepReplace

LEMMA CreateIs ==
    ASSUME Inv, NEW q \in requests, q.op = "create"
    PROVE  Documents /\ q \in RequestType /\ q.id \in used
BY DEF Inv, Shape, RequestShape

LEMMA StepInsert ==
    ASSUME Inv, NEW q \in requests, Insert(q)
    PROVE  Inv'
<1>1. q.op = "create" /\ q.at >= 0 /\ UNCHANGED <<clock, call, walk, used, countVars>>
  BY DEF Insert
<1>2. calls' = calls
  BY <1>1 DEF countVars
<1>3. Documents /\ q \in RequestType /\ q.id \in used
  BY <1>1, CreateIs
<1>4. CASE q.id \in DOMAIN store
  <2>1. Reply(q, 409, NoRoot) /\ store' = store
    BY <1>4 DEF Insert
  <2>2. Documents' /\ Grows /\ Visible \subseteq Visible'
    BY <1>1, <1>2, <1>3, <2>1, StoreWith
  <2> QED
    <3>1. Warranted(q, 409)
      BY <1>1, <1>4, <2>2 DEF Warranted, Grows
    <3> QED
      BY <1>1, <1>2, <2>1, <2>2, <3>1, StepReply
<1>5. CASE q.id \notin DOMAIN store
  <2>1. Reply(q, 201, serverHash(q.id)) /\ store' = With(q)
    BY <1>5 DEF Insert
  <2>2. Documents' /\ Grows /\ Visible \subseteq Visible' /\ q.id \in DOMAIN store'
    BY <1>1, <1>2, <1>3, <2>1, StoreWith
  <2> QED
    <3>1. Warranted(q, 201)
      BY <1>1, <2>2 DEF Warranted
    <3> QED
      BY <1>1, <1>2, <2>1, <2>2, <3>1, StepReply
<1> QED
  BY <1>4, <1>5

LEMMA StepInsertFails ==
    ASSUME Inv, NEW q \in requests, InsertFails(q)
    PROVE  Inv'
<1>1. /\ q.op = "create" /\ q.at >= 0 /\ store' \in {store, With(q)} /\ Reply(q, 500, NoRoot)
      /\ UNCHANGED <<clock, call, walk, used, calls, deletes>>
  BY DEF InsertFails
<1>2. Documents /\ q \in RequestType /\ q.id \in used
  BY <1>1, CreateIs
<1>3. Documents' /\ Grows /\ Visible \subseteq Visible'
  BY <1>1, <1>2, StoreWith
<1> QED
  <2>1. Warranted(q, 500)
    BY DEF Warranted
  <2> QED
    BY <1>1, <1>3, <2>1, StepReply

LEMMA StepChoose ==
    ASSUME Inv, NEW q \in requests, Choose(q)
    PROVE  Inv'
<1> DEFINE chosen == {i \in Pending : Cardinality({j \in Pending : Older(j, i)}) < BatchSize}
<1>1. /\ q.op = "batch" /\ q.chosen = {}
      /\ IF chosen = {} THEN Reply(q, 200, NoRoot)
         ELSE requests' = (requests \ {q}) \cup {[q EXCEPT !.chosen = chosen]} /\ UNCHANGED answers
      /\ UNCHANGED <<store, clock, call, walk, used, countVars>>
  BY DEF Choose
<1>2. Documents /\ q \in RequestType /\ store' = store /\ calls' = calls /\ calls \in Nat
  BY <1>1 DEF Inv, Shape, RequestShape, countVars, Documents
<1>3. Timed(Pending) /\ Pending \subseteq DOMAIN store
  BY <1>2, VisibleIsTimed
<1>4. chosen = Pending \/ Cardinality(chosen) >= BatchSize
  BY <1>3, ChoiceIsFull
<1>5. chosen \subseteq Pending
  OBVIOUS
<1> HIDE DEF chosen
<1>6. CASE chosen = {}
  <2>1. Pending = {}
    BY <1>4, <1>6, FS_EmptySet, RecordsAssumption
  <2>2. Pending' = {}
    BY <1>2, <2>1 DEF Pending, Visible
  <2>3. Documents' /\ Grows /\ Visible \subseteq Visible'
    BY <1>1, <1>2, StoreUnchanged DEF Visible
  <2> QED
    <3>1. Warranted(q, 200)
      BY <1>1, <2>2 DEF Warranted
    <3> QED
      BY <1>1, <1>2, <1>6, <2>3, <3>1, StepReply
<1>7. CASE chosen # {}
  <2> DEFINE r == [q EXCEPT !.chosen = chosen]
  <2>1. /\ r \in RequestType
        /\ r.client = q.client /\ r.n = q.n /\ r.attempt = q.attempt /\ r.op = q.op /\ r.id = q.id /\ r.chosen = chosen
    BY <1>2, <1>3, <1>5 DEF RequestType
  <2>2. requests' = (requests \ {q}) \cup {r} /\ answers' = answers
    BY <1>1, <1>7
  <2> HIDE DEF r
  <2>3. Awaited(q) => call[q.client].settled \subseteq Settled
    <3>1. q.client \in Clients
      BY <1>2 DEF RequestType
    <3> QED
      BY <3>1, CallIs DEF Awaited, Under, Calling, CallType, Inv, Shape
  <2>4. chosen \cap Settled = {}
    BY <1>5 DEF Settled
  <2>5. UNCHANGED <<store, clock, call, answers, walk, used, countVars>>
    BY <1>1, <2>2
  <2> QED
    BY <1>4, <2>1, <2>2, <2>3, <2>4, <2>5, StepReplace
<1> QED
  BY <1>6, <1>7

LEMMA StepClaim ==
    ASSUME Inv, NEW q \in requests, Claim(q)
    PROVE  Inv'
<1>1. /\ q.op = "batch" /\ q.chosen # {} /\ store' = Claimed(q) /\ Reply(q, 200, NoRoot)
      /\ UNCHANGED <<clock, call, walk, used, countVars>>
  BY DEF Claim
<1>2. Documents /\ q \in RequestType /\ calls' = calls
  BY <1>1 DEF Inv, Shape, RequestShape, countVars
<1>3. Documents' /\ Grows /\ Visible \subseteq Visible' /\ q.chosen \cap Pending' = {} /\ DOMAIN store' = DOMAIN store
  BY <1>1, <1>2, StoreClaimed
<1>4. Awaited(q) => \/ call[q.client].before \cap Pending' = {}
                    \/ Cardinality(Settled' \ call[q.client].settled) >= BatchSize
  <2>1. SUFFICES ASSUME Awaited(q)
                 PROVE  \/ call[q.client].before \cap Pending' = {}
                        \/ Cardinality(Settled' \ call[q.client].settled) >= BatchSize
    OBVIOUS
  <2>2. /\ q.chosen \cap call[q.client].settled = {}
        /\ call[q.client].before \cap Pending \subseteq q.chosen \/ Cardinality(q.chosen) >= BatchSize
    BY <1>1, <2>1 DEF Inv, Truth, ChosenCovers
  <2>3. call[q.client].before \subseteq DOMAIN store /\ q.chosen \subseteq DOMAIN store
    <3>1. q.client \in Clients /\ q.chosen \subseteq DOMAIN store
      BY <1>2 DEF RequestType
    <3> QED
      BY <2>1, <3>1, CallIs DEF Awaited, Under, Calling, CallType, Inv, Shape
  <2>4. CASE call[q.client].before \cap Pending \subseteq q.chosen
    <3>1. Pending' \cap DOMAIN store \subseteq Pending
      BY <1>2, <1>3, SettledGrows
    <3> QED
      BY <2>3, <2>4, <3>1, <1>3
  <2>5. CASE Cardinality(q.chosen) >= BatchSize
    <3>1. q.chosen \in SUBSET (Settled' \ call[q.client].settled)
      BY <1>3, <2>2, <2>3 DEF Settled
    <3>2. Settled' \ call[q.client].settled \in SUBSET DOMAIN store'
      BY DEF Settled
    <3>3. IsFiniteSet(Settled' \ call[q.client].settled)
      BY <3>2, <1>3, FS_Subset DEF Documents
    <3>4. /\ Cardinality(q.chosen) <= Cardinality(Settled' \ call[q.client].settled)
          /\ Cardinality(q.chosen) \in Nat /\ Cardinality(Settled' \ call[q.client].settled) \in Nat
      BY <3>1, <3>3, FS_Subset, FS_CardinalityType
    <3> QED
      BY <2>5, <3>4, RecordsAssumption
  <2> QED
    BY <2>2, <2>4, <2>5
<1> QED
  <2>1. Awaited(q) => Warranted(q, 200)
    BY <1>1, <1>4 DEF Warranted
  <2> QED
    BY <1>1, <1>2, <1>3, <2>1, StepReply

LEMMA StepClaimFails ==
    ASSUME Inv, NEW q \in requests, ClaimFails(q)
    PROVE  Inv'
<1>1. /\ store' \in {store, Claimed(q)} /\ Reply(q, 500, NoRoot)
      /\ UNCHANGED <<clock, call, walk, used, calls, deletes>>
  BY DEF ClaimFails
<1>2. Documents' /\ Grows /\ Visible \subseteq Visible'
  BY <1>1, StoreClaimed DEF Inv, Shape
<1> QED
  <2>1. Warranted(q, 500)
    BY DEF Warranted
  <2> QED
    BY <1>1, <1>2, <2>1, StepReply

LEMMA StepCancelled ==
    ASSUME Inv, NEW q \in requests, Cancelled(q)
    PROVE  Inv'
<1>1. requests' = requests \ {q} /\ UNCHANGED <<store, clock, call, answers, walk, used, countVars>>
  BY DEF Cancelled
<1>2. Shape /\ Exchange /\ Truth /\ Walk /\ calls' = calls /\ calls <= calls' /\ DOMAIN call' = Clients
  BY <1>1 DEF Inv, countVars, Shape, Documents, CallShape
<1>3. Documents' /\ Grows
  BY <1>1, <1>2, StoreUnchanged DEF Shape, Documents
<1>4. Shape'
  BY <1>1, <1>2, <1>3, ShapeKept
<1>5. Exchange'
  BY <1>1, <1>2, ExchangeDrop
<1>6. Truth'
  BY <1>1, <1>2, <1>3, TruthServer
<1>7. Walk'
  BY <1>1, <1>2, <1>3, WalkRests
<1> QED
  BY <1>4, <1>5, <1>6, <1>7 DEF Inv

LEMMA InjectiveConcat ==
    ASSUME NEW S, NEW s \in Seq(S), NEW t \in Seq(S), IsInjective(s), IsInjective(t),
           \A i \in Range(t) : i \notin Range(s)
    PROVE  s \o t \in Seq(S) /\ IsInjective(s \o t) /\ Range(s \o t) = Range(s) \cup Range(t)
<1>1. /\ s \o t \in Seq(S) /\ Len(s \o t) = Len(s) + Len(t)
      /\ \A i \in 1 .. Len(s) + Len(t) : (s \o t)[i] = IF i <= Len(s) THEN s[i] ELSE t[i - Len(s)]
  BY ConcatProperties
<1> DEFINE u == s \o t
           m == Len(s)
           n == Len(t)
<1>2. m \in Nat /\ n \in Nat /\ DOMAIN s = 1 .. m /\ DOMAIN t = 1 .. n /\ DOMAIN u = 1 .. m + n
  BY <1>1
<1>3. Range(s) = {s[k] : k \in 1 .. m} /\ Range(t) = {t[k] : k \in 1 .. n} /\ Range(u) = {u[k] : k \in 1 .. m + n}
  BY <1>2 DEF Range
<1>4. /\ \A i \in 1 .. m : i \in 1 .. m + n /\ u[i] = s[i]
      /\ \A i \in 1 .. n : m + i \in 1 .. m + n /\ u[m + i] = t[i]
      /\ \A i \in 1 .. m + n : i \in 1 .. m \/ (i - m \in 1 .. n /\ u[i] = t[i - m])
  BY <1>1, <1>2
<1> HIDE DEF u, m, n
<1>5. Range(u) = Range(s) \cup Range(t)
  BY <1>3, <1>4
<1>6. IsInjective(u)
  <2>1. SUFFICES ASSUME NEW i \in 1 .. m + n, NEW j \in 1 .. m + n, u[i] = u[j]
                 PROVE  i = j
    BY <1>2 DEF IsInjective
  <2>2. CASE i \in 1 .. m /\ j \in 1 .. m
    BY <2>1, <2>2, <1>2, <1>4 DEF IsInjective
  <2>3. CASE i - m \in 1 .. n /\ u[i] = t[i - m] /\ j - m \in 1 .. n /\ u[j] = t[j - m]
    <3>1. i - m = j - m
      BY <2>1, <2>3, <1>2 DEF IsInjective
    <3> QED
      BY <3>1, <1>2
  <2>4. CASE i \in 1 .. m /\ j - m \in 1 .. n /\ u[j] = t[j - m]
    BY <2>1, <2>4, <1>3, <1>4
  <2>5. CASE j \in 1 .. m /\ i - m \in 1 .. n /\ u[i] = t[i - m]
    BY <2>1, <2>5, <1>3, <1>4
  <2> QED
    BY <2>2, <2>3, <2>4, <2>5, <1>4
<1> QED
  BY <1>1, <1>5, <1>6 DEF u

\* A page that is read keeps the walk right.
LEMMA ReadKeeps ==
    ASSUME Documents, NEW offset \in Nat,
           NEW cursor, cursor = NoCursor \/ (cursor.at \in Nat /\ cursor.id \in Nat),
           NEW seen \in Seq(DOMAIN store), IsInjective(seen), NEW there, there \subseteq Visible,
           \A i \in Range(seen) : ~Behind(i, cursor),
           \A i \in there : i \in Range(seen) \/ i \in Due(offset, cursor),
           Read(offset, cursor, seen, there), store' = store
    PROVE  WalkRight'
<1> DEFINE page == ListRecords(offset, cursor)
           next == page.next
           ids == page.ids
<1>1. Timed(Visible) /\ Visible \subseteq DOMAIN store
  BY VisibleIsTimed
<1>2. /\ ids \in Seq(Candidates(cursor)) /\ IsInjective(ids)
      /\ next = NoCursor => Due(offset, cursor) \subseteq Range(ids)
      /\ next # NoCursor =>
           /\ next.at \in Nat /\ next.id \in Nat
           /\ \A i \in Nat : store[i].at \in Nat /\ Behind(i, next) => Behind(i, cursor)
           /\ \A i \in Range(ids) : ~Behind(i, next)
           /\ \A i \in Due(offset, cursor) : i \in Range(ids) \/ Behind(i, next)
  BY <1>1, PageIsExact
<1>3. walk' = [pc |-> IF next = NoCursor THEN "done" ELSE "walking", cursor |-> next, seen |-> seen \o ids, there |-> there]
  BY DEF Read
<1> HIDE DEF page, next, ids
<1>4. /\ walk'.pc = (IF next = NoCursor THEN "done" ELSE "walking") /\ walk'.cursor = next
      /\ walk'.seen = seen \o ids /\ walk'.there = there
      /\ walk' = [pc |-> walk'.pc, cursor |-> walk'.cursor, seen |-> walk'.seen, there |-> walk'.there]
  BY <1>3
<1>5. Candidates(cursor) \subseteq DOMAIN store /\ \A i \in Candidates(cursor) : Behind(i, cursor)
  BY DEF Candidates, Visible
<1>6. ids \in Seq(DOMAIN store) /\ Range(ids) \subseteq Candidates(cursor)
  BY <1>2, <1>5, SeenIs
<1>7. seen \o ids \in Seq(DOMAIN store) /\ IsInjective(seen \o ids) /\ Range(seen \o ids) = Range(seen) \cup Range(ids)
  <2>1. \A i \in Range(ids) : i \notin Range(seen)
    BY <1>5, <1>6
  <2> QED
    BY <1>2, <1>6, <2>1, InjectiveConcat
<1>8. \A i \in Range(seen) : i \in Nat /\ store[i].at \in Nat
  <2>1. Range(seen) \subseteq DOMAIN store
    BY SeenIs
  <2>2. \A i \in DOMAIN store : i \in Nat /\ store[i].at \in Nat
    <3>1. SUFFICES ASSUME NEW i \in DOMAIN store
                   PROVE  i \in Nat /\ store[i].at \in Nat
      OBVIOUS
    <3>2. store[i] \in [at : 0 .. clock, deleted : BOOLEAN, batched : BOOLEAN] /\ clock \in Nat /\ i \in Ids
      BY DEF Documents
    <3> QED
      BY <3>2, RecordsAssumption
  <2> QED
    BY <2>1, <2>2
<1>9. next = NoCursor => there \subseteq Range(seen \o ids)
  BY <1>2, <1>7
<1>10. next # NoCursor =>
         /\ \A i \in Range(seen \o ids) : ~Behind(i, next)
         /\ \A i \in there : i \in Range(seen \o ids) \/ Behind(i, next)
  BY <1>2, <1>7, <1>8
<1>11. Visible' = Visible
  BY DEF Visible
<1>12. /\ walk'.pc = "walking" => next # NoCursor
       /\ walk'.pc = "done" => next = NoCursor
       /\ walk'.pc \in {"walking", "done"}
  BY <1>4
<1>13. \A i : Behind(i, walk.cursor)' <=> Behind(i, next)
  BY <1>4 DEF Behind
<1>14. walk'.seen \in Seq(DOMAIN store')
  BY <1>4, <1>7
<1>15. (\A i \in Range(walk.seen) : ~Behind(i, walk.cursor))' <=> \A i \in Range(seen \o ids) : ~Behind(i, next)
  BY <1>4, <1>13
<1>16. (\A i \in walk.there : i \in Range(walk.seen) \/ Behind(i, walk.cursor))' <=>
       \A i \in there : i \in Range(seen \o ids) \/ Behind(i, next)
  BY <1>4, <1>13
<1>17. IsInjective(walk'.seen) /\ walk'.there \subseteq Visible' /\ Range(walk'.seen) = Range(seen \o ids)
  BY <1>4, <1>7, <1>11
<1> QED
  BY <1>2, <1>4, <1>9, <1>10, <1>12, <1>14, <1>15, <1>16, <1>17 DEF WalkRight

\* The reader moves and nothing else does.
LEMMA OnlyWalk ==
    ASSUME Inv, UNCHANGED <<store, clock, call, requests, answers, used, countVars>>
    PROVE  Shape' /\ Exchange' /\ Truth'
<1>1. Shape /\ Exchange /\ Truth /\ calls' = calls /\ calls <= calls' /\ DOMAIN call' = Clients
      /\ store' = store /\ clock' = clock /\ used' = used /\ call' = call /\ requests' = requests /\ answers' = answers
  BY DEF Inv, countVars, Shape, Documents, CallShape
<1>2. Documents' /\ Grows
  BY <1>1, StoreUnchanged DEF Shape, Documents
<1>3. Shape'
  BY <1>1, <1>2, ShapeKept
<1>4. Exchange'
  BY <1>1, ExchangeSame
<1>5. Truth'
  BY <1>1, <1>2, TruthServer
<1> QED
  BY <1>3, <1>4, <1>5

LEMMA StepStartWalk ==
    ASSUME Inv, StartWalk
    PROVE  Inv'
<1>1. PICK offset \in Offsets :
        Read(offset, NoCursor, <<>>, {i \in Visible : Cardinality({j \in Visible : Before(j, i)}) >= offset})
  BY DEF StartWalk
<1>2. UNCHANGED <<store, clock, call, requests, answers, used, countVars>> /\ offset \in Nat /\ store' = store
  BY RecordsAssumption DEF StartWalk
<1> DEFINE there == {i \in Visible : Cardinality({j \in Visible : Before(j, i)}) >= offset}
<1>3. Candidates(NoCursor) = Visible
  BY DEF Candidates, Behind
<1>4. Due(offset, NoCursor) = there
  BY <1>3 DEF Due, Skipped
<1>5. there \subseteq Visible
  OBVIOUS
<1>6. <<>> \in Seq(DOMAIN store) /\ IsInjective(<<>>) /\ Range(<<>>) = {}
  BY DEF IsInjective, Range
<1>7. Read(offset, NoCursor, <<>>, there)
  BY <1>1
<1> HIDE DEF there
<1>8. WalkRight'
  BY <1>2, <1>4, <1>5, <1>6, <1>7, ReadKeeps DEF Inv, Shape
<1> QED
  BY <1>2, <1>8, OnlyWalk DEF Inv, Walk

LEMMA StepNextPage ==
    ASSUME Inv, NextPage
    PROVE  Inv'
<1>1. walk.pc = "walking" /\ Read(0, walk.cursor, walk.seen, walk.there)
      /\ UNCHANGED <<store, clock, call, requests, answers, used, countVars>> /\ store' = store
  BY DEF NextPage
<1>2. WalkRight
  BY <1>1 DEF Inv, Walk, NoWalk
<1>3. /\ walk.cursor # NoCursor /\ walk.cursor.at \in Nat /\ walk.cursor.id \in Nat
      /\ walk.seen \in Seq(DOMAIN store) /\ IsInjective(walk.seen) /\ walk.there \subseteq Visible
      /\ \A i \in Range(walk.seen) : ~Behind(i, walk.cursor)
      /\ \A i \in walk.there : i \in Range(walk.seen) \/ Behind(i, walk.cursor)
  BY <1>1, <1>2 DEF WalkRight
<1>4. \A i \in walk.there : Behind(i, walk.cursor) => i \in Due(0, walk.cursor)
  <2>1. SUFFICES ASSUME NEW i \in walk.there, Behind(i, walk.cursor)
                 PROVE  i \in Due(0, walk.cursor)
    OBVIOUS
  <2> DEFINE S == Candidates(walk.cursor)
  <2>2. S \in SUBSET Visible /\ i \in S
    BY <2>1, <1>3 DEF Candidates
  <2>3. {j \in S : Before(j, i)} \in SUBSET Visible
    BY <2>2
  <2>4. IsFiniteSet(Visible)
    BY VisibleIsTimed DEF Timed, Inv, Shape
  <2> HIDE DEF S
  <2>5. Cardinality({j \in S : Before(j, i)}) \in Nat
    BY <2>3, <2>4, FS_Subset, FS_CardinalityType
  <2> QED
    BY <2>2, <2>5 DEF Due, Skipped, S
<1>5. WalkRight'
  BY <1>1, <1>3, <1>4, ReadKeeps DEF Inv, Shape
<1> QED
  BY <1>1, <1>5, OnlyWalk DEF Inv, Walk

LEMMA StepTick ==
    ASSUME Inv, Tick
    PROVE  Inv'
<1>1. /\ clock' = clock + 1 /\ store' = store /\ call' = call /\ requests' = requests /\ answers' = answers
      /\ walk' = walk /\ used' = used /\ calls' = calls
  BY DEF Tick, serverVars, countVars
<1>2. Shape /\ Exchange /\ Truth /\ Walk /\ calls <= calls' /\ DOMAIN call' = Clients
  BY <1>1 DEF Inv, Shape, Documents, CallShape
<1>3. clock \in Nat
  BY <1>2 DEF Shape, Documents
<1>4. \A i \in DOMAIN store : store[i] \in [at : 0 .. clock + 1, deleted : BOOLEAN, batched : BOOLEAN]
  <2>1. SUFFICES ASSUME NEW i \in DOMAIN store
                 PROVE  store[i] \in [at : 0 .. clock + 1, deleted : BOOLEAN, batched : BOOLEAN]
    OBVIOUS
  <2>2. store[i] \in [at : 0 .. clock, deleted : BOOLEAN, batched : BOOLEAN]
    BY <1>2 DEF Shape, Documents
  <2> QED
    BY <2>2, <1>3
<1>5. Documents'
  BY <1>1, <1>2, <1>3, <1>4 DEF Shape, Documents
<1>6. Grows
  BY <1>1, <1>3 DEF Grows
<1>7. Shape'
  BY <1>1, <1>2, <1>5, <1>6, ShapeKept
<1>8. Exchange'
  BY <1>1, <1>2, ExchangeSame
<1>9. Truth'
  BY <1>1, <1>2, <1>5, <1>6, TruthServer
<1>10. Walk'
  BY <1>1, <1>2, <1>5, <1>6, WalkRests
<1> QED
  BY <1>7, <1>8, <1>9, <1>10 DEF Inv

LEMMA StepDeleteRecord ==
    ASSUME Inv, NEW id \in Ids, DeleteRecord(id)
    PROVE  Inv'
<1>1. /\ id \in Visible /\ store' = [store EXCEPT ![id].deleted = TRUE]
      /\ walk' = IF walk = NoWalk THEN walk ELSE [walk EXCEPT !.there = @ \ {id}]
      /\ clock' = clock /\ call' = call /\ requests' = requests /\ answers' = answers /\ used' = used /\ calls' = calls
  BY DEF DeleteRecord, GetRecord
<1>2. Shape /\ Exchange /\ Truth /\ Walk /\ Documents /\ calls <= calls' /\ DOMAIN call' = Clients
  BY <1>1 DEF Inv, Shape, Documents, CallShape
<1>3. Documents' /\ Grows /\ Visible \ {id} \subseteq Visible'
  BY <1>1, <1>2, StoreDeleted DEF Visible
<1>4. Shape'
  BY <1>1, <1>2, <1>3, ShapeKept
<1>5. Exchange'
  BY <1>1, <1>2, ExchangeSame
<1>6. Truth'
  BY <1>1, <1>2, <1>3, TruthServer
<1>7. CASE walk = NoWalk
  BY <1>1, <1>4, <1>5, <1>6, <1>7 DEF Inv, Walk
<1>8. CASE walk # NoWalk
  <2>1. WalkRight /\ walk' = [walk EXCEPT !.there = @ \ {id}]
    BY <1>1, <1>2, <1>8 DEF Walk
  <2>2. walk = [pc |-> walk.pc, cursor |-> walk.cursor, seen |-> walk.seen, there |-> walk.there]
    BY <2>1 DEF WalkRight
  <2>3. walk' = [pc |-> walk.pc, cursor |-> walk.cursor, seen |-> walk.seen, there |-> walk.there \ {id}]
    BY <2>1, <2>2
  <2>4. walk'.pc = walk.pc /\ walk'.cursor = walk.cursor /\ walk'.seen = walk.seen /\ walk'.there = walk.there \ {id}
    BY <2>3
  <2>5. walk' = [pc |-> walk'.pc, cursor |-> walk'.cursor, seen |-> walk'.seen, there |-> walk'.there]
    BY <2>3, <2>4
  <2>6. Range(walk.seen) \subseteq DOMAIN store /\ walk.there \subseteq DOMAIN store
    BY <2>1, SeenIs DEF WalkRight, Visible
  <2>7. \A i \in DOMAIN store : Behind(i, walk.cursor)' <=> Behind(i, walk.cursor)
    BY <1>3, <2>4 DEF Behind, Grows
  <2>8. walk'.seen \in Seq(DOMAIN store')
    <3>1. DOMAIN store' = DOMAIN store
      BY <1>1
    <3> QED
      BY <2>1, <2>4, <3>1 DEF WalkRight
  <2>9. walk'.there \subseteq Visible'
    BY <1>3, <2>1, <2>4 DEF WalkRight
  <2>10. WalkRight'
    BY <2>1, <2>4, <2>5, <2>6, <2>7, <2>8, <2>9 DEF WalkRight
  <2> QED
    BY <1>4, <1>5, <1>6, <2>10 DEF Inv, Walk
<1> QED
  BY <1>7, <1>8

LEMMA Initially == ASSUME Init PROVE Inv
<1>1. /\ store = [i \in Old |-> [at |-> 0, deleted |-> FALSE, batched |-> FALSE]]
      /\ clock = 0 /\ call = [c \in Clients |-> NoCall] /\ requests = {} /\ answers = {}
      /\ walk = NoWalk /\ used = Old /\ calls = 0
  BY DEF Init
<1>2. Documents
  <2>1. DOMAIN store = Old /\ IsFiniteSet(Old) /\ Old \subseteq Ids
    BY <1>1, RecordsAssumption
  <2>2. [at |-> 0, deleted |-> FALSE, batched |-> FALSE] \in [at : 0 .. 0, deleted : BOOLEAN, batched : BOOLEAN]
    OBVIOUS
  <2> QED
    BY <1>1, <2>1, <2>2 DEF Documents
<1>3. Shape
  BY <1>1, <1>2 DEF Shape, CallShape, RequestShape, AnswerShape
<1>4. Exchange
  BY <1>1 DEF Exchange, Numbered, OwnRequest, OneAnswer
<1>5. Truth
  BY <1>1 DEF Truth, AnswersMean, ChosenCovers, AnsweredCreateIsStored, BatchCoversEarlier, NoCall
<1>6. Walk
  BY <1>1 DEF Walk
<1> QED
  BY <1>3, <1>4, <1>5, <1>6 DEF Inv

LEMMA EveryStep == ASSUME Inv, [Next]_vars PROVE Inv'
<1>1. ASSUME NEW c \in Clients,
             \/ \E id \in Ids : CreateRecord(c, id)
             \/ BatchRecords(c) \/ Receive(c) \/ GiveUp(c) \/ Return(c)
      PROVE  Inv'
  BY <1>1, StepCreateRecord, StepBatchRecords, StepReceive, StepGiveUp, StepReturn
<1>2. ASSUME NEW q \in requests, Serve(q) \/ InsertFails(q) \/ ClaimFails(q) \/ Cancelled(q)
      PROVE  Inv'
  BY <1>2, StepStamp, StepInsert, StepChoose, StepClaim, StepInsertFails, StepClaimFails, StepCancelled DEF Serve
<1>3. ASSUME NEW id \in Ids, DeleteRecord(id)
      PROVE  Inv'
  BY <1>3, StepDeleteRecord
<1>4. CASE Tick \/ StartWalk \/ NextPage
  BY <1>4, StepTick, StepStartWalk, StepNextPage
<1>5. CASE UNCHANGED vars
  <2>1. UNCHANGED <<store, clock, call, requests, answers, used, countVars>> /\ UNCHANGED <<store, walk>>
    BY <1>5 DEF vars
  <2>2. Shape' /\ Exchange' /\ Truth'
    BY <2>1, OnlyWalk
  <2>3. Walk'
    BY <2>1 DEF Inv, Walk, WalkRight, Visible, Behind
  <2> QED
    BY <2>2, <2>3 DEF Inv
<1> QED
  BY <1>1, <1>2, <1>3, <1>4, <1>5 DEF Next

LEMMA InvIsTypeOK == ASSUME Inv PROVE TypeOK
<1>1. Documents /\ RequestShape /\ CallShape /\ Walk
  BY DEF Inv, Shape
<1>2. \A i \in DOMAIN store : store[i].at \in 0 .. clock
  BY <1>1 DEF Documents
<1>3. \A c \in Clients : call[c] # NoCall => /\ call[c].attempt \in 0 .. maxRetries
                                             /\ call[c].result \in {"none", "ok", "mismatch", "conflict", "error"}
  BY <1>1 DEF CallShape, CallType, Results
<1>4. \A q \in requests : q.at \in -1 .. clock
  BY <1>1 DEF RequestShape, RequestType
<1>5. walk.pc \in {"none", "walking", "done"}
  BY <1>1 DEF Walk, WalkRight, NoWalk
<1> QED
  BY <1>1, <1>2, <1>3, <1>4, <1>5 DEF TypeOK, Documents

\* The exchange, the answers and the walk are right in every state that the
\* clients, the server and the reader reach.
THEOREM AlwaysInv == Spec => []Inv
<1>1. Init => Inv
  BY Initially
<1>2. Inv /\ [Next]_vars => Inv'
  BY EveryStep
<1> QED
  BY <1>1, <1>2, PTL DEF Spec

\* The documents, calls, requests and the reader keep their types.
THEOREM TypeCorrect == Spec => []TypeOK
<1>1. Inv => TypeOK
  BY InvIsTypeOK
<1> QED
  BY <1>1, AlwaysInv, PTL

\* A create that got an answer below 500, a conflict included, is stored: the
\* answer is to a request of the same call, and no document ever goes.
THEOREM AnsweredIsStored == Spec => []AnsweredCreateIsStored
<1>1. Inv => AnsweredCreateIsStored
  BY DEF Inv, Truth
<1> QED
  BY <1>1, AlwaysInv, PTL

\* A batch call that reports success has settled what was pending before it, or a
\* full batch: with none pending nothing is left to settle, and what a request
\* has chosen is settled when its claim is done, by it or by another one.
THEOREM BatchCovers == Spec => []BatchCoversEarlier
<1>1. Inv => BatchCoversEarlier
  BY DEF Inv, Truth
<1> QED
  BY <1>1, AlwaysInv, PTL

\* A walk shows no record twice and misses none that was there all the time.
THEOREM WalksAreExact == Spec => []WalkIsExact
<1>1. Inv => WalkIsExact
  BY DEF Inv, Walk, WalkRight, WalkIsExact
<1> QED
  BY <1>1, AlwaysInv, PTL
=============================================================================
