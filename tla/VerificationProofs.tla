------------------------- MODULE VerificationProofs -------------------------
(***************************************************************************)
(* Proofs about integrity verification, for any number of records,         *)
(* batches, tenants, edits and log transactions.                           *)
(*                                                                         *)
(* The inductive invariant Safe has five parts, in the order in which they *)
(* are proved: Typed (the shape of documents, calls and the answer),       *)
(* ChainTyped (a key of a channel is a log or the one anchor of a batch),  *)
(* AnchoredInv (what is said to be anchored is), RootsInv (without edits   *)
(* every root there is is the one of its batch as it stands) and SealInv   *)
(* (a root that the ledger or a call holds commits to what the documents   *)
(* held when it was computed).  Each part has one lemma per group of       *)
(* variables or action and one that joins them, Still...  The report rests *)
(* on a sixth, BatchedTogether; the chaincode's verdict on two more, that  *)
(* the hashes of a batch differ (ApartInv) and that the ledger has the     *)
(* number of its records (NumInv).                                         *)
(*                                                                         *)
(* The steps are first restated field by field (the ...Effect lemmas): the *)
(* rest of the module uses these and not the EXCEPTs.                      *)
(***************************************************************************)
EXTENDS Verification, MerkleProofs, FiniteSetTheorems

USE DEF vars

-----------------------------------------------------------------------------
(* The chaincode's tree.                                                   *)

Evened(s)  == IF Len(s) % 2 # 0 THEN Append(s, Last(s)) ELSE s
PairsOf(s) == [i \in 1 .. Len(s) \div 2 |-> CombineHashes(s[2*i - 1], s[2*i])]
LoopChaincode(hashes) ==
  CHOOSE g : g = [n \in Nat |-> IF n = 0 THEN hashes
                                ELSE IF Len(g[n - 1]) = 1 THEN g[n - 1] ELSE PairsOf(Evened(g[n - 1]))]

\* To repeat an odd last node and pair all is to pair the last node with itself.
LEMMA EvenedPairs ==
  ASSUME NEW s, IsSeq(s), Len(s) >= 1 PROVE PairsOf(Evened(s)) = LevelV1(s)
<1> DEFINE n == Len(s)
           e == Evened(s)
<1>1. n \in Nat /\ DOMAIN s = 1 .. n /\ s \in Seq({s[i] : i \in 1 .. n}) /\ Last(s) = s[n]
  BY DEF IsSeq, Last
<1>2. CASE n % 2 = 0
  <2>1. e = s /\ n \div 2 = HalfUp(n) /\ \A i \in 1 .. HalfUp(n) : 2*i <= n
    BY <1>1, <1>2 DEF Evened, HalfUp
  <2> QED BY <1>1, <2>1 DEF PairsOf, LevelV1
<1>3. CASE n % 2 # 0
  <2>1. e = Append(s, s[n])
    BY <1>1, <1>3 DEF Evened
  <2>2. Len(e) = n + 1 /\ e[n + 1] = s[n] /\ \A i \in 1 .. n : e[i] = s[i]
    BY <1>1, <2>1
  <2>3. Len(e) \div 2 = HalfUp(n)
    BY <2>2 DEF HalfUp
  <2>4. ASSUME NEW i \in 1 .. HalfUp(n)
        PROVE  e[2*i - 1] = s[2*i - 1] /\ e[2*i] = IF 2*i <= n THEN s[2*i] ELSE s[2*i - 1]
    <3>1. 2*i - 1 \in 1 .. n /\ (2*i \in 1 .. n \/ 2*i = n + 1)
      BY <1>1, <1>3 DEF HalfUp
    <3> HIDE DEF e, n
    <3>2. CASE 2*i \in 1 .. n
      BY <1>1, <2>2, <3>1, <3>2
    <3>3. CASE 2*i = n + 1
      <4>1. 2*i - 1 = n /\ ~(2*i <= n)
        BY <1>1, <3>1, <3>3
      <4> QED BY <2>2, <3>1, <3>3, <4>1
    <3> QED BY <3>1, <3>2, <3>3
  <2> HIDE DEF e
  <2>5. PairsOf(e) = [i \in 1 .. HalfUp(n) |-> CombineHashes(e[2*i - 1], e[2*i])]
    BY <2>3 DEF PairsOf
  <2>6. PairsOf(e) = [i \in 1 .. HalfUp(n) |-> CombineHashes(s[2*i - 1], IF 2*i <= n THEN s[2*i] ELSE s[2*i - 1])]
    BY <2>4, <2>5
  <2> QED BY <2>6 DEF e, LevelV1
<1> QED BY <1>2, <1>3

LEMMA ChaincodeLoop ==
  ASSUME NEW hashes, IsSeq(hashes), Len(hashes) >= 1
  PROVE  IsLoop(LoopChaincode(hashes), "first", hashes)
<1> DEFINE Body(h) == [n \in Nat |-> IF n = 0 THEN hashes
                                     ELSE IF Len(h[n - 1]) = 1 THEN h[n - 1] ELSE PairsOf(Evened(h[n - 1]))]
           h == LoopChaincode(hashes)
<1>1. PICK g : IsLoop(g, "first", hashes)
  BY LoopExists
<1>2. g = Body(g)
  <2>1. ASSUME NEW n \in Nat, n # 0
        PROVE  Round("first", g[n - 1]) = IF Len(g[n - 1]) = 1 THEN g[n - 1] ELSE PairsOf(Evened(g[n - 1]))
    <3>1. n - 1 \in Nat
      BY <2>1
    <3>2. IsSeq(g[n - 1]) /\ Len(g[n - 1]) >= 1
      BY <1>1, <3>1, LoopLengths
    <3> QED BY <3>2, EvenedPairs DEF Round
  <2>2. g = [n \in Nat |-> IF n = 0 THEN hashes ELSE Round("first", g[n - 1])]
    BY <1>1 DEF IsLoop
  <2> QED BY <2>1, <2>2
<1>3. h = Body(h)
  BY <1>2 DEF LoopChaincode
<1> HIDE DEF h
<1>4. h[0] = hashes
  BY <1>3
<1>5. ASSUME NEW k \in Nat PROVE h[k + 1] = IF Len(h[k]) = 1 THEN h[k] ELSE PairsOf(Evened(h[k]))
  <2>1. k + 1 \in Nat /\ k + 1 # 0 /\ (k + 1) - 1 = k
    OBVIOUS
  <2> QED BY <1>3, <2>1
<1>6. ASSUME NEW s, IsSeq(s), Len(s) >= 1
      PROVE  (IF Len(s) = 1 THEN s ELSE PairsOf(Evened(s))) = Round("first", s)
  BY <1>6, EvenedPairs DEF Round
<1>7. g[0] = hashes /\ \A k \in Nat : g[k + 1] = Round("first", g[k])
  <2> HIDE DEF Body
  <2> QED BY <1>1, LoopSteps
<1> DEFINE T == {k \in Nat : h[k] # g[k]}
<1>8. T = {}
  <2> SUFFICES ASSUME T # {} PROVE FALSE
    OBVIOUS
  <2>1. PICK x \in T : \A y \in T : x <= y
    <3>1. T \in SUBSET Nat
      OBVIOUS
    <3> HIDE DEF T
    <3> QED BY <3>1, LeastElement
  <2>2. x # 0
    BY <1>4, <1>7, <2>1
  <2>3. x - 1 \in Nat /\ h[x - 1] = g[x - 1] /\ (x - 1) + 1 = x
    BY <2>1, <2>2
  <2>4. IsSeq(g[x - 1]) /\ Len(g[x - 1]) >= 1
    BY <1>1, <2>3, LoopLengths
  <2>5. h[x] = Round("first", h[x - 1])
    BY <1>5, <1>6, <2>3, <2>4
  <2> QED BY <1>7, <2>1, <2>3, <2>5
<1>9. h = [n \in Nat |-> h[n]] /\ g = [n \in Nat |-> g[n]]
  <2>1. Body(h) = [n \in Nat |-> Body(h)[n]]
    OBVIOUS
  <2> HIDE DEF Body
  <2> QED BY <1>1, <1>3, <2>1 DEF IsLoop
<1>10. [n \in Nat |-> h[n]] = [n \in Nat |-> g[n]]
  BY <1>8
<1>11. h = g
  BY <1>9, <1>10
<1> QED BY <1>1, <1>11 DEF h

\* The chaincode's own tree is the API's tree of the first scheme, for every
\* number of hashes (MerkleTree and BuildMerkleTree).
THEOREM ChaincodeComputesTheTree ==
  ASSUME NEW S, NEW hashes \in Seq(S)
  PROVE  MerkleTree(hashes) = BuildMerkleTree(hashes)
<1>1. CASE hashes = <<>>
  BY <1>1 DEF MerkleTree, BuildMerkleTree
<1>2. CASE hashes # <<>>
  <2>1. IsSeq(hashes) /\ Len(hashes) >= 1
    BY <1>2 DEF IsSeq
  <2>2. LoopChaincode(hashes) = LoopV1(hashes)
    BY <2>1, ChaincodeLoop, FirstLoop, LoopUnique
  <2>3. MerkleTree(hashes) = LoopChaincode(hashes)[Len(hashes)][1]
    BY <1>2 DEF MerkleTree, LoopChaincode, PairsOf, Evened
  <2>4. BuildMerkleTree(hashes) = LoopV1(hashes)[Len(hashes)][1]
    BY <1>2 DEF BuildMerkleTree, LoopV1
  <2> QED BY <2>2, <2>3, <2>4
<1> QED BY <1>1, <1>2

-----------------------------------------------------------------------------
(* The documents of a batch in order.                                      *)

\* The i-th of a finite set of numbers is one of them, and no other is.
LEMMA InOrderMembers ==
  ASSUME NEW rs \in SUBSET Records
  PROVE  /\ Cardinality(rs) \in Nat
         /\ \A i \in 1 .. Cardinality(rs) : InOrder(rs)[i] \in rs
         /\ \A i, j \in 1 .. Cardinality(rs) : InOrder(rs)[i] = InOrder(rs)[j] => i = j
<1> DEFINE n == Cardinality(rs)
           Under(r) == {s \in rs : s < r}
           rank == [r \in rs |-> Cardinality(Under(r)) + 1]
<1>0. rs \subseteq Nat
  BY RecordAssumption
<1>1. IsFiniteSet(rs) /\ n \in Nat
  BY RecordAssumption, FS_Subset, FS_CardinalityType
<1>2. ASSUME NEW r \in rs PROVE IsFiniteSet(Under(r)) /\ Cardinality(Under(r)) \in Nat /\ Cardinality(Under(r)) < n
  <2>1. Under(r) \in SUBSET rs /\ r \notin Under(r)
    <3>1. ~(r < r)
      BY <1>0
    <3> QED BY <3>1
  <2> HIDE DEF Under
  <2>2. IsFiniteSet(Under(r)) /\ Cardinality(Under(r)) <= n /\ (Cardinality(rs) = Cardinality(Under(r)) => rs = Under(r))
    BY <1>1, <2>1, FS_Subset
  <2>3. Cardinality(Under(r)) \in Nat
    BY <2>2, FS_CardinalityType
  <2> QED BY <1>1, <2>1, <2>2, <2>3
<1>3. ASSUME NEW r \in rs, NEW s \in rs, r < s PROVE Cardinality(Under(r)) < Cardinality(Under(s))
  <2>1. Under(r) \in SUBSET Under(s) /\ r \in Under(s) /\ r \notin Under(r)
    <3>1. r \in Nat /\ s \in Nat
      BY <1>0
    <3>2. \A t \in rs : t \in Nat
      BY <1>0
    <3>3. ~(r < r) /\ \A t \in rs : t < r => t < s
      BY <1>3, <3>1, <3>2
    <3> QED BY <1>3, <3>3
  <2> HIDE DEF Under
  <2>2. Cardinality(Under(r)) <= Cardinality(Under(s)) /\ (Cardinality(Under(s)) = Cardinality(Under(r)) => Under(s) = Under(r))
    <3>1. IsFiniteSet(Under(s))
      BY <1>2
    <3> QED BY <2>1, <3>1, FS_Subset
  <2>3. Cardinality(Under(r)) \in Nat /\ Cardinality(Under(s)) \in Nat
    BY <1>2
  <2>4. Under(s) # Under(r)
    BY <2>1
  <2> QED BY <2>2, <2>3, <2>4
<1> HIDE DEF Under, n
<1>4. rank \in Injection(rs, 1 .. n)
  <2>1. rank \in [rs -> 1 .. n]
    BY <1>1, <1>2
  <2>2. ASSUME NEW r \in rs, NEW s \in rs, rank[r] = rank[s] PROVE r = s
    <3>1. ~(r < s) /\ ~(s < r)
      BY <1>2, <1>3, <2>2
    <3> QED BY <1>0, <3>1
  <2> HIDE DEF rank
  <2> QED BY <2>1, <2>2 DEF Injection, IsInjective
<1>5. IsFiniteSet(1 .. n) /\ Cardinality(1 .. n) = n
  BY <1>1, FS_Interval
<1>6. rank \in Surjection(rs, 1 .. n)
  <2> HIDE DEF rank
  <2> QED BY <1>4, <1>5, FS_Injection DEF n
<1>7. ASSUME NEW i \in 1 .. n PROVE InOrder(rs)[i] \in rs /\ Cardinality(Under(InOrder(rs)[i])) = i - 1
  <2>1. PICK r \in rs : rank[r] = i
    BY <1>6 DEF Surjection
  <2>2. Cardinality(Under(r)) = i - 1
    BY <1>2, <2>1
  <2>3. InOrder(rs)[i] = CHOOSE s \in rs : Cardinality(Under(s)) = i - 1
    BY DEF InOrder, n, Under
  <2> QED BY <2>2, <2>3
<1>8. ASSUME NEW i \in 1 .. n, NEW j \in 1 .. n, InOrder(rs)[i] = InOrder(rs)[j] PROVE i = j
  <2>1. i - 1 = j - 1
    BY <1>7, <1>8
  <2> QED BY <1>1, <2>1
<1> QED BY <1>1, <1>7, <1>8 DEF n

\* The documents of rs in order, when d is the collection.
Read(d, rs) == [i \in 1 .. Cardinality(rs) |-> d[InOrder(rs)[i]]]

\* A batch is read as a sequence of its documents.
LEMMA Found ==
  ASSUME NEW d, NEW rs \in SUBSET Records
  PROVE  LET docs == Read(d, rs)
         IN  /\ IsSeq(docs) /\ Len(docs) = Cardinality(rs) /\ Len(docs) \in Nat /\ DOMAIN docs = 1 .. Len(docs)
             /\ \A i \in DOMAIN docs : InOrder(rs)[i] \in rs /\ docs[i] = d[InOrder(rs)[i]]
             /\ rs # {} => docs # <<>>
             /\ docs # <<>> => 1 \in DOMAIN docs
<1> DEFINE docs == Read(d, rs)
           n == Cardinality(rs)
<1>2. docs = [i \in 1 .. n |-> d[InOrder(rs)[i]]]
  BY DEF Read
<1> HIDE DEF docs
<1>3. n \in Nat /\ \A i \in 1 .. n : InOrder(rs)[i] \in rs
  BY InOrderMembers
<1>7. rs # {} => n # 0
  BY RecordAssumption, FS_Subset, FS_EmptySet
<1> HIDE DEF n
<1>4. docs = [i \in 1 .. n |-> docs[i]]
  BY <1>2
<1>5. IsSeq(docs) /\ Len(docs) = n
  BY <1>3, <1>4, SequenceOf
<1>6. DOMAIN docs = 1 .. n /\ \A i \in 1 .. n : docs[i] = d[InOrder(rs)[i]]
  BY <1>2
<1>8. docs = <<>> => n = 0
  BY <1>5
<1>9. docs # <<>> => n # 0
  <2>1. ASSUME n = 0 PROVE docs = <<>>
    <3>1. IsSeq(<<>>) /\ Len(<<>>) = 0
      <4>1. <<>> \in Seq({})
        OBVIOUS
      <4> QED BY <4>1 DEF IsSeq
    <3>2. \A i \in 1 .. Len(docs) : docs[i] = <<>>[i]
      BY <1>5, <2>1
    <3> QED BY <1>5, <2>1, <3>1, <3>2, SeqEqual
  <2> QED BY <2>1
<1>10. n # 0 => 1 \in 1 .. n
  BY <1>3
<1> QED BY <1>3, <1>5, <1>6, <1>7, <1>8, <1>9, <1>10 DEF docs, n

LEMMA FindIs ==
  /\ \A t, b : MembersOf(t, b) \in SUBSET Records /\ FindRecordsByBatchID(t, b) = Read(doc, MembersOf(t, b))
  /\ \A t, b : MembersOf(t, b)' \in SUBSET Records /\ FindRecordsByBatchID(t, b)' = Read(doc', MembersOf(t, b)')
BY DEF FindRecordsByBatchID, Sorted, Read, MembersOf

\* The root of a batch depends on the contents of its documents only.
LEMMA SameContents ==
  ASSUME NEW d, NEW e, NEW rs \in SUBSET Records, \A r \in rs : d[r].content = e[r].content
  PROVE  RootOf(Read(d, rs)) = RootOf(Read(e, rs))
<1>1. /\ DOMAIN Read(d, rs) = DOMAIN Read(e, rs)
      /\ \A i \in DOMAIN Read(d, rs) : Read(d, rs)[i].content = Read(e, rs)[i].content
  BY Found
<1>2. [i \in DOMAIN Read(d, rs) |-> Read(d, rs)[i].content] = [i \in DOMAIN Read(e, rs) |-> Read(e, rs)[i].content]
  BY <1>1
<1> QED BY <1>2 DEF RootOf

\* So it stays while the members and their contents do.
LEMMA SameRoot ==
  ASSUME NEW b,
         MembersOf(BatchTenant[b], b)' = MembersOf(BatchTenant[b], b),
         \A r \in MembersOf(BatchTenant[b], b) : doc'[r].content = doc[r].content
  PROVE  BatchRoot(b)' = BatchRoot(b)
<1>1. BatchRoot(b)' = RootOf(Read(doc', MembersOf(BatchTenant[b], b)))
  BY FindIs DEF BatchRoot, RootOf
<1>2. BatchRoot(b) = RootOf(Read(doc, MembersOf(BatchTenant[b], b)))
  BY FindIs DEF BatchRoot
<1> QED BY <1>1, <1>2, FindIs, SameContents

-----------------------------------------------------------------------------
(* Updates of several fields of a document or of a call at once.           *)

LEMMA ClaimFields ==
  ASSUME NEW d, NEW x, NEW y, NEW z,
         d = [content |-> d.content, batched |-> d.batched, batch |-> d.batch, root |-> d.root, status |-> d.status]
  PROVE  [d EXCEPT !.batch = x, !.status = y, !.batched = z]
           = [content |-> d.content, batched |-> z, batch |-> x, root |-> d.root, status |-> y]
<1> DEFINE e1 == [d EXCEPT !.batch = x]
<1>1. e1 = [content |-> d.content, batched |-> d.batched, batch |-> x, root |-> d.root, status |-> d.status]
  OBVIOUS
<1> HIDE DEF e1
<1> DEFINE e2 == [e1 EXCEPT !.status = y]
<1>2. e2 = [content |-> d.content, batched |-> d.batched, batch |-> x, root |-> d.root, status |-> y]
  BY <1>1
<1> HIDE DEF e2
<1>3. [e2 EXCEPT !.batched = z] = [content |-> d.content, batched |-> z, batch |-> x, root |-> d.root, status |-> y]
  BY <1>2
<1>4. [d EXCEPT !.batch = x, !.status = y, !.batched = z] = [e2 EXCEPT !.batched = z]
  BY DEF e1, e2
<1> QED BY <1>3, <1>4

-----------------------------------------------------------------------------
(* What the steps do to the documents, field by field.                     *)

LEMMA StampEffect ==
  ASSUME NEW b, NEW newRoot, NEW newStatus, DocShape, Stamp(b, newRoot, newStatus)
  PROVE  /\ DocShape'
         /\ \A r \in Records : /\ doc'[r].content = doc[r].content /\ doc'[r].batched = doc[r].batched
                               /\ doc'[r].batch = doc[r].batch
                               /\ r \in MembersOf(BatchTenant[b], b) => doc'[r].root = newRoot /\ doc'[r].status = newStatus
                               /\ r \notin MembersOf(BatchTenant[b], b) => doc'[r] = doc[r]
<1> DEFINE rs == MembersOf(BatchTenant[b], b)
<1>1. doc' = [r \in Records |-> IF r \in rs THEN [doc[r] EXCEPT !.root = newRoot, !.status = newStatus] ELSE doc[r]]
  BY DEF Stamp
<1> HIDE DEF rs
<1>2. ASSUME NEW r \in Records, r \notin rs PROVE doc'[r] = doc[r]
  BY <1>1, <1>2
<1>3. ASSUME NEW r \in Records
      PROVE  /\ doc'[r].content = doc[r].content /\ doc'[r].batched = doc[r].batched /\ doc'[r].batch = doc[r].batch
             /\ r \in rs => doc'[r].root = newRoot /\ doc'[r].status = newStatus
             /\ doc'[r] = [content |-> doc'[r].content, batched |-> doc'[r].batched, batch |-> doc'[r].batch,
                           root |-> doc'[r].root, status |-> doc'[r].status]
  <2> DEFINE d == doc[r]
             e == [d EXCEPT !.root = newRoot]
  <2>1. d = [content |-> d.content, batched |-> d.batched, batch |-> d.batch, root |-> d.root, status |-> d.status]
    BY DEF DocShape
  <2>2. doc'[r] = IF r \in rs THEN [e EXCEPT !.status = newStatus] ELSE d
    BY <1>1
  <2> HIDE DEF d
  <2>3. e = [content |-> d.content, batched |-> d.batched, batch |-> d.batch, root |-> newRoot, status |-> d.status]
    BY <2>1
  <2> HIDE DEF e
  <2>4. CASE r \in rs
    <3>1. doc'[r] = [content |-> d.content, batched |-> d.batched, batch |-> d.batch, root |-> newRoot, status |-> newStatus]
      BY <2>2, <2>3, <2>4
    <3> QED BY <2>4, <3>1 DEF d
  <2>5. CASE r \notin rs
    BY <2>1, <2>2, <2>5 DEF d
  <2> QED BY <2>4, <2>5
<1>4. DocShape'
  <2>1. doc' = [r \in Records |-> doc'[r]]
    BY <1>1
  <2> QED BY <1>3, <2>1 DEF DocShape
<1> QED BY <1>2, <1>3, <1>4 DEF rs

LEMMA SetRootEffect ==
  ASSUME NEW b, DocShape, SetRecordBatchMerkleRoot(b)
  PROVE  /\ DocShape'
         /\ \A r \in Records : /\ doc'[r].content = doc[r].content /\ doc'[r].batched = doc[r].batched
                               /\ doc'[r].batch = doc[r].batch /\ doc'[r].status = doc[r].status
                               /\ r \in MembersOf(BatchTenant[b], b) => doc'[r].root = job[b].root
                               /\ r \notin MembersOf(BatchTenant[b], b) => doc'[r] = doc[r]
<1> DEFINE rs == MembersOf(BatchTenant[b], b)
<1>1. doc' = [r \in Records |-> IF r \in rs THEN [doc[r] EXCEPT !.root = job[b].root] ELSE doc[r]]
  BY DEF SetRecordBatchMerkleRoot
<1> HIDE DEF rs
<1>2. DocShape'
  BY <1>1 DEF DocShape
<1>3. ASSUME NEW r \in Records
      PROVE  /\ doc'[r].content = doc[r].content /\ doc'[r].batched = doc[r].batched
             /\ doc'[r].batch = doc[r].batch /\ doc'[r].status = doc[r].status
             /\ r \in rs => doc'[r].root = job[b].root
             /\ r \notin rs => doc'[r] = doc[r]
  BY <1>1 DEF DocShape
<1> QED BY <1>2, <1>3 DEF rs

LEMMA ClaimEffect ==
  ASSUME NEW b, NEW r \in Records, DocShape, ClaimRecord(b, r)
  PROVE  /\ DocShape'
         /\ \A s \in Records : /\ doc'[s].content = doc[s].content /\ doc'[s].root = doc[s].root
                               /\ s # r \/ doc[r].batch # NoBatch => doc'[s] = doc[s]
         /\ doc[r].batch = NoBatch => doc'[r].batch = b /\ doc'[r].status = "pending" /\ doc'[r].batched = job[b].at
<1>1. CASE doc[r].batch # NoBatch
  <2>1. doc' = doc
    BY <1>1 DEF ClaimRecord
  <2> QED BY <1>1, <2>1 DEF DocShape
<1>2. CASE doc[r].batch = NoBatch
  <2>1. doc' = [doc EXCEPT ![r] = [@ EXCEPT !.batch = b, !.status = "pending", !.batched = job[b].at]]
    BY <1>2 DEF ClaimRecord
  <2>3. \A s \in Records : doc'[s] = IF s = r THEN [doc[r] EXCEPT !.batch = b, !.status = "pending", !.batched = job[b].at]
                                     ELSE doc[s]
    BY <2>1 DEF DocShape
  <2>4. doc[r] = [content |-> doc[r].content, batched |-> doc[r].batched, batch |-> doc[r].batch,
                  root |-> doc[r].root, status |-> doc[r].status]
    BY DEF DocShape
  <2>5. doc'[r] = [content |-> doc[r].content, batched |-> job[b].at, batch |-> b, root |-> doc[r].root, status |-> "pending"]
    BY <2>3, <2>4, ClaimFields
  <2>6. doc' = [s \in Records |-> doc'[s]]
    BY <2>1 DEF DocShape
  <2>2. DocShape'
    <3>1. ASSUME NEW s \in Records
          PROVE  doc'[s] = [content |-> doc'[s].content, batched |-> doc'[s].batched, batch |-> doc'[s].batch,
                            root |-> doc'[s].root, status |-> doc'[s].status]
      BY <2>3, <2>5 DEF DocShape
    <3> QED BY <2>6, <3>1 DEF DocShape
  <2> QED BY <1>2, <2>2, <2>3, <2>5
<1> QED BY <1>1, <1>2

LEMMA EditEffect ==
  ASSUME NEW r \in Records, DocShape, Edit(r)
  PROVE  /\ DocShape'
         /\ \A s \in Records : /\ doc'[s].batch = doc[s].batch /\ doc'[s].batched = doc[s].batched
                               /\ doc'[s].status = doc[s].status
                               /\ doc[s].batch # doc[r].batch => doc'[s] = doc[s]
                               /\ s # r => doc'[s].content = doc[s].content
         /\ \E c \in Edits[r] : doc'[r].content = Versioned(c, doc[r].content.version)
<1>1. PICK c \in Edits[r], restamp \in BOOLEAN :
       LET edited == [doc EXCEPT ![r].content = Versioned(c, doc[r].content.version)]
           rs     == MembersOf(RecordTenant[r], doc[r].batch)
           root   == RootOf([i \in 1 .. Cardinality(rs) |-> edited[InOrder(rs)[i]]])
       IN  doc' = IF restamp
                  THEN [s \in Records |-> IF s \in rs THEN [edited[s] EXCEPT !.root = root] ELSE edited[s]]
                  ELSE edited
  BY DEF Edit
<1> DEFINE content == Versioned(c, doc[r].content.version)
           edited == [doc EXCEPT ![r].content = content]
           rs     == MembersOf(RecordTenant[r], doc[r].batch)
           root   == RootOf([i \in 1 .. Cardinality(rs) |-> edited[InOrder(rs)[i]]])
<1>2. doc' = IF restamp THEN [s \in Records |-> IF s \in rs THEN [edited[s] EXCEPT !.root = root] ELSE edited[s]]
             ELSE edited
  BY <1>1
<1>3. \A s \in rs : doc[s].batch = doc[r].batch
  BY DEF MembersOf
<1> HIDE DEF content, rs, root
<1>4. /\ edited = [s \in Records |-> edited[s]]
      /\ \A s \in Records : /\ edited[s] = [content |-> edited[s].content, batched |-> doc[s].batched, batch |-> doc[s].batch,
                                         root |-> doc[s].root, status |-> doc[s].status]
                            /\ s # r => edited[s] = doc[s]
      /\ edited[r].content = content
  BY DEF DocShape
<1> HIDE DEF edited
<1>5. CASE restamp
  <2>1. doc' = [s \in Records |-> IF s \in rs THEN [edited[s] EXCEPT !.root = root] ELSE edited[s]]
    BY <1>2, <1>5
  <2>2. DocShape'
    BY <1>4, <2>1 DEF DocShape
  <2>3. \A s \in Records : /\ doc'[s].batch = doc[s].batch /\ doc'[s].batched = doc[s].batched
                           /\ doc'[s].status = doc[s].status
    BY <1>4, <2>1
  <2>4. \A s \in Records : doc[s].batch # doc[r].batch => doc'[s] = doc[s]
    BY <1>3, <1>4, <2>1
  <2>5. \A s \in Records : doc'[s].content = edited[s].content
    BY <1>4, <2>1
  <2> QED BY <1>4, <2>2, <2>3, <2>4, <2>5 DEF content
<1>6. CASE ~restamp
  <2>1. doc' = edited
    BY <1>2, <1>6
  <2> QED BY <1>4, <2>1 DEF DocShape, content
<1> QED BY <1>5, <1>6

-----------------------------------------------------------------------------
(* What the steps do to the calls.                                         *)

JobShape == job = [b \in Batches |-> [pc |-> job[b].pc, ids |-> job[b].ids, at |-> job[b].at, root |-> job[b].root]]

Others(b) == \A c \in Batches \ {b} : job'[c] = job[c]

LEMMA JobUpdate ==
  ASSUME NEW b \in Batches, NEW j, JobShape, job' = [job EXCEPT ![b] = j],
         j = [pc |-> j.pc, ids |-> j.ids, at |-> j.at, root |-> j.root]
  PROVE  JobShape' /\ Others(b) /\ job'[b] = j
<1>1. job' = [c \in Batches |-> job'[c]] /\ job'[b] = j /\ Others(b)
  BY DEF JobShape, Others
<1>2. ASSUME NEW c \in Batches
      PROVE  job'[c] = [pc |-> job'[c].pc, ids |-> job'[c].ids, at |-> job'[c].at, root |-> job'[c].root]
  <2>1. CASE c = b
    BY <1>1, <2>1
  <2>2. CASE c # b
    BY <1>1, <2>2 DEF JobShape, Others
  <2> QED BY <2>1, <2>2
<1> QED BY <1>1, <1>2 DEF JobShape

LEMMA StartEffect ==
  ASSUME NEW b \in Batches, JobShape, StartBatch(b)
  PROVE  /\ JobShape' /\ Others(b)
         /\ job'[b].pc = "claim" /\ job'[b].ids = Pending(BatchTenant[b]) /\ job'[b].at = clock /\ job'[b].root = job[b].root
<1> DEFINE d == job[b]
           P == Pending(BatchTenant[b])
           e == [d EXCEPT !.pc = "claim"]
           f == [e EXCEPT !.ids = P]
           j == [f EXCEPT !.at = clock]
<1>1. d = [pc |-> d.pc, ids |-> d.ids, at |-> d.at, root |-> d.root]
  BY DEF JobShape
<1>2. job' = [job EXCEPT ![b] = j]
  BY DEF StartBatch
<1> HIDE DEF d, P
<1>3. e = [pc |-> "claim", ids |-> d.ids, at |-> d.at, root |-> d.root]
  BY <1>1
<1> HIDE DEF e
<1>4. f = [pc |-> "claim", ids |-> P, at |-> d.at, root |-> d.root]
  BY <1>3
<1> HIDE DEF f
<1>5. j = [pc |-> "claim", ids |-> P, at |-> clock, root |-> d.root]
  BY <1>4
<1> HIDE DEF j
<1>6. j = [pc |-> j.pc, ids |-> j.ids, at |-> j.at, root |-> j.root]
  BY <1>5
<1>7. JobShape' /\ Others(b) /\ job'[b] = j
  BY <1>2, <1>6, JobUpdate
<1> QED BY <1>5, <1>7 DEF d, P

LEMMA ReadEffect ==
  ASSUME NEW b \in Batches, JobShape, ReadBack(b)
  PROVE  /\ JobShape' /\ Others(b)
         /\ job'[b].pc \in {"done", "anchor", "unsynced"} /\ job'[b].ids = job[b].ids /\ job'[b].at = job[b].at
         /\ job'[b].root = BatchRoot(b)
<1> DEFINE d    == job[b]
           docs == FindRecordsByBatchID(BatchTenant[b], b)
           pc   == IF docs = <<>> THEN "done" ELSE IF sync THEN "anchor" ELSE "unsynced"
           root == RootOf(docs)
           e == [d EXCEPT !.pc = pc]
           j == [e EXCEPT !.root = root]
<1>1. d = [pc |-> d.pc, ids |-> d.ids, at |-> d.at, root |-> d.root]
  BY DEF JobShape
<1>2. job' = [job EXCEPT ![b] = j]
  BY DEF ReadBack
<1>0. pc \in {"done", "anchor", "unsynced"} /\ root = BatchRoot(b)
  BY DEF BatchRoot
<1> HIDE DEF d, pc, root
<1>3. e = [pc |-> pc, ids |-> d.ids, at |-> d.at, root |-> d.root]
  BY <1>1
<1> HIDE DEF e
<1>5. j = [pc |-> pc, ids |-> d.ids, at |-> d.at, root |-> root]
  BY <1>3
<1> HIDE DEF j
<1>6. j = [pc |-> j.pc, ids |-> j.ids, at |-> j.at, root |-> j.root]
  BY <1>5
<1>7. JobShape' /\ Others(b) /\ job'[b] = j
  BY <1>2, <1>6, JobUpdate
<1> QED BY <1>0, <1>5, <1>7 DEF d

LEMMA CrashEffect ==
  ASSUME NEW b \in Batches, JobShape, Crash(b)
  PROVE  JobShape' /\ Others(b) /\ job'[b].pc = "done" /\ job'[b].ids = {} /\ job'[b].at = job[b].at
<1> DEFINE d == job[b]
           e == [d EXCEPT !.pc = "done"]
           j == [e EXCEPT !.ids = {}]
<1>1. d = [pc |-> d.pc, ids |-> d.ids, at |-> d.at, root |-> d.root]
  BY DEF JobShape
<1>2. job' = [job EXCEPT ![b] = j]
  BY DEF Crash
<1> HIDE DEF d
<1>3. e = [pc |-> "done", ids |-> d.ids, at |-> d.at, root |-> d.root]
  BY <1>1
<1> HIDE DEF e
<1>5. j = [pc |-> "done", ids |-> {}, at |-> d.at, root |-> d.root]
  BY <1>3
<1> HIDE DEF j
<1>6. j = [pc |-> j.pc, ids |-> j.ids, at |-> j.at, root |-> j.root]
  BY <1>5
<1>7. JobShape' /\ Others(b) /\ job'[b] = j
  BY <1>2, <1>6, JobUpdate
<1> QED BY <1>5, <1>7 DEF d

\* The other steps of a call set one field.
LEMMA PcEffect ==
  ASSUME NEW b \in Batches, NEW pc, JobShape, job' = [job EXCEPT ![b].pc = pc]
  PROVE  /\ JobShape' /\ Others(b)
         /\ job'[b].pc = pc /\ job'[b].ids = job[b].ids /\ job'[b].at = job[b].at /\ job'[b].root = job[b].root
<1> DEFINE d == job[b]
           j == [d EXCEPT !.pc = pc]
<1>1. d = [pc |-> d.pc, ids |-> d.ids, at |-> d.at, root |-> d.root]
  BY DEF JobShape
<1>2. job' = [job EXCEPT ![b] = j]
  OBVIOUS
<1> HIDE DEF d
<1>5. j = [pc |-> pc, ids |-> d.ids, at |-> d.at, root |-> d.root]
  BY <1>1
<1> HIDE DEF j
<1>6. j = [pc |-> j.pc, ids |-> j.ids, at |-> j.at, root |-> j.root]
  BY <1>5
<1>7. JobShape' /\ Others(b) /\ job'[b] = j
  BY <1>2, <1>6, JobUpdate
<1> QED BY <1>5, <1>7 DEF d

LEMMA IdsEffect ==
  ASSUME NEW b \in Batches, NEW r, JobShape, job' = [job EXCEPT ![b].ids = @ \ {r}]
  PROVE  /\ JobShape' /\ Others(b)
         /\ job'[b].pc = job[b].pc /\ job'[b].ids = job[b].ids \ {r} /\ job'[b].at = job[b].at /\ job'[b].root = job[b].root
<1> DEFINE d == job[b]
           j == [d EXCEPT !.ids = d.ids \ {r}]
<1>1. d = [pc |-> d.pc, ids |-> d.ids, at |-> d.at, root |-> d.root]
  BY DEF JobShape
<1>2. job' = [job EXCEPT ![b] = j]
  OBVIOUS
<1> HIDE DEF d
<1>5. j = [pc |-> d.pc, ids |-> d.ids \ {r}, at |-> d.at, root |-> d.root]
  BY <1>1
<1> HIDE DEF j
<1>6. j = [pc |-> j.pc, ids |-> j.ids, at |-> j.at, root |-> j.root]
  BY <1>5
<1>7. JobShape' /\ Others(b) /\ job'[b] = j
  BY <1>2, <1>6, JobUpdate
<1> QED BY <1>5, <1>7 DEF d

-----------------------------------------------------------------------------
(* What the transactions do to the channels.                               *)

ChainShape == chain = [ch \in Channels |-> [key \in DOMAIN chain[ch] |-> chain[ch][key]]]

LEMMA PutEffect ==
  ASSUME NEW ch \in Channels, NEW key, NEW value, ChainShape, PutState(ch, key, value)
  PROVE  /\ ChainShape'
         /\ \A c \in Channels : c # ch => chain'[c] = chain[c]
         /\ DOMAIN chain'[ch] = DOMAIN chain[ch] \cup {key}
         /\ chain'[ch][key] = Append(GetHistoryForKey(ch, key), value)
         /\ \A k \in DOMAIN chain[ch] : k # key => chain'[ch][k] = chain[ch][k]
<1> DEFINE hist == Append(GetHistoryForKey(ch, key), value)
           new  == [k \in DOMAIN chain[ch] \cup {key} |-> IF k = key THEN hist ELSE chain[ch][k]]
<1>1. chain' = [chain EXCEPT ![ch] = new]
  BY DEF PutState
<1> HIDE DEF hist
<1>2. DOMAIN new = DOMAIN chain[ch] \cup {key} /\ new[key] = hist /\ new = [k \in DOMAIN new |-> new[k]]
  OBVIOUS
<1>3. \A k \in DOMAIN chain[ch] : k # key => new[k] = chain[ch][k]
  OBVIOUS
<1> HIDE DEF new
<1>4. chain'[ch] = new /\ (\A c \in Channels : c # ch => chain'[c] = chain[c]) /\ chain' = [c \in Channels |-> chain'[c]]
  BY <1>1 DEF ChainShape
<1>5. ASSUME NEW c \in Channels PROVE chain'[c] = [k \in DOMAIN chain'[c] |-> chain'[c][k]]
  <2>1. CASE c = ch
    BY <1>2, <1>4, <2>1
  <2>2. CASE c # ch
    BY <1>4, <2>2 DEF ChainShape
  <2> QED BY <2>1, <2>2
<1>6. ChainShape'
  BY <1>4, <1>5 DEF ChainShape
<1> QED BY <1>2, <1>3, <1>4, <1>6 DEF hist

\* The three kinds of key do not meet (batchKey).
LEMMA Keys ==
  /\ \A a, b : AnchorKey(a) = AnchorKey(b) => a = b
  /\ \A b, id : AnchorKey(b) # <<id>>
  /\ \A b : Len(AnchorKey(b)) = 3 /\ AnchorKey(b)[2] = clientTenant(gatewayFor(BatchTenant[b]))
  /\ \A id : Len(<<id>>) = 1
<1>1. ASSUME NEW a, NEW b, AnchorKey(a) = AnchorKey(b) PROVE a = b
  BY <1>1 DEF AnchorKey, batchKey
<1>2. ASSUME NEW b
      PROVE  Len(AnchorKey(b)) = 3 /\ AnchorKey(b)[2] = clientTenant(gatewayFor(BatchTenant[b]))
  BY DEF AnchorKey, batchKey
<1>3. ASSUME NEW id PROVE Len(<<id>>) = 1
  OBVIOUS
<1>4. ASSUME NEW b, NEW id, AnchorKey(b) = <<id>> PROVE FALSE
  BY <1>2, <1>3, <1>4
<1> QED BY <1>1, <1>2, <1>3, <1>4

LEMMA OnChainIs ==
  /\ \A b : OnChain(b) <=> HasTenant(gatewayFor(BatchTenant[b])) /\ AnchorKey(b) \in DOMAIN chain[AnchorChannel(b)]
  /\ \A b : ChainRoot(b) = Last(chain[AnchorChannel(b)][AnchorKey(b)]).root
  /\ \A b : OnChain(b)' <=> HasTenant(gatewayFor(BatchTenant[b])) /\ AnchorKey(b) \in DOMAIN chain'[AnchorChannel(b)]
  /\ \A b : ChainRoot(b)' = Last(chain'[AnchorChannel(b)][AnchorKey(b)]).root
  /\ \A b : ChainNum(b) = Last(chain[AnchorChannel(b)][AnchorKey(b)]).num
  /\ \A b : ChainNum(b)' = Last(chain'[AnchorChannel(b)][AnchorKey(b)]).num
BY DEF OnChain, ChainRoot, ChainNum, BatchExists, QueryMerkleBatch, Stored, GetState, AnchorKey, AnchorChannel

LEMMA AnchorChannelIs ==
  ASSUME NEW b \in Batches PROVE AnchorChannel(b) \in Channels
BY BatchAssumption, GatewayAssumption DEF AnchorChannel

\* Every other batch keeps what it has.
KeepsAnchors(S) == \A a \in S : (OnChain(a)' <=> OnChain(a)) /\ (OnChain(a) => ChainRoot(a)' = ChainRoot(a) /\ ChainNum(a)' = ChainNum(a))

LEMMA OtherKeys ==
  ASSUME NEW ch \in Channels, NEW key, NEW value, ChainShape, PutState(ch, key, value),
         NEW S \in SUBSET Batches, \A a \in S : AnchorKey(a) # key
  PROVE  KeepsAnchors(S)
<1> SUFFICES ASSUME NEW a \in S PROVE (OnChain(a)' <=> OnChain(a)) /\ (OnChain(a) => ChainRoot(a)' = ChainRoot(a) /\ ChainNum(a)' = ChainNum(a))
  BY DEF KeepsAnchors
<1> DEFINE k == AnchorKey(a)
           c == AnchorChannel(a)
<1>1. c \in Channels /\ k # key
  BY AnchorChannelIs
<1>2. /\ (k \in DOMAIN chain'[c]) <=> (k \in DOMAIN chain[c])
      /\ k \in DOMAIN chain[c] => chain'[c][k] = chain[c][k]
  <2> HIDE DEF k, c
  <2>1. CASE c = ch
    BY <1>1, <2>1, PutEffect
  <2>2. CASE c # ch
    BY <1>1, <2>2, PutEffect
  <2> QED BY <2>1, <2>2
<1> QED BY <1>2, OnChainIs

\* A log transaction leaves all anchors alone.
LEMMA LogEffect ==
  ASSUME ChainTyped, WriteLog
  PROVE  ChainTyped' /\ KeepsAnchors(Batches)
<1>1. PICK ch \in Channels, id \in LogIds, l \in Levels : CreateLog(ch, id, l)
  BY DEF WriteLog
<1> DEFINE key == <<id>>
           value == [kind |-> "log", id |-> id, level |-> l]
           V == [kind : {"log"}, id : {id}, level : Levels]
<1>2. ChainShape /\ PutState(ch, key, value)
  BY <1>1 DEF CreateLog, ChainTyped, ChainShape
<1>3. \A a \in Batches : AnchorKey(a) # key
  BY Keys
<1>4. value \in V
  OBVIOUS
<1> HIDE DEF value, V
<1>5. KeepsAnchors(Batches)
  BY <1>2, <1>3, OtherKeys
<1>6. GetHistoryForKey(ch, key) \in Seq(V)
  <2>1. CASE key \notin DOMAIN chain[ch]
    BY <2>1 DEF GetHistoryForKey, Stored
  <2>2. CASE key \in DOMAIN chain[ch]
    <3>1. IsLogKey(ch, key)
      <4>1. \A b \in Batches : ~IsAnchorOf(ch, key, b)
        BY <1>3 DEF IsAnchorOf
      <4> HIDE DEF key
      <4> QED BY <2>2, <4>1 DEF ChainTyped
    <3>2. chain[ch][key] \in Seq(V)
      BY <3>1 DEF IsLogKey, V
    <3> QED BY <2>2, <3>2 DEF GetHistoryForKey, Stored
  <2> QED BY <2>1, <2>2
<1>7. chain'[ch][key] \in Seq(V) /\ chain'[ch][key] # <<>>
  <2>1. chain'[ch][key] = Append(GetHistoryForKey(ch, key), value)
    BY <1>2, PutEffect
  <2> QED BY <1>4, <1>6, <2>1
<1>8. ASSUME NEW c \in Channels, NEW k \in DOMAIN chain'[c]
      PROVE  IsLogKey(c, k)' \/ \E b \in Batches : IsAnchorOf(c, k, b)'
  <2>1. CASE c = ch /\ k = key
    BY <1>7, <2>1 DEF IsLogKey, V
  <2>2. CASE ~(c = ch /\ k = key)
    <3>1. k \in DOMAIN chain[c] /\ chain'[c][k] = chain[c][k]
      <4> HIDE DEF key
      <4>1. CASE c = ch
        BY <1>2, <2>2, <4>1, PutEffect
      <4>2. CASE c # ch
        BY <1>2, <4>2, PutEffect
      <4> QED BY <4>1, <4>2
    <3>2. IsLogKey(c, k) \/ \E b \in Batches : IsAnchorOf(c, k, b)
      BY <3>1 DEF ChainTyped
    <3>3. IsLogKey(c, k) => IsLogKey(c, k)'
      BY <3>1 DEF IsLogKey
    <3>4. \A b \in Batches : IsAnchorOf(c, k, b) => IsAnchorOf(c, k, b)'
      BY <3>1 DEF IsAnchorOf, AnchorChannel, AnchorKey
    <3> QED BY <3>2, <3>3, <3>4
  <2> QED BY <2>1, <2>2
<1>9. ChainShape'
  BY <1>2, PutEffect
<1> QED BY <1>5, <1>8, <1>9 DEF ChainTyped, ChainShape

\* An accepted anchor is the batch's first and changes no other.
LEMMA AnchorEffect ==
  ASSUME NEW b \in Batches, NEW root, NEW n, ChainTyped,
         Anchorable(AnchorChannel(b), gatewayFor(BatchTenant[b]), b),
         StoreMerkleRoot(AnchorChannel(b), gatewayFor(BatchTenant[b]), b, root, n)
  PROVE  /\ ChainTyped' /\ ~OnChain(b) /\ OnChain(b)' /\ ChainRoot(b)' = root /\ ChainNum(b)' = n
         /\ KeepsAnchors(Batches \ {b})
<1> DEFINE ch == AnchorChannel(b)
           key == AnchorKey(b)
           tenant == clientTenant(gatewayFor(BatchTenant[b]))
           value == [kind |-> "batch", tenant |-> tenant, id |-> b, root |-> root, num |-> n]
<1>1. ch \in Channels
  BY AnchorChannelIs
<1>2. ChainShape /\ PutState(ch, key, value)
  BY DEF StoreMerkleRoot, ChainTyped, ChainShape, AnchorKey
<1>3. HasTenant(gatewayFor(BatchTenant[b])) /\ key \notin DOMAIN chain[ch]
  BY DEF Anchorable, Stored, AnchorKey
<1>4. KeepsAnchors(Batches \ {b})
  <2>1. \A a \in Batches \ {b} : AnchorKey(a) # key
    BY Keys
  <2> HIDE DEF ch, key, value
  <2> QED BY <1>1, <1>2, <2>1, OtherKeys
<1>5. value.root = root /\ value.num = n
  OBVIOUS
<1>6. chain'[ch][key] = <<value>> /\ key \in DOMAIN chain'[ch]
  <2> HIDE DEF ch, key, value
  <2>1. chain'[ch][key] = Append(GetHistoryForKey(ch, key), value) /\ key \in DOMAIN chain'[ch]
    BY <1>1, <1>2, PutEffect
  <2>2. GetHistoryForKey(ch, key) = <<>>
    BY <1>3 DEF GetHistoryForKey, Stored
  <2> QED BY <2>1, <2>2
<1>7. Last(<<value>>) = value /\ <<value>>[1] = value
  <2> HIDE DEF value
  <2> QED BY DEF Last
<1>8. ~OnChain(b) /\ OnChain(b)' /\ ChainRoot(b)' = root /\ ChainNum(b)' = n
  <2> HIDE DEF value
  <2> QED BY <1>3, <1>5, <1>6, <1>7, OnChainIs
<1>9. IsAnchorOf(ch, key, b)'
  <2>1. value = [kind |-> "batch", tenant |-> tenant, id |-> b, root |-> value.root, num |-> value.num]
    BY <1>5
  <2> HIDE DEF value
  <2> QED BY <1>3, <1>6, <1>7, <2>1 DEF IsAnchorOf, AnchorChannel, AnchorKey
<1>10. ASSUME NEW c \in Channels, NEW k \in DOMAIN chain'[c]
      PROVE  IsLogKey(c, k)' \/ \E a \in Batches : IsAnchorOf(c, k, a)'
  <2> HIDE DEF value
  <2>1. CASE c = ch /\ k = key
    BY <1>9, <2>1
  <2>2. CASE ~(c = ch /\ k = key)
    <3>1. k \in DOMAIN chain[c] /\ chain'[c][k] = chain[c][k]
      <4> HIDE DEF key, ch
      <4>1. CASE c = ch
        BY <1>1, <1>2, <2>2, <4>1, PutEffect
      <4>2. CASE c # ch
        BY <1>1, <1>2, <4>2, PutEffect
      <4> QED BY <4>1, <4>2
    <3>2. IsLogKey(c, k) \/ \E a \in Batches : IsAnchorOf(c, k, a)
      BY <3>1 DEF ChainTyped
    <3>3. IsLogKey(c, k) => IsLogKey(c, k)'
      BY <3>1 DEF IsLogKey
    <3>4. \A a \in Batches : IsAnchorOf(c, k, a) => IsAnchorOf(c, k, a)'
      BY <3>1 DEF IsAnchorOf, AnchorChannel, AnchorKey
    <3> QED BY <3>2, <3>3, <3>4
  <2> QED BY <2>1, <2>2
<1>11. ChainShape'
  <2> HIDE DEF ch, key, value
  <2> QED BY <1>1, <1>2, PutEffect
<1> QED BY <1>4, <1>8, <1>10, <1>11 DEF ChainTyped, ChainShape

-----------------------------------------------------------------------------
(* Types.                                                                  *)

DocTyped(r) ==
  /\ doc[r].batch \in Batches \cup {NoBatch} /\ doc[r].status \in {"", "pending", "failed", "anchored"}
  /\ doc[r].batched \in 0 .. clock
  /\ doc[r].batch # NoBatch => BatchTenant[doc[r].batch] = RecordTenant[r]
  /\ doc[r].batch = NoBatch => doc[r].root = NoRoot /\ doc[r].status = ""

JobTyped(b) ==
  /\ job[b].pc \in {"new", "claim", "unsynced", "anchor", "anchored", "failed", "done"}
  /\ job[b].at \in 0 .. clock /\ job[b].ids \subseteq {r \in Records : RecordTenant[r] = BatchTenant[b]}

LEMMA TypedIs ==
  Typed <=> /\ DocShape /\ (\A r \in Records : DocTyped(r))
            /\ JobShape /\ (\A b \in Batches : JobTyped(b))
            /\ sealed = [b \in Batches |-> sealed[b]] /\ AnswerTyped
            /\ clock \in 0 .. MaxClock /\ edits \in 0 .. MaxEdits
<1>1. AnswerTyped => answer.pc \in {"none", "read"}
  BY DEF AnswerTyped, NoAnswer
<1> QED BY <1>1 DEF Typed, TypeOK, DocsTyped, JobsTyped, JobShape, DocTyped, JobTyped

LEMMA TypedNext ==
  /\ DocShape' /\ (\A r \in Records : DocTyped(r)')
  /\ JobShape' /\ (\A b \in Batches : JobTyped(b)')
  /\ (sealed = [b \in Batches |-> sealed[b]])' /\ AnswerTyped'
  /\ clock' \in 0 .. MaxClock /\ edits' \in 0 .. MaxEdits
  => Typed'
<1>1. AnswerTyped' => answer'.pc \in {"none", "read"}
  BY DEF AnswerTyped, NoAnswer
<1> QED BY <1>1 DEF Typed, TypeOK, DocsTyped, JobsTyped, JobShape, DocTyped, JobTyped

LEMMA Wider ==
  ASSUME NEW m \in Nat, NEW n \in Nat, m <= n, NEW x \in 0 .. m PROVE x \in 0 .. n
OBVIOUS

\* Steps that leave the documents, or the calls, as they are.
LEMMA SameDocs ==
  ASSUME Typed, doc' = doc, clock' \in Nat, clock <= clock'
  PROVE  DocShape' /\ \A r \in Records : DocTyped(r)'
<1>1. DocShape' /\ clock \in Nat
  BY TypedIs, BoundsAssumption DEF DocShape
<1>2. ASSUME NEW r \in Records PROVE DocTyped(r)'
  <2>1. DocTyped(r)
    BY TypedIs
  <2>2. doc[r].batched \in 0 .. clock'
    BY <1>1, <2>1, Wider DEF DocTyped
  <2> QED BY <2>1, <2>2 DEF DocTyped
<1> QED BY <1>1, <1>2

LEMMA SameJobs ==
  ASSUME Typed, job' = job, clock' \in Nat, clock <= clock'
  PROVE  JobShape' /\ \A b \in Batches : JobTyped(b)'
<1>1. JobShape' /\ clock \in Nat
  BY TypedIs, BoundsAssumption DEF JobShape
<1>2. ASSUME NEW b \in Batches PROVE JobTyped(b)'
  <2>1. JobTyped(b)
    BY TypedIs
  <2>2. job[b].at \in 0 .. clock'
    BY <1>1, <2>1, Wider DEF JobTyped
  <2> QED BY <2>1, <2>2 DEF JobTyped
<1> QED BY <1>1, <1>2

\* Steps of one call that keep the clock.
LEMMA OneJob ==
  ASSUME Typed, NEW b \in Batches, Others(b), JobTyped(b)', clock' = clock
  PROVE  \A c \in Batches : JobTyped(c)'
<1> SUFFICES ASSUME NEW c \in Batches PROVE JobTyped(c)'
  OBVIOUS
<1>1. JobTyped(c)
  BY TypedIs
<1>2. CASE c = b
  BY <1>2
<1>3. CASE c # b
  BY <1>1, <1>3 DEF JobTyped, Others
<1> QED BY <1>2, <1>3

\* Steps that only restamp documents.
LEMMA Restamped ==
  ASSUME Typed, DocShape', clock' = clock,
         \A r \in Records : /\ doc'[r].batch = doc[r].batch /\ doc'[r].batched = doc[r].batched
                            /\ doc'[r].status \in {"", "pending", "failed", "anchored"}
                            /\ doc[r].batch = NoBatch => doc'[r].root = doc[r].root /\ doc'[r].status = doc[r].status
  PROVE  \A r \in Records : DocTyped(r)'
<1> SUFFICES ASSUME NEW r \in Records PROVE DocTyped(r)'
  OBVIOUS
<1>1. DocTyped(r)
  BY TypedIs
<1> QED BY <1>1 DEF DocTyped

LEMMA StampTyped ==
  ASSUME Typed, NEW b \in Batches, NEW newRoot, NEW newStatus \in {"", "pending", "failed", "anchored"},
         Stamp(b, newRoot, newStatus), clock' = clock
  PROVE  DocShape' /\ \A r \in Records : DocTyped(r)'
<1>1. DocShape /\ \A r \in Records : DocTyped(r)
  BY TypedIs
<1>2. /\ DocShape'
      /\ \A r \in Records : /\ doc'[r].content = doc[r].content /\ doc'[r].batched = doc[r].batched
                            /\ doc'[r].batch = doc[r].batch
                            /\ r \in MembersOf(BatchTenant[b], b) => doc'[r].root = newRoot /\ doc'[r].status = newStatus
                            /\ r \notin MembersOf(BatchTenant[b], b) => doc'[r] = doc[r]
  BY <1>1, StampEffect
<1>3. ASSUME NEW r \in Records
      PROVE  /\ doc'[r].batch = doc[r].batch /\ doc'[r].batched = doc[r].batched
             /\ doc'[r].status \in {"", "pending", "failed", "anchored"}
             /\ doc[r].batch = NoBatch => doc'[r].root = doc[r].root /\ doc'[r].status = doc[r].status
  <2>1. doc[r].status \in {"", "pending", "failed", "anchored"}
    BY <1>1 DEF DocTyped
  <2>2. r \in MembersOf(BatchTenant[b], b) => doc[r].batch = b /\ b # NoBatch
    BY BatchAssumption DEF MembersOf
  <2>3. /\ doc'[r].batch = doc[r].batch /\ doc'[r].batched = doc[r].batched
        /\ r \in MembersOf(BatchTenant[b], b) => doc'[r].status = newStatus
        /\ r \notin MembersOf(BatchTenant[b], b) => doc'[r] = doc[r]
    BY <1>2
  <2> QED BY <2>1, <2>2, <2>3
<1> QED BY <1>2, <1>3, Restamped

LEMMA TypedStart ==
  ASSUME Typed, NEW b \in Batches, StartBatch(b) PROVE Typed'
<1>1. UNCHANGED <<chain, sync, doc, clock, edits, sealed, answer>> /\ JobShape /\ AnswerTyped /\ clock \in 0 .. MaxClock
      /\ sealed = [c \in Batches |-> sealed[c]] /\ edits \in 0 .. MaxEdits
  BY TypedIs DEF StartBatch
<1>2. clock \in Nat /\ clock' \in Nat /\ clock <= clock'
  BY <1>1, BoundsAssumption
<1>3. JobShape' /\ Others(b) /\ job'[b].pc = "claim" /\ job'[b].ids = Pending(BatchTenant[b]) /\ job'[b].at = clock
  BY <1>1, StartEffect
<1>4. JobTyped(b)'
  BY <1>1, <1>2, <1>3 DEF JobTyped, Pending
<1>5. \A c \in Batches : JobTyped(c)'
  BY <1>1, <1>3, <1>4, OneJob
<1>6. DocShape' /\ \A r \in Records : DocTyped(r)'
  BY <1>1, <1>2, SameDocs
<1>7. AnswerTyped'
  BY <1>1 DEF AnswerTyped
<1> QED BY <1>1, <1>3, <1>5, <1>6, <1>7, TypedNext

\* What a step that leaves all the rest alone still needs.
LEMMA TypedRest ==
  ASSUME Typed, UNCHANGED <<clock, answer>>, DocShape', \A r \in Records : DocTyped(r)',
         JobShape', \A b \in Batches : JobTyped(b)',
         (sealed = [b \in Batches |-> sealed[b]])', edits' \in 0 .. MaxEdits
  PROVE  Typed'
<1>1. AnswerTyped /\ clock \in 0 .. MaxClock
  BY TypedIs
<1>2. AnswerTyped'
  BY <1>1 DEF AnswerTyped
<1> QED BY <1>1, <1>2, TypedNext

LEMMA Steady ==
  ASSUME Typed, UNCHANGED clock
  PROVE  clock' \in Nat /\ clock <= clock'
<1>1. clock \in 0 .. MaxClock
  BY TypedIs
<1> QED BY <1>1, BoundsAssumption

LEMMA TypedRead ==
  ASSUME Typed, NEW b \in Batches, ReadBack(b) PROVE Typed'
<1>1. UNCHANGED <<doc, clock, edits, answer>> /\ JobShape /\ JobTyped(b) /\ edits \in 0 .. MaxEdits
  BY TypedIs DEF ReadBack
<1>2. JobShape' /\ Others(b) /\ job'[b].pc \in {"done", "anchor", "unsynced"} /\ job'[b].ids = job[b].ids /\ job'[b].at = job[b].at
  BY <1>1, ReadEffect
<1>3. JobTyped(b)'
  BY <1>1, <1>2 DEF JobTyped
<1>4. \A c \in Batches : JobTyped(c)'
  BY <1>1, <1>2, <1>3, OneJob
<1>5. DocShape' /\ \A r \in Records : DocTyped(r)'
  BY <1>1, Steady, SameDocs
<1>6. (sealed = [c \in Batches |-> sealed[c]])'
  BY TypedIs DEF ReadBack
<1> QED BY <1>1, <1>2, <1>4, <1>5, <1>6, TypedRest

LEMMA TypedCrash ==
  ASSUME Typed, NEW b \in Batches, Crash(b) PROVE Typed'
<1>1. UNCHANGED <<doc, clock, edits, sealed, answer>> /\ JobShape /\ JobTyped(b) /\ edits \in 0 .. MaxEdits
  BY TypedIs DEF Crash
<1>2. JobShape' /\ Others(b) /\ job'[b].pc = "done" /\ job'[b].ids = {} /\ job'[b].at = job[b].at
  BY <1>1, CrashEffect
<1>3. JobTyped(b)'
  BY <1>1, <1>2 DEF JobTyped
<1>4. \A c \in Batches : JobTyped(c)'
  BY <1>1, <1>2, <1>3, OneJob
<1>5. DocShape' /\ \A r \in Records : DocTyped(r)'
  BY <1>1, Steady, SameDocs
<1>6. (sealed = [c \in Batches |-> sealed[c]])'
  BY <1>1, TypedIs
<1> QED BY <1>1, <1>2, <1>4, <1>5, <1>6, TypedRest

LEMMA TypedPc ==
  ASSUME Typed, NEW b \in Batches, NEW pc \in {"anchored", "failed", "done"}, job' = [job EXCEPT ![b].pc = pc], clock' = clock
  PROVE  JobShape' /\ \A c \in Batches : JobTyped(c)'
<1>1. JobShape /\ JobTyped(b)
  BY TypedIs
<1>2. JobShape' /\ Others(b) /\ job'[b].pc = pc /\ job'[b].ids = job[b].ids /\ job'[b].at = job[b].at
  BY <1>1, PcEffect
<1>3. JobTyped(b)'
  BY <1>1, <1>2 DEF JobTyped
<1> QED BY <1>2, <1>3, OneJob

LEMMA TypedSetRoot ==
  ASSUME Typed, NEW b \in Batches, SetRecordBatchMerkleRoot(b) PROVE Typed'
<1>1. UNCHANGED <<clock, edits, sealed, answer>> /\ DocShape /\ (\A r \in Records : DocTyped(r)) /\ edits \in 0 .. MaxEdits
  BY TypedIs DEF SetRecordBatchMerkleRoot
<1>2. JobShape' /\ \A c \in Batches : JobTyped(c)'
  BY <1>1, TypedPc DEF SetRecordBatchMerkleRoot
<1>3. DocShape'
  BY <1>1, SetRootEffect
<1>4. ASSUME NEW r \in Records
      PROVE  /\ doc'[r].batch = doc[r].batch /\ doc'[r].batched = doc[r].batched
             /\ doc'[r].status \in {"", "pending", "failed", "anchored"}
             /\ doc[r].batch = NoBatch => doc'[r].root = doc[r].root /\ doc'[r].status = doc[r].status
  <2>1. /\ doc'[r].batch = doc[r].batch /\ doc'[r].batched = doc[r].batched /\ doc'[r].status = doc[r].status
        /\ r \notin MembersOf(BatchTenant[b], b) => doc'[r] = doc[r]
    BY <1>1, SetRootEffect
  <2>2. r \in MembersOf(BatchTenant[b], b) => doc[r].batch = b /\ b # NoBatch
    BY BatchAssumption DEF MembersOf
  <2>3. doc[r].status \in {"", "pending", "failed", "anchored"}
    BY <1>1 DEF DocTyped
  <2> QED BY <2>1, <2>2, <2>3
<1>5. \A r \in Records : DocTyped(r)'
  BY <1>1, <1>3, <1>4, Restamped
<1>6. (sealed = [c \in Batches |-> sealed[c]])'
  BY <1>1, TypedIs
<1> QED BY <1>1, <1>2, <1>3, <1>5, <1>6, TypedRest

LEMMA TypedMark ==
  ASSUME Typed, NEW b \in Batches, MarkBatch(b) PROVE Typed'
<1>1. UNCHANGED <<clock, edits, sealed, answer>> /\ edits \in 0 .. MaxEdits /\ Stamp(b, job[b].root, job[b].pc)
      /\ job[b].pc \in {"", "pending", "failed", "anchored"}
  BY TypedIs DEF MarkBatch
<1>2. JobShape' /\ \A c \in Batches : JobTyped(c)'
  BY <1>1, TypedPc DEF MarkBatch
<1>3. DocShape' /\ \A r \in Records : DocTyped(r)'
  BY <1>1, StampTyped
<1>6. (sealed = [c \in Batches |-> sealed[c]])'
  BY <1>1, TypedIs
<1> QED BY <1>1, <1>2, <1>3, <1>6, TypedRest

LEMMA TypedReconcile ==
  ASSUME Typed, NEW b \in Batches, Reconcile(b) PROVE Typed'
<1> DEFINE root == FindRecordsByBatchID(BatchTenant[b], b)[1].root
<1>1. UNCHANGED <<job, clock, edits, sealed, answer>> /\ edits \in 0 .. MaxEdits /\ Stamp(b, root, "anchored")
  BY TypedIs DEF Reconcile
<1> HIDE DEF root
<1>2. JobShape' /\ \A c \in Batches : JobTyped(c)'
  BY <1>1, Steady, SameJobs
<1>3. DocShape' /\ \A r \in Records : DocTyped(r)'
  BY <1>1, StampTyped
<1>6. (sealed = [c \in Batches |-> sealed[c]])'
  BY <1>1, TypedIs
<1> QED BY <1>1, <1>2, <1>3, <1>6, TypedRest

LEMMA TypedAnchor ==
  ASSUME Typed, NEW b \in Batches, Anchor(b) PROVE Typed'
<1>1. UNCHANGED <<doc, clock, edits, sealed, answer>> /\ edits \in 0 .. MaxEdits
  BY TypedIs DEF Anchor
<1>2. JobShape' /\ \A c \in Batches : JobTyped(c)'
  BY <1>1, TypedPc DEF Anchor
<1>3. DocShape' /\ \A r \in Records : DocTyped(r)'
  BY <1>1, Steady, SameDocs
<1>6. (sealed = [c \in Batches |-> sealed[c]])'
  BY <1>1, TypedIs
<1> QED BY <1>1, <1>2, <1>3, <1>6, TypedRest

LEMMA TypedClaim ==
  ASSUME Typed, NEW b \in Batches, NEW r \in Records, ClaimRecord(b, r) PROVE Typed'
<1>1. /\ UNCHANGED <<clock, edits, sealed, answer>> /\ DocShape /\ (\A s \in Records : DocTyped(s)) /\ edits \in 0 .. MaxEdits
      /\ JobShape /\ JobTyped(b) /\ r \in job[b].ids
  BY TypedIs DEF ClaimRecord
<1>2. JobShape' /\ Others(b) /\ job'[b].pc = job[b].pc /\ job'[b].ids = job[b].ids \ {r} /\ job'[b].at = job[b].at
  BY <1>1, IdsEffect DEF ClaimRecord
<1>3. JobTyped(b)'
  BY <1>1, <1>2 DEF JobTyped
<1>4. \A c \in Batches : JobTyped(c)'
  BY <1>1, <1>2, <1>3, OneJob
<1>5. DocShape' /\ (\A s \in Records : s # r \/ doc[r].batch # NoBatch => doc'[s] = doc[s])
      /\ (doc[r].batch = NoBatch => doc'[r].batch = b /\ doc'[r].status = "pending" /\ doc'[r].batched = job[b].at)
  BY <1>1, ClaimEffect
<1>6. ASSUME NEW s \in Records PROVE DocTyped(s)'
  <2>1. CASE s # r \/ doc[r].batch # NoBatch
    <3>1. DocTyped(s) /\ doc'[s] = doc[s]
      BY <1>1, <1>5, <2>1
    <3> QED BY <1>1, <3>1 DEF DocTyped
  <2>2. CASE s = r /\ doc[r].batch = NoBatch
    <3>1. job[b].at \in 0 .. clock /\ BatchTenant[b] = RecordTenant[r] /\ b # NoBatch
      BY <1>1, BatchAssumption DEF JobTyped
    <3> QED BY <1>1, <1>5, <2>2, <3>1 DEF DocTyped
  <2> QED BY <2>1, <2>2
<1>7. (sealed = [c \in Batches |-> sealed[c]])'
  BY <1>1, TypedIs
<1> QED BY <1>1, <1>2, <1>4, <1>5, <1>6, <1>7, TypedRest

LEMMA TypedEdit ==
  ASSUME Typed, NEW r \in Records, Edit(r) PROVE Typed'
<1>1. /\ UNCHANGED <<job, clock, sealed, answer>> /\ DocShape /\ (\A s \in Records : DocTyped(s)) /\ doc[r].batch # NoBatch
  BY TypedIs DEF Edit
<1>2. edits' \in 0 .. MaxEdits
  <2>1. edits \in 0 .. MaxEdits /\ edits < MaxEdits /\ edits' = edits + 1
    BY TypedIs DEF Edit
  <2> QED BY <2>1, BoundsAssumption
<1>3. JobShape' /\ \A c \in Batches : JobTyped(c)'
  BY <1>1, Steady, SameJobs
<1>4. DocShape'
  BY <1>1, EditEffect
<1>5. ASSUME NEW s \in Records
      PROVE  /\ doc'[s].batch = doc[s].batch /\ doc'[s].batched = doc[s].batched
             /\ doc'[s].status \in {"", "pending", "failed", "anchored"}
             /\ doc[s].batch = NoBatch => doc'[s].root = doc[s].root /\ doc'[s].status = doc[s].status
  <2>1. /\ doc'[s].batch = doc[s].batch /\ doc'[s].batched = doc[s].batched /\ doc'[s].status = doc[s].status
        /\ doc[s].batch # doc[r].batch => doc'[s] = doc[s]
    BY <1>1, EditEffect
  <2>2. doc[s].status \in {"", "pending", "failed", "anchored"}
    BY <1>1 DEF DocTyped
  <2> QED BY <1>1, <2>1, <2>2
<1>6. \A s \in Records : DocTyped(s)'
  BY <1>1, <1>4, <1>5, Restamped
<1>7. (sealed = [c \in Batches |-> sealed[c]])'
  BY <1>1, TypedIs
<1> QED BY <1>1, <1>2, <1>3, <1>4, <1>6, <1>7, TypedRest

\* The reader, the clock and the logs.
LEMMA TypedOther ==
  ASSUME Typed, UNCHANGED <<doc, job, edits, sealed>>, AnswerTyped', clock' \in 0 .. MaxClock, clock <= clock'
  PROVE  Typed'
<1>1. clock' \in Nat
  BY BoundsAssumption
<1>2. DocShape' /\ \A r \in Records : DocTyped(r)'
  BY <1>1, SameDocs
<1>3. JobShape' /\ \A b \in Batches : JobTyped(b)'
  BY <1>1, SameJobs
<1>4. edits' \in 0 .. MaxEdits /\ (sealed = [b \in Batches |-> sealed[b]])'
  BY TypedIs
<1> QED BY <1>2, <1>3, <1>4, TypedNext

LEMMA TypedVerify ==
  ASSUME Typed, NEW b \in Batches, VerifyRead(b) PROVE Typed'
<1> DEFINE docs == FindRecordsByBatchID(BatchTenant[b], b)
<1>1. docs # <<>> /\ answer' = [pc |-> "read", batch |-> b, docs |-> docs] /\ UNCHANGED <<doc, job, clock, edits, sealed>>
  BY DEF VerifyRead
<1>2. IsSeq(docs)
  BY FindIs, Found
<1> HIDE DEF docs
<1>3. docs \in Seq({docs[i] : i \in DOMAIN docs})
  <2>1. Len(docs) \in Nat /\ DOMAIN docs = 1 .. Len(docs) /\ docs = [i \in 1 .. Len(docs) |-> docs[i]]
    BY <1>2, SeqIs
  <2> DEFINE n == Len(docs)
             S == {docs[i] : i \in DOMAIN docs}
  <2>2. docs \in [1 .. n -> S] /\ n \in Nat
    BY <2>1
  <2> HIDE DEF n, S
  <2>3. docs \in Seq(S)
    BY <2>2
  <2> QED BY <2>3 DEF S
<1>4. AnswerTyped'
  <2>1. answer'.batch = b /\ answer'.docs = docs
    BY <1>1
  <2>2. answer' = [pc |-> "read", batch |-> answer'.batch, docs |-> answer'.docs]
    BY <1>1, <2>1
  <2> QED BY <1>1, <1>3, <2>1, <2>2 DEF AnswerTyped
<1>5. clock \in 0 .. MaxClock
  BY TypedIs
<1> QED BY <1>1, <1>4, <1>5, Steady, TypedOther

LEMMA StillTyped ==
  ASSUME Typed, [Next]_vars PROVE Typed'
<1>1. AnswerTyped /\ clock \in 0 .. MaxClock /\ clock \in Nat
  BY TypedIs, BoundsAssumption
<1>2. ASSUME UNCHANGED vars PROVE Typed'
  <2>1. AnswerTyped' /\ UNCHANGED <<doc, job, edits, sealed>> /\ clock' \in 0 .. MaxClock /\ clock <= clock'
    BY <1>1, <1>2 DEF AnswerTyped, vars
  <2> QED BY <2>1, TypedOther
<1>3. ASSUME VerifyQuery PROVE Typed'
  <2>1. AnswerTyped' /\ UNCHANGED <<doc, job, edits, sealed>> /\ clock' \in 0 .. MaxClock /\ clock <= clock'
    BY <1>1, <1>3 DEF AnswerTyped, VerifyQuery
  <2> QED BY <2>1, TypedOther
<1>4. ASSUME WriteLog PROVE Typed'
  <2>1. AnswerTyped' /\ UNCHANGED <<doc, job, edits, sealed>> /\ clock' \in 0 .. MaxClock /\ clock <= clock'
    BY <1>1, <1>4 DEF AnswerTyped, WriteLog
  <2> QED BY <2>1, TypedOther
<1>5. ASSUME Tick PROVE Typed'
  <2>1. clock < MaxClock /\ clock' = clock + 1
    BY <1>5 DEF Tick
  <2>2. clock' \in 0 .. MaxClock /\ clock <= clock'
    BY <1>1, <2>1, BoundsAssumption
  <2>3. AnswerTyped' /\ UNCHANGED <<doc, job, edits, sealed>>
    BY <1>1, <1>5 DEF AnswerTyped, Tick
  <2> QED BY <2>2, <2>3, TypedOther
<1>6. ASSUME NEW b \in Batches,
             StartBatch(b) \/ ReadBack(b) \/ SetRecordBatchMerkleRoot(b) \/ Anchor(b) \/ MarkBatch(b) \/ Crash(b)
               \/ Reconcile(b) \/ VerifyRead(b)
      PROVE  Typed'
  BY <1>6, TypedStart, TypedRead, TypedSetRoot, TypedAnchor, TypedMark, TypedCrash, TypedReconcile, TypedVerify
<1> QED BY <1>2, <1>3, <1>4, <1>5, <1>6, TypedClaim, TypedEdit DEF Next

InitialRoot(r, legacy) ==
  LET rs == {s \in Records : Of(s) = Of(r)}
  IN  CalculateRecordMerkleRoot([i \in 1 .. Cardinality(rs) |-> Created(InOrder(rs)[i], legacy)])

\* At the start a record is in the earlier batch of its tenant, if there is one.
LEMMA InitialDocs ==
  ASSUME NEW legacy, doc = [r \in Records |-> InitialDoc(r, legacy)]
  PROVE  /\ DocShape
         /\ \A r \in Records :
              /\ doc[r].content = Created(r, legacy) /\ doc[r].batched = 0
              /\ Of(r) = {} => doc[r].batch = NoBatch /\ doc[r].root = NoRoot /\ doc[r].status = ""
              /\ Of(r) # {} => doc[r].batch \in Of(r) /\ doc[r].status = "anchored"
                   /\ doc[r].root = InitialRoot(r, legacy)
<1>1. ASSUME NEW r \in Records
      PROVE  /\ doc[r].content = Created(r, legacy) /\ doc[r].batched = 0
             /\ Of(r) = {} => doc[r].batch = NoBatch /\ doc[r].root = NoRoot /\ doc[r].status = ""
             /\ Of(r) # {} => doc[r].batch \in Of(r) /\ doc[r].status = "anchored"
                  /\ doc[r].root = InitialRoot(r, legacy)
             /\ doc[r] = [content |-> doc[r].content, batched |-> doc[r].batched, batch |-> doc[r].batch,
                          root |-> doc[r].root, status |-> doc[r].status]
  <2> DEFINE root == InitialRoot(r, legacy)
             batch == CHOOSE b \in Of(r) : TRUE
             content == Created(r, legacy)
  <2>1. doc[r] = IF Of(r) = {} THEN [content |-> content, batched |-> 0, batch |-> NoBatch, root |-> NoRoot, status |-> ""]
                 ELSE [content |-> content, batched |-> 0, batch |-> batch, root |-> root, status |-> "anchored"]
    BY DEF InitialDoc, InitialRoot
  <2>2. Of(r) # {} => batch \in Of(r)
    OBVIOUS
  <2> DEFINE d == doc[r]
  <2> HIDE DEF root, batch, content, d
  <2>3. CASE Of(r) = {}
    <3>1. d = [content |-> content, batched |-> 0, batch |-> NoBatch, root |-> NoRoot, status |-> ""]
      BY <2>1, <2>3 DEF d
    <3>2. /\ d.content = content /\ d.batched = 0 /\ d.batch = NoBatch /\ d.status = "" /\ d.root = NoRoot
          /\ d = [content |-> d.content, batched |-> d.batched, batch |-> d.batch, root |-> d.root, status |-> d.status]
      BY <3>1
    <3> QED BY <2>3, <3>2 DEF content, d
  <2>4. CASE Of(r) # {}
    <3>1. d = [content |-> content, batched |-> 0, batch |-> batch, root |-> root, status |-> "anchored"]
      BY <2>1, <2>4 DEF d
    <3>2. /\ d.content = content /\ d.batched = 0 /\ d.batch \in Of(r) /\ d.status = "anchored" /\ d.root = root
          /\ d = [content |-> d.content, batched |-> d.batched, batch |-> d.batch, root |-> d.root, status |-> d.status]
      BY <2>2, <2>4, <3>1
    <3> QED BY <2>4, <3>2 DEF content, root, d
  <2> QED BY <2>3, <2>4
<1>2. DocShape
  BY <1>1 DEF DocShape
<1> QED BY <1>1, <1>2

LEMMA TypedInit ==
  ASSUME Init PROVE Typed
<1>1. PICK legacy \in LegacyCounts : doc = [r \in Records |-> InitialDoc(r, legacy)]
  BY DEF Init
<1>2. clock = 0 /\ edits = 0 /\ answer = NoAnswer
  BY DEF Init
<1>3. DocShape
  BY <1>1, InitialDocs
<1>4. ASSUME NEW r \in Records PROVE DocTyped(r)
  <2>1. /\ doc[r].batched = 0
        /\ Of(r) = {} => doc[r].batch = NoBatch /\ doc[r].root = NoRoot /\ doc[r].status = ""
        /\ Of(r) # {} => doc[r].batch \in Of(r) /\ doc[r].status = "anchored"
    BY <1>1, InitialDocs
  <2>2. \A b \in Of(r) : b \in Batches /\ b # NoBatch /\ BatchTenant[b] = RecordTenant[r]
    BY BatchAssumption DEF Of
  <2>3. 0 \in 0 .. clock
    BY <1>2
  <2>4. CASE Of(r) = {}
    BY <2>1, <2>3, <2>4 DEF DocTyped
  <2>5. CASE Of(r) # {}
    BY <2>1, <2>2, <2>3, <2>5 DEF DocTyped
  <2> QED BY <2>4, <2>5
<1>5. job = [b \in Batches |-> [pc |-> IF b \in Earlier THEN "done" ELSE "new", ids |-> {}, at |-> 0, root |-> NoRoot]]
  BY DEF Init
<1>6. ASSUME NEW b \in Batches
      PROVE  JobTyped(b) /\ job[b] = [pc |-> job[b].pc, ids |-> job[b].ids, at |-> job[b].at, root |-> job[b].root]
  <2>1. 0 \in 0 .. clock
    BY <1>2
  <2>2. job[b] = [pc |-> IF b \in Earlier THEN "done" ELSE "new", ids |-> {}, at |-> 0, root |-> NoRoot]
    BY <1>5
  <2>3. job[b].pc \in {"new", "done"} /\ job[b].ids = {} /\ job[b].at = 0
        /\ job[b] = [pc |-> job[b].pc, ids |-> job[b].ids, at |-> job[b].at, root |-> job[b].root]
    BY <2>2
  <2> QED BY <2>1, <2>3 DEF JobTyped
<1>7. JobShape
  BY <1>5, <1>6 DEF JobShape
<1>8. sealed = [b \in Batches |-> sealed[b]]
  BY DEF Init
<1>9. clock \in 0 .. MaxClock /\ edits \in 0 .. MaxEdits /\ AnswerTyped
  BY <1>2, BoundsAssumption DEF AnswerTyped
<1> QED BY <1>3, <1>4, <1>6, <1>7, <1>8, <1>9, TypedIs

\* Type correctness: the documents, calls, clock and counters stay in their
\* sets for any records, tenants and batches.
THEOREM TypeCorrect == Spec => []TypeOK
<1>1. Typed => TypeOK
  BY DEF Typed
<1> QED BY <1>1, TypedInit, StillTyped, PTL DEF Spec

-----------------------------------------------------------------------------
(* The channels, and what is said to be anchored.                          *)

\* A batch comes on its channel with the root and the number of its call or of
\* its documents.
Arrives(b) ==
  \/ job[b].pc = "anchor" /\ ChainRoot(b)' = job[b].root /\ ChainNum(b)' = Len(sealed[b])
  \/ /\ \E r \in Records : doc[r].batch = b /\ ChainRoot(b)' = doc[r].root
     /\ ChainNum(b)' = Cardinality(MembersOf(BatchTenant[b], b))

LEMMA AnchorSteps ==
  ASSUME ChainTyped, NEW b \in Batches, Anchor(b)
  PROVE  /\ ChainTyped' /\ KeepsAnchors(Batches \ {b})
         /\ OnChain(b) => OnChain(b)' /\ ChainRoot(b)' = ChainRoot(b) /\ ChainNum(b)' = ChainNum(b)
         /\ ~OnChain(b) /\ OnChain(b)' => ChainRoot(b)' = job[b].root /\ ChainNum(b)' = Len(sealed[b])
         /\ \/ OnChain(b)' /\ job' = [job EXCEPT ![b].pc = "anchored"]
            \/ job' = [job EXCEPT ![b].pc = "failed"]
<1>1. CASE chain' = chain /\ job' = [job EXCEPT ![b].pc = "failed"]
  <2>1. ChainTyped'
    BY <1>1 DEF ChainTyped, IsLogKey, IsAnchorOf, AnchorKey, AnchorChannel
  <2>2. (\A a : OnChain(a)' <=> OnChain(a)) /\ \A a : ChainRoot(a)' = ChainRoot(a) /\ ChainNum(a)' = ChainNum(a)
    BY <1>1, OnChainIs
  <2> QED BY <1>1, <2>1, <2>2 DEF KeepsAnchors
<1>2. CASE /\ Anchorable(AnchorChannel(b), gatewayFor(BatchTenant[b]), b)
           /\ StoreMerkleRoot(AnchorChannel(b), gatewayFor(BatchTenant[b]), b, job[b].root, Len(sealed[b]))
           /\ job' = [job EXCEPT ![b].pc = "anchored"]
  BY <1>2, AnchorEffect
<1> QED BY <1>1, <1>2 DEF Anchor, AnchorChannel

LEMMA ReconcileSteps ==
  ASSUME Typed, ChainTyped, NEW b \in Batches, Reconcile(b)
  PROVE  /\ ChainTyped' /\ KeepsAnchors(Batches \ {b}) /\ OnChain(b)'
         /\ OnChain(b) => ChainRoot(b)' = ChainRoot(b) /\ ChainNum(b)' = ChainNum(b)
         /\ \E r \in Records : /\ doc[r].batch = b /\ Stamp(b, doc[r].root, "anchored")
                               /\ ~OnChain(b) => ChainRoot(b)' = doc[r].root
         /\ ~OnChain(b) => ChainNum(b)' = Cardinality(MembersOf(BatchTenant[b], b))
<1> DEFINE docs == FindRecordsByBatchID(BatchTenant[b], b)
<1>1. /\ HasTenant(gatewayFor(BatchTenant[b])) /\ DOMAIN docs # {} /\ Stamp(b, docs[1].root, "anchored")
      /\ IF Anchorable(AnchorChannel(b), gatewayFor(BatchTenant[b]), b)
         THEN StoreMerkleRoot(AnchorChannel(b), gatewayFor(BatchTenant[b]), b, docs[1].root, Len(docs))
         ELSE UNCHANGED chain
  BY DEF Reconcile, AnchorChannel
<1>5. Len(docs) = Cardinality(MembersOf(BatchTenant[b], b))
  BY FindIs, Found
<1>2. PICK r \in Records : doc[r].batch = b /\ docs[1] = doc[r]
  <2> DEFINE rs == MembersOf(BatchTenant[b], b)
  <2>1. docs = Read(doc, rs) /\ rs \in SUBSET Records
    BY FindIs
  <2>2. 1 \in DOMAIN docs
    <3>1. DOMAIN docs = 1 .. Len(docs) /\ Len(docs) \in Nat
      BY <2>1, Found
    <3> QED BY <1>1, <3>1
  <2>3. InOrder(rs)[1] \in rs /\ docs[1] = doc[InOrder(rs)[1]]
    BY <2>1, <2>2, Found
  <2> QED BY <2>1, <2>3 DEF MembersOf
<1> HIDE DEF docs
<1>3. CASE Anchorable(AnchorChannel(b), gatewayFor(BatchTenant[b]), b)
  <2>1. StoreMerkleRoot(AnchorChannel(b), gatewayFor(BatchTenant[b]), b, doc[r].root, Len(docs))
    BY <1>1, <1>2, <1>3
  <2>2. /\ ChainTyped' /\ ~OnChain(b) /\ OnChain(b)' /\ ChainRoot(b)' = doc[r].root /\ KeepsAnchors(Batches \ {b})
        /\ ChainNum(b)' = Len(docs)
    BY <1>3, <2>1, AnchorEffect
  <2> QED BY <1>1, <1>2, <1>5, <2>2
<1>4. CASE ~Anchorable(AnchorChannel(b), gatewayFor(BatchTenant[b]), b)
  <2>1. chain' = chain
    BY <1>1, <1>4
  <2>2. ChainTyped'
    BY <2>1 DEF ChainTyped, IsLogKey, IsAnchorOf, AnchorKey, AnchorChannel
  <2>3. (\A a : OnChain(a)' <=> OnChain(a)) /\ \A a : ChainRoot(a)' = ChainRoot(a) /\ ChainNum(a)' = ChainNum(a)
    BY <2>1, OnChainIs
  <2>4. OnChain(b)
    BY <1>1, <1>4 DEF Anchorable, OnChain, BatchExists
  <2> QED BY <1>1, <1>2, <2>2, <2>3, <2>4 DEF KeepsAnchors
<1> QED BY <1>3, <1>4

\* Anchors are not lost or changed, whatever the step.
LEMMA ChainSteps ==
  ASSUME Typed, ChainTyped, [Next]_vars
  PROVE  /\ ChainTyped'
         /\ \A b \in Batches : OnChain(b) => OnChain(b)' /\ ChainRoot(b)' = ChainRoot(b) /\ ChainNum(b)' = ChainNum(b)
         /\ \A b \in Batches : ~OnChain(b) /\ OnChain(b)' => Arrives(b)
<1>1. ASSUME chain' = chain
      PROVE  ChainTyped' /\ KeepsAnchors(Batches)
  <2>1. ChainTyped'
    BY <1>1 DEF ChainTyped, IsLogKey, IsAnchorOf, AnchorKey, AnchorChannel
  <2>2. (\A a : OnChain(a)' <=> OnChain(a)) /\ \A a : ChainRoot(a)' = ChainRoot(a) /\ ChainNum(a)' = ChainNum(a)
    BY <1>1, OnChainIs
  <2> QED BY <2>1, <2>2 DEF KeepsAnchors
<1>2. CASE chain' = chain \/ WriteLog
  BY <1>1, <1>2, LogEffect DEF KeepsAnchors
<1>3. ASSUME NEW b \in Batches, Anchor(b) PROVE job[b].pc = "anchor"
  BY <1>3 DEF Anchor
<1>4. ASSUME NEW b \in Batches, Anchor(b)
      PROVE  /\ ChainTyped'
             /\ \A a \in Batches : OnChain(a) => OnChain(a)' /\ ChainRoot(a)' = ChainRoot(a) /\ ChainNum(a)' = ChainNum(a)
             /\ \A a \in Batches : ~OnChain(a) /\ OnChain(a)' => Arrives(a)
  <2>1. ChainTyped' /\ KeepsAnchors(Batches \ {b})
        /\ (OnChain(b) => OnChain(b)' /\ ChainRoot(b)' = ChainRoot(b) /\ ChainNum(b)' = ChainNum(b)) /\ (~OnChain(b) /\ OnChain(b)' => ChainRoot(b)' = job[b].root /\ ChainNum(b)' = Len(sealed[b]))
    BY <1>4, AnchorSteps
  <2> QED BY <1>3, <1>4, <2>1 DEF KeepsAnchors, Arrives
<1>5. ASSUME NEW b \in Batches, Reconcile(b)
      PROVE  /\ ChainTyped'
             /\ \A a \in Batches : OnChain(a) => OnChain(a)' /\ ChainRoot(a)' = ChainRoot(a) /\ ChainNum(a)' = ChainNum(a)
             /\ \A a \in Batches : ~OnChain(a) /\ OnChain(a)' => Arrives(a)
  <2>1. ChainTyped' /\ KeepsAnchors(Batches \ {b}) /\ OnChain(b)' /\ (OnChain(b) => ChainRoot(b)' = ChainRoot(b) /\ ChainNum(b)' = ChainNum(b))
    BY <1>5, ReconcileSteps
  <2>2. ~OnChain(b) => Arrives(b)
    BY <1>5, ReconcileSteps DEF Arrives
  <2> QED BY <2>1, <2>2 DEF KeepsAnchors
<1>6. chain' = chain \/ WriteLog \/ \E b \in Batches : Anchor(b) \/ Reconcile(b)
  BY DEF Next, vars, StartBatch, ReadBack, SetRecordBatchMerkleRoot, MarkBatch, Crash, VerifyRead, ClaimRecord, Edit,
         Tick, VerifyQuery
<1> QED BY <1>2, <1>4, <1>5, <1>6

\* At the start the earlier batches are on their channels, and no other.
LEMMA ChainInit ==
  ASSUME Init
  PROVE  /\ ChainTyped
         /\ \A b \in Batches : OnChain(b) <=> b \in Earlier
         /\ \A b \in Earlier : ChainRoot(b) = BatchRoot(b) /\ ChainNum(b) = Len(sealed[b])
<1> DEFINE on(ch) == {AnchorKey(b) : b \in {e \in Earlier : AnchorChannel(e) = ch}}
           of(k) == CHOOSE e \in Earlier : AnchorKey(e) = k
           val(k) == [kind |-> "batch", tenant |-> clientTenant(gatewayFor(BatchTenant[of(k)])), id |-> of(k),
                      root |-> BatchRoot(of(k)), num |-> Len(sealed[of(k)])]
<1>1. chain = [ch \in Channels |-> [k \in on(ch) |-> <<val(k)>>]]
  BY DEF Init, BatchRoot
<1>2. \A b \in Earlier : of(AnchorKey(b)) = b
  <2>1. ASSUME NEW b \in Earlier, NEW e \in Earlier, AnchorKey(e) = AnchorKey(b) PROVE e = b
    BY <2>1 DEF AnchorKey, batchKey
  <2> QED BY <2>1
<1> HIDE DEF of
<1> HIDE DEF val
<1>3. ChainShape
  BY <1>1 DEF ChainShape
<1>4. ASSUME NEW b \in Earlier
      PROVE  /\ AnchorKey(b) \in DOMAIN chain[AnchorChannel(b)]
             /\ chain[AnchorChannel(b)][AnchorKey(b)] = <<val(AnchorKey(b))>>
             /\ HasTenant(gatewayFor(BatchTenant[b])) /\ b \in Batches
  <2>1. AnchorChannel(b) \in Channels /\ AnchorKey(b) \in on(AnchorChannel(b)) /\ b \in Batches
    BY BatchAssumption, AnchorChannelIs
  <2> HIDE DEF on
  <2> QED BY <1>1, <2>1, GatewayAssumption
<1>5. ASSUME NEW b \in Earlier
      PROVE  /\ val(AnchorKey(b)) = [kind |-> "batch", tenant |-> clientTenant(gatewayFor(BatchTenant[b])), id |-> b,
                                     root |-> val(AnchorKey(b)).root, num |-> val(AnchorKey(b)).num]
             /\ val(AnchorKey(b)).root = BatchRoot(b) /\ val(AnchorKey(b)).num = Len(sealed[b])
  BY <1>2 DEF val
<1>6. ASSUME NEW b \in Earlier
      PROVE  /\ OnChain(b) /\ ChainRoot(b) = BatchRoot(b) /\ ChainNum(b) = Len(sealed[b])
             /\ IsAnchorOf(AnchorChannel(b), AnchorKey(b), b)
  <2> DEFINE v == val(AnchorKey(b))
             c == chain[AnchorChannel(b)][AnchorKey(b)]
  <2>1. c = <<v>> /\ v.root = BatchRoot(b) /\ v.num = Len(sealed[b])
        /\ v = [kind |-> "batch", tenant |-> clientTenant(gatewayFor(BatchTenant[b])), id |-> b, root |-> v.root, num |-> v.num]
    BY <1>4, <1>5
  <2> HIDE DEF v, c
  <2>2. c[1] = v /\ Last(c) = v
    BY <2>1 DEF Last
  <2>3. c = <<[kind |-> "batch", tenant |-> clientTenant(gatewayFor(BatchTenant[b])), id |-> b, root |-> c[1].root, num |-> c[1].num]>>
    BY <2>1, <2>2
  <2> QED BY <1>4, <2>1, <2>2, <2>3, OnChainIs DEF IsAnchorOf, c
<1>7. ASSUME NEW b \in Batches, OnChain(b) PROVE b \in Earlier
  <2>1. AnchorKey(b) \in DOMAIN chain[AnchorChannel(b)] /\ AnchorChannel(b) \in Channels
    BY <1>7, OnChainIs, AnchorChannelIs
  <2>2. AnchorKey(b) \in on(AnchorChannel(b))
    <3> HIDE DEF on
    <3> QED BY <1>1, <2>1
  <2> QED BY <2>2, Keys
<1>8. ASSUME NEW ch \in Channels, NEW key \in DOMAIN chain[ch]
      PROVE  \E b \in Batches : IsAnchorOf(ch, key, b)
  <2>1. key \in on(ch)
    <3> HIDE DEF on
    <3> QED BY <1>1
  <2>2. PICK b \in Earlier : AnchorChannel(b) = ch /\ key = AnchorKey(b)
    BY <2>1
  <2> QED BY <1>4, <1>6, <2>2
<1> QED BY <1>3, <1>6, <1>7, <1>8 DEF ChainTyped, ChainShape

\* What a stamp says of the chain has to be so.
LEMMA StampAnchored ==
  ASSUME Typed, AnchoredInv, NEW b \in Batches, NEW newRoot, NEW newStatus, Stamp(b, newRoot, newStatus),
         newStatus = "anchored" => OnChain(b)', \A c \in Batches : OnChain(c) => OnChain(c)'
  PROVE  \A r \in Records : doc'[r].status = "anchored" => OnChain(doc[r].batch)'
<1> SUFFICES ASSUME NEW r \in Records, doc'[r].status = "anchored" PROVE OnChain(doc[r].batch)'
  OBVIOUS
<1>1. DocShape /\ DocTyped(r)
  BY TypedIs
<1>2. /\ \A s \in Records : /\ doc'[s].content = doc[s].content /\ doc'[s].batched = doc[s].batched
                            /\ doc'[s].batch = doc[s].batch
                            /\ s \in MembersOf(BatchTenant[b], b) => doc'[s].root = newRoot /\ doc'[s].status = newStatus
                            /\ s \notin MembersOf(BatchTenant[b], b) => doc'[s] = doc[s]
  BY <1>1, StampEffect
<1>3. CASE r \in MembersOf(BatchTenant[b], b)
  <2>1. doc'[r].batch = b /\ newStatus = "anchored"
    BY <1>2, <1>3 DEF MembersOf
  <2> QED BY <2>1
<1>4. CASE r \notin MembersOf(BatchTenant[b], b)
  <2>1. doc'[r] = doc[r]
    BY <1>2, <1>4
  <2>2. doc[r].batch \in Batches /\ OnChain(doc[r].batch)
    BY <1>1, <2>1 DEF DocTyped, AnchoredInv
  <2> QED BY <2>1, <2>2
<1> QED BY <1>3, <1>4

LEMMA DocsAnchored ==
  ASSUME Typed, ChainTyped, AnchoredInv, [Next]_vars
  PROVE  \A r \in Records : doc'[r].status = "anchored" => OnChain(doc[r].batch)'
<1>1. \A b \in Batches : OnChain(b) => OnChain(b)'
  BY ChainSteps
<1>2. DocShape /\ \A r \in Records : DocTyped(r)
  BY TypedIs
<1>3. ASSUME NEW r \in Records, doc[r].status = "anchored" PROVE doc[r].batch \in Batches /\ OnChain(doc[r].batch)
  BY <1>2, <1>3 DEF DocTyped, AnchoredInv
\* Most steps leave the status or take a free document.
<1>4. ASSUME \A r \in Records : doc'[r].status = "anchored" => doc[r].status = "anchored" /\ doc'[r].batch = doc[r].batch
      PROVE  \A r \in Records : doc'[r].status = "anchored" => OnChain(doc[r].batch)'
  BY <1>1, <1>3, <1>4
<1>5. CASE doc' = doc
  BY <1>4, <1>5
<1>6. ASSUME NEW b \in Batches, MarkBatch(b) PROVE \A r \in Records : doc'[r].status = "anchored" => OnChain(doc[r].batch)'
  <2>1. Stamp(b, job[b].root, job[b].pc) /\ (job[b].pc = "anchored" => OnChain(b)')
    BY <1>1, <1>6 DEF MarkBatch, AnchoredInv
  <2> QED BY <1>1, <2>1, StampAnchored
<1>7. ASSUME NEW b \in Batches, Reconcile(b) PROVE \A r \in Records : doc'[r].status = "anchored" => OnChain(doc[r].batch)'
  <2>1. OnChain(b)' /\ \E r \in Records : Stamp(b, doc[r].root, "anchored")
    BY <1>7, ReconcileSteps
  <2> QED BY <1>1, <2>1, StampAnchored
<1>8. ASSUME NEW b \in Batches, SetRecordBatchMerkleRoot(b)
      PROVE  \A r \in Records : doc'[r].status = "anchored" => OnChain(doc[r].batch)'
  BY <1>2, <1>4, <1>8, SetRootEffect
<1>9. ASSUME NEW b \in Batches, NEW s \in Records, ClaimRecord(b, s)
      PROVE  \A r \in Records : doc'[r].status = "anchored" => OnChain(doc[r].batch)'
  <2>1. /\ \A r \in Records : r # s \/ doc[s].batch # NoBatch => doc'[r] = doc[r]
        /\ doc[s].batch = NoBatch => doc'[s].status = "pending"
    BY <1>2, <1>9, ClaimEffect
  <2>2. \A r \in Records : doc'[r].status = "anchored" => doc'[r] = doc[r]
    BY <2>1
  <2> QED BY <1>4, <2>2
<1>10. ASSUME NEW s \in Records, Edit(s)
      PROVE  \A r \in Records : doc'[r].status = "anchored" => OnChain(doc[r].batch)'
  BY <1>2, <1>4, <1>10, EditEffect
<1>11. \/ doc' = doc
       \/ \E b \in Batches : MarkBatch(b) \/ Reconcile(b) \/ SetRecordBatchMerkleRoot(b) \/ \E s \in Records : ClaimRecord(b, s)
       \/ \E s \in Records : Edit(s)
  BY DEF Next, vars, StartBatch, ReadBack, Anchor, Crash, VerifyRead, WriteLog, Tick, VerifyQuery
<1> QED BY <1>5, <1>6, <1>7, <1>8, <1>9, <1>10, <1>11

LEMMA JobsAnchored ==
  ASSUME Typed, ChainTyped, AnchoredInv, [Next]_vars
  PROVE  \A b \in Batches : job'[b].pc = "anchored" => OnChain(b)'
<1>1. \A b \in Batches : OnChain(b) => OnChain(b)'
  BY ChainSteps
<1>2. JobShape
  BY TypedIs
<1>3. \A b \in Batches : job[b].pc = "anchored" => OnChain(b)'
  BY <1>1 DEF AnchoredInv
<1>4. CASE job' = job
  BY <1>3, <1>4
<1>5. ASSUME NEW b \in Batches, Others(b), job'[b].pc = "anchored" => job[b].pc = "anchored" \/ OnChain(b)'
      PROVE  \A c \in Batches : job'[c].pc = "anchored" => OnChain(c)'
  BY <1>3, <1>5 DEF Others
<1>6. ASSUME NEW b \in Batches, StartBatch(b) \/ ReadBack(b) \/ Crash(b)
      PROVE  Others(b) /\ job'[b].pc # "anchored"
  BY <1>2, <1>6, StartEffect, ReadEffect, CrashEffect
<1>7. ASSUME NEW b \in Batches, NEW r \in Records, ClaimRecord(b, r)
      PROVE  Others(b) /\ job'[b].pc = job[b].pc
  BY <1>2, <1>7, IdsEffect DEF ClaimRecord
<1>8. ASSUME NEW b \in Batches, SetRecordBatchMerkleRoot(b) \/ MarkBatch(b)
      PROVE  Others(b) /\ job'[b].pc # "anchored"
  <2>1. job' = [job EXCEPT ![b].pc = "done"]
    BY <1>8 DEF SetRecordBatchMerkleRoot, MarkBatch
  <2>2. Others(b) /\ job'[b].pc = "done"
    BY <1>2, <2>1, PcEffect
  <2> QED BY <2>2
<1>9. ASSUME NEW b \in Batches, Anchor(b)
      PROVE  Others(b) /\ (job'[b].pc = "anchored" => OnChain(b)')
  <2>1. CASE OnChain(b)' /\ job' = [job EXCEPT ![b].pc = "anchored"]
    BY <1>2, <2>1, PcEffect
  <2>2. CASE job' = [job EXCEPT ![b].pc = "failed"]
    <3>1. Others(b) /\ job'[b].pc = "failed"
      BY <1>2, <2>2, PcEffect
    <3> QED BY <3>1
  <2> QED BY <1>9, <2>1, <2>2, AnchorSteps
<1>10. \/ job' = job
       \/ \E b \in Batches : StartBatch(b) \/ ReadBack(b) \/ Crash(b) \/ SetRecordBatchMerkleRoot(b) \/ MarkBatch(b) \/ Anchor(b)
                             \/ \E r \in Records : ClaimRecord(b, r)
  BY DEF Next, vars, Reconcile, VerifyRead, Edit, WriteLog, Tick, VerifyQuery
<1> QED BY <1>4, <1>5, <1>6, <1>7, <1>8, <1>9, <1>10

LEMMA AnswerSteps ==
  ASSUME [Next]_vars
  PROVE  answer' = answer \/ answer' = NoAnswer \/ \E b \in Batches : VerifyRead(b)
BY DEF Next, vars, StartBatch, ReadBack, SetRecordBatchMerkleRoot, Anchor, MarkBatch, Crash, Reconcile, ClaimRecord, Edit,
       WriteLog, Tick, VerifyQuery

\* What is read of a batch are its documents.
LEMMA ReadIs ==
  ASSUME NEW b \in Batches, VerifyRead(b)
  PROVE  /\ answer'.batch = b /\ answer'.docs = FindRecordsByBatchID(BatchTenant[b], b) /\ answer'.docs # <<>>
         /\ \A i \in DOMAIN answer'.docs : \E r \in Records : doc[r].batch = b /\ answer'.docs[i] = doc[r]
         /\ UNCHANGED <<chain, doc, job, edits, sealed>>
<1> DEFINE docs == FindRecordsByBatchID(BatchTenant[b], b)
           rs == MembersOf(BatchTenant[b], b)
<1>1. answer' = [pc |-> "read", batch |-> b, docs |-> docs] /\ docs # <<>> /\ UNCHANGED <<chain, doc, job, edits, sealed>>
  BY DEF VerifyRead
<1>2. docs = Read(doc, rs) /\ rs \in SUBSET Records /\ \A r \in rs : doc[r].batch = b
  BY FindIs DEF MembersOf
<1> HIDE DEF docs, rs
<1>3. answer'.batch = b /\ answer'.docs = docs
  BY <1>1
<1>4. \A i \in DOMAIN docs : InOrder(rs)[i] \in rs /\ docs[i] = doc[InOrder(rs)[i]]
  BY <1>2, Found
<1> QED BY <1>1, <1>2, <1>3, <1>4 DEF docs

LEMMA StillAnchored ==
  ASSUME Typed, ChainTyped, AnchoredInv, [Next]_vars PROVE AnchoredInv'
<1>1. \A b \in Batches : OnChain(b) => OnChain(b)'
  BY ChainSteps
<1>2. \A r \in Records : (doc[r].status = "anchored" => OnChain(doc[r].batch))'
  BY DocsAnchored
<1>3. \A b \in Batches : (job[b].pc = "anchored" => OnChain(b))'
  BY JobsAnchored
<1>4. (answer.pc = "read" /\ (\E i \in DOMAIN answer.docs : answer.docs[i].status = "anchored") => OnChain(answer.batch))'
  <2>1. CASE answer' = answer
    <3>1. answer.pc = "read" => answer.batch \in Batches
      BY TypedIs DEF AnswerTyped, NoAnswer
    <3> QED BY <1>1, <2>1, <3>1 DEF AnchoredInv
  <2>2. CASE answer' = NoAnswer
    BY <2>2 DEF NoAnswer
  <2>3. ASSUME NEW b \in Batches, VerifyRead(b)
        PROVE  (answer.pc = "read" /\ (\E i \in DOMAIN answer.docs : answer.docs[i].status = "anchored") => OnChain(answer.batch))'
    <3>1. answer'.batch = b /\ \A i \in DOMAIN answer'.docs : \E r \in Records : doc[r].batch = b /\ answer'.docs[i] = doc[r]
      BY <2>3, ReadIs
    <3>2. \A r \in Records : doc[r].status = "anchored" /\ doc[r].batch = b => OnChain(b)
      BY DEF AnchoredInv
    <3> QED BY <1>1, <3>1, <3>2
  <2> QED BY <2>1, <2>2, <2>3, AnswerSteps
<1> QED BY <1>2, <1>3, <1>4 DEF AnchoredInv

-----------------------------------------------------------------------------
(* Roots.                                                                  *)

\* A batch whose root is computed takes no more records, and its root is not
\* computed again.
LEMMA SealedSteps ==
  ASSUME Typed, [Next]_vars, NEW b \in Batches, ~Unsealed(b)
  PROVE  ~Unsealed(b)' /\ sealed'[b] = sealed[b]
<1>1. JobShape /\ sealed = [c \in Batches |-> sealed[c]]
  BY TypedIs
<1>2. job[b].pc \notin {"new", "claim"}
  BY DEF Unsealed
<1>3. ASSUME job'[b].pc \notin {"new", "claim"}, sealed'[b] = sealed[b] PROVE ~Unsealed(b)' /\ sealed'[b] = sealed[b]
  BY <1>3 DEF Unsealed
<1>4. CASE job' = job /\ sealed' = sealed
  BY <1>2, <1>3, <1>4
<1>5. ASSUME NEW c \in Batches, Others(c), c = b => job'[b].pc \notin {"new", "claim"}, sealed' = sealed
      PROVE  ~Unsealed(b)' /\ sealed'[b] = sealed[b]
  <2>1. job'[b].pc \notin {"new", "claim"}
    BY <1>2, <1>5 DEF Others
  <2> QED BY <1>3, <1>5, <2>1
<1>6. ASSUME NEW c \in Batches, StartBatch(c) PROVE ~Unsealed(b)' /\ sealed'[b] = sealed[b]
  <2>1. c # b /\ sealed' = sealed
    BY <1>2, <1>6 DEF StartBatch
  <2> QED BY <1>1, <1>5, <1>6, <2>1, StartEffect
<1>7. ASSUME NEW c \in Batches, NEW r \in Records, ClaimRecord(c, r) PROVE ~Unsealed(b)' /\ sealed'[b] = sealed[b]
  <2>1. c # b /\ sealed' = sealed
    BY <1>2, <1>7 DEF ClaimRecord
  <2>2. Others(c)
    BY <1>1, <1>7, IdsEffect DEF ClaimRecord
  <2> QED BY <1>5, <2>1, <2>2
<1>8. ASSUME NEW c \in Batches, ReadBack(c) PROVE ~Unsealed(b)' /\ sealed'[b] = sealed[b]
  <2>1. c # b
    BY <1>2, <1>8 DEF ReadBack
  <2>2. job'[b] = job[b]
    BY <1>1, <1>8, <2>1, ReadEffect DEF Others
  <2>3. sealed'[b] = sealed[b]
    <3>1. sealed' = [sealed EXCEPT ![c] = Hashed(FindRecordsByBatchID(BatchTenant[c], c))]
      BY <1>8 DEF ReadBack
    <3> QED BY <1>1, <2>1, <3>1
  <2> QED BY <1>2, <1>3, <2>2, <2>3
<1>9. ASSUME NEW c \in Batches, Crash(c) PROVE ~Unsealed(b)' /\ sealed'[b] = sealed[b]
  <2>1. Others(c) /\ job'[c].pc = "done"
    BY <1>1, <1>9, CrashEffect
  <2> QED BY <1>5, <1>9, <2>1 DEF Crash
<1>10. ASSUME NEW c \in Batches, NEW pc \in {"done", "anchored", "failed"}, job' = [job EXCEPT ![c].pc = pc], sealed' = sealed
       PROVE  ~Unsealed(b)' /\ sealed'[b] = sealed[b]
  <2>1. Others(c) /\ job'[c].pc = pc
    BY <1>1, <1>10, PcEffect
  <2> QED BY <1>5, <1>10, <2>1
<1>11. ASSUME NEW c \in Batches, SetRecordBatchMerkleRoot(c) \/ MarkBatch(c) PROVE ~Unsealed(b)' /\ sealed'[b] = sealed[b]
  <2>1. job' = [job EXCEPT ![c].pc = "done"] /\ sealed' = sealed
    BY <1>11 DEF SetRecordBatchMerkleRoot, MarkBatch
  <2> QED BY <1>10, <2>1
<1>12. ASSUME NEW c \in Batches, Anchor(c) PROVE ~Unsealed(b)' /\ sealed'[b] = sealed[b]
  <2>1. \E pc \in {"anchored", "failed"} : job' = [job EXCEPT ![c].pc = pc]
    BY <1>12 DEF Anchor
  <2>2. sealed' = sealed
    BY <1>12 DEF Anchor
  <2> QED BY <1>10, <2>1, <2>2
<1>13. \/ job' = job /\ sealed' = sealed
       \/ \E c \in Batches : StartBatch(c) \/ ReadBack(c) \/ Crash(c) \/ SetRecordBatchMerkleRoot(c) \/ MarkBatch(c) \/ Anchor(c)
                             \/ \E r \in Records : ClaimRecord(c, r)
  BY DEF Next, vars, Reconcile, VerifyRead, Edit, WriteLog, Tick, VerifyQuery
<1> QED BY <1>4, <1>6, <1>7, <1>8, <1>9, <1>11, <1>12, <1>13

\* Only a claim puts a record into a batch, and only an edit changes contents.
LEMMA ContentSteps ==
  ASSUME Typed, [Next]_vars
  PROVE  /\ \A r \in Records : \/ doc'[r].batch = doc[r].batch
                               \/ /\ doc[r].batch = NoBatch /\ doc'[r].root = NoRoot
                                  /\ \E b \in Batches : doc'[r].batch = b /\ job[b].pc = "claim"
         /\ \/ \A r \in Records : doc'[r].content = doc[r].content
            \/ \E r \in Records : Edit(r)
<1>1. DocShape /\ \A r \in Records : DocTyped(r)
  BY TypedIs
<1>2. CASE doc' = doc
  BY <1>2
<1>3. ASSUME NEW b \in Batches, MarkBatch(b) \/ Reconcile(b)
      PROVE  \A r \in Records : doc'[r].batch = doc[r].batch /\ doc'[r].content = doc[r].content
  <2>1. \E root, status : Stamp(b, root, status)
    BY <1>3 DEF MarkBatch, Reconcile
  <2> QED BY <1>1, <2>1, StampEffect
<1>4. ASSUME NEW b \in Batches, SetRecordBatchMerkleRoot(b)
      PROVE  \A r \in Records : doc'[r].batch = doc[r].batch /\ doc'[r].content = doc[r].content
  BY <1>1, <1>4, SetRootEffect
<1>5. ASSUME NEW s \in Records, Edit(s) PROVE \A r \in Records : doc'[r].batch = doc[r].batch
  BY <1>1, <1>5, EditEffect
<1>6. ASSUME NEW b \in Batches, NEW s \in Records, ClaimRecord(b, s)
      PROVE  \A r \in Records : /\ doc'[r].content = doc[r].content
                                /\ \/ doc'[r].batch = doc[r].batch
                                   \/ doc[r].batch = NoBatch /\ doc'[r].root = NoRoot /\ doc'[r].batch = b /\ job[b].pc = "claim"
  <2>1. /\ \A r \in Records : /\ doc'[r].content = doc[r].content /\ doc'[r].root = doc[r].root
                              /\ r # s \/ doc[s].batch # NoBatch => doc'[r] = doc[r]
        /\ doc[s].batch = NoBatch => doc'[s].batch = b
    BY <1>1, <1>6, ClaimEffect
  <2>2. job[b].pc = "claim" /\ (doc[s].batch = NoBatch => doc[s].root = NoRoot)
    BY <1>1, <1>6 DEF ClaimRecord, DocTyped
  <2> QED BY <2>1, <2>2
<1>7. \/ doc' = doc
      \/ \E b \in Batches : MarkBatch(b) \/ Reconcile(b) \/ SetRecordBatchMerkleRoot(b) \/ \E s \in Records : ClaimRecord(b, s)
      \/ \E s \in Records : Edit(s)
  BY DEF Next, vars, StartBatch, ReadBack, Anchor, Crash, VerifyRead, WriteLog, Tick, VerifyQuery
<1> QED BY <1>2, <1>3, <1>4, <1>5, <1>6, <1>7

\* The members of a batch are final once its root is computed.
LEMMA MembersStay ==
  ASSUME Typed, [Next]_vars, NEW b \in Batches, ~Unsealed(b)
  PROVE  MembersOf(BatchTenant[b], b)' = MembersOf(BatchTenant[b], b)
<1>1. \A r \in Records : \/ doc'[r].batch = doc[r].batch
                         \/ doc[r].batch = NoBatch /\ \E c \in Batches : doc'[r].batch = c /\ job[c].pc = "claim"
  BY ContentSteps
<1>2. job[b].pc # "claim" /\ b # NoBatch
  BY BatchAssumption DEF Unsealed
<1>3. \A r \in Records : doc'[r].batch = b <=> doc[r].batch = b
  BY <1>1, <1>2
<1> QED BY <1>3 DEF MembersOf

LEMMA RootSteps ==
  ASSUME Typed, [Next]_vars, \A r \in Records : ~Edit(r), NEW b \in Batches, ~Unsealed(b)
  PROVE  BatchRoot(b)' = BatchRoot(b)
<1>1. \A r \in Records : doc'[r].content = doc[r].content
  BY ContentSteps
<1> QED BY <1>1, MembersStay, SameRoot DEF MembersOf

LEMMA RootedStays ==
  ASSUME Typed, [Next]_vars, \A r \in Records : ~Edit(r), NEW b \in Batches, NEW root, Rooted(root, b)
  PROVE  Rooted(root, b)'
BY SealedSteps, RootSteps DEF Rooted

LEMMA NoEdit ==
  ASSUME Typed, [Next]_vars, edits' = 0
  PROVE  edits = 0 /\ \A r \in Records : ~Edit(r)
<1>1. edits \in Nat
  BY TypedIs, BoundsAssumption
<1>2. edits' = edits \/ edits' = edits + 1
  BY DEF Next, vars, StartBatch, ReadBack, SetRecordBatchMerkleRoot, Anchor, MarkBatch, Crash, Reconcile, VerifyRead,
         ClaimRecord, Edit, WriteLog, Tick, VerifyQuery
<1>3. ASSUME NEW r \in Records, Edit(r) PROVE edits' = edits + 1
  BY <1>3 DEF Edit
<1> QED BY <1>1, <1>2, <1>3

\* A stamped root is the one of the batch.
LEMMA StampRooted ==
  ASSUME Typed, [Next]_vars, \A r \in Records : ~Edit(r), NEW b \in Batches, NEW newRoot, Rooted(newRoot, b),
         \A r \in Records : /\ r \in MembersOf(BatchTenant[b], b) => doc'[r].root = newRoot
                            /\ r \notin MembersOf(BatchTenant[b], b) => doc'[r].root = doc[r].root
                            /\ doc'[r].batch = doc[r].batch,
         \A r \in Records : doc[r].batch # NoBatch => Rooted(doc[r].root, doc[r].batch)
  PROVE  \A r \in Records : (doc[r].batch # NoBatch => Rooted(doc[r].root, doc[r].batch))'
<1> SUFFICES ASSUME NEW r \in Records, doc'[r].batch # NoBatch PROVE Rooted(doc[r].root, doc[r].batch)'
  OBVIOUS
<1>1. DocTyped(r)
  BY TypedIs
<1>2. CASE r \in MembersOf(BatchTenant[b], b)
  <2>1. doc'[r].batch = b /\ doc'[r].root = newRoot
    BY <1>2 DEF MembersOf
  <2>2. Rooted(newRoot, b)'
    BY RootedStays
  <2> QED BY <2>1, <2>2 DEF Rooted
<1>3. CASE r \notin MembersOf(BatchTenant[b], b)
  <2>1. doc'[r].batch = doc[r].batch /\ doc'[r].root = doc[r].root /\ doc[r].batch \in Batches
    BY <1>1, <1>3 DEF DocTyped
  <2>2. Rooted(doc[r].root, doc[r].batch)
    BY <2>1
  <2>3. PICK c, root : c = doc[r].batch /\ root = doc[r].root
    OBVIOUS
  <2>4. root # NoRoot => ~Unsealed(c)' /\ root = BatchRoot(c)'
    BY <2>1, <2>2, <2>3, SealedSteps, RootSteps DEF Rooted
  <2> QED BY <2>1, <2>3, <2>4 DEF Rooted
<1> QED BY <1>2, <1>3

LEMMA DocsRooted ==
  ASSUME Typed, ChainTyped, RootsInv, [Next]_vars, edits' = 0
  PROVE  \A r \in Records : (doc[r].batch # NoBatch => Rooted(doc[r].root, doc[r].batch))'
<1>1. edits = 0 /\ \A r \in Records : ~Edit(r)
  BY NoEdit
<1>2. \A r \in Records : doc[r].batch # NoBatch => Rooted(doc[r].root, doc[r].batch)
  BY <1>1 DEF RootsInv
<1>3. \A b \in Batches : job[b].pc \in HasRoot => Rooted(job[b].root, b)
  BY <1>1 DEF RootsInv
<1>4. DocShape /\ \A r \in Records : DocTyped(r)
  BY TypedIs
<1>5. ASSUME \A r \in Records : doc'[r].root = doc[r].root
      PROVE  \A r \in Records : (doc[r].batch # NoBatch => Rooted(doc[r].root, doc[r].batch))'
  <2> SUFFICES ASSUME NEW r \in Records, doc'[r].batch # NoBatch PROVE Rooted(doc[r].root, doc[r].batch)'
    OBVIOUS
  <2>1. CASE doc'[r].batch = doc[r].batch
    <3>1. PICK c, root : c = doc[r].batch /\ root = doc[r].root
      OBVIOUS
    <3>2. c \in Batches /\ Rooted(root, c)
      BY <1>2, <1>4, <2>1, <3>1 DEF DocTyped
    <3>3. root # NoRoot => ~Unsealed(c)' /\ root = BatchRoot(c)'
      BY <1>1, <3>2, SealedSteps, RootSteps DEF Rooted
    <3> QED BY <1>5, <2>1, <3>1, <3>3 DEF Rooted
  <2>2. CASE doc'[r].root = NoRoot
    BY <2>2 DEF Rooted
  <2> QED BY <2>1, <2>2, ContentSteps
<1>6. CASE doc' = doc
  BY <1>5, <1>6
<1>7. ASSUME NEW b \in Batches, MarkBatch(b)
      PROVE  \A r \in Records : (doc[r].batch # NoBatch => Rooted(doc[r].root, doc[r].batch))'
  <2>1. Stamp(b, job[b].root, job[b].pc) /\ Rooted(job[b].root, b)
    BY <1>3, <1>7 DEF MarkBatch, HasRoot
  <2>2. \A r \in Records : /\ r \in MembersOf(BatchTenant[b], b) => doc'[r].root = job[b].root
                           /\ r \notin MembersOf(BatchTenant[b], b) => doc'[r].root = doc[r].root
                           /\ doc'[r].batch = doc[r].batch
    BY <1>4, <2>1, StampEffect
  <2> QED BY <1>1, <1>2, <2>1, <2>2, StampRooted
<1>8. ASSUME NEW b \in Batches, Reconcile(b)
      PROVE  \A r \in Records : (doc[r].batch # NoBatch => Rooted(doc[r].root, doc[r].batch))'
  <2>1. PICK s \in Records : doc[s].batch = b /\ Stamp(b, doc[s].root, "anchored")
    BY <1>8, ReconcileSteps
  <2>2. Rooted(doc[s].root, b)
    BY <1>2, <2>1, BatchAssumption
  <2>3. \A r \in Records : /\ r \in MembersOf(BatchTenant[b], b) => doc'[r].root = doc[s].root
                           /\ r \notin MembersOf(BatchTenant[b], b) => doc'[r].root = doc[r].root
                           /\ doc'[r].batch = doc[r].batch
    BY <1>4, <2>1, StampEffect
  <2> QED BY <1>1, <1>2, <2>2, <2>3, StampRooted
<1>9. ASSUME NEW b \in Batches, SetRecordBatchMerkleRoot(b)
      PROVE  \A r \in Records : (doc[r].batch # NoBatch => Rooted(doc[r].root, doc[r].batch))'
  <2>1. Rooted(job[b].root, b)
    BY <1>3, <1>9 DEF SetRecordBatchMerkleRoot, HasRoot
  <2>2. \A r \in Records : /\ r \in MembersOf(BatchTenant[b], b) => doc'[r].root = job[b].root
                           /\ r \notin MembersOf(BatchTenant[b], b) => doc'[r].root = doc[r].root
                           /\ doc'[r].batch = doc[r].batch
    BY <1>4, <1>9, SetRootEffect
  <2> QED BY <1>1, <1>2, <2>1, <2>2, StampRooted
<1>10. ASSUME NEW b \in Batches, NEW s \in Records, ClaimRecord(b, s)
       PROVE  \A r \in Records : (doc[r].batch # NoBatch => Rooted(doc[r].root, doc[r].batch))'
  <2>1. \A r \in Records : doc'[r].root = doc[r].root
    BY <1>4, <1>10, ClaimEffect
  <2> QED BY <1>5, <2>1
<1>11. \/ doc' = doc
       \/ \E b \in Batches : MarkBatch(b) \/ Reconcile(b) \/ SetRecordBatchMerkleRoot(b) \/ \E s \in Records : ClaimRecord(b, s)
       \/ \E s \in Records : Edit(s)
  BY DEF Next, vars, StartBatch, ReadBack, Anchor, Crash, VerifyRead, WriteLog, Tick, VerifyQuery
<1> QED BY <1>1, <1>6, <1>7, <1>8, <1>9, <1>10, <1>11

\* The calls that have a root keep it; the read-back gives one.
LEMMA JobSteps ==
  ASSUME Typed, [Next]_vars, NEW b \in Batches, job'[b].pc \in HasRoot
  PROVE  \/ job[b].pc \in HasRoot /\ job'[b].root = job[b].root
         \/ ReadBack(b)
<1>1. JobShape
  BY TypedIs
<1>2. CASE job' = job
  BY <1>2
<1>3. ASSUME NEW c \in Batches, Others(c), c = b => (\/ ReadBack(b)
                                                    \/ (job[b].pc \in HasRoot /\ job'[b].root = job[b].root))
      PROVE  \/ job[b].pc \in HasRoot /\ job'[b].root = job[b].root
             \/ ReadBack(b)
  <2>1. CASE c = b
    BY <1>3, <2>1
  <2>2. CASE c # b
    <3>1. job'[b] = job[b]
      BY <2>2, <1>3 DEF Others
    <3> QED BY <3>1
  <2> QED BY <2>1, <2>2
<1>4. ASSUME NEW c \in Batches, StartBatch(c) \/ Crash(c) \/ ReadBack(c) \/ SetRecordBatchMerkleRoot(c) \/ MarkBatch(c)
      PROVE  Others(c) /\ (c = b => ReadBack(b))
  <2>1. CASE StartBatch(c)
    <3>1. Others(c) /\ job'[c].pc = "claim"
      BY <1>1, <2>1, StartEffect
    <3> QED BY <3>1 DEF HasRoot
  <2>2. CASE Crash(c)
    <3>1. Others(c) /\ job'[c].pc = "done"
      BY <1>1, <2>2, CrashEffect
    <3> QED BY <3>1 DEF HasRoot
  <2>3. CASE ReadBack(c)
    BY <1>1, <2>3, ReadEffect
  <2>4. CASE SetRecordBatchMerkleRoot(c) \/ MarkBatch(c)
    <3>1. job' = [job EXCEPT ![c].pc = "done"]
      BY <2>4 DEF SetRecordBatchMerkleRoot, MarkBatch
    <3>2. Others(c) /\ job'[c].pc = "done"
      BY <1>1, <3>1, PcEffect
    <3> QED BY <3>2 DEF HasRoot
  <2> QED BY <1>4, <2>1, <2>2, <2>3, <2>4
<1>5. ASSUME NEW c \in Batches, NEW r \in Records, ClaimRecord(c, r)
      PROVE  Others(c) /\ job'[c].pc = job[c].pc /\ job'[c].root = job[c].root
  BY <1>1, <1>5, IdsEffect DEF ClaimRecord
<1>6. ASSUME NEW c \in Batches, Anchor(c)
      PROVE  Others(c) /\ job[c].pc \in HasRoot /\ job'[c].root = job[c].root
  <2>1. PICK pc \in {"anchored", "failed"} : job' = [job EXCEPT ![c].pc = pc]
    BY <1>6 DEF Anchor
  <2>2. Others(c) /\ job'[c].root = job[c].root
    BY <1>1, <2>1, PcEffect
  <2>3. job[c].pc = "anchor"
    BY <1>6 DEF Anchor
  <2> QED BY <2>2, <2>3 DEF HasRoot
<1>7. \/ job' = job
      \/ \E c \in Batches : StartBatch(c) \/ ReadBack(c) \/ Crash(c) \/ SetRecordBatchMerkleRoot(c) \/ MarkBatch(c) \/ Anchor(c)
                            \/ \E r \in Records : ClaimRecord(c, r)
  BY DEF Next, vars, Reconcile, VerifyRead, Edit, WriteLog, Tick, VerifyQuery
<1> QED BY <1>2, <1>3, <1>4, <1>5, <1>6, <1>7

LEMMA StillRooted ==
  ASSUME Typed, ChainTyped, RootsInv, [Next]_vars PROVE RootsInv'
<1> SUFFICES ASSUME edits' = 0
             PROVE  /\ \A r \in Records : (doc[r].batch # NoBatch => Rooted(doc[r].root, doc[r].batch))'
                    /\ \A b \in Batches : (job[b].pc \in HasRoot => Rooted(job[b].root, b))'
                    /\ \A b \in Batches : (OnChain(b) => Rooted(ChainRoot(b), b))'
                    /\ (answer.pc = "read" /\ (\A i \in DOMAIN answer.docs : answer.docs[i].root # NoRoot)
                          => /\ ~Unsealed(answer.batch) /\ RootOf(answer.docs) = BatchRoot(answer.batch)
                             /\ \A i \in DOMAIN answer.docs : answer.docs[i].root = BatchRoot(answer.batch))'
  BY DEF RootsInv
<1>1. edits = 0 /\ \A r \in Records : ~Edit(r)
  BY NoEdit
<1>2. /\ \A r \in Records : doc[r].batch # NoBatch => Rooted(doc[r].root, doc[r].batch)
      /\ \A b \in Batches : job[b].pc \in HasRoot => Rooted(job[b].root, b)
      /\ \A b \in Batches : OnChain(b) => Rooted(ChainRoot(b), b)
      /\ answer.pc = "read" /\ (\A i \in DOMAIN answer.docs : answer.docs[i].root # NoRoot)
           => /\ ~Unsealed(answer.batch) /\ RootOf(answer.docs) = BatchRoot(answer.batch)
              /\ \A i \in DOMAIN answer.docs : answer.docs[i].root = BatchRoot(answer.batch)
  BY <1>1 DEF RootsInv
<1>3. ASSUME NEW b \in Batches, job'[b].pc \in HasRoot PROVE Rooted(job[b].root, b)'
  <2>1. CASE job[b].pc \in HasRoot /\ job'[b].root = job[b].root
    <3> DEFINE root == job[b].root
    <3>1. Rooted(root, b)
      BY <1>2, <2>1
    <3>2. root # NoRoot => ~Unsealed(b)' /\ root = BatchRoot(b)'
      <4> HIDE DEF root
      <4> QED BY <1>1, <3>1, SealedSteps, RootSteps DEF Rooted
    <3> QED BY <2>1, <3>2 DEF Rooted
  <2>2. CASE ReadBack(b)
    <3>1. job'[b].root = BatchRoot(b) /\ job'[b].pc \in {"done", "anchor", "unsynced"} /\ doc' = doc
      BY <2>2, ReadEffect, TypedIs DEF ReadBack
    <3>2. BatchRoot(b)' = BatchRoot(b)
      BY <3>1, SameRoot DEF MembersOf
    <3>3. ~Unsealed(b)'
      BY <3>1 DEF Unsealed
    <3> QED BY <3>1, <3>2, <3>3 DEF Rooted
  <2> QED BY <1>3, <2>1, <2>2, JobSteps
<1>4. ASSUME NEW b \in Batches, OnChain(b)' PROVE Rooted(ChainRoot(b), b)'
  <2>1. PICK root : root = ChainRoot(b)'
    OBVIOUS
  <2>2. Rooted(root, b)
    <3>1. CASE OnChain(b)
      BY <1>2, <2>1, <3>1, ChainSteps
    <3>2. CASE ~OnChain(b)
      <4>1. Arrives(b)
        BY <1>4, <3>2, ChainSteps
      <4>2. CASE job[b].pc = "anchor" /\ root = job[b].root
        BY <1>2, <4>2 DEF HasRoot
      <4>3. ASSUME NEW r \in Records, doc[r].batch = b, root = doc[r].root PROVE Rooted(root, b)
        BY <1>2, <4>3, BatchAssumption
      <4> QED BY <2>1, <4>1, <4>2, <4>3 DEF Arrives
    <3> QED BY <3>1, <3>2
  <2>3. root # NoRoot => ~Unsealed(b)' /\ root = BatchRoot(b)'
    BY <1>1, <2>2, SealedSteps, RootSteps DEF Rooted
  <2> QED BY <2>1, <2>3 DEF Rooted
<1>5. ASSUME answer'.pc = "read", \A i \in DOMAIN answer'.docs : answer'.docs[i].root # NoRoot
      PROVE  (/\ ~Unsealed(answer.batch) /\ RootOf(answer.docs) = BatchRoot(answer.batch)
              /\ \A i \in DOMAIN answer.docs : answer.docs[i].root = BatchRoot(answer.batch))'
  <2>1. CASE answer' = answer
    <3> DEFINE b == answer.batch
               docs == answer.docs
    <3>1. b \in Batches /\ ~Unsealed(b) /\ RootOf(docs) = BatchRoot(b) /\ \A i \in DOMAIN docs : docs[i].root = BatchRoot(b)
      BY <1>2, <1>5, <2>1, TypedIs DEF AnswerTyped, NoAnswer
    <3>2. ~Unsealed(b)' /\ BatchRoot(b)' = BatchRoot(b)
      <4> PICK c : c = b
        OBVIOUS
      <4>1. c \in Batches /\ ~Unsealed(c)
        BY <3>1
      <4>2. ~Unsealed(c)' /\ BatchRoot(c)' = BatchRoot(c)
        BY <1>1, <4>1, SealedSteps, RootSteps
      <4> QED BY <2>1, <4>2
    <3>3. RootOf(docs)' = RootOf(docs)
      BY <2>1 DEF RootOf
    <3> QED BY <2>1, <3>1, <3>2, <3>3
  <2>2. CASE answer' = NoAnswer
    BY <1>5, <2>2 DEF NoAnswer
  <2>3. ASSUME NEW b \in Batches, VerifyRead(b)
        PROVE  (/\ ~Unsealed(answer.batch) /\ RootOf(answer.docs) = BatchRoot(answer.batch)
                /\ \A i \in DOMAIN answer.docs : answer.docs[i].root = BatchRoot(answer.batch))'
    <3> PICK docs : docs = FindRecordsByBatchID(BatchTenant[b], b)
      OBVIOUS
    <3>1. /\ answer'.batch = b /\ answer'.docs = docs /\ docs # <<>>
          /\ \A i \in DOMAIN docs : \E r \in Records : doc[r].batch = b /\ docs[i] = doc[r]
          /\ UNCHANGED <<chain, doc, job, edits, sealed>>
      BY <2>3, ReadIs
    <3>2. 1 \in DOMAIN docs
      BY <3>1, FindIs, Found
    <3>3. \A i \in DOMAIN docs : ~Unsealed(b) /\ docs[i].root = BatchRoot(b)
      <4> TAKE i \in DOMAIN docs
      <4>1. docs[i].root # NoRoot
        BY <1>5, <3>1
      <4>2. PICK r \in Records : doc[r].batch = b /\ docs[i] = doc[r]
        BY <3>1
      <4>3. Rooted(doc[r].root, b)
        BY <1>2, <4>2, BatchAssumption
      <4> QED BY <4>1, <4>2, <4>3 DEF Rooted
    <3>4. ~Unsealed(b)' /\ BatchRoot(b)' = BatchRoot(b)
      BY <1>1, <3>2, <3>3, SealedSteps, RootSteps
    <3>5. RootOf(docs) = BatchRoot(b)
      BY DEF BatchRoot
    <3>6. RootOf(answer.docs)' = RootOf(docs)
      BY <3>1 DEF RootOf
    <3> QED BY <3>1, <3>3, <3>4, <3>5, <3>6
  <2> QED BY <2>1, <2>2, <2>3, AnswerSteps
<1> QED BY <1>3, <1>4, <1>5, DocsRooted

-----------------------------------------------------------------------------
(* What a root commits to.                                                 *)

\* The root is of documents that held what was sealed.
Commits(root, b)   == \E docs : IsSeq(docs) /\ Hashed(docs) = sealed[b] /\ root = RootOf(docs)
Committed(root, b) == root # NoRoot => ~Unsealed(b) /\ Commits(root, b)

\* Stored roots are trusted until the anchor only: an edit may change them later.
SealInv ==
  /\ \A r \in Records : doc[r].batch # NoBatch => OnChain(doc[r].batch) \/ Committed(doc[r].root, doc[r].batch)
  /\ \A b \in Batches : job[b].pc \in HasRoot => Committed(job[b].root, b)
  /\ \A b \in Batches : OnChain(b) => Committed(ChainRoot(b), b)

LEMMA CommittedStays ==
  ASSUME Typed, [Next]_vars, NEW b \in Batches, NEW root, Committed(root, b)
  PROVE  Committed(root, b)'
<1>1. CASE root = NoRoot
  BY <1>1 DEF Committed
<1>2. CASE root # NoRoot
  <2>1. ~Unsealed(b) /\ Commits(root, b)
    BY <1>2 DEF Committed
  <2>2. ~Unsealed(b)' /\ sealed'[b] = sealed[b]
    BY <2>1, SealedSteps
  <2>3. PICK docs : IsSeq(docs) /\ Hashed(docs) = sealed[b] /\ root = RootOf(docs)
    BY <2>1 DEF Commits
  <2>4. (Hashed(docs) = sealed[b] /\ root = RootOf(docs))'
    BY <2>2, <2>3 DEF Hashed, RootOf
  <2> QED BY <2>2, <2>3, <2>4 DEF Committed, Commits
<1> QED BY <1>1, <1>2

\* The stored root of a batch that is not anchored comes from its call.
LEMMA StoredSteps ==
  ASSUME Typed, ChainTyped, [Next]_vars, NEW r \in Records, doc'[r].batch # NoBatch
  PROVE  \/ OnChain(doc[r].batch)'
         \/ doc'[r].root = NoRoot
         \/ doc'[r].batch = doc[r].batch /\ doc'[r].root = doc[r].root
         \/ doc'[r].batch = doc[r].batch /\ job[doc[r].batch].pc \in HasRoot /\ doc'[r].root = job[doc[r].batch].root
<1>1. DocShape /\ \A s \in Records : DocTyped(s)
  BY TypedIs
<1>2. \A b \in Batches : OnChain(b) => OnChain(b)'
  BY ChainSteps
<1>3. CASE doc'[r].batch # doc[r].batch
  BY <1>3, ContentSteps
<1>4. CASE doc'[r].batch = doc[r].batch /\ doc'[r].root = doc[r].root
  BY <1>4
<1>5. CASE doc'[r].batch = doc[r].batch /\ doc'[r].root # doc[r].root
  <2>1. doc' # doc
    BY <1>5
  <2>2. ASSUME NEW b \in Batches, MarkBatch(b)
        PROVE  doc[r].batch = b /\ job[b].pc \in HasRoot /\ doc'[r].root = job[b].root
    <3>1. Stamp(b, job[b].root, job[b].pc) /\ job[b].pc \in HasRoot
      BY <2>2 DEF MarkBatch, HasRoot
    <3>2. /\ r \in MembersOf(BatchTenant[b], b) => doc'[r].root = job[b].root
          /\ r \notin MembersOf(BatchTenant[b], b) => doc'[r] = doc[r]
      BY <1>1, <3>1, StampEffect
    <3> QED BY <1>5, <3>1, <3>2 DEF MembersOf
  <2>3. ASSUME NEW b \in Batches, SetRecordBatchMerkleRoot(b)
        PROVE  doc[r].batch = b /\ job[b].pc \in HasRoot /\ doc'[r].root = job[b].root
    <3>1. job[b].pc \in HasRoot
      BY <2>3 DEF SetRecordBatchMerkleRoot, HasRoot
    <3>2. /\ r \in MembersOf(BatchTenant[b], b) => doc'[r].root = job[b].root
          /\ r \notin MembersOf(BatchTenant[b], b) => doc'[r] = doc[r]
      BY <1>1, <2>3, SetRootEffect
    <3> QED BY <1>5, <3>1, <3>2 DEF MembersOf
  <2>4. ASSUME NEW b \in Batches, Reconcile(b) PROVE doc'[r].batch = b /\ OnChain(b)'
    <3>1. OnChain(b)' /\ \E s \in Records : Stamp(b, doc[s].root, "anchored")
      BY <2>4, ReconcileSteps
    <3>2. r \notin MembersOf(BatchTenant[b], b) => doc'[r] = doc[r]
      BY <1>1, <3>1, StampEffect
    <3> QED BY <1>5, <3>1, <3>2 DEF MembersOf
  <2>5. ASSUME NEW b \in Batches, NEW s \in Records, ClaimRecord(b, s) PROVE FALSE
    BY <1>1, <1>5, <2>5, ClaimEffect
  <2>6. ASSUME NEW s \in Records, Edit(s) PROVE OnChain(doc[r].batch)'
    <3>1. doc[r].batch = doc[s].batch
      BY <1>1, <1>5, <2>6, EditEffect
    <3>2. /\ doc[s].batch # NoBatch
          /\ BatchExists(ChannelForTenant(RecordTenant[s]), gatewayFor(RecordTenant[s]), doc[s].batch)
      BY <2>6 DEF Edit
    <3>3. doc[s].batch \in Batches /\ BatchTenant[doc[s].batch] = RecordTenant[s]
      BY <1>1, <3>2 DEF DocTyped
    <3>4. OnChain(doc[s].batch)
      BY <3>2, <3>3 DEF OnChain, AnchorChannel
    <3> QED BY <1>2, <1>5, <3>1, <3>3, <3>4
  <2>7. \/ doc' = doc
        \/ \E b \in Batches : MarkBatch(b) \/ Reconcile(b) \/ SetRecordBatchMerkleRoot(b) \/ \E s \in Records : ClaimRecord(b, s)
        \/ \E s \in Records : Edit(s)
    BY DEF Next, vars, StartBatch, ReadBack, Anchor, Crash, VerifyRead, WriteLog, Tick, VerifyQuery
  <2> QED BY <1>5, <2>1, <2>2, <2>3, <2>4, <2>5, <2>6, <2>7
<1> QED BY <1>3, <1>4, <1>5

LEMMA StillSealed ==
  ASSUME Typed, ChainTyped, SealInv, [Next]_vars PROVE SealInv'
<1>1. ASSUME NEW r \in Records, doc'[r].batch # NoBatch, ~OnChain(doc[r].batch)'
      PROVE  Committed(doc[r].root, doc[r].batch)'
  <2>1. PICK b, root : b = doc'[r].batch /\ root = doc'[r].root
    OBVIOUS
  <2>2. CASE root = NoRoot
    BY <2>1, <2>2 DEF Committed
  <2>3. CASE doc'[r].batch = doc[r].batch
             /\ (doc'[r].root = doc[r].root \/ (job[b].pc \in HasRoot /\ doc'[r].root = job[b].root))
    <3>1. b \in Batches
      BY <1>1, <2>1, <2>3, TypedIs DEF DocTyped
    <3>2. ~OnChain(b)
      BY <1>1, <2>1, <3>1, ChainSteps
    <3>3. Committed(root, b)
      BY <1>1, <2>1, <2>3, <3>1, <3>2 DEF SealInv
    <3>4. Committed(root, b)'
      BY <3>1, <3>3, CommittedStays
    <3> QED BY <2>1, <3>4 DEF Committed, Commits
  <2> QED BY <1>1, <2>1, <2>2, <2>3, StoredSteps
<1>2. ASSUME NEW b \in Batches, job'[b].pc \in HasRoot PROVE Committed(job[b].root, b)'
  <2>1. CASE job[b].pc \in HasRoot /\ job'[b].root = job[b].root
    <3>1. PICK root : root = job[b].root
      OBVIOUS
    <3>2. Committed(root, b)'
      BY <2>1, <3>1, CommittedStays DEF SealInv
    <3> QED BY <2>1, <3>1, <3>2 DEF Committed, Commits
  <2>2. CASE ReadBack(b)
    <3>1. PICK docs : docs = FindRecordsByBatchID(BatchTenant[b], b)
      OBVIOUS
    <3>2. job'[b].root = RootOf(docs) /\ job'[b].pc \in {"done", "anchor", "unsynced"}
      BY <2>2, <3>1, ReadEffect, TypedIs DEF BatchRoot
    <3>3. sealed'[b] = Hashed(docs)
      <4>1. sealed' = [sealed EXCEPT ![b] = Hashed(docs)] /\ sealed = [c \in Batches |-> sealed[c]]
        BY <2>2, <3>1, TypedIs DEF ReadBack
      <4> QED BY <4>1
    <3>4. ~Unsealed(b)' /\ IsSeq(docs)
      BY <3>1, <3>2, FindIs, Found DEF Unsealed
    <3>5. (job[b].root = RootOf(docs) /\ sealed[b] = Hashed(docs))'
      BY <3>2, <3>3 DEF RootOf, Hashed
    <3> QED BY <3>4, <3>5 DEF Committed, Commits
  <2> QED BY <1>2, <2>1, <2>2, JobSteps
<1>3. ASSUME NEW b \in Batches, OnChain(b)' PROVE Committed(ChainRoot(b), b)'
  <2>1. PICK root : root = ChainRoot(b)'
    OBVIOUS
  <2>2. Committed(root, b)
    <3>1. CASE OnChain(b)
      BY <2>1, <3>1, ChainSteps DEF SealInv
    <3>2. CASE ~OnChain(b)
      <4>1. Arrives(b)
        BY <1>3, <3>2, ChainSteps
      <4>2. CASE job[b].pc = "anchor" /\ root = job[b].root
        BY <4>2 DEF HasRoot, SealInv
      <4>3. ASSUME NEW r \in Records, doc[r].batch = b, root = doc[r].root PROVE Committed(root, b)
        BY <3>2, <4>3, BatchAssumption DEF SealInv
      <4> QED BY <2>1, <4>1, <4>2, <4>3 DEF Arrives
    <3> QED BY <3>1, <3>2
  <2>3. Committed(root, b)'
    BY <2>2, CommittedStays
  <2> QED BY <2>1, <2>3 DEF Committed, Commits
<1> QED BY <1>1, <1>2, <1>3 DEF SealInv

\* At the start the documents of an earlier batch have its root.
LEMMA RootsInit ==
  ASSUME Init, NEW r \in Records, doc[r].batch # NoBatch
  PROVE  doc[r].batch \in Earlier /\ doc[r].root = BatchRoot(doc[r].batch)
<1>1. PICK legacy \in LegacyCounts : doc = [s \in Records |-> InitialDoc(s, legacy)]
  BY DEF Init
<1>2. \A s \in Records : /\ doc[s].content = Created(s, legacy)
                         /\ Of(s) = {} => doc[s].batch = NoBatch
                         /\ Of(s) # {} => doc[s].batch \in Of(s) /\ doc[s].root = InitialRoot(s, legacy)
  BY <1>1, InitialDocs
<1> DEFINE b == doc[r].batch
           rs == MembersOf(BatchTenant[b], b)
<1>3. b \in Of(r)
  BY <1>2
<1>4. b \in Earlier /\ BatchTenant[b] = RecordTenant[r]
  BY <1>3 DEF Of
<1>5. \A s \in Records : doc[s].batch # NoBatch \/ Of(s) # {} => doc[s].batch \in Earlier /\ BatchTenant[doc[s].batch] = RecordTenant[s]
  BY <1>2 DEF Of
<1>6. rs = {s \in Records : Of(s) = Of(r)}
  <2>1. ASSUME NEW s \in Records, RecordTenant[s] = BatchTenant[b], doc[s].batch = b PROVE Of(s) = Of(r)
    BY <1>4, <2>1 DEF Of
  <2>2. ASSUME NEW s \in Records, Of(s) = Of(r) PROVE RecordTenant[s] = BatchTenant[b] /\ doc[s].batch = b
    <3>1. b \in Of(s)
      BY <1>3, <2>2
    <3>2. RecordTenant[s] = BatchTenant[b]
      BY <3>1 DEF Of
    <3>3. doc[s].batch \in Earlier /\ BatchTenant[doc[s].batch] = RecordTenant[s]
      BY <1>5, <3>1
    <3> QED BY <1>4, <3>2, <3>3, BatchAssumption
  <2> HIDE DEF b
  <2> QED BY <2>1, <2>2 DEF MembersOf
<1>7. rs \in SUBSET Records
  BY DEF MembersOf
<1>8. BatchRoot(b) = RootOf(Read(doc, rs))
  BY FindIs DEF BatchRoot
<1>9. doc[r].root = InitialRoot(r, legacy)
  BY <1>2, <1>3
<1> HIDE DEF b, rs
<1>10. InitialRoot(r, legacy) = CalculateRecordMerkleRoot([i \in 1 .. Cardinality(rs) |-> Created(InOrder(rs)[i], legacy)])
  BY <1>6 DEF InitialRoot
<1>11. [i \in DOMAIN Read(doc, rs) |-> Read(doc, rs)[i].content] = [i \in 1 .. Cardinality(rs) |-> Created(InOrder(rs)[i], legacy)]
  <2>1. /\ DOMAIN Read(doc, rs) = 1 .. Cardinality(rs)
        /\ \A i \in DOMAIN Read(doc, rs) : InOrder(rs)[i] \in rs /\ Read(doc, rs)[i] = doc[InOrder(rs)[i]]
    BY <1>7, Found
  <2>2. \A i \in 1 .. Cardinality(rs) : Read(doc, rs)[i].content = Created(InOrder(rs)[i], legacy)
    BY <1>2, <1>7, <2>1
  <2> QED BY <2>1, <2>2
<1>12. RootOf(Read(doc, rs)) = CalculateRecordMerkleRoot([i \in DOMAIN Read(doc, rs) |-> Read(doc, rs)[i].content])
  BY DEF RootOf
<1> QED BY <1>4, <1>8, <1>9, <1>10, <1>11, <1>12 DEF b

LEMMA SafeInit ==
  ASSUME Init PROVE AnchoredInv /\ RootsInv /\ SealInv
<1>1. /\ \A b \in Batches : OnChain(b) <=> b \in Earlier
      /\ \A b \in Earlier : ChainRoot(b) = BatchRoot(b)
  BY ChainInit
<1>2. \A r \in Records : doc[r].batch # NoBatch => doc[r].batch \in Earlier /\ doc[r].root = BatchRoot(doc[r].batch)
  BY RootsInit
<1>3. answer = NoAnswer /\ answer.pc = "none"
  BY DEF Init, NoAnswer
<1>4. \A b \in Batches : job[b].pc = IF b \in Earlier THEN "done" ELSE "new"
  BY DEF Init
<1>5. \A b \in Batches : job[b].pc \notin HasRoot /\ job[b].pc # "anchored"
  BY <1>4 DEF HasRoot
<1>6. \A b \in Earlier : b \in Batches /\ ~Unsealed(b) /\ OnChain(b)
  BY <1>1, <1>4, BatchAssumption DEF Unsealed
<1>7. ASSUME NEW b \in Earlier PROVE Commits(BatchRoot(b), b)
  <2>1. PICK docs : docs = FindRecordsByBatchID(BatchTenant[b], b)
    OBVIOUS
  <2>2. sealed[b] = Hashed(docs)
    BY <1>6, <2>1 DEF Init
  <2>3. BatchRoot(b) = RootOf(docs) /\ IsSeq(docs)
    BY <2>1, FindIs, Found DEF BatchRoot
  <2> QED BY <2>2, <2>3 DEF Commits
<1>8. AnchoredInv
  <2>1. ASSUME NEW r \in Records, doc[r].status = "anchored" PROVE OnChain(doc[r].batch)
    <3>1. doc[r].batch # NoBatch
      BY <2>1, TypedInit, TypedIs DEF DocTyped
    <3> QED BY <1>2, <1>6, <3>1
  <2> QED BY <1>3, <1>5, <2>1 DEF AnchoredInv
<1>9. RootsInv
  BY <1>1, <1>2, <1>3, <1>5, <1>6 DEF RootsInv, Rooted
<1>10. SealInv
  <2>1. \A r \in Records : doc[r].batch # NoBatch => OnChain(doc[r].batch)
    BY <1>2, <1>6
  <2>2. \A b \in Batches : OnChain(b) => Committed(ChainRoot(b), b)
    BY <1>1, <1>6, <1>7 DEF Committed
  <2> QED BY <1>5, <2>1, <2>2 DEF SealInv
<1> QED BY <1>8, <1>9, <1>10

-----------------------------------------------------------------------------
(* The theorems.                                                           *)

Safe == Typed /\ ChainTyped /\ AnchoredInv /\ RootsInv /\ SealInv

LEMMA SafeAlways == Spec => []Safe
<1>1. Init => Safe
  BY TypedInit, ChainInit, SafeInit DEF Safe
<1>2. Safe /\ [Next]_vars => Safe'
  BY StillTyped, ChainSteps, StillAnchored, StillRooted, StillSealed DEF Safe
<1> QED BY <1>1, <1>2, PTL DEF Spec

\* The answers of a call, one source of the anchored root at a time.
LEMMA AnswerIs ==
  ASSUME Typed, NEW v \in Answers
  PROVE  LET b    == answer.batch
             docs == answer.docs
         IN  /\ answer.pc = "read" /\ b \in Batches /\ IsSeq(docs) /\ docs # <<>> /\ 1 \in DOMAIN docs
             /\ v.anchor \in {"ANCHORED", "UNANCHORED", "UNKNOWN"}
             /\ v.anchor = "ANCHORED" => /\ OnChain(b) /\ v.onChain = ChainRoot(b) /\ v.onChain # NoRoot
                                         /\ v.integrity = IF RootOf(docs) = v.onChain THEN "VALID" ELSE "CORRUPTED"
             /\ v.anchor = "UNANCHORED" => ~OnChain(b)
             /\ v.anchor = "UNKNOWN" => v.integrity = IF docs[1].root = RootOf(docs) THEN "VALID" ELSE "CORRUPTED"
<1> DEFINE b    == answer.batch
           docs == answer.docs
<1>1. PICK a \in anchoredRoot(BatchTenant[b], b) : answer.pc # "none" /\ v = buildVerifyResponse(docs, a)
  BY DEF Answers
<1>2. answer.pc = "read" /\ b \in Batches /\ IsSeq(docs) /\ docs # <<>>
  BY <1>1, TypedIs DEF AnswerTyped, NoAnswer, IsSeq
<1>3. 1 \in DOMAIN docs
  <2> HIDE DEF docs
  <2>1. Len(docs) \in Nat /\ DOMAIN docs = 1 .. Len(docs)
    BY <1>2, SeqIs
  <2>2. Len(docs) # 0
    <3>1. PICK S : docs \in Seq(S)
      BY <1>2 DEF IsSeq
    <3> QED BY <1>2, <3>1
  <2> QED BY <2>1, <2>2
<1>4. v.anchor = a[2] /\ v.onChain = a[1] /\ v.integrity = integrity(docs[1].root, RootOf(docs), a[1], a[2])
  BY <1>1 DEF buildVerifyResponse
<1>5. \/ a = <<NoRoot, "UNKNOWN">>
      \/ a = <<NoRoot, "UNANCHORED">> /\ ~OnChain(b)
      \/ a = <<ChainRoot(b), "ANCHORED">> /\ OnChain(b) /\ ChainRoot(b) # NoRoot
  BY DEF anchoredRoot, OnChain, ChainRoot, AnchorChannel
<1> HIDE DEF b, docs
<1>6. CASE a = <<NoRoot, "UNKNOWN">>
  <2>1. v.anchor = "UNKNOWN" /\ v.integrity = IF docs[1].root = RootOf(docs) THEN "VALID" ELSE "CORRUPTED"
    BY <1>4, <1>6 DEF integrity
  <2> QED BY <1>2, <1>3, <2>1 DEF b, docs
<1>7. CASE a = <<NoRoot, "UNANCHORED">> /\ ~OnChain(b)
  <2>1. v.anchor = "UNANCHORED"
    BY <1>4, <1>7
  <2> QED BY <1>2, <1>3, <1>7, <2>1 DEF b, docs
<1>8. CASE a = <<ChainRoot(b), "ANCHORED">> /\ OnChain(b) /\ ChainRoot(b) # NoRoot
  <2>1. v.anchor = "ANCHORED" /\ v.onChain = ChainRoot(b)
        /\ v.integrity = IF RootOf(docs) = ChainRoot(b) THEN "VALID" ELSE "CORRUPTED"
    BY <1>4, <1>8 DEF integrity
  <2> QED BY <1>2, <1>3, <1>8, <2>1 DEF b, docs
<1> QED BY <1>5, <1>6, <1>7, <1>8

\* The contents of a sequence of documents are a sequence.
LEMMA ContentsSeq ==
  ASSUME NEW docs, IsSeq(docs)
  PROVE  LET c == [i \in DOMAIN docs |-> docs[i].content]
         IN  IsSeq(c) /\ DOMAIN c = DOMAIN docs /\ Len(c) = Len(docs)
<1> DEFINE c == [i \in DOMAIN docs |-> docs[i].content]
<1>1. Len(docs) \in Nat /\ DOMAIN docs = 1 .. Len(docs)
  BY SeqIs
<1>2. DOMAIN c = DOMAIN docs /\ c = [i \in 1 .. Len(docs) |-> c[i]]
  BY <1>1
<1> HIDE DEF c
<1> QED BY <1>1, <1>2, SequenceOf DEF c

\* Equal roots, the second scheme: equal hashed contents.
LEMMA SameHashed ==
  ASSUME NEW d, NEW e, IsSeq(d), IsSeq(e), RootOf(d) = RootOf(e),
         batchHashVersion([i \in DOMAIN d |-> d[i].content]) >= 2
  PROVE  Hashed(d) = Hashed(e)
<1> DEFINE r == [i \in DOMAIN d |-> d[i].content]
           q == [i \in DOMAIN e |-> e[i].content]
           D == {r[i] : i \in DOMAIN r} \cup {q[i] : i \in DOMAIN q}
<1>1. /\ IsSeq(r) /\ DOMAIN r = DOMAIN d /\ Len(r) = Len(d)
      /\ IsSeq(q) /\ DOMAIN q = DOMAIN e /\ Len(q) = Len(e)
  BY ContentsSeq
<1>2. (\A i \in DOMAIN d : r[i] = d[i].content) /\ \A i \in DOMAIN e : q[i] = e[i].content
  OBVIOUS
<1>3. CalculateRecordMerkleRoot(r) = CalculateRecordMerkleRoot(q) /\ batchHashVersion(r) >= 2
  BY DEF RootOf
<1> HIDE DEF r, q
<1>4. r \in Seq(D) /\ q \in Seq(D)
  <2>1. Len(r) \in Nat /\ DOMAIN r = 1 .. Len(r) /\ r = [i \in 1 .. Len(r) |-> r[i]]
        /\ Len(q) \in Nat /\ DOMAIN q = 1 .. Len(q) /\ q = [i \in 1 .. Len(q) |-> q[i]]
    BY <1>1, SeqIs
  <2> DEFINE m == Len(r)
             n == Len(q)
  <2>2. r \in [1 .. m -> D] /\ q \in [1 .. n -> D] /\ m \in Nat /\ n \in Nat
    BY <2>1
  <2> HIDE DEF D, m, n
  <2> QED BY <2>2
<1> HIDE DEF D
<1>5. /\ Len(r) = Len(q)
      /\ \A i \in DOMAIN r : /\ r[i].id = q[i].id /\ r[i].timestamp = q[i].timestamp /\ r[i].source = q[i].source
                             /\ canonicalPayload(r[i]) = canonicalPayload(q[i])
  BY <1>3, <1>4, RootCommitsToRecords
<1>6. DOMAIN d = DOMAIN e
  BY <1>1, <1>5, SeqIs
<1>7. \A i \in DOMAIN d :
        [id |-> d[i].content.id, timestamp |-> d[i].content.timestamp, source |-> d[i].content.source,
         payload |-> canonicalPayload(d[i].content)]
        = [id |-> e[i].content.id, timestamp |-> e[i].content.timestamp, source |-> e[i].content.source,
           payload |-> canonicalPayload(e[i].content)]
  BY <1>1, <1>2, <1>5, <1>6
<1> QED BY <1>6, <1>7 DEF Hashed

\* A batch of the second scheme that is VALID against the ledger holds what its
\* records held when the root was computed, for batches of any size.
THEOREM ValidCommits == Spec => []ValidIsUnchanged
<1>1. Safe => ValidIsUnchanged
  <2> SUFFICES ASSUME Safe, NEW v \in Answers, v.anchor = "ANCHORED", v.integrity = "VALID", batchHashVersion(Contents) >= 2
               PROVE  Hashed(answer.docs) = sealed[answer.batch]
    BY DEF ValidIsUnchanged
  <2>1. /\ answer.batch \in Batches /\ IsSeq(answer.docs) /\ OnChain(answer.batch)
        /\ v.onChain = ChainRoot(answer.batch) /\ v.onChain # NoRoot
        /\ v.integrity = IF RootOf(answer.docs) = v.onChain THEN "VALID" ELSE "CORRUPTED"
    BY AnswerIs DEF Safe
  <2>2. RootOf(answer.docs) = ChainRoot(answer.batch)
    BY <2>1
  <2>3. PICK docs : IsSeq(docs) /\ Hashed(docs) = sealed[answer.batch] /\ ChainRoot(answer.batch) = RootOf(docs)
    BY <2>1 DEF Safe, SealInv, Committed, Commits
  <2> QED BY <2>1, <2>2, <2>3, SameHashed DEF Contents
<1> QED BY <1>1, SafeAlways, PTL

\* Without edits no batch that was read as anchored is ever called corrupted or
\* unanchored, whichever source the anchored root came from.
THEOREM NoFalseAlarms == Spec => []NoFalseAlarm
<1>1. Safe => NoFalseAlarm
  <2> SUFFICES ASSUME Safe, NEW v \in Answers, edits = 0,
                      \A i \in DOMAIN answer.docs : answer.docs[i].status = "anchored" /\ answer.docs[i].root # NoRoot
               PROVE  v.integrity = "VALID"
    BY DEF NoFalseAlarm
  <2> DEFINE b    == answer.batch
             docs == answer.docs
  <2>1. /\ answer.pc = "read" /\ b \in Batches /\ 1 \in DOMAIN docs /\ v.anchor \in {"ANCHORED", "UNANCHORED", "UNKNOWN"}
        /\ v.anchor = "ANCHORED" => /\ OnChain(b) /\ v.onChain = ChainRoot(b) /\ v.onChain # NoRoot
                                    /\ v.integrity = IF RootOf(docs) = v.onChain THEN "VALID" ELSE "CORRUPTED"
        /\ v.anchor = "UNANCHORED" => ~OnChain(b)
        /\ v.anchor = "UNKNOWN" => v.integrity = IF docs[1].root = RootOf(docs) THEN "VALID" ELSE "CORRUPTED"
    BY AnswerIs DEF Safe
  <2>2. RootOf(docs) = BatchRoot(b) /\ docs[1].root = BatchRoot(b)
    BY <2>1 DEF Safe, RootsInv
  <2>3. OnChain(b)
    BY <2>1 DEF Safe, AnchoredInv
  <2>4. ChainRoot(b) # NoRoot => ChainRoot(b) = BatchRoot(b)
    BY <2>1, <2>3 DEF Safe, RootsInv, Rooted
  <2> HIDE DEF b, docs
  <2> QED BY <2>1, <2>2, <2>3, <2>4
<1> QED BY <1>1, SafeAlways, PTL

\* The SDK's verdict over the documents and the anchored root is the server's,
\* for batches of any size and either scheme.
THEOREM SDKsVerdict == Spec => []SDKAgrees
<1>1. Safe => SDKAgrees
  <2> SUFFICES ASSUME Safe, NEW v \in Answers, v.anchor = "ANCHORED"
               PROVE  VerifyRecordsLocally(Contents, v.onChain) = (VerifyRecordBatch(v) = 200)
    BY DEF SDKAgrees
  <2>1. IsSeq(answer.docs) /\ v.integrity = IF RootOf(answer.docs) = v.onChain THEN "VALID" ELSE "CORRUPTED"
    BY AnswerIs DEF Safe
  <2>2. PICK S : Contents \in Seq(S)
    BY <2>1, ContentsSeq DEF IsSeq, Contents
  <2>3. SDKMerkleRoot(Contents) = RootOf(answer.docs)
    BY <2>2, SDKComputesTheRoot DEF RootOf, Contents
  <2>4. (VerifyRecordBatch(v) = 200) <=> RootOf(answer.docs) = v.onChain
    BY <2>1 DEF VerifyRecordBatch
  <2> QED BY <2>3, <2>4 DEF VerifyRecordsLocally
<1> QED BY <1>1, SafeAlways, PTL

-----------------------------------------------------------------------------
(* The chaincode's verdict.                                                *)

\* The hash of the first scheme is a function of the hashed fields, and the
\* version is none of them.
LEMMA FirstHashIs ==
  /\ \A c, v : calculateHashV1(Versioned(c, v)) = calculateHashV1(c) /\ Versioned(c, v).version = v
  /\ \A docs : DOMAIN Hashed(docs) = DOMAIN docs
  /\ \A docs : \A i \in DOMAIN docs : FirstHash(Hashed(docs)[i]) = calculateHashV1(docs[i].content)
<1>1. ASSUME NEW c, NEW v
      PROVE  calculateHashV1(Versioned(c, v)) = calculateHashV1(c) /\ Versioned(c, v).version = v
  BY DEF calculateHashV1, canonicalPayload, Versioned
<1>2. ASSUME NEW docs PROVE DOMAIN Hashed(docs) = DOMAIN docs
  BY DEF Hashed
<1>3. ASSUME NEW docs, NEW i \in DOMAIN docs PROVE FirstHash(Hashed(docs)[i]) = calculateHashV1(docs[i].content)
  BY DEF FirstHash, Hashed, calculateHashV1
<1> QED BY <1>1, <1>2, <1>3

KnownDocs(d) == \A r \in Records : \E c \in Known(r) : d[r].content = Versioned(c, d[r].content.version)

\* The documents of a batch have different hashes.
LEMMA ReadApart ==
  ASSUME HashesApart, NEW d, KnownDocs(d), NEW rs \in SUBSET Records PROVE NoRepeats(Hashed(Read(d, rs)))
<1> DEFINE docs == Read(d, rs)
<1>1. /\ \A i \in DOMAIN docs : InOrder(rs)[i] \in rs /\ docs[i] = d[InOrder(rs)[i]]
      /\ DOMAIN docs = 1 .. Cardinality(rs)
  BY Found
<1>2. \A i, j \in 1 .. Cardinality(rs) : InOrder(rs)[i] = InOrder(rs)[j] => i = j
  BY InOrderMembers
<1> HIDE DEF docs
<1>3. ASSUME NEW r \in Records, NEW s \in Records, calculateHashV1(d[r].content) = calculateHashV1(d[s].content)
      PROVE  r = s
  <2>1. PICK c \in Known(r), e \in Known(s) : /\ d[r].content = Versioned(c, d[r].content.version)
                                             /\ d[s].content = Versioned(e, d[s].content.version)
    BY DEF KnownDocs
  <2>2. calculateHashV1(c) = calculateHashV1(e)
    BY <1>3, <2>1, FirstHashIs
  <2> QED BY <2>2 DEF HashesApart
<1>4. ASSUME NEW i \in DOMAIN docs, NEW j \in DOMAIN docs, FirstHash(Hashed(docs)[i]) = FirstHash(Hashed(docs)[j])
      PROVE  i = j
  <2>1. calculateHashV1(docs[i].content) = calculateHashV1(docs[j].content)
    BY <1>4, FirstHashIs
  <2>2. InOrder(rs)[i] = InOrder(rs)[j]
    BY <1>1, <1>3, <2>1
  <2> QED BY <1>1, <1>2, <2>2
<1>5. DOMAIN Hashed(docs) = DOMAIN docs
  BY FirstHashIs
<1> QED BY <1>4, <1>5 DEF NoRepeats, docs

\* What is sealed are the documents as they are read back.
LEMMA SealSteps ==
  ASSUME Typed, [Next]_vars, NEW b \in Batches
  PROVE  \/ sealed'[b] = sealed[b]
         \/ /\ sealed'[b] = Hashed(Read(doc, MembersOf(BatchTenant[b], b))) /\ ~Unsealed(b)'
            /\ doc' = doc /\ chain' = chain
<1>1. CASE sealed' = sealed
  BY <1>1
<1>2. ASSUME NEW c \in Batches, ReadBack(c)
      PROVE  \/ sealed'[b] = sealed[b]
             \/ /\ sealed'[b] = Hashed(Read(doc, MembersOf(BatchTenant[b], b))) /\ ~Unsealed(b)'
                /\ doc' = doc /\ chain' = chain
  <2>1. /\ sealed' = [sealed EXCEPT ![c] = Hashed(FindRecordsByBatchID(BatchTenant[c], c))]
        /\ sealed = [a \in Batches |-> sealed[a]] /\ doc' = doc /\ chain' = chain
    BY <1>2, TypedIs DEF ReadBack
  <2>2. CASE c = b
    <3>1. sealed'[b] = Hashed(Read(doc, MembersOf(BatchTenant[b], b)))
      BY <2>1, <2>2, FindIs
    <3>2. job'[b].pc \in {"done", "anchor", "unsynced"}
      BY <1>2, <2>2, ReadEffect, TypedIs
    <3> QED BY <2>1, <3>1, <3>2 DEF Unsealed
  <2>3. CASE c # b
    BY <2>1, <2>3
  <2> QED BY <2>2, <2>3
<1>3. sealed' = sealed \/ \E c \in Batches : ReadBack(c)
  BY DEF Next, vars, StartBatch, SetRecordBatchMerkleRoot, Anchor, MarkBatch, Crash, Reconcile, ClaimRecord, Edit,
         WriteLog, Tick, VerifyRead, VerifyQuery
<1> QED BY <1>1, <1>2, <1>3

LEMMA StillApart ==
  ASSUME HashesApart, Typed, ApartInv, [Next]_vars PROVE ApartInv'
<1>1. KnownDocs(doc)
  BY DEF ApartInv, KnownDocs
<1>2. ASSUME NEW r \in Records
      PROVE  \E c \in Known(r) : doc'[r].content = Versioned(c, doc'[r].content.version)
  <2>1. CASE doc'[r].content = doc[r].content
    BY <1>1, <2>1 DEF KnownDocs
  <2>2. ASSUME NEW s \in Records, Edit(s), doc'[r].content # doc[r].content
        PROVE  \E c \in Known(r) : doc'[r].content = Versioned(c, doc'[r].content.version)
    <3>1. DocShape
      BY TypedIs
    <3>2. PICK c \in Edits[s] : doc'[s].content = Versioned(c, doc[s].content.version)
      BY <2>2, <3>1, EditEffect
    <3>3. r = s
      BY <2>2, <3>1, EditEffect
    <3>4. doc'[r].content.version = doc[r].content.version
      BY <3>2, <3>3, FirstHashIs
    <3>5. c \in Known(r)
      BY <3>3 DEF Known
    <3> QED BY <3>2, <3>3, <3>4, <3>5
  <2> QED BY <2>1, <2>2, ContentSteps
<1>3. ASSUME NEW b \in Batches PROVE NoRepeats(sealed'[b])
  <2>1. CASE sealed'[b] = sealed[b]
    BY <2>1 DEF ApartInv
  <2>2. CASE sealed'[b] = Hashed(Read(doc, MembersOf(BatchTenant[b], b)))
    <3>1. NoRepeats(Hashed(Read(doc, MembersOf(BatchTenant[b], b))))
      BY <1>1, FindIs, ReadApart
    <3> QED BY <2>2, <3>1
  <2> QED BY <2>1, <2>2, SealSteps
<1>4. ASSUME answer'.pc = "read" PROVE NoRepeats(Hashed(answer'.docs))
  <2>1. CASE answer' = answer
    BY <1>4, <2>1 DEF ApartInv
  <2>2. CASE answer' = NoAnswer
    BY <1>4, <2>2 DEF NoAnswer
  <2>3. ASSUME NEW b \in Batches, VerifyRead(b) PROVE NoRepeats(Hashed(answer'.docs))
    <3>1. answer'.docs = Read(doc, MembersOf(BatchTenant[b], b))
      BY <2>3, ReadIs, FindIs
    <3> QED BY <1>1, <3>1, FindIs, ReadApart
  <2> QED BY <2>1, <2>2, <2>3, AnswerSteps
<1>5. (\A b \in Batches : NoRepeats(sealed[b]))' /\ (answer.pc = "read" => NoRepeats(Hashed(answer.docs)))'
  BY <1>3, <1>4 DEF NoRepeats, FirstHash, Hashed
<1>6. (\A r \in Records : \E c \in Known(r) : doc[r].content = Versioned(c, doc[r].content.version))'
  BY <1>2 DEF Known, Versioned
<1> QED BY <1>5, <1>6 DEF ApartInv

LEMMA HashedSeq ==
  ASSUME NEW docs, IsSeq(docs) PROVE IsSeq(Hashed(docs)) /\ Len(Hashed(docs)) = Len(docs)
<1>1. Len(docs) \in Nat /\ DOMAIN docs = 1 .. Len(docs)
  BY SeqIs
<1>2. Hashed(docs) = [i \in 1 .. Len(docs) |-> Hashed(docs)[i]]
  BY <1>1 DEF Hashed
<1> QED BY <1>1, <1>2, SequenceOf

\* Nothing has no root.
LEMMA RootOfSome ==
  ASSUME NEW docs, IsSeq(docs), RootOf(docs) # NoRoot PROVE docs # <<>> /\ Len(docs) # 0
<1>1. ASSUME docs = <<>> PROVE FALSE
  <2>1. [i \in DOMAIN docs |-> docs[i].content] = <<>>
    BY <1>1
  <2>2. CalculateRecordMerkleRoot(<<>>) = NoRoot
    <3>1. batchHashVersion(<<>>) = 1 /\ [i \in DOMAIN <<>> |-> hashForVersion(<<>>[i], 1)] = <<>>
      BY DEF batchHashVersion
    <3> QED BY <3>1 DEF CalculateRecordMerkleRoot, BuildMerkleTree
  <2> QED BY <2>1, <2>2 DEF RootOf
<1> QED BY <1>1 DEF IsSeq

LEMMA StillNum ==
  ASSUME Typed, ChainTyped, SealInv, NumInv, [Next]_vars PROVE NumInv'
<1>1. ASSUME NEW b \in Batches, sealed'[b] # <<>>
      PROVE  ~Unsealed(b)' /\ Len(sealed'[b]) = Cardinality(MembersOf(BatchTenant[b], b)')
  <2>1. CASE sealed'[b] = sealed[b]
    <3>1. ~Unsealed(b) /\ Len(sealed[b]) = Cardinality(MembersOf(BatchTenant[b], b))
      BY <1>1, <2>1 DEF NumInv
    <3> QED BY <2>1, <3>1, SealedSteps, MembersStay
  <2>2. CASE sealed'[b] = Hashed(Read(doc, MembersOf(BatchTenant[b], b))) /\ ~Unsealed(b)' /\ doc' = doc
    <3> DEFINE rs == MembersOf(BatchTenant[b], b)
    <3>1. rs \in SUBSET Records /\ MembersOf(BatchTenant[b], b)' = rs
      BY <2>2 DEF MembersOf
    <3> HIDE DEF rs
    <3>2. IsSeq(Read(doc, rs)) /\ Len(Read(doc, rs)) = Cardinality(rs)
      BY <3>1, Found
    <3>3. Len(Hashed(Read(doc, rs))) = Cardinality(rs)
      BY <3>2, HashedSeq
    <3> QED BY <2>2, <3>1, <3>3 DEF rs
  <2> QED BY <2>1, <2>2, SealSteps
<1>2. ASSUME NEW b \in Batches, OnChain(b)', ChainRoot(b)' # NoRoot
      PROVE  ChainNum(b)' = Len(sealed'[b])
  <2>1. CASE OnChain(b)
    <3>1. ChainRoot(b)' = ChainRoot(b) /\ ChainNum(b)' = ChainNum(b)
      BY <2>1, ChainSteps
    <3>2. ~Unsealed(b)
      BY <1>2, <2>1, <3>1 DEF SealInv, Committed
    <3>3. sealed'[b] = sealed[b]
      BY <3>2, SealedSteps
    <3> QED BY <1>2, <2>1, <3>1, <3>3 DEF NumInv
  <2>2. CASE ~OnChain(b)
    <3>1. Arrives(b)
      BY <1>2, <2>2, ChainSteps
    <3>2. CASE job[b].pc = "anchor" /\ ChainNum(b)' = Len(sealed[b])
      <4>1. ~Unsealed(b)
        BY <3>2 DEF Unsealed
      <4> QED BY <3>2, <4>1, SealedSteps
    <3>3. ASSUME NEW r \in Records, doc[r].batch = b, ChainRoot(b)' = doc[r].root,
                 ChainNum(b)' = Cardinality(MembersOf(BatchTenant[b], b))
          PROVE  ChainNum(b)' = Len(sealed'[b])
      <4>1. Committed(doc[r].root, b)
        BY <2>2, <3>3, BatchAssumption DEF SealInv
      <4>2. ~Unsealed(b) /\ Commits(doc[r].root, b)
        BY <1>2, <3>3, <4>1 DEF Committed
      <4>3. PICK docs : IsSeq(docs) /\ Hashed(docs) = sealed[b] /\ doc[r].root = RootOf(docs)
        BY <4>2 DEF Commits
      <4>4. Len(docs) # 0
        BY <1>2, <3>3, <4>3, RootOfSome
      <4>5. Len(sealed[b]) # 0
        BY <4>3, <4>4, HashedSeq
      <4>6. sealed[b] # <<>>
        BY <4>5
      <4>7. Len(sealed[b]) = Cardinality(MembersOf(BatchTenant[b], b))
        BY <4>6 DEF NumInv
      <4> QED BY <3>3, <4>2, <4>7, SealedSteps
    <3> QED BY <3>1, <3>2, <3>3 DEF Arrives
  <2> QED BY <2>1, <2>2
<1>3. (\A b \in Batches : sealed[b] # <<>> => ~Unsealed(b) /\ Len(sealed[b]) = Cardinality(MembersOf(BatchTenant[b], b)))'
  BY <1>1
<1>4. (\A b \in Batches : OnChain(b) /\ ChainRoot(b) # NoRoot => ChainNum(b) = Len(sealed[b]))'
  BY <1>2
<1> QED BY <1>3, <1>4 DEF NumInv

LEMMA ApartInit ==
  ASSUME HashesApart, Init PROVE ApartInv /\ NumInv
<1>1. PICK legacy \in LegacyCounts : doc = [s \in Records |-> InitialDoc(s, legacy)]
  BY DEF Init
<1>2. \A r \in Records : doc[r].content = Created(r, legacy)
  BY <1>1, InitialDocs
<1>3. KnownDocs(doc)
  <2>1. ASSUME NEW r \in Records PROVE \E c \in Known(r) : doc[r].content = Versioned(c, doc[r].content.version)
    <3>1. PICK v : doc[r].content = Versioned(Content[r], v)
      BY <1>2 DEF Created
    <3>2. doc[r].content.version = v
      BY <3>1, FirstHashIs
    <3> QED BY <3>1, <3>2 DEF Known
  <2> QED BY <2>1 DEF KnownDocs
<1>4. ASSUME NEW b \in Batches
      PROVE  \/ b \notin Earlier /\ sealed[b] = <<>>
             \/ /\ b \in Earlier /\ ~Unsealed(b)
                /\ sealed[b] = Hashed(Read(doc, MembersOf(BatchTenant[b], b)))
  BY FindIs DEF Init, Unsealed
<1>5. ASSUME NEW b \in Batches PROVE NoRepeats(sealed[b])
  <2>1. CASE sealed[b] = <<>>
    BY <2>1 DEF NoRepeats
  <2>2. CASE sealed[b] = Hashed(Read(doc, MembersOf(BatchTenant[b], b)))
    <3>1. NoRepeats(Hashed(Read(doc, MembersOf(BatchTenant[b], b))))
      BY <1>3, FindIs, ReadApart
    <3> QED BY <2>2, <3>1
  <2> QED BY <1>4, <2>1, <2>2
<1>6. ASSUME NEW b \in Batches, sealed[b] # <<>>
      PROVE  ~Unsealed(b) /\ Len(sealed[b]) = Cardinality(MembersOf(BatchTenant[b], b))
  <2> DEFINE rs == MembersOf(BatchTenant[b], b)
  <2>1. ~Unsealed(b) /\ sealed[b] = Hashed(Read(doc, rs)) /\ rs \in SUBSET Records
    BY <1>4, <1>6, FindIs
  <2> HIDE DEF rs
  <2>2. IsSeq(Read(doc, rs)) /\ Len(Read(doc, rs)) = Cardinality(rs)
    BY <2>1, Found
  <2>3. Len(Hashed(Read(doc, rs))) = Cardinality(rs)
    BY <2>2, HashedSeq
  <2> QED BY <2>1, <2>3 DEF rs
<1>7. \A b \in Batches : OnChain(b) => ChainNum(b) = Len(sealed[b])
  BY ChainInit
<1>8. answer.pc # "read"
  BY DEF Init, NoAnswer
<1> QED BY <1>3, <1>5, <1>6, <1>7, <1>8 DEF ApartInv, NumInv, KnownDocs

LEMMA DistinctHashes ==
  ASSUME NEW docs, IsSeq(docs), NoRepeats(Hashed(docs))
  PROVE  LET c == [i \in DOMAIN docs |-> docs[i].content]
         IN  IsSeq(c) /\ Len(c) = Len(docs) /\ Distinct(V1Hashes(c)) /\ Len(V1Hashes(c)) = Len(docs)
<1> DEFINE c == [i \in DOMAIN docs |-> docs[i].content]
<1>1. IsSeq(c) /\ Len(c) = Len(docs) /\ DOMAIN c = DOMAIN docs
  BY ContentsSeq
<1>2. \A i \in DOMAIN docs : c[i] = docs[i].content
  OBVIOUS
<1> HIDE DEF c
<1>3. Len(V1Hashes(c)) = Len(docs) /\ DOMAIN docs = 1 .. Len(docs)
  BY <1>1, V1HashesSeq, SeqIs
<1>4. \A i \in DOMAIN docs : V1Hashes(c)[i] = FirstHash(Hashed(docs)[i])
  <2>1. \A i \in DOMAIN docs : FirstHash(Hashed(docs)[i]) = calculateHashV1(docs[i].content)
    BY FirstHashIs
  <2> QED BY <1>1, <1>2, <2>1 DEF V1Hashes
<1>5. \A i, j \in DOMAIN docs : FirstHash(Hashed(docs)[i]) = FirstHash(Hashed(docs)[j]) => i = j
  BY FirstHashIs DEF NoRepeats
<1>6. Distinct(V1Hashes(c))
  BY <1>3, <1>4, <1>5 DEF Distinct
<1> QED BY <1>1, <1>3, <1>6 DEF c

\* The chaincode confirms every batch of the first scheme that the API finds
\* valid: the trees are the same, and the ledger has the number of records of
\* the batch, although a read may have met it half claimed and an edit may have
\* stored another root.
THEOREM ChaincodesVerdict ==
  ASSUME HashesApart
  PROVE  Spec => []ChaincodeAgreesOnV1
<1> DEFINE I == Safe /\ ApartInv /\ NumInv
<1>1. Init => I
  BY TypedInit, ChainInit, SafeInit, ApartInit DEF Safe
<1>2. I /\ [Next]_vars => I'
  BY StillTyped, ChainSteps, StillAnchored, StillRooted, StillSealed, StillApart, StillNum DEF Safe
<1>3. I => ChaincodeAgreesOnV1
  <2> DEFINE b    == answer.batch
             docs == answer.docs
             r    == [i \in DOMAIN docs |-> docs[i].content]
             hs   == V1Hashes(r)
  <2> SUFFICES ASSUME I, NEW v \in Answers, v.anchor = "ANCHORED", v.integrity = "VALID", batchHashVersion(Contents) = 1
               PROVE  VerifyBatchIntegrity(AnchorChannel(b), gatewayFor(BatchTenant[b]), b,
                                           [i \in DOMAIN Contents |-> calculateHashV1(Contents[i])])
    BY DEF ChaincodeAgreesOnV1, AnchorChannel
  <2>1. /\ answer.pc = "read" /\ b \in Batches /\ IsSeq(docs) /\ docs # <<>> /\ OnChain(b)
        /\ v.onChain = ChainRoot(b) /\ v.onChain # NoRoot
        /\ v.integrity = IF RootOf(docs) = v.onChain THEN "VALID" ELSE "CORRUPTED"
    BY AnswerIs DEF Safe
  <2>2. RootOf(docs) = ChainRoot(b) /\ ChainRoot(b) # NoRoot
    BY <2>1
  <2>3. PICK e : IsSeq(e) /\ Hashed(e) = sealed[b] /\ ChainRoot(b) = RootOf(e)
    BY <2>1, <2>2 DEF Safe, SealInv, Committed, Commits
  <2>4. NoRepeats(Hashed(docs)) /\ NoRepeats(Hashed(e)) /\ ChainNum(b) = Len(Hashed(e))
    BY <2>1, <2>2, <2>3 DEF ApartInv, NumInv
  <2>5. Contents = r /\ [i \in DOMAIN Contents |-> calculateHashV1(Contents[i])] = hs
    BY DEF Contents, V1Hashes
  <2>6. r # <<>> /\ batchHashVersion(r) = 1 /\ RootOf(docs) = CalculateRecordMerkleRoot(r)
    BY <2>1, <2>5, ContentsSeq DEF RootOf, IsSeq
  <2>7. IsSeq(r) /\ Len(r) = Len(docs) /\ Distinct(V1Hashes(r)) /\ Len(hs) = Len(docs)
    BY <2>1, <2>4, DistinctHashes
  <2> HIDE DEF I, docs, r
  <2> DEFINE q == [i \in DOMAIN e |-> e[i].content]
  <2>8. IsSeq(q) /\ Len(q) = Len(e) /\ Distinct(V1Hashes(q)) /\ CalculateRecordMerkleRoot(q) = RootOf(e)
    BY <2>3, <2>4, DistinctHashes DEF RootOf
  <2>9. q # <<>>
    <3>1. Len(q) # 0
      BY <2>2, <2>3, <2>8, RootOfSome
    <3> QED BY <3>1
  <2> HIDE DEF q
  <2>10. Len(r) = Len(q)
    BY <2>2, <2>3, <2>6, <2>7, <2>8, <2>9, FirstSchemeCommits
  <2>11. Len(hs) = ChainNum(b)
    BY <2>3, <2>4, <2>7, <2>8, <2>10, HashedSeq
  <2>12. MerkleTree(hs) = ChainRoot(b)
    <3>1. PICK S : hs \in Seq(S)
      BY <2>7, V1HashesSeq DEF IsSeq
    <3>2. MerkleTree(hs) = BuildMerkleTree(hs)
      BY <3>1, ChaincodeComputesTheTree
    <3> QED BY <2>2, <2>6, <2>7, <3>2, V1HashesSeq
  <2>13. VerifyBatchIntegrity(AnchorChannel(b), gatewayFor(BatchTenant[b]), b, hs)
    <3> HIDE DEF b, hs
    <3> QED BY <2>1, <2>11, <2>12 DEF VerifyBatchIntegrity, OnChain, ChainRoot, ChainNum
  <2> QED BY <2>5, <2>13
<1> HIDE DEF I
<1> QED BY <1>1, <1>2, <1>3, PTL DEF Spec

-----------------------------------------------------------------------------
(* Tenants and logs.                                                       *)

\* What a key with three parts holds.
LEMMA AnchorOf ==
  ASSUME ChainTyped, NEW ch \in Channels, NEW key \in DOMAIN chain[ch], Len(key) = 3
  PROVE  \E b \in Batches : /\ key = AnchorKey(b) /\ ch = AnchorChannel(b) /\ GetState(ch, key).id = b
<1>0. ~IsLogKey(ch, key)
  <2>1. ASSUME NEW id, key = <<id>> PROVE FALSE
    BY <2>1
  <2> QED BY <2>1 DEF IsLogKey
<1>1. PICK b \in Batches : IsAnchorOf(ch, key, b)
  BY <1>0 DEF ChainTyped
<1> DEFINE c == chain[ch][key]
           v == [kind |-> "batch", tenant |-> clientTenant(gatewayFor(BatchTenant[b])), id |-> b, root |-> c[1].root, num |-> c[1].num]
<1>2. c = <<v>> /\ key = AnchorKey(b) /\ ch = AnchorChannel(b)
  BY <1>1 DEF IsAnchorOf
<1>3. v.id = b
  OBVIOUS
<1> HIDE DEF v, c
<1>4. Last(c) = v
  BY <1>2 DEF Last
<1> QED BY <1>2, <1>3, <1>4 DEF GetState, c

\* Certificates of their own keep tenants apart on whatever channels they
\* share, in the listing and in the public lookup.
THEOREM TenantsStayApart ==
  ASSUME OwnCertificates
  PROVE  Spec => []TenantsApart
<1>1. ChainTyped => TenantsApart
  <2> SUFFICES ASSUME ChainTyped, NEW t \in DOMAIN TenantIdentity
               PROVE  /\ \A ch \in Channels :
                           /\ \A v \in GetAllMerkleBatches(ch, DefaultIdentity) : BatchTenant[v.id] # t
                           /\ \A v \in GetAllMerkleBatches(ch, gatewayFor(t)) : BatchTenant[v.id] = t
                      /\ \A b \in Batches : \A a \in GetAnchor(b) : a.code = 200 => BatchTenant[b] # t
    BY DEF TenantsApart
  <2>1. gatewayFor(t) = TenantIdentity[t] /\ gatewayFor("") = DefaultIdentity
    BY GatewayAssumption DEF gatewayFor
  <2>2. ASSUME NEW b \in Batches, clientTenant(gatewayFor(BatchTenant[b])) = clientTenant(DefaultIdentity)
        PROVE  BatchTenant[b] # t
    BY <2>1, <2>2 DEF OwnCertificates
  <2>3. ASSUME NEW b \in Batches, clientTenant(gatewayFor(BatchTenant[b])) = clientTenant(gatewayFor(t))
        PROVE  BatchTenant[b] = t
    <3>1. CASE BatchTenant[b] \in DOMAIN TenantIdentity
      BY <2>1, <2>3, <3>1 DEF OwnCertificates, gatewayFor
    <3>2. CASE BatchTenant[b] \notin DOMAIN TenantIdentity
      BY <2>1, <2>3, <3>2 DEF OwnCertificates, gatewayFor
    <3> QED BY <3>1, <3>2
  <2>4. ASSUME NEW ch \in Channels, NEW ident, NEW v \in GetAllMerkleBatches(ch, ident)
        PROVE  v.id \in Batches /\ clientTenant(gatewayFor(BatchTenant[v.id])) = clientTenant(ident)
    <3>1. PICK key \in DOMAIN chain[ch] : Len(key) = 3 /\ key[2] = clientTenant(ident) /\ v = GetState(ch, key)
      BY <2>4 DEF GetAllMerkleBatches
    <3>2. PICK b \in Batches : key = AnchorKey(b) /\ GetState(ch, key).id = b
      BY <3>1, AnchorOf
    <3> QED BY <3>1, <3>2, Keys
  <2>5. ASSUME NEW b \in Batches, NEW a \in GetAnchor(b), a.code = 200 PROVE BatchTenant[b] # t
    <3> DEFINE key == batchKey(clientTenant(DefaultIdentity), b)
    <3>1. BatchExists(DefaultChannel, DefaultIdentity, b)
      <4>1. CASE ~BatchExists(DefaultChannel, DefaultIdentity, b)
        <5>1. a = [code |-> 404] \/ a = [code |-> 502]
          BY <2>1, <2>5, <4>1 DEF GetAnchor
        <5> QED BY <2>5, <5>1
      <4> QED BY <4>1
    <3>2. key \in DOMAIN chain[DefaultChannel] /\ DefaultChannel \in Channels
      BY <3>1, GatewayAssumption DEF BatchExists, Stored
    <3>3. Len(key) = 3 /\ key[2] = clientTenant(DefaultIdentity) /\ key[3] = b
      BY DEF batchKey
    <3> HIDE DEF key
    <3>4. PICK c \in Batches : key = AnchorKey(c)
      BY <3>2, <3>3, AnchorOf
    <3>5. c = b /\ clientTenant(gatewayFor(BatchTenant[c])) = clientTenant(DefaultIdentity)
      BY <3>3, <3>4 DEF AnchorKey, batchKey
    <3> QED BY <2>2, <3>5
  <2> QED BY <2>2, <2>3, <2>4, <2>5
<1>2. Safe => ChainTyped
  BY DEF Safe
<1> QED BY <1>1, <1>2, SafeAlways, PTL

\* Log transactions, in any number, neither change nor hide an anchor, and log
\* queries return logs only.
THEOREM LogsAreApart == Spec => []LogsStayApart
<1>1. Safe => LogsStayApart
  <2> SUFFICES ASSUME Safe PROVE LogsStayApart
    OBVIOUS
  <2>0. ChainTyped /\ AnchoredInv
    BY DEF Safe
  <2>1. ASSUME NEW ch \in Channels, NEW v \in GetAllLogs(ch) PROVE v.kind = "log"
    <3>1. PICK key \in DOMAIN chain[ch] : Len(key) = 1 /\ v = GetState(ch, key)
      BY <2>1 DEF GetAllLogs
    <3>2. IsLogKey(ch, key)
      BY <2>0, <3>1, Keys DEF ChainTyped, IsAnchorOf
    <3>3. PICK id \in LogIds : chain[ch][key] # <<>> /\ chain[ch][key] \in Seq([kind : {"log"}, id : {id}, level : Levels])
      BY <3>2 DEF IsLogKey
    <3> DEFINE c == chain[ch][key]
               V == [kind : {"log"}, id : {id}, level : Levels]
    <3>4. \A w \in V : w.kind = "log"
      OBVIOUS
    <3>5. c # <<>> /\ c \in Seq(V)
      BY <3>3
    <3> HIDE DEF V, c
    <3>6. c[Len(c)] \in V
      BY <3>5
    <3>7. v = c[Len(c)]
      BY <3>1 DEF GetState, Last, c
    <3> QED BY <3>4, <3>6, <3>7
  <2>2. ASSUME NEW ch \in Channels, NEW v \in GetAllLogs(ch), NEW l \in Levels
        PROVE  v \in QueryLogsByLevel(ch, l) <=> v.level = l
    <3>1. v \in {GetState(ch, key) : key \in DOMAIN chain[ch]}
      BY <2>2 DEF GetAllLogs
    <3> QED BY <2>1, <3>1 DEF QueryLogsByLevel
  <2>3. ASSUME NEW ch \in Channels, NEW id \in LogIds, LogExists(ch, id)
        PROVE  QueryLog(ch, id) = Last(GetLogHistory(ch, id))
    BY <2>3 DEF LogExists, QueryLog, GetLogHistory, GetHistoryForKey, GetState
  <2>4. ASSUME NEW b \in Batches, job[b].pc = "anchored"
        PROVE  BatchExists(ChannelForTenant(BatchTenant[b]), gatewayFor(BatchTenant[b]), b)
    BY <2>0, <2>4 DEF AnchoredInv, OnChain, AnchorChannel
  <2> QED BY <2>1, <2>2, <2>3, <2>4 DEF LogsStayApart
<1> QED BY <1>1, SafeAlways, PTL

-----------------------------------------------------------------------------
(* The audit report.                                                       *)

\* Only the start of a call sets its time, and no call becomes new again.
LEMMA AtSteps ==
  ASSUME Typed, [Next]_vars, NEW b \in Batches, job[b].pc # "new"
  PROVE  job'[b].pc # "new" /\ job'[b].at = job[b].at
<1>1. JobShape
  BY TypedIs
<1>2. CASE job' = job
  BY <1>2
<1>3. ASSUME NEW c \in Batches, Others(c), c = b => job'[c].pc # "new" /\ job'[c].at = job[c].at
      PROVE  job'[b].pc # "new" /\ job'[b].at = job[b].at
  <2>1. CASE c = b
    BY <1>3, <2>1
  <2>2. CASE c # b
    <3>1. job'[b] = job[b]
      BY <2>2, <1>3 DEF Others
    <3> QED BY <3>1
  <2> QED BY <2>1, <2>2
<1>4. ASSUME NEW c \in Batches, StartBatch(c)
      PROVE  Others(c) /\ (c = b => job'[c].pc # "new" /\ job'[c].at = job[c].at)
  <2>1. Others(c) /\ job[c].pc = "new"
    BY <1>1, <1>4, StartEffect DEF StartBatch
  <2> QED BY <2>1
<1>5. ASSUME NEW c \in Batches, Crash(c)
      PROVE  Others(c) /\ (c = b => job'[c].pc # "new" /\ job'[c].at = job[c].at)
  <2>1. Others(c) /\ job'[c].pc = "done" /\ job'[c].at = job[c].at
    BY <1>1, <1>5, CrashEffect
  <2> QED BY <2>1
<1>6. ASSUME NEW c \in Batches, ReadBack(c)
      PROVE  Others(c) /\ (c = b => job'[c].pc # "new" /\ job'[c].at = job[c].at)
  <2>1. Others(c) /\ job'[c].pc \in {"done", "anchor", "unsynced"} /\ job'[c].at = job[c].at
    BY <1>1, <1>6, ReadEffect
  <2> QED BY <2>1
<1>7. ASSUME NEW c \in Batches, SetRecordBatchMerkleRoot(c) \/ MarkBatch(c) \/ Anchor(c)
      PROVE  Others(c) /\ (c = b => job'[c].pc # "new" /\ job'[c].at = job[c].at)
  <2>1. PICK pc \in {"anchored", "failed", "done"} : job' = [job EXCEPT ![c].pc = pc]
    BY <1>7 DEF SetRecordBatchMerkleRoot, MarkBatch, Anchor
  <2>2. Others(c) /\ job'[c].pc = pc /\ job'[c].at = job[c].at
    BY <1>1, <2>1, PcEffect
  <2> QED BY <2>2
<1>8. ASSUME NEW c \in Batches, NEW r \in Records, ClaimRecord(c, r)
      PROVE  Others(c) /\ (c = b => job'[c].pc # "new" /\ job'[c].at = job[c].at)
  <2>1. Others(c) /\ job'[c].pc = job[c].pc /\ job'[c].at = job[c].at
    BY <1>1, <1>8, IdsEffect DEF ClaimRecord
  <2> QED BY <2>1
<1>9. \/ job' = job
      \/ \E c \in Batches : StartBatch(c) \/ ReadBack(c) \/ Crash(c) \/ SetRecordBatchMerkleRoot(c) \/ MarkBatch(c) \/ Anchor(c)
                            \/ \E r \in Records : ClaimRecord(c, r)
  BY DEF Next, vars, Reconcile, VerifyRead, Edit, WriteLog, Tick, VerifyQuery
<1> QED BY <1>2, <1>3, <1>4, <1>5, <1>6, <1>7, <1>8, <1>9

\* Only a claim sets batched_at, to the time at which its call began.
LEMMA BatchedSteps ==
  ASSUME Typed, [Next]_vars, NEW r \in Records
  PROVE  \/ doc'[r].batch = doc[r].batch /\ doc'[r].batched = doc[r].batched
         \/ \E b \in Batches : job[b].pc = "claim" /\ doc'[r].batch = b /\ doc'[r].batched = job[b].at
<1>1. DocShape
  BY TypedIs
<1>2. CASE doc' = doc
  BY <1>2
<1>3. ASSUME NEW b \in Batches, MarkBatch(b) \/ Reconcile(b)
      PROVE  doc'[r].batch = doc[r].batch /\ doc'[r].batched = doc[r].batched
  <2>1. \E root, status : Stamp(b, root, status)
    BY <1>3 DEF MarkBatch, Reconcile
  <2> QED BY <1>1, <2>1, StampEffect
<1>4. ASSUME NEW b \in Batches, SetRecordBatchMerkleRoot(b)
      PROVE  doc'[r].batch = doc[r].batch /\ doc'[r].batched = doc[r].batched
  BY <1>1, <1>4, SetRootEffect
<1>5. ASSUME NEW s \in Records, Edit(s)
      PROVE  doc'[r].batch = doc[r].batch /\ doc'[r].batched = doc[r].batched
  BY <1>1, <1>5, EditEffect
<1>6. ASSUME NEW b \in Batches, NEW s \in Records, ClaimRecord(b, s)
      PROVE  \/ doc'[r].batch = doc[r].batch /\ doc'[r].batched = doc[r].batched
             \/ job[b].pc = "claim" /\ doc'[r].batch = b /\ doc'[r].batched = job[b].at
  <2>1. /\ r # s \/ doc[s].batch # NoBatch => doc'[r] = doc[r]
        /\ doc[s].batch = NoBatch => doc'[s].batch = b /\ doc'[s].batched = job[b].at
    BY <1>1, <1>6, ClaimEffect
  <2>2. job[b].pc = "claim"
    BY <1>6 DEF ClaimRecord
  <2> QED BY <2>1, <2>2
<1>7. \/ doc' = doc
      \/ \E b \in Batches : MarkBatch(b) \/ Reconcile(b) \/ SetRecordBatchMerkleRoot(b) \/ \E s \in Records : ClaimRecord(b, s)
      \/ \E s \in Records : Edit(s)
  BY DEF Next, vars, StartBatch, ReadBack, Anchor, Crash, VerifyRead, WriteLog, Tick, VerifyQuery
<1> QED BY <1>2, <1>3, <1>4, <1>5, <1>6, <1>7

LEMMA StillTogether ==
  ASSUME Typed, BatchedTogether, [Next]_vars PROVE BatchedTogether'
<1> SUFFICES ASSUME NEW r \in Records, doc'[r].batch # NoBatch
             PROVE  job'[doc'[r].batch].pc # "new" /\ doc'[r].batched = job'[doc'[r].batch].at
  BY DEF BatchedTogether
<1>1. CASE doc'[r].batch = doc[r].batch /\ doc'[r].batched = doc[r].batched
  <2>1. PICK b : b = doc[r].batch
    OBVIOUS
  <2>2. b \in Batches /\ job[b].pc # "new" /\ doc[r].batched = job[b].at
    BY <1>1, <2>1, TypedIs DEF BatchedTogether, DocTyped
  <2>3. job'[b].pc # "new" /\ job'[b].at = job[b].at
    BY <2>2, AtSteps
  <2> QED BY <1>1, <2>1, <2>2, <2>3
<1>2. ASSUME NEW b \in Batches, job[b].pc = "claim", doc'[r].batch = b, doc'[r].batched = job[b].at
      PROVE  job'[doc'[r].batch].pc # "new" /\ doc'[r].batched = job'[doc'[r].batch].at
  <2>1. job'[b].pc # "new" /\ job'[b].at = job[b].at
    BY <1>2, AtSteps
  <2> QED BY <1>2, <2>1
<1> QED BY <1>1, <1>2, BatchedSteps

LEMMA TogetherInit ==
  ASSUME Init PROVE BatchedTogether
<1> SUFFICES ASSUME NEW r \in Records, doc[r].batch # NoBatch
             PROVE  job[doc[r].batch].pc # "new" /\ doc[r].batched = job[doc[r].batch].at
  BY DEF BatchedTogether
<1>1. doc[r].batch \in Earlier /\ doc[r].batch \in Batches
  BY RootsInit, BatchAssumption
<1>2. job[doc[r].batch].pc = "done" /\ job[doc[r].batch].at = 0
  BY <1>1 DEF Init
<1>3. doc[r].batched \in 0 .. clock /\ clock = 0
  BY TypedInit, TypedIs DEF DocTyped, Init
<1> QED BY <1>2, <1>3

-----------------------------------------------------------------------------
(* The sum over the rows, as FoldSet computes it: a row at a time, in some *)
(* order.  The recursion goes down the subsets of a finite set.            *)

Total(rows) == FoldSet(LAMBDA row, n : row.num + n, 0, rows)

Pick(s)      == CHOOSE x \in s : TRUE
IsSum(g, S)  == g = [s \in SUBSET S |-> IF s = {} THEN 0 ELSE Pick(s).num + g[s \ {Pick(s)}]]
SumOver(S)   == CHOOSE g : IsSum(g, S)

LEMMA TotalIs ==
  ASSUME NEW S PROVE Total(S) = SumOver(S)[S]
BY DEF Total, FoldSet, MapThenFoldSet, SumOver, IsSum, Pick

\* The sums of the subsets with at most m elements.
IsSumTo(g, m, S) ==
  g = [s \in {t \in SUBSET S : Cardinality(t) <= m} |-> IF s = {} THEN 0 ELSE Pick(s).num + g[s \ {Pick(s)}]]

\* A set without the element that is picked from it.
LEMMA Smaller ==
  ASSUME NEW S, IsFiniteSet(S), NEW s \in SUBSET S
  PROVE  /\ IsFiniteSet(s) /\ Cardinality(s) \in Nat /\ Cardinality(s) <= Cardinality(S)
         /\ Cardinality(s) = 0 <=> s = {}
         /\ \A x \in s : s \ {x} \in SUBSET S /\ Cardinality(s \ {x}) = Cardinality(s) - 1
         /\ s # {} => Pick(s) \in s
<1>1. IsFiniteSet(s) /\ Cardinality(s) \in Nat /\ Cardinality(s) <= Cardinality(S)
  BY FS_Subset, FS_CardinalityType
<1>2. Cardinality(s) = 0 <=> s = {}
  BY <1>1, FS_EmptySet
<1>3. ASSUME NEW x \in s PROVE s \ {x} \in SUBSET S /\ Cardinality(s \ {x}) = Cardinality(s) - 1
  BY <1>1, FS_RemoveElement
<1>4. s # {} => Pick(s) \in s
  BY DEF Pick
<1> QED BY <1>1, <1>2, <1>3, <1>4

LEMMA SumToExists ==
  ASSUME NEW S, IsFiniteSet(S) PROVE \A m \in Nat : \E g : IsSumTo(g, m, S)
<1> DEFINE T == {m \in Nat : ~ \E g : IsSumTo(g, m, S)}
<1> SUFFICES ASSUME T # {} PROVE FALSE
  OBVIOUS
<1>1. PICK n \in Nat : n \in T /\ \A k \in T : n <= k
  <2>1. T \in SUBSET Nat
    OBVIOUS
  <2> HIDE DEF T
  <2> QED BY <2>1, LeastElement
<1> DEFINE D(m) == {t \in SUBSET S : Cardinality(t) <= m}
<1>2. CASE n = 0
  <2> DEFINE g == [s \in D(0) |-> 0]
  <2>1. \A s \in D(0) : s = {}
    BY Smaller
  <2>2. g = [s \in D(0) |-> IF s = {} THEN 0 ELSE Pick(s).num + g[s \ {Pick(s)}]]
    BY <2>1
  <2>3. IsSumTo(g, 0, S)
    BY <2>2 DEF IsSumTo
  <2> QED BY <1>1, <1>2, <2>3
<1>3. CASE n # 0
  <2>1. n - 1 \in Nat /\ n - 1 \notin T
    BY <1>1, <1>3
  <2>2. PICK g : IsSumTo(g, n - 1, S)
    BY <2>1
  <2> DEFINE h == [s \in D(n) |-> IF s = {} THEN 0 ELSE Pick(s).num + g[s \ {Pick(s)}]]
  <2>3. ASSUME NEW s \in D(n), s # {} PROVE s \ {Pick(s)} \in D(n - 1) /\ s \ {Pick(s)} \in D(n)
    <3>1. Pick(s) \in s /\ s \in SUBSET S /\ Cardinality(s) <= n /\ Cardinality(s) \in Nat
      BY <2>3, Smaller
    <3>2. s \ {Pick(s)} \in SUBSET S /\ Cardinality(s \ {Pick(s)}) = Cardinality(s) - 1
      BY <3>1, Smaller
    <3> QED BY <2>1, <3>1, <3>2
  <2>4. ASSUME NEW t \in D(n - 1) PROVE h[t] = g[t]
    <3>1. t \in D(n)
      <4>1. Cardinality(t) \in Nat /\ Cardinality(t) <= n - 1 /\ t \in SUBSET S
        BY Smaller
      <4> QED BY <2>1, <4>1
    <3> QED BY <2>2, <3>1 DEF IsSumTo
  <2>5. h = [s \in D(n) |-> IF s = {} THEN 0 ELSE Pick(s).num + h[s \ {Pick(s)}]]
    BY <2>3, <2>4
  <2> HIDE DEF h
  <2>6. IsSumTo(h, n, S)
    BY <2>5 DEF IsSumTo
  <2> QED BY <1>1, <2>6
<1> QED BY <1>2, <1>3

LEMMA SumExists ==
  ASSUME NEW S, IsFiniteSet(S) PROVE IsSum(SumOver(S), S)
<1>1. Cardinality(S) \in Nat
  BY FS_CardinalityType
<1>2. PICK g : IsSumTo(g, Cardinality(S), S)
  BY <1>1, SumToExists
<1>3. {t \in SUBSET S : Cardinality(t) <= Cardinality(S)} = SUBSET S
  BY Smaller
<1>4. IsSum(g, S)
  BY <1>2, <1>3 DEF IsSum, IsSumTo
<1> QED BY <1>4 DEF SumOver

\* Two recursions agree where both are defined.
LEMMA SumUnique ==
  ASSUME NEW S, IsFiniteSet(S), NEW R \in SUBSET S, NEW g, NEW h, IsSum(g, S), IsSum(h, R)
  PROVE  \A s \in SUBSET R : g[s] = h[s]
<1> DEFINE T == {m \in Nat : \E s \in SUBSET R : Cardinality(s) = m /\ g[s] # h[s]}
<1>1. T = {}
  <2> SUFFICES ASSUME T # {} PROVE FALSE
    OBVIOUS
  <2>1. PICK n \in Nat : n \in T /\ \A k \in T : n <= k
    <3>1. T \in SUBSET Nat
      OBVIOUS
    <3> HIDE DEF T
    <3> QED BY <3>1, LeastElement
  <2>2. PICK s \in SUBSET R : Cardinality(s) = n /\ g[s] # h[s]
    BY <2>1
  <2>3. s \in SUBSET S
    OBVIOUS
  <2>4. /\ g[s] = IF s = {} THEN 0 ELSE Pick(s).num + g[s \ {Pick(s)}]
        /\ h[s] = IF s = {} THEN 0 ELSE Pick(s).num + h[s \ {Pick(s)}]
    BY <2>3 DEF IsSum
  <2>5. s # {} /\ Pick(s) \in s
    BY <2>2, <2>3, <2>4, Smaller
  <2> DEFINE t == s \ {Pick(s)}
  <2>6. Cardinality(t) = n - 1 /\ n - 1 \in Nat /\ t \in SUBSET R
    <3>1. Cardinality(s) # 0 /\ Cardinality(t) = Cardinality(s) - 1
      BY <2>3, <2>5, Smaller
    <3> QED BY <2>2, <3>1
  <2>7. g[t] # h[t]
    BY <2>2, <2>4, <2>5
  <2> HIDE DEF t
  <2>8. n - 1 \in T
    BY <2>6, <2>7
  <2> HIDE DEF T
  <2> QED BY <2>1, <2>6, <2>8
<1>2. ASSUME NEW s \in SUBSET R PROVE Cardinality(s) \in Nat
  <2>1. s \in SUBSET S
    OBVIOUS
  <2> QED BY <2>1, Smaller
<1> QED BY <1>1, <1>2

LEMMA TotalStep ==
  ASSUME NEW S, IsFiniteSet(S)
  PROVE  Total(S) = IF S = {} THEN 0 ELSE Pick(S).num + Total(S \ {Pick(S)})
<1> DEFINE R == S \ {Pick(S)}
<1>1. IsSum(SumOver(S), S) /\ S \in SUBSET S
  BY SumExists
<1>2. SumOver(S)[S] = IF S = {} THEN 0 ELSE Pick(S).num + SumOver(S)[R]
  BY <1>1 DEF IsSum
<1>3. R \in SUBSET S /\ IsFiniteSet(R) /\ R \in SUBSET R
  BY FS_Subset
<1> HIDE DEF R
<1>4. IsSum(SumOver(R), R)
  BY <1>3, SumExists
<1>5. SumOver(S)[R] = SumOver(R)[R]
  BY <1>1, <1>3, <1>4, SumUnique
<1>6. Total(S) = SumOver(S)[S] /\ Total(R) = SumOver(R)[R]
  BY TotalIs
<1> QED BY <1>2, <1>5, <1>6 DEF R

\* Any row may be taken first.
LEMMA TotalOf ==
  ASSUME NEW U, IsFiniteSet(U), \A u \in U : u.num \in Nat
  PROVE  \A S \in SUBSET U : /\ Total(S) \in Nat
                             /\ \A x \in S : Total(S) = x.num + Total(S \ {x})
<1> DEFINE Good(S) == Total(S) \in Nat /\ \A x \in S : Total(S) = x.num + Total(S \ {x})
           T       == {m \in Nat : \E S \in SUBSET U : Cardinality(S) = m /\ ~Good(S)}
<1>1. T = {}
  <2> SUFFICES ASSUME T # {} PROVE FALSE
    OBVIOUS
  <2>1. PICK n \in Nat : n \in T /\ \A k \in T : n <= k
    <3>1. T \in SUBSET Nat
      OBVIOUS
    <3> HIDE DEF T
    <3> QED BY <3>1, LeastElement
  <2>2. PICK S \in SUBSET U : Cardinality(S) = n /\ ~Good(S)
    BY <2>1
  <2>3. \A R \in SUBSET U : Cardinality(R) \in Nat /\ Cardinality(R) < n => Good(R)
    <3> HIDE DEF Good
    <3> SUFFICES ASSUME NEW R \in SUBSET U, Cardinality(R) \in Nat, Cardinality(R) < n, ~Good(R) PROVE FALSE
      OBVIOUS
    <3>1. Cardinality(R) \in T
      OBVIOUS
    <3> HIDE DEF T
    <3> QED BY <2>1, <3>1
  <2> HIDE DEF T
  <2>4. /\ Cardinality(S) \in Nat /\ IsFiniteSet(S)
        /\ \A x \in S : /\ S \ {x} \in SUBSET U /\ Cardinality(S \ {x}) = Cardinality(S) - 1
                        /\ Cardinality(S \ {x}) \in Nat /\ IsFiniteSet(S \ {x})
    <3>1. \A x \in S : S \ {x} \in SUBSET U
      OBVIOUS
    <3> QED BY <3>1, Smaller
  <2>5. \A x \in S : Good(S \ {x})
    <3> HIDE DEF Good
    <3> QED BY <2>2, <2>3, <2>4
  <2>6. S # {}
    <3> SUFFICES ASSUME S = {} PROVE FALSE
      OBVIOUS
    <3>1. Total(S) = 0
      BY <2>4, TotalStep
    <3> QED BY <2>2, <3>1
  <2> DEFINE y == Pick(S)
  <2>7. y \in S /\ Total(S) = y.num + Total(S \ {y}) /\ Total(S \ {y}) \in Nat /\ y.num \in Nat
    <3>1. Pick(S) \in S
      BY <2>6, Smaller
    <3> QED BY <2>4, <2>5, <2>6, <3>1, TotalStep
  <2> HIDE DEF y
  <2>8. ASSUME NEW x \in S PROVE Total(S) = x.num + Total(S \ {x})
    <3>1. CASE x = y
      BY <2>7, <3>1
    <3>2. CASE x # y
      <4>1. x \in S \ {y} /\ y \in S \ {x} /\ (S \ {y}) \ {x} = (S \ {x}) \ {y}
        BY <2>7, <3>2
      <4>2. /\ Total(S \ {y}) = x.num + Total((S \ {y}) \ {x})
            /\ Total(S \ {x}) = y.num + Total((S \ {x}) \ {y})
        BY <2>5, <2>7, <4>1
      <4>3. (S \ {y}) \ {x} \in SUBSET U /\ Total((S \ {y}) \ {x}) \in Nat /\ x.num \in Nat
        <5>1. (S \ {y}) \ {x} \in SUBSET U /\ Cardinality((S \ {y}) \ {x}) = Cardinality(S \ {y}) - 1
              /\ Cardinality((S \ {y}) \ {x}) \in Nat
          <6> DEFINE R == S \ {y}
          <6>1. R \in SUBSET U /\ R \ {x} \in SUBSET U /\ x \in R
            BY <4>1
          <6> HIDE DEF R
          <6>2. Cardinality(R \ {x}) = Cardinality(R) - 1
            BY <6>1, Smaller
          <6>3. Cardinality(R \ {x}) \in Nat
            BY <6>1, Smaller
          <6> QED BY <6>1, <6>2, <6>3 DEF R
        <5>2. Cardinality(S \ {y}) = n - 1 /\ Cardinality(S \ {y}) \in Nat
          BY <2>2, <2>4, <2>7
        <5>3. Cardinality((S \ {y}) \ {x}) < n
          BY <5>1, <5>2
        <5>4. Good((S \ {y}) \ {x})
          <6> HIDE DEF Good
          <6> QED BY <2>3, <5>1, <5>3
        <5> QED BY <5>1, <5>4
      <4> DEFINE a == Total((S \ {y}) \ {x})
                 p == x.num
                 q == y.num
      <4>4. Total(S) = q + (p + a) /\ Total(S \ {x}) = q + a /\ a \in Nat /\ p \in Nat /\ q \in Nat
        BY <2>7, <4>1, <4>2, <4>3
      <4> HIDE DEF a, p, q
      <4>5. Total(S) = p + Total(S \ {x})
        BY <4>4
      <4> QED BY <4>5 DEF p
    <3> QED BY <3>1, <3>2
  <2> QED BY <2>2, <2>7, <2>8
<1>2. ASSUME NEW S \in SUBSET U PROVE Good(S)
  <2>1. Cardinality(S) \in Nat
    BY Smaller
  <2> HIDE DEF Good
  <2> QED BY <1>1, <2>1
<1> QED BY <1>2

LEMMA TotalUnion ==
  ASSUME NEW U, IsFiniteSet(U), \A u \in U : u.num \in Nat, NEW A \in SUBSET U
  PROVE  \A B \in SUBSET U : A \cap B = {} => Total(A \cup B) = Total(A) + Total(B)
<1> DEFINE Good(B) == A \cap B = {} => Total(A \cup B) = Total(A) + Total(B)
           T       == {m \in Nat : \E B \in SUBSET U : Cardinality(B) = m /\ ~Good(B)}
<1>1. T = {}
  <2> SUFFICES ASSUME T # {} PROVE FALSE
    OBVIOUS
  <2>1. PICK n \in Nat : n \in T /\ \A k \in T : n <= k
    <3>1. T \in SUBSET Nat
      OBVIOUS
    <3> HIDE DEF T
    <3> QED BY <3>1, LeastElement
  <2>2. PICK B \in SUBSET U : Cardinality(B) = n /\ ~Good(B)
    BY <2>1
  <2>3. \A R \in SUBSET U : Cardinality(R) \in Nat /\ Cardinality(R) < n => Good(R)
    <3> HIDE DEF Good
    <3> SUFFICES ASSUME NEW R \in SUBSET U, Cardinality(R) \in Nat, Cardinality(R) < n, ~Good(R) PROVE FALSE
      OBVIOUS
    <3>1. Cardinality(R) \in T
      OBVIOUS
    <3> HIDE DEF T
    <3> QED BY <2>1, <3>1
  <2> HIDE DEF T
  <2>4. A \cap B = {} /\ Total(A \cup B) # Total(A) + Total(B)
    BY <2>2
  <2>5. \A S \in SUBSET U : Total(S) \in Nat /\ \A x \in S : Total(S) = x.num + Total(S \ {x})
    BY TotalOf
  <2>6. PICK x : x \in B
    <3> SUFFICES ASSUME B = {} PROVE FALSE
      OBVIOUS
    <3>1. IsFiniteSet(B)
      BY Smaller
    <3>2. Total(B) = 0
      BY <3>1, TotalStep
    <3>3. A \cup B = A /\ Total(A) \in Nat
      BY <2>5
    <3> QED BY <2>4, <3>2, <3>3
  <2> DEFINE C == B \ {x}
  <2>7. /\ C \in SUBSET U /\ A \cap C = {} /\ A \cup B \in SUBSET U /\ x \in A \cup B /\ (A \cup B) \ {x} = A \cup C
        /\ A \cup C \in SUBSET U
    BY <2>4, <2>6
  <2>8. Cardinality(C) \in Nat /\ Cardinality(C) < n
    <3>1. Cardinality(C) = Cardinality(B) - 1 /\ Cardinality(C) \in Nat /\ Cardinality(B) \in Nat
      BY <2>6, <2>7, Smaller
    <3> QED BY <2>2, <3>1
  <2>9. Total(A \cup C) = Total(A) + Total(C)
    BY <2>3, <2>7, <2>8
  <2>10. Total(B) = x.num + Total(C) /\ Total(A \cup B) = x.num + Total(A \cup C) /\ x.num \in Nat
    BY <2>5, <2>6, <2>7
  <2>11. Total(A) \in Nat /\ Total(C) \in Nat
    BY <2>5, <2>7
  <2> HIDE DEF C
  <2> DEFINE p == x.num
  <2>12. p \in Nat /\ Total(B) = p + Total(C) /\ Total(A \cup B) = p + (Total(A) + Total(C))
    BY <2>9, <2>10
  <2> HIDE DEF p
  <2>13. Total(A \cup B) = Total(A) + Total(B)
    BY <2>11, <2>12
  <2> QED BY <2>4, <2>13
<1>2. ASSUME NEW B \in SUBSET U PROVE Good(B)
  <2>1. Cardinality(B) \in Nat
    BY Smaller
  <2> HIDE DEF Good
  <2> QED BY <1>1, <2>1
<1> QED BY <1>2

Batched(t, from, to) == {r \in Records : RecordTenant[r] = t /\ doc[r].batch # NoBatch /\ doc[r].batched \in from .. to}
OfBatch(rs, b)       == {r \in rs : doc[r].batch = b}
RowOf(rs, b)         == [batch |-> b, num |-> Cardinality(OfBatch(rs, b)), roots |-> {doc[r].root : r \in OfBatch(rs, b)}]

LEMMA RowsAre ==
  ASSUME NEW t, NEW from, NEW to
  PROVE  LET rs   == Batched(t, from, to)
             rows == AggregateRecordBatches(t, from, to)
         IN  /\ rows = {RowOf(rs, b) : b \in {doc[r].batch : r \in rs}}
             /\ IsFiniteSet(rows) /\ \A row \in rows : row.num \in Nat
             /\ build(t, from, to).totalBatches = Cardinality(rows) /\ build(t, from, to).totalRecords = Total(rows)
<1> DEFINE rs   == Batched(t, from, to)
           rows == AggregateRecordBatches(t, from, to)
<1>1. rows = {RowOf(rs, b) : b \in {doc[r].batch : r \in rs}}
  BY DEF AggregateRecordBatches, Batched, RowOf, OfBatch
<1>2. build(t, from, to).totalBatches = Cardinality(rows) /\ build(t, from, to).totalRecords = Total(rows)
  <2>1. build(t, from, to) = [batches |-> rows, totalBatches |-> Cardinality(rows), totalRecords |-> Total(rows)]
    BY DEF build, Total
  <2> HIDE DEF rows
  <2> QED BY <2>1
<1>3. rs \in SUBSET Records /\ IsFiniteSet(rs)
  <2>1. rs \in SUBSET Records
    BY DEF Batched
  <2> HIDE DEF rs
  <2> QED BY <2>1, RecordAssumption, FS_Subset
<1> HIDE DEF rs, rows
<1>4. \A b : RowOf(rs, b).num \in Nat
  <2> SUFFICES ASSUME NEW b PROVE RowOf(rs, b).num \in Nat
    OBVIOUS
  <2>1. OfBatch(rs, b) \in SUBSET rs
    BY DEF OfBatch
  <2>2. IsFiniteSet(OfBatch(rs, b))
    BY <1>3, <2>1, FS_Subset
  <2>3. RowOf(rs, b).num = Cardinality(OfBatch(rs, b))
    BY DEF RowOf
  <2> QED BY <2>2, <2>3, FS_CardinalityType
<1>5. IsFiniteSet(rows)
  <2> DEFINE f == [r \in rs |-> RowOf(rs, doc[r].batch)]
  <2>1. f \in Surjection(rs, rows)
    BY <1>1 DEF Surjection
  <2> HIDE DEF f
  <2> QED BY <1>3, <2>1, FS_Surjection
<1> QED BY <1>1, <1>2, <1>4, <1>5 DEF rs, rows

\* A batch is in one of two reports whose ranges meet, and whole.
LEMMA ReportsSplit ==
  ASSUME Typed, BatchedTogether, NEW t, NEW cut \in 0 .. MaxClock
  PROVE  LET all   == AggregateRecordBatches(t, 0, MaxClock)
             older == AggregateRecordBatches(t, 0, cut)
             newer == AggregateRecordBatches(t, cut + 1, MaxClock)
         IN  all = older \cup newer /\ older \cap newer = {}
<1> DEFINE All   == Batched(t, 0, MaxClock)
           Older == Batched(t, 0, cut)
           Newer == Batched(t, cut + 1, MaxClock)
           At(b) == job[b].at
<1>1. ASSUME NEW r \in Records, doc[r].batch # NoBatch
      PROVE  doc[r].batch \in Batches /\ doc[r].batched = At(doc[r].batch) /\ At(doc[r].batch) \in 0 .. MaxClock
  <2>1. doc[r].batch \in Batches /\ doc[r].batched \in 0 .. clock /\ clock \in 0 .. MaxClock /\ MaxClock \in Nat
    BY <1>1, TypedIs, BoundsAssumption DEF DocTyped
  <2>2. doc[r].batched \in 0 .. MaxClock
    BY <2>1
  <2> QED BY <1>1, <2>1, <2>2 DEF BatchedTogether
<1> HIDE DEF At
<1>2. /\ \A r \in Older : r \in All /\ At(doc[r].batch) <= cut /\ At(doc[r].batch) \in Nat
      /\ \A r \in Newer : r \in All /\ At(doc[r].batch) > cut /\ At(doc[r].batch) \in Nat
      /\ \A r \in All : /\ r \in Older \/ r \in Newer
                        /\ r \in Older <=> At(doc[r].batch) <= cut
                        /\ r \in Newer <=> At(doc[r].batch) > cut
  <2> SUFFICES ASSUME NEW r \in Records, RecordTenant[r] = t, doc[r].batch # NoBatch
               PROVE  /\ doc[r].batched \in 0 .. MaxClock /\ At(doc[r].batch) \in Nat
                      /\ doc[r].batched \in 0 .. cut <=> At(doc[r].batch) <= cut
                      /\ doc[r].batched \in cut + 1 .. MaxClock <=> At(doc[r].batch) > cut
                      /\ doc[r].batched \in 0 .. cut \/ doc[r].batched \in cut + 1 .. MaxClock
    BY DEF Batched
  <2>1. doc[r].batched = At(doc[r].batch) /\ At(doc[r].batch) \in 0 .. MaxClock /\ MaxClock \in Nat
    BY <1>1, BoundsAssumption
  <2> DEFINE a == At(doc[r].batch)
  <2>2. a \in 0 .. MaxClock /\ MaxClock \in Nat
    BY <2>1
  <2> HIDE DEF a
  <2>3. a \in Nat /\ (a \in 0 .. cut <=> a <= cut) /\ (a \in cut + 1 .. MaxClock <=> a > cut)
        /\ (a \in 0 .. cut \/ a \in cut + 1 .. MaxClock)
    BY <2>2
  <2> QED BY <2>1, <2>3 DEF a
<1> HIDE DEF All, Older, Newer
<1>3. ASSUME NEW r \in Older PROVE OfBatch(Older, doc[r].batch) = OfBatch(All, doc[r].batch)
  <2>1. \A s \in All : doc[s].batch = doc[r].batch => s \in Older
    BY <1>2
  <2> QED BY <1>2, <2>1 DEF OfBatch
<1>4. ASSUME NEW r \in Newer PROVE OfBatch(Newer, doc[r].batch) = OfBatch(All, doc[r].batch)
  <2>1. \A s \in All : doc[s].batch = doc[r].batch => s \in Newer
    BY <1>2
  <2> QED BY <1>2, <2>1 DEF OfBatch
<1>5. /\ \A r \in Older : RowOf(Older, doc[r].batch) = RowOf(All, doc[r].batch)
      /\ \A r \in Newer : RowOf(Newer, doc[r].batch) = RowOf(All, doc[r].batch)
  BY <1>3, <1>4 DEF RowOf
<1> DEFINE Rows(rs) == {RowOf(rs, b) : b \in {doc[r].batch : r \in rs}}
<1>6. Rows(All) = Rows(Older) \cup Rows(Newer)
  <2>1. Rows(Older) = {RowOf(All, doc[r].batch) : r \in Older} /\ Rows(Newer) = {RowOf(All, doc[r].batch) : r \in Newer}
    BY <1>5
  <2>2. Rows(All) = {RowOf(All, doc[r].batch) : r \in All} /\ All = Older \cup Newer
    BY <1>2
  <2> QED BY <2>1, <2>2
<1>7. Rows(Older) \cap Rows(Newer) = {}
  <2> SUFFICES ASSUME NEW r \in Older, NEW s \in Newer, RowOf(Older, doc[r].batch) = RowOf(Newer, doc[s].batch) PROVE FALSE
    OBVIOUS
  <2>1. \A rs, b : RowOf(rs, b).batch = b
    BY DEF RowOf
  <2>2. doc[r].batch = doc[s].batch
    BY <2>1
  <2>3. At(doc[r].batch) <= cut /\ At(doc[s].batch) > cut /\ At(doc[r].batch) \in Nat
    BY <1>2
  <2> QED BY <2>2, <2>3
<1> HIDE DEF Rows
<1>8. /\ AggregateRecordBatches(t, 0, MaxClock) = Rows(All) /\ AggregateRecordBatches(t, 0, cut) = Rows(Older)
      /\ AggregateRecordBatches(t, cut + 1, MaxClock) = Rows(Newer)
  BY RowsAre DEF Rows, All, Older, Newer
<1> QED BY <1>6, <1>7, <1>8

\* Two audit reports whose ranges meet add up, in batches and in records, for
\* any number of batches, claims in progress and crashes between them.
THEOREM ReportsAdd == Spec => []ReportsAddUp
<1>1. Typed /\ BatchedTogether => ReportsAddUp
  <2> SUFFICES ASSUME Typed, BatchedTogether, NEW t \in Tenants, NEW cut \in 0 .. MaxClock
               PROVE  LET all   == build(t, 0, MaxClock)
                          older == build(t, 0, cut)
                          newer == build(t, cut + 1, MaxClock)
                      IN  /\ all.totalBatches = older.totalBatches + newer.totalBatches
                          /\ all.totalRecords = older.totalRecords + newer.totalRecords
    BY DEF ReportsAddUp
  <2> DEFINE all   == AggregateRecordBatches(t, 0, MaxClock)
             older == AggregateRecordBatches(t, 0, cut)
             newer == AggregateRecordBatches(t, cut + 1, MaxClock)
  <2>1. /\ IsFiniteSet(all) /\ IsFiniteSet(older) /\ IsFiniteSet(newer)
        /\ \A row \in all : row.num \in Nat
        /\ build(t, 0, MaxClock).totalBatches = Cardinality(all) /\ build(t, 0, MaxClock).totalRecords = Total(all)
        /\ build(t, 0, cut).totalBatches = Cardinality(older) /\ build(t, 0, cut).totalRecords = Total(older)
        /\ build(t, cut + 1, MaxClock).totalBatches = Cardinality(newer)
        /\ build(t, cut + 1, MaxClock).totalRecords = Total(newer)
    BY RowsAre
  <2>2. all = older \cup newer /\ older \cap newer = {}
    BY ReportsSplit
  <2> HIDE DEF all, older, newer
  <2>3. Total(all) = Total(older) + Total(newer)
    <3>1. older \in SUBSET all /\ newer \in SUBSET all
      BY <2>2
    <3> QED BY <2>1, <2>2, <3>1, TotalUnion
  <2>4. Cardinality(all) = Cardinality(older) + Cardinality(newer)
    <3>1. Cardinality(older \cup newer) = Cardinality(older) + Cardinality(newer) - Cardinality(older \cap newer)
      BY <2>1, FS_Union
    <3>2. Cardinality(older \cap newer) = 0
      BY <2>2, FS_EmptySet
    <3>3. Cardinality(older) \in Nat /\ Cardinality(newer) \in Nat
      BY <2>1, FS_CardinalityType
    <3> QED BY <2>2, <3>1, <3>2, <3>3
  <2> QED BY <2>1, <2>3, <2>4
<1> DEFINE I == Typed /\ BatchedTogether
<1>2. Init => I
  BY TypedInit, TogetherInit
<1>3. I /\ [Next]_vars => I'
  BY StillTyped, StillTogether
<1>4. I => ReportsAddUp
  BY <1>1
<1> HIDE DEF I
<1> QED BY <1>2, <1>3, <1>4, PTL DEF Spec
=============================================================================
