---------------------------- MODULE MerkleProofs ----------------------------
(***************************************************************************)
(* What a Merkle root commits to, for batches of any size and SHA-256      *)
(* taken as injective: under the second scheme to every hashed field,      *)
(* under the first to the hashes if none occurs twice; what a level of the *)
(* first scheme does not tell apart; that the SDK computes the same roots. *)
(* Induction over the levels goes by the least level at which a statement  *)
(* fails.                                                                  *)
(***************************************************************************)
EXTENDS Merkle, WellFoundedInduction, TLAPS

Before == {p \in Nat \X Nat : p[1] < p[2]}

\* A set of numbers that is not empty has a least element.
LEMMA LeastElement ==
  ASSUME NEW T \in SUBSET Nat, T # {}
  PROVE  \E x \in T : \A y \in T : x <= y
<1>1. IsWellFoundedOn(Before, Nat)
  <2>1. OpToRel(<, Nat) = Before
    BY DEF OpToRel, Before
  <2> QED BY <2>1, NatLessThanWellFounded
<1>2. \E x \in T : \A y \in T : <<y, x>> \notin Before
  BY <1>1, WFMin
<1>3. ASSUME NEW x \in T, NEW y \in T, <<y, x>> \notin Before PROVE x <= y
  <2>1. <<y, x>> \in Nat \X Nat /\ <<y, x>>[1] = y /\ <<y, x>>[2] = x
    OBVIOUS
  <2>2. ~(y < x)
    BY <1>3, <2>1 DEF Before
  <2> QED BY <2>2
<1> QED BY <1>2, <1>3

\* The first scheme cannot tell an odd level from the one that repeats its last
\* node: why the second scheme was introduced (BuildMerkleTree).
THEOREM FirstSchemeDuplicates ==
  ASSUME NEW H, NEW s \in Seq(H), Len(s) % 2 = 1
  PROVE  LevelV1(Append(s, s[Len(s)])) = LevelV1(s)
<1> DEFINE n == Len(s)
           t == Append(s, s[n])
<1>1. n \in Nat /\ n >= 1 /\ Len(t) = n + 1 /\ HalfUp(n + 1) = HalfUp(n)
  BY DEF HalfUp
<1>2. \A j \in 1 .. n : t[j] = s[j]
  OBVIOUS
<1>3. t[n + 1] = s[n]
  OBVIOUS
<1>4. ASSUME NEW i \in 1 .. HalfUp(n)
      PROVE  CombineHashes(t[2*i - 1], IF 2*i <= n + 1 THEN t[2*i] ELSE t[2*i - 1])
               = CombineHashes(s[2*i - 1], IF 2*i <= n THEN s[2*i] ELSE s[2*i - 1])
  <2>1. 2*i - 1 \in 1 .. n /\ 2*i <= n + 1
    BY <1>1 DEF HalfUp
  <2>2. CASE 2*i <= n
    BY <1>2, <2>1, <2>2
  <2>3. CASE 2*i = n + 1
    BY <1>1, <1>2, <1>3, <2>1, <2>3
  <2> QED BY <1>1, <2>1, <2>2, <2>3
<1>5. LevelV1(t) = [i \in 1 .. HalfUp(n) |->
                      CombineHashes(t[2*i - 1], IF 2*i <= n + 1 THEN t[2*i] ELSE t[2*i - 1])]
  BY <1>1 DEF LevelV1
<1>6. LevelV1(s) = [i \in 1 .. HalfUp(n) |->
                      CombineHashes(s[2*i - 1], IF 2*i <= n THEN s[2*i] ELSE s[2*i - 1])]
  BY DEF LevelV1
<1> HIDE DEF t, n
<1>7. LevelV1(t) = LevelV1(s)
  BY <1>4, <1>5, <1>6
<1> QED BY <1>7 DEF t, n

-----------------------------------------------------------------------------
(* Sequences, and one level.                                               *)

IsSeq(s) == \E S : s \in Seq(S)

LEMMA SeqIs ==
  ASSUME NEW s, IsSeq(s)
  PROVE  Len(s) \in Nat /\ DOMAIN s = 1 .. Len(s) /\ s = [i \in 1 .. Len(s) |-> s[i]]
<1>1. PICK S : s \in Seq(S)
  BY DEF IsSeq
<1> QED BY <1>1

LEMMA SequenceOf ==
  ASSUME NEW n \in Nat, NEW s, s = [i \in 1 .. n |-> s[i]]
  PROVE  IsSeq(s) /\ Len(s) = n
<1> DEFINE S == {s[i] : i \in 1 .. n}
<1>1. s \in [1 .. n -> S]
  OBVIOUS
<1> HIDE DEF S
<1>2. s \in Seq(S) /\ Len(s) = n
  BY <1>1
<1> QED BY <1>2 DEF IsSeq

\* Sequences of one length are equal if their elements are.
LEMMA SeqEqual ==
  ASSUME NEW s, NEW t, IsSeq(s), IsSeq(t), Len(s) = Len(t), \A i \in 1 .. Len(s) : s[i] = t[i]
  PROVE  s = t
<1>1. s = [i \in 1 .. Len(s) |-> s[i]] /\ t = [i \in 1 .. Len(s) |-> t[i]]
  BY SeqIs
<1>2. [i \in 1 .. Len(s) |-> s[i]] = [i \in 1 .. Len(s) |-> t[i]]
  OBVIOUS
<1> QED BY <1>1, <1>2

LEMMA Halves ==
  ASSUME NEW n \in Nat
  PROVE  /\ HalfUp(n) \in Nat
         /\ \A i \in 1 .. HalfUp(n) : 2*i - 1 \in 1 .. n /\ (2*i <= n => 2*i \in 1 .. n)
         /\ \A j \in 1 .. n : HalfUp(j) \in 1 .. HalfUp(n) /\ (j = 2*HalfUp(j) - 1 \/ j = 2*HalfUp(j))
         /\ n >= 1 => HalfUp(n) >= 1
         /\ n > 1 => HalfUp(n) <= n - 1
BY DEF HalfUp

\* One level halves the number of nodes, rounding up; one node stays as it is.
LEMMA LevelSeq ==
  ASSUME NEW s, IsSeq(s)
  PROVE  /\ IsSeq(LevelV2(s)) /\ Len(LevelV2(s)) = HalfUp(Len(s))
         /\ IsSeq(LevelV1(s)) /\ Len(LevelV1(s)) = HalfUp(Len(s))
         /\ Len(s) = 1 => LevelV2(s) = s
<1>1. Len(s) \in Nat /\ HalfUp(Len(s)) \in Nat
  BY SeqIs, Halves
<1>2. LevelV2(s) = [i \in 1 .. HalfUp(Len(s)) |-> LevelV2(s)[i]]
  BY DEF LevelV2
<1>3. LevelV1(s) = [i \in 1 .. HalfUp(Len(s)) |-> LevelV1(s)[i]]
  BY DEF LevelV1
<1>4. IsSeq(LevelV2(s)) /\ Len(LevelV2(s)) = HalfUp(Len(s))
  BY <1>1, <1>2, SequenceOf
<1>5. IsSeq(LevelV1(s)) /\ Len(LevelV1(s)) = HalfUp(Len(s))
  BY <1>1, <1>3, SequenceOf
<1>6. ASSUME Len(s) = 1 PROVE LevelV2(s) = s
  <2>1. HalfUp(1) = 1
    BY DEF HalfUp
  <2>2. LevelV2(s)[1] = s[1]
    <3>1. 1 \in 1 .. HalfUp(Len(s)) /\ ~(2*1 <= Len(s)) /\ 2*1 - 1 = 1
      BY <1>6, <2>1
    <3>2. LevelV2(s)[1] = IF 2*1 <= Len(s) THEN CombineHashesV2(s[2*1 - 1], s[2*1]) ELSE s[2*1 - 1]
      BY <3>1 DEF LevelV2
    <3> QED BY <3>1, <3>2
  <2>3. Len(LevelV2(s)) = 1 /\ \A i \in 1 .. 1 : LevelV2(s)[i] = s[i]
    BY <1>4, <1>6, <2>1, <2>2
  <2> QED BY <1>4, <1>6, <2>3, SeqEqual
<1> QED BY <1>4, <1>5, <1>6

\* The level of the second scheme determines the level below, once its length
\* is known: nodes are tagged, and an odd one is promoted, not duplicated
\* (BuildMerkleTreeV2).
LEMMA LevelInjective ==
  ASSUME NEW s, NEW t, IsSeq(s), IsSeq(t), Len(s) = Len(t), LevelV2(s) = LevelV2(t)
  PROVE  s = t
<1> DEFINE n == Len(s)
<1>1. n \in Nat
  BY SeqIs
<1>2. ASSUME NEW j \in 1 .. n PROVE s[j] = t[j]
  <2> DEFINE i == HalfUp(j)
  <2>1. i \in 1 .. HalfUp(n) /\ (j = 2*i - 1 \/ j = 2*i)
    BY <1>1, Halves
  <2>2. LevelV2(s)[i] = IF 2*i <= n THEN CombineHashesV2(s[2*i - 1], s[2*i]) ELSE s[2*i - 1]
    BY <2>1 DEF LevelV2
  <2>3. LevelV2(t)[i] = IF 2*i <= n THEN CombineHashesV2(t[2*i - 1], t[2*i]) ELSE t[2*i - 1]
    BY <2>1 DEF LevelV2
  <2>4. CASE 2*i <= n
    <3>1. CombineHashesV2(s[2*i - 1], s[2*i]) = CombineHashesV2(t[2*i - 1], t[2*i])
      BY <2>2, <2>3, <2>4
    <3>2. s[2*i - 1] = t[2*i - 1] /\ s[2*i] = t[2*i]
      BY <3>1 DEF CombineHashesV2
    <3> QED BY <2>1, <3>2
  <2>5. CASE ~(2*i <= n)
    <3> HIDE DEF i
    <3>1. j = 2*i - 1
      BY <1>1, <2>1, <2>5
    <3> QED BY <2>2, <2>3, <2>5, <3>1
  <2> QED BY <2>4, <2>5
<1> HIDE DEF n
<1>3. \A j \in 1 .. Len(s) : s[j] = t[j]
  BY <1>2 DEF n
<1> QED BY <1>3, SeqEqual

-----------------------------------------------------------------------------
(* The loops of BuildMerkleTree and BuildMerkleTreeV2.  The levels of a    *)
(* tree up to a height m exist and are unique, so the recursive functions  *)
(* of the definitions are what they say.                                   *)

Round(scheme, s) == IF scheme = "second" THEN LevelV2(s) ELSE IF Len(s) = 1 THEN s ELSE LevelV1(s)

IsLoop(g, scheme, hashes) ==
  g = [n \in Nat |-> IF n = 0 THEN hashes ELSE Round(scheme, g[n - 1])]

IsTree(L, m, scheme, hashes) ==
  /\ L = [k \in 0 .. m |-> L[k]] /\ L[0] = hashes
  /\ \A k \in 0 .. m - 1 : L[k + 1] = Round(scheme, L[k])

LEMMA TreeExists ==
  ASSUME NEW scheme, NEW hashes PROVE \A m \in Nat : \E L : IsTree(L, m, scheme, hashes)
<1> DEFINE T == {m \in Nat : ~ \E L : IsTree(L, m, scheme, hashes)}
<1> SUFFICES ASSUME T # {} PROVE FALSE
  OBVIOUS
<1>1. PICK x \in T : \A y \in T : x <= y
  <2>1. T \in SUBSET Nat
    OBVIOUS
  <2> HIDE DEF T
  <2> QED BY <2>1, LeastElement
<1>2. IsTree([k \in 0 .. 0 |-> hashes], 0, scheme, hashes)
  BY DEF IsTree
<1>3. x # 0
  BY <1>1, <1>2
<1>4. x - 1 \in Nat /\ x - 1 \notin T
  BY <1>1, <1>3
<1>5. PICK L : IsTree(L, x - 1, scheme, hashes)
  BY <1>4
<1> DEFINE K == [k \in 0 .. x |-> IF k = x THEN Round(scheme, L[x - 1]) ELSE L[k]]
<1>6. IsTree(K, x, scheme, hashes)
  <2>0. K = [k \in 0 .. x |-> K[k]]
    OBVIOUS
  <2>1. K[0] = hashes
    BY <1>3, <1>4, <1>5 DEF IsTree
  <2>2. ASSUME NEW k \in 0 .. x - 1 PROVE K[k + 1] = Round(scheme, K[k])
    <3>1. CASE k = x - 1
      BY <1>3, <1>4, <3>1
    <3>2. CASE k # x - 1
      <4>1. k \in 0 .. (x - 1) - 1 /\ k + 1 \in 0 .. x /\ k + 1 # x /\ k # x /\ k \in 0 .. x
        BY <1>4, <3>2
      <4>2. L[k + 1] = Round(scheme, L[k])
        BY <1>5, <4>1 DEF IsTree
      <4> QED BY <4>1, <4>2
    <3> QED BY <3>1, <3>2
  <2> HIDE DEF K
  <2> QED BY <2>0, <2>1, <2>2 DEF IsTree
<1> HIDE DEF K
<1> QED BY <1>1, <1>6

LEMMA TreeUnique ==
  ASSUME NEW scheme, NEW hashes, NEW m \in Nat, NEW n \in Nat, NEW L, NEW M,
         IsTree(L, m, scheme, hashes), IsTree(M, n, scheme, hashes)
  PROVE  \A k \in Nat : k <= m /\ k <= n => L[k] = M[k]
<1> DEFINE T == {k \in Nat : k <= m /\ k <= n /\ L[k] # M[k]}
<1> SUFFICES ASSUME T # {} PROVE FALSE
  OBVIOUS
<1>1. PICK x \in T : \A y \in T : x <= y
  <2>1. T \in SUBSET Nat
    OBVIOUS
  <2> HIDE DEF T
  <2> QED BY <2>1, LeastElement
<1>2. x # 0
  BY <1>1 DEF IsTree
<1>3. x - 1 \in Nat /\ L[x - 1] = M[x - 1] /\ x - 1 \in 0 .. m - 1 /\ x - 1 \in 0 .. n - 1 /\ (x - 1) + 1 = x
  BY <1>1, <1>2
<1>4. L[x] = Round(scheme, L[x - 1]) /\ M[x] = Round(scheme, M[x - 1])
  BY <1>2, <1>3 DEF IsTree
<1> QED BY <1>1, <1>3, <1>4

LEMMA LoopExists ==
  ASSUME NEW scheme, NEW hashes
  PROVE  \E g : IsLoop(g, scheme, hashes)
<1> DEFINE Tree(m) == CHOOSE L : IsTree(L, m, scheme, hashes)
           g == [n \in Nat |-> Tree(n)[n]]
<1>1. ASSUME NEW m \in Nat PROVE IsTree(Tree(m), m, scheme, hashes)
  BY TreeExists
<1> HIDE DEF Tree
<1>2. ASSUME NEW n \in Nat PROVE g[n] = IF n = 0 THEN hashes ELSE Round(scheme, g[n - 1])
  <2>1. CASE n = 0
    BY <1>1, <2>1 DEF IsTree
  <2>2. CASE n # 0
    <3>1. n - 1 \in Nat /\ n - 1 \in 0 .. n - 1 /\ (n - 1) + 1 = n
      BY <2>2
    <3>2. Tree(n)[n] = Round(scheme, Tree(n)[n - 1])
      BY <1>1, <3>1 DEF IsTree
    <3>3. Tree(n)[n - 1] = Tree(n - 1)[n - 1]
      BY <1>1, <3>1, TreeUnique
    <3> QED BY <2>2, <3>1, <3>2, <3>3
  <2> QED BY <2>1, <2>2
<1>3. g = [n \in Nat |-> g[n]]
  OBVIOUS
<1> HIDE DEF g
<1>4. IsLoop(g, scheme, hashes)
  BY <1>2, <1>3 DEF IsLoop
<1> QED BY <1>4

LEMMA LoopSteps ==
  ASSUME NEW scheme, NEW hashes, NEW g, IsLoop(g, scheme, hashes)
  PROVE  g[0] = hashes /\ \A k \in Nat : g[k + 1] = Round(scheme, g[k])
<1>1. ASSUME NEW k \in Nat PROVE g[k + 1] = Round(scheme, g[k])
  <2>1. k + 1 \in Nat /\ k + 1 # 0 /\ (k + 1) - 1 = k
    OBVIOUS
  <2> QED BY <2>1 DEF IsLoop
<1> QED BY <1>1 DEF IsLoop

LEMMA LoopUnique ==
  ASSUME NEW scheme, NEW hashes, NEW g, NEW h, IsLoop(g, scheme, hashes), IsLoop(h, scheme, hashes)
  PROVE  g = h
<1> DEFINE T == {k \in Nat : g[k] # h[k]}
<1>1. T = {}
  <2> SUFFICES ASSUME T # {} PROVE FALSE
    OBVIOUS
  <2>1. PICK x \in T : \A y \in T : x <= y
    <3>1. T \in SUBSET Nat
      OBVIOUS
    <3> HIDE DEF T
    <3> QED BY <3>1, LeastElement
  <2>2. x # 0
    BY <2>1, LoopSteps
  <2>3. x - 1 \in Nat /\ g[x - 1] = h[x - 1] /\ (x - 1) + 1 = x
    BY <2>1, <2>2
  <2>4. g[x] = Round(scheme, g[x - 1]) /\ h[x] = Round(scheme, h[x - 1])
    BY <2>3, LoopSteps
  <2> QED BY <2>1, <2>3, <2>4
<1>2. g = [n \in Nat |-> g[n]] /\ h = [n \in Nat |-> h[n]]
  BY DEF IsLoop
<1>3. [n \in Nat |-> g[n]] = [n \in Nat |-> h[n]]
  BY <1>1
<1> QED BY <1>2, <1>3

\* The levels are sequences, at least one node shorter each time until there is
\* one.
LEMMA LoopLengths ==
  ASSUME NEW scheme, NEW s, IsSeq(s), NEW g, IsLoop(g, scheme, s)
  PROVE  \A k \in Nat : /\ IsSeq(g[k])
                        /\ Len(s) >= 1 => Len(g[k]) >= 1
                        /\ Len(g[k]) > 1 => Len(g[k]) + k <= Len(s)
<1> DEFINE P(k) == /\ IsSeq(g[k])
                   /\ Len(s) >= 1 => Len(g[k]) >= 1
                   /\ Len(g[k]) > 1 => Len(g[k]) + k <= Len(s)
           T == {k \in Nat : ~P(k)}
<1> SUFFICES ASSUME T # {} PROVE FALSE
  OBVIOUS
<1>1. PICK x \in T : \A y \in T : x <= y
  <2>1. T \in SUBSET Nat
    OBVIOUS
  <2> HIDE DEF T
  <2> QED BY <2>1, LeastElement
<1>2. x # 0
  <2>1. g[0] = s /\ Len(s) \in Nat
    BY LoopSteps, SeqIs
  <2>2. P(0)
    BY <2>1
  <2> QED BY <1>1, <2>2
<1>3. x - 1 \in Nat /\ P(x - 1) /\ (x - 1) + 1 = x
  BY <1>1, <1>2
<1>4. g[x] = Round(scheme, g[x - 1])
  BY <1>3, LoopSteps
<1> DEFINE c == Len(g[x - 1])
<1>5. c \in Nat /\ Len(s) \in Nat
  BY <1>3, SeqIs
<1>6. HalfUp(c) \in Nat /\ (c >= 1 => HalfUp(c) >= 1) /\ (c > 1 => HalfUp(c) <= c - 1) /\ (c <= 1 => HalfUp(c) = c)
  <2> HIDE DEF c
  <2> QED BY <1>5 DEF HalfUp
<1>7. IsSeq(g[x]) /\ Len(g[x]) \in Nat /\ (Len(g[x]) = HalfUp(c) \/ (Len(g[x]) = c /\ c = 1))
  <2>1. /\ IsSeq(LevelV2(g[x - 1])) /\ Len(LevelV2(g[x - 1])) = HalfUp(c)
        /\ IsSeq(LevelV1(g[x - 1])) /\ Len(LevelV1(g[x - 1])) = HalfUp(c)
    BY <1>3, LevelSeq
  <2>2. g[x] = LevelV2(g[x - 1]) \/ g[x] = LevelV1(g[x - 1]) \/ (g[x] = g[x - 1] /\ c = 1)
    BY <1>4 DEF Round
  <2>3. IsSeq(g[x]) /\ (Len(g[x]) = HalfUp(c) \/ (Len(g[x]) = c /\ c = 1))
    <3>1. IsSeq(g[x - 1])
      BY <1>3
    <3>2. CASE g[x] = LevelV2(g[x - 1])
      BY <2>1, <3>2
    <3>3. CASE g[x] = LevelV1(g[x - 1])
      BY <2>1, <3>3
    <3>4. CASE g[x] = g[x - 1] /\ c = 1
      BY <3>1, <3>4
    <3> QED BY <2>2, <3>2, <3>3, <3>4
  <2>4. Len(g[x]) \in Nat
    BY <2>3, SeqIs
  <2> QED BY <2>3, <2>4
<1>8. P(x)
  <2> DEFINE d == Len(g[x])
  <2>1. d \in Nat /\ (c >= 1 => d >= 1) /\ (d > 1 => d <= c - 1 /\ c > 1)
    <3>1. d \in Nat /\ (d = HalfUp(c) \/ (d = c /\ c = 1))
      BY <1>7
    <3> HIDE DEF c, d
    <3> QED BY <1>5, <1>6, <3>1
  <2>2. (Len(s) >= 1 => c >= 1) /\ (c > 1 => c + (x - 1) <= Len(s))
    BY <1>3
  <2> HIDE DEF c, d
  <2>3. (Len(s) >= 1 => d >= 1) /\ (d > 1 => d + x <= Len(s))
    BY <1>3, <1>5, <2>1, <2>2
  <2> QED BY <1>7, <2>3 DEF d
<1> QED BY <1>1, <1>8

\* After as many rounds as there are hashes one node is left.
LEMMA LoopEnds ==
  ASSUME NEW scheme, NEW s, IsSeq(s), Len(s) >= 1, NEW g, IsLoop(g, scheme, s),
         NEW k \in Nat, k >= Len(s)
  PROVE  IsSeq(g[k]) /\ Len(g[k]) = 1
<1>1. IsSeq(g[k]) /\ Len(g[k]) >= 1 /\ (Len(g[k]) > 1 => Len(g[k]) + k <= Len(s))
  BY LoopLengths
<1>2. Len(g[k]) \in Nat /\ Len(s) \in Nat
  BY <1>1, SeqIs
<1>3. \A a, b, c \in Nat : c <= b /\ a >= 1 /\ (a > 1 => a + b <= c) => a = 1
  OBVIOUS
<1> QED BY <1>1, <1>2, <1>3

-----------------------------------------------------------------------------
(* The recursive functions that the definitions choose.                    *)

LoopV1(hashes) ==
  CHOOSE g : g = [n \in Nat |-> IF n = 0 THEN hashes ELSE IF Len(g[n - 1]) = 1 THEN g[n - 1] ELSE LevelV1(g[n - 1])]
LoopV2(hashes) ==
  CHOOSE g : g = [n \in Nat |-> IF n = 0 THEN hashes ELSE LevelV2(g[n - 1])]
LoopSDK(records, v) ==
  CHOOSE g : g = [n \in Nat |-> IF n = 0 THEN [i \in DOMAIN records |-> hashForVersion(records[i], v)]
                                ELSE IF Len(g[n - 1]) = 1 THEN g[n - 1]
                                ELSE IF v >= 2 THEN LevelV2(g[n - 1]) ELSE LevelV1(g[n - 1])]

LEMMA FirstLoop ==
  ASSUME NEW hashes PROVE IsLoop(LoopV1(hashes), "first", hashes)
<1>1. PICK g : IsLoop(g, "first", hashes)
  BY LoopExists
<1>2. g = [n \in Nat |-> IF n = 0 THEN hashes ELSE IF Len(g[n - 1]) = 1 THEN g[n - 1] ELSE LevelV1(g[n - 1])]
  BY <1>1 DEF IsLoop, Round
<1>3. LoopV1(hashes) = [n \in Nat |-> IF n = 0 THEN hashes
                                      ELSE IF Len(LoopV1(hashes)[n - 1]) = 1 THEN LoopV1(hashes)[n - 1]
                                      ELSE LevelV1(LoopV1(hashes)[n - 1])]
  BY <1>2 DEF LoopV1
<1> QED BY <1>3 DEF IsLoop, Round

LEMMA SecondLoop ==
  ASSUME NEW hashes PROVE IsLoop(LoopV2(hashes), "second", hashes)
<1>1. PICK g : IsLoop(g, "second", hashes)
  BY LoopExists
<1>2. g = [n \in Nat |-> IF n = 0 THEN hashes ELSE LevelV2(g[n - 1])]
  BY <1>1 DEF IsLoop, Round
<1>3. LoopV2(hashes) = [n \in Nat |-> IF n = 0 THEN hashes ELSE LevelV2(LoopV2(hashes)[n - 1])]
  BY <1>2 DEF LoopV2
<1> QED BY <1>3 DEF IsLoop, Round

Scheme(v) == IF v >= 2 THEN "second" ELSE "first"

\* The SDK ends its loop at one node under either scheme.
LEMMA SDKRound ==
  ASSUME NEW s, IsSeq(s), NEW v
  PROVE  (IF Len(s) = 1 THEN s ELSE IF v >= 2 THEN LevelV2(s) ELSE LevelV1(s)) = Round(Scheme(v), s)
BY LevelSeq DEF Round, Scheme

LEMMA SDKLoop ==
  ASSUME NEW records, IsSeq(records), NEW v
  PROVE  IsLoop(LoopSDK(records, v), Scheme(v), [i \in DOMAIN records |-> hashForVersion(records[i], v)])
<1> DEFINE leaves == [i \in DOMAIN records |-> hashForVersion(records[i], v)]
           Body(h) == [n \in Nat |-> IF n = 0 THEN leaves
                                     ELSE IF Len(h[n - 1]) = 1 THEN h[n - 1]
                                     ELSE IF v >= 2 THEN LevelV2(h[n - 1]) ELSE LevelV1(h[n - 1])]
<1>0. IsSeq(leaves)
  <2>1. Len(records) \in Nat /\ DOMAIN records = 1 .. Len(records)
    BY SeqIs
  <2>2. leaves = [i \in 1 .. Len(records) |-> leaves[i]]
    BY <2>1
  <2> HIDE DEF leaves
  <2> QED BY <2>1, <2>2, SequenceOf
<1>1. PICK g : IsLoop(g, Scheme(v), leaves)
  BY LoopExists
<1>2. g = Body(g)
  <2>1. ASSUME NEW n \in Nat, n # 0
        PROVE  Round(Scheme(v), g[n - 1]) = (IF Len(g[n - 1]) = 1 THEN g[n - 1]
                                          ELSE IF v >= 2 THEN LevelV2(g[n - 1]) ELSE LevelV1(g[n - 1]))
    <3>1. n - 1 \in Nat
      BY <2>1
    <3>2. IsSeq(g[n - 1])
      BY <1>0, <1>1, <3>1, LoopLengths
    <3> QED BY <3>2, SDKRound
  <2>2. g = [n \in Nat |-> IF n = 0 THEN leaves ELSE Round(Scheme(v), g[n - 1])]
    BY <1>1 DEF IsLoop
  <2> HIDE DEF leaves
  <2> QED BY <2>1, <2>2
<1> DEFINE h == LoopSDK(records, v)
<1>3. h = Body(h)
  BY <1>2 DEF LoopSDK
<1> HIDE DEF h
<1>4. ASSUME NEW n \in Nat PROVE h[n] = IF n = 0 THEN leaves ELSE Round(Scheme(v), h[n - 1])
  <2> DEFINE T == {k \in Nat : ~IsSeq(h[k])}
  <2>0. h[0] = leaves
    <3> HIDE DEF leaves
    <3> QED BY <1>3
  <2>1. ASSUME NEW k \in Nat PROVE h[k + 1] = (IF Len(h[k]) = 1 THEN h[k]
                                               ELSE IF v >= 2 THEN LevelV2(h[k]) ELSE LevelV1(h[k]))
    <3>1. k + 1 \in Nat /\ k + 1 # 0 /\ (k + 1) - 1 = k
      OBVIOUS
    <3> HIDE DEF leaves
    <3> QED BY <1>3, <3>1
  <2>2. T = {}
    <3> SUFFICES ASSUME T # {} PROVE FALSE
      OBVIOUS
    <3>1. PICK x \in T : \A y \in T : x <= y
      <4>1. T \in SUBSET Nat
        OBVIOUS
      <4> HIDE DEF T
      <4> QED BY <4>1, LeastElement
    <3>2. x # 0
      BY <1>0, <2>0, <3>1
    <3>3. x - 1 \in Nat /\ IsSeq(h[x - 1]) /\ (x - 1) + 1 = x
      BY <3>1, <3>2
    <3>4. h[x] = h[x - 1] \/ h[x] = LevelV2(h[x - 1]) \/ h[x] = LevelV1(h[x - 1])
      BY <2>1, <3>3
    <3>5. IsSeq(LevelV2(h[x - 1])) /\ IsSeq(LevelV1(h[x - 1]))
      BY <3>3, LevelSeq
    <3> QED BY <3>1, <3>3, <3>4, <3>5
  <2>3. CASE n = 0
    BY <2>0, <2>3
  <2>4. CASE n # 0
    <3>1. n - 1 \in Nat /\ (n - 1) + 1 = n
      BY <2>4
    <3>2. IsSeq(h[n - 1])
      BY <2>2, <3>1
    <3>3. Round(Scheme(v), h[n - 1]) = (IF Len(h[n - 1]) = 1 THEN h[n - 1]
                                     ELSE IF v >= 2 THEN LevelV2(h[n - 1]) ELSE LevelV1(h[n - 1]))
      BY <3>2, SDKRound
    <3>4. h[n] = (IF Len(h[n - 1]) = 1 THEN h[n - 1]
                  ELSE IF v >= 2 THEN LevelV2(h[n - 1]) ELSE LevelV1(h[n - 1]))
      BY <2>1, <3>1
    <3> QED BY <2>4, <3>3, <3>4
  <2> QED BY <2>3, <2>4
<1>5. h = [n \in Nat |-> h[n]]
  <2>1. Body(h) = [n \in Nat |-> Body(h)[n]]
    OBVIOUS
  <2> HIDE DEF Body
  <2> QED BY <1>3, <2>1
<1>6. IsLoop(h, Scheme(v), leaves)
  <2> HIDE DEF leaves, Body
  <2> QED BY <1>4, <1>5 DEF IsLoop
<1> QED BY <1>6 DEF h

\* The Go SDK computes the root of the API, for every batch: odd ones, mixed
\* ones and those of either scheme (record.go mirrors CalculateRecordMerkleRoot).
THEOREM SDKComputesTheRoot ==
  ASSUME NEW S, NEW records \in Seq(S)
  PROVE  SDKMerkleRoot(records) = CalculateRecordMerkleRoot(records)
<1> DEFINE v == batchHashVersion(records)
           leaves == [i \in DOMAIN records |-> hashForVersion(records[i], v)]
<1>1. IsSeq(records) /\ Len(records) \in Nat /\ DOMAIN records = 1 .. Len(records)
  BY DEF IsSeq
<1>2. IsSeq(leaves) /\ Len(leaves) = Len(records)
  <2>1. leaves = [i \in 1 .. Len(records) |-> leaves[i]]
    BY <1>1
  <2> HIDE DEF leaves
  <2> QED BY <1>1, <2>1, SequenceOf
<1>3. SDKMerkleRoot(records) = IF records = <<>> THEN NoRoot ELSE LoopSDK(records, v)[Len(records)][1]
  BY DEF SDKMerkleRoot, LoopSDK, batchHashVersion
<1>4. IsLoop(LoopSDK(records, v), Scheme(v), leaves)
  BY <1>1, SDKLoop
<1>5. leaves = <<>> <=> records = <<>>
  <2>1. records = <<>> <=> Len(records) = 0
    BY <1>1
  <2>2. \A s : IsSeq(s) => (s = <<>> <=> Len(s) = 0)
    BY DEF IsSeq
  <2> HIDE DEF leaves
  <2> QED BY <1>2, <2>1, <2>2
<1>6. CASE v >= 2
  <2>1. CalculateRecordMerkleRoot(records) = IF leaves = <<>> THEN NoRoot ELSE LoopV2(leaves)[Len(leaves)][1]
    BY <1>6 DEF CalculateRecordMerkleRoot, BuildMerkleTreeV2, LoopV2
  <2>2. IsLoop(LoopSDK(records, v), "second", leaves)
    BY <1>4, <1>6 DEF Scheme
  <2>3. LoopSDK(records, v) = LoopV2(leaves)
    <3> HIDE DEF leaves, v
    <3> QED BY <2>2, SecondLoop, LoopUnique
  <2> HIDE DEF leaves, v
  <2> QED BY <1>2, <1>3, <1>5, <2>1, <2>3
<1>7. CASE ~(v >= 2)
  <2>1. CalculateRecordMerkleRoot(records) = IF leaves = <<>> THEN NoRoot ELSE LoopV1(leaves)[Len(leaves)][1]
    BY <1>7 DEF CalculateRecordMerkleRoot, BuildMerkleTree, LoopV1
  <2>2. IsLoop(LoopSDK(records, v), "first", leaves)
    BY <1>4, <1>7 DEF Scheme
  <2>3. LoopSDK(records, v) = LoopV1(leaves)
    <3> HIDE DEF leaves, v
    <3> QED BY <2>2, FirstLoop, LoopUnique
  <2> HIDE DEF leaves, v
  <2> QED BY <1>2, <1>3, <1>5, <2>1, <2>3
<1> QED BY <1>6, <1>7

-----------------------------------------------------------------------------
(* What a root of the second scheme determines.  Leaves and nodes are      *)
(* tagged, so a node shows how many pairs are below it on the left.        *)

Spine(x, h) ==
  \E f : /\ f[0].kind = "leaf" /\ f[h] = x
         /\ \A j \in 0 .. h - 1 : f[j + 1].kind = "node" /\ f[j + 1].left = f[j]

LEMMA SpineUnique ==
  ASSUME NEW x, NEW h \in Nat, NEW g \in Nat, Spine(x, h), Spine(x, g), h < g
  PROVE  FALSE
<1>1. PICK f : /\ f[0].kind = "leaf" /\ f[h] = x
               /\ \A j \in 0 .. h - 1 : f[j + 1].kind = "node" /\ f[j + 1].left = f[j]
  BY DEF Spine
<1>2. PICK e : /\ e[0].kind = "leaf" /\ e[g] = x
               /\ \A j \in 0 .. g - 1 : e[j + 1].kind = "node" /\ e[j + 1].left = e[j]
  BY DEF Spine
<1> DEFINE T == {j \in Nat : j <= h /\ f[h - j] # e[g - j]}
<1>3. T = {}
  <2> SUFFICES ASSUME T # {} PROVE FALSE
    OBVIOUS
  <2>1. PICK y \in T : \A z \in T : y <= z
    <3>1. T \in SUBSET Nat
      OBVIOUS
    <3> HIDE DEF T
    <3> QED BY <3>1, LeastElement
  <2>2. y \in Nat /\ y <= h /\ f[h - y] # e[g - y]
    BY <2>1
  <2>3. y # 0
    BY <1>1, <1>2, <2>2
  <2>4. y - 1 \in Nat /\ y - 1 <= h /\ y - 1 < y
    BY <2>2, <2>3
  <2>5. f[h - (y - 1)] = e[g - (y - 1)]
    <3>1. y - 1 \notin T
      BY <2>1, <2>2, <2>4
    <3> QED BY <2>4, <3>1
  <2>6. /\ h - y \in 0 .. h - 1 /\ (h - y) + 1 = h - (y - 1)
        /\ g - y \in 0 .. g - 1 /\ (g - y) + 1 = g - (y - 1)
    BY <2>2, <2>3
  <2>7. f[h - (y - 1)].left = f[h - y]
    BY <1>1, <2>6
  <2>8. e[g - (y - 1)].left = e[g - y]
    BY <1>2, <2>6
  <2> QED BY <2>2, <2>5, <2>7, <2>8
<1>4. f[0] = e[g - h]
  <2>1. h \notin T
    BY <1>3
  <2> QED BY <2>1
<1>5. g - h - 1 \in 0 .. g - 1 /\ (g - h - 1) + 1 = g - h
  OBVIOUS
<1>6. e[g - h].kind = "node"
  BY <1>2, <1>5
<1> QED BY <1>1, <1>4, <1>6

LEMMA SpineOfLeaf ==
  ASSUME NEW x, x.kind = "leaf" PROVE Spine(x, 0)
<1> DEFINE f == [j \in {0} |-> x]
<1>1. f[0].kind = "leaf" /\ f[0] = x /\ \A j \in 0 .. 0 - 1 : f[j + 1].kind = "node" /\ f[j + 1].left = f[j]
  OBVIOUS
<1> HIDE DEF f
<1> QED BY <1>1 DEF Spine

LEMMA SpineOfNode ==
  ASSUME NEW a, NEW b, NEW k \in Nat, Spine(a, k) PROVE Spine(CombineHashesV2(a, b), k + 1)
<1>1. PICK f : /\ f[0].kind = "leaf" /\ f[k] = a
               /\ \A j \in 0 .. k - 1 : f[j + 1].kind = "node" /\ f[j + 1].left = f[j]
  BY DEF Spine
<1> DEFINE x == CombineHashesV2(a, b)
           e == [j \in 0 .. k + 1 |-> IF j = k + 1 THEN x ELSE f[j]]
<1>2. x.kind = "node" /\ x.left = a
  BY DEF CombineHashesV2
<1>3. e[0].kind = "leaf" /\ e[k + 1] = x
  <2>1. 0 \in 0 .. k + 1 /\ 0 # k + 1 /\ k + 1 \in 0 .. k + 1
    OBVIOUS
  <2> QED BY <1>1, <2>1
<1>4. ASSUME NEW j \in 0 .. (k + 1) - 1 PROVE e[j + 1].kind = "node" /\ e[j + 1].left = e[j]
  <2>1. j \in 0 .. k + 1 /\ j # k + 1 /\ j + 1 \in 0 .. k + 1
    OBVIOUS
  <2>2. CASE j = k
    BY <1>1, <1>2, <2>1, <2>2
  <2>3. CASE j # k
    <3>1. j \in 0 .. k - 1 /\ j + 1 # k + 1
      BY <2>3
    <3> QED BY <1>1, <2>1, <3>1
  <2> QED BY <2>2, <2>3
<1> HIDE DEF e, x
<1>5. Spine(x, k + 1)
  BY <1>3, <1>4 DEF Spine
<1> QED BY <1>5 DEF x

\* In level k every node but the last has k pairs on its left.
Spined(s, k) ==
  \A i \in 1 .. Len(s) : (i < Len(s) => Spine(s[i], k)) /\ \E h \in 0 .. k : Spine(s[i], h)

LEMMA LevelSpined ==
  ASSUME NEW s, IsSeq(s), NEW k \in Nat, Spined(s, k)
  PROVE  Spined(LevelV2(s), k + 1)
<1> DEFINE n == Len(s)
           u == LevelV2(s)
<1>1. n \in Nat /\ Len(u) = HalfUp(n) /\ HalfUp(n) \in Nat
  BY SeqIs, LevelSeq, Halves
<1>2. ASSUME NEW i \in 1 .. HalfUp(n)
      PROVE  (i < HalfUp(n) => Spine(u[i], k + 1)) /\ \E h \in 0 .. k + 1 : Spine(u[i], h)
  <2>1. 2*i - 1 \in 1 .. n
    BY <1>1, Halves
  <2>2. u[i] = IF 2*i <= n THEN CombineHashesV2(s[2*i - 1], s[2*i]) ELSE s[2*i - 1]
    BY DEF LevelV2
  <2>3. CASE 2*i <= n
    <3>1. 2*i - 1 < n
      BY <1>1, <2>3
    <3>2. Spine(s[2*i - 1], k)
      BY <2>1, <3>1 DEF Spined
    <3>3. Spine(u[i], k + 1)
      BY <2>2, <2>3, <3>2, SpineOfNode
    <3> QED BY <3>3
  <2>4. CASE ~(2*i <= n)
    <3>1. ~(i < HalfUp(n))
      BY <1>1, <2>4 DEF HalfUp
    <3>2. PICK h \in 0 .. k : Spine(s[2*i - 1], h)
      BY <2>1 DEF Spined
    <3>3. h \in 0 .. k + 1 /\ Spine(u[i], h)
      BY <2>2, <2>4, <3>2
    <3> QED BY <3>1, <3>3
  <2> QED BY <2>3, <2>4
<1> HIDE DEF n
<1> QED BY <1>1, <1>2 DEF Spined

\* So a level shows whether the last node of the level below was alone.
LEMMA LevelDetermines ==
  ASSUME NEW s, NEW t, IsSeq(s), IsSeq(t), NEW k \in Nat, Spined(s, k), Spined(t, k),
         LevelV2(s) = LevelV2(t)
  PROVE  s = t
<1>1. Len(s) \in Nat /\ Len(t) \in Nat /\ HalfUp(Len(s)) = HalfUp(Len(t))
  <2>1. Len(LevelV2(s)) = HalfUp(Len(s)) /\ Len(LevelV2(t)) = HalfUp(Len(t))
    BY LevelSeq
  <2> QED BY <2>1, SeqIs
<1>2. ASSUME NEW a, NEW b, IsSeq(a), IsSeq(b), Spined(a, k), Spined(b, k), LevelV2(a) = LevelV2(b),
             Len(a) \in Nat, Len(b) \in Nat, HalfUp(Len(a)) = HalfUp(Len(b)), Len(b) < Len(a)
      PROVE  FALSE
  <2> DEFINE c == HalfUp(Len(a))
  <2>1. c \in Nat /\ c >= 1 /\ Len(a) = 2*c /\ Len(b) = 2*c - 1
    BY <1>2 DEF HalfUp
  <2>2. LevelV2(a)[c] = CombineHashesV2(a[2*c - 1], a[2*c])
    <3>1. c \in 1 .. HalfUp(Len(a)) /\ 2*c <= Len(a)
      BY <2>1
    <3> HIDE DEF c
    <3> QED BY <3>1 DEF LevelV2
  <2>3. LevelV2(b)[c] = b[2*c - 1]
    <3>1. c \in 1 .. HalfUp(Len(b)) /\ ~(2*c <= Len(b))
      BY <1>2, <2>1
    <3> HIDE DEF c
    <3> QED BY <3>1 DEF LevelV2
  <2> HIDE DEF c
  <2>4. Spine(a[2*c - 1], k)
    <3>1. 2*c - 1 \in 1 .. Len(a) /\ 2*c - 1 < Len(a)
      BY <2>1
    <3> QED BY <1>2, <3>1 DEF Spined
  <2>5. PICK h \in 0 .. k : Spine(b[2*c - 1], h)
    <3>1. 2*c - 1 \in 1 .. Len(b)
      BY <2>1
    <3> QED BY <1>2, <3>1 DEF Spined
  <2>6. Spine(b[2*c - 1], k + 1)
    BY <1>2, <2>2, <2>3, <2>4, SpineOfNode
  <2> QED BY <2>5, <2>6, SpineUnique
<1>3. ~(Len(t) < Len(s)) /\ ~(Len(s) < Len(t))
  BY <1>1, <1>2
<1>4. Len(s) = Len(t)
  BY <1>1, <1>3
<1> QED BY <1>4, LevelInjective

LEMMA LoopSpined ==
  ASSUME NEW s, IsSeq(s), \A i \in 1 .. Len(s) : s[i].kind = "leaf", NEW g, IsLoop(g, "second", s)
  PROVE  \A k \in Nat : Spined(g[k], k)
<1> DEFINE T == {k \in Nat : ~Spined(g[k], k)}
<1> SUFFICES ASSUME T # {} PROVE FALSE
  OBVIOUS
<1>1. PICK x \in T : \A y \in T : x <= y
  <2>1. T \in SUBSET Nat
    OBVIOUS
  <2> HIDE DEF T
  <2> QED BY <2>1, LeastElement
<1>2. Spined(g[0], 0)
  <2>1. g[0] = s
    BY LoopSteps
  <2>2. \A i \in 1 .. Len(s) : Spine(s[i], 0)
    BY SpineOfLeaf
  <2>3. 0 \in 0 .. 0
    OBVIOUS
  <2> QED BY <2>1, <2>2, <2>3 DEF Spined
<1>3. x # 0
  BY <1>1, <1>2
<1>4. x - 1 \in Nat /\ Spined(g[x - 1], x - 1) /\ (x - 1) + 1 = x
  BY <1>1, <1>3
<1>5. g[x] = LevelV2(g[x - 1])
  BY <1>4, LoopSteps DEF Round
<1>7. IsSeq(g[x - 1])
  BY <1>4, LoopLengths
<1>6. Spined(LevelV2(g[x - 1]), (x - 1) + 1)
  BY <1>4, <1>7, LevelSpined
<1> QED BY <1>1, <1>4, <1>5, <1>6

\* The root stays where it is once it is reached.
LEMMA RootStays ==
  ASSUME NEW s, IsSeq(s), Len(s) >= 1, NEW g, IsLoop(g, "second", s), NEW m \in Nat, m >= Len(s)
  PROVE  g[m] = g[Len(s)]
<1> DEFINE n == Len(s)
           T == {k \in Nat : k >= n /\ g[k] # g[n]}
<1>1. n \in Nat
  BY SeqIs
<1>2. T = {}
  <2> SUFFICES ASSUME T # {} PROVE FALSE
    OBVIOUS
  <2>1. PICK x \in T : \A y \in T : x <= y
    <3>1. T \in SUBSET Nat
      OBVIOUS
    <3> HIDE DEF T
    <3> QED BY <3>1, LeastElement
  <2>2. x \in Nat /\ x >= n /\ g[x] # g[n]
    BY <2>1
  <2>3. x # n
    BY <2>2
  <2> HIDE DEF n
  <2>4. x - 1 \in Nat /\ x - 1 >= n /\ (x - 1) + 1 = x /\ x - 1 < x
    BY <1>1, <2>2, <2>3
  <2>5. g[x - 1] = g[n]
    BY <2>1, <2>2, <2>4
  <2>6. g[x] = LevelV2(g[x - 1])
    BY <2>4, LoopSteps DEF Round
  <2>7. IsSeq(g[x - 1]) /\ Len(g[x - 1]) = 1
    <3> DEFINE y == x - 1
    <3>1. y \in Nat /\ y >= Len(s)
      BY <2>4 DEF n
    <3> HIDE DEF y
    <3>2. IsSeq(g[y]) /\ Len(g[y]) = 1
      BY <3>1, LoopEnds
    <3> QED BY <3>2 DEF y
  <2> QED BY <2>2, <2>5, <2>6, <2>7, LevelSeq
<1> QED BY <1>2

\* Two loops that agree at some level agree at the first.
LEMMA LoopDescends ==
  ASSUME NEW s, IsSeq(s), \A i \in 1 .. Len(s) : s[i].kind = "leaf", NEW g, IsLoop(g, "second", s),
         NEW t, IsSeq(t), \A i \in 1 .. Len(t) : t[i].kind = "leaf", NEW h, IsLoop(h, "second", t),
         NEW m \in Nat, g[m] = h[m]
  PROVE  s = t
<1> DEFINE T == {k \in Nat : g[k] = h[k]}
<1>1. PICK x \in T : \A y \in T : x <= y
  <2>1. T \in SUBSET Nat /\ T # {}
    OBVIOUS
  <2> HIDE DEF T
  <2> QED BY <2>1, LeastElement
<1>2. CASE x = 0
  <2>1. g[0] = s /\ h[0] = t
    BY LoopSteps
  <2> QED BY <1>1, <1>2, <2>1
<1>3. CASE x # 0
  <2>1. x - 1 \in Nat /\ g[x - 1] # h[x - 1] /\ (x - 1) + 1 = x
    BY <1>1, <1>3
  <2>2. g[x] = LevelV2(g[x - 1]) /\ h[x] = LevelV2(h[x - 1])
    BY <2>1, LoopSteps DEF Round
  <2>3. IsSeq(g[x - 1]) /\ IsSeq(h[x - 1])
    BY <2>1, LoopLengths
  <2>4. Spined(g[x - 1], x - 1) /\ Spined(h[x - 1], x - 1)
    BY <2>1, LoopSpined
  <2>5. LevelV2(g[x - 1]) = LevelV2(h[x - 1])
    BY <1>1, <2>2
  <2> QED BY <2>1, <2>3, <2>4, <2>5, LevelDetermines
<1> QED BY <1>2, <1>3

\* The root of a batch that is not empty is a leaf or a node.
LEMMA RootV2 ==
  ASSUME NEW s, IsSeq(s), s # <<>>
  PROVE  /\ Len(s) >= 1
         /\ BuildMerkleTreeV2(s) = LoopV2(s)[Len(s)][1]
         /\ (\A i \in 1 .. Len(s) : s[i].kind = "leaf") => BuildMerkleTreeV2(s).kind \in {"leaf", "node"}
<1>1. Len(s) \in Nat /\ Len(s) >= 1
  BY DEF IsSeq
<1>2. BuildMerkleTreeV2(s) = LoopV2(s)[Len(s)][1]
  BY DEF BuildMerkleTreeV2, LoopV2
<1>3. ASSUME \A i \in 1 .. Len(s) : s[i].kind = "leaf" PROVE BuildMerkleTreeV2(s).kind \in {"leaf", "node"}
  <2> DEFINE u == LoopV2(s)[Len(s)]
  <2>1. Len(u) = 1 /\ Spined(u, Len(s))
    BY <1>1, <1>3, SecondLoop, LoopEnds, LoopSpined
  <2>2. PICK h \in 0 .. Len(s) : Spine(u[1], h)
    BY <2>1 DEF Spined
  <2>3. PICK f : /\ f[0].kind = "leaf" /\ f[h] = u[1]
                 /\ \A j \in 0 .. h - 1 : f[j + 1].kind = "node" /\ f[j + 1].left = f[j]
    BY <2>2 DEF Spine
  <2>4. CASE h = 0
    BY <1>2, <2>3, <2>4
  <2>5. CASE h # 0
    <3>1. h - 1 \in 0 .. h - 1 /\ (h - 1) + 1 = h
      BY <1>1, <2>5
    <3> QED BY <1>2, <2>3, <3>1
  <2> QED BY <2>4, <2>5
<1> QED BY <1>1, <1>2, <1>3

\* BuildMerkleTreeV2 is injective: no two batches share a root, whatever the
\* numbers of their leaves.
THEOREM RootDeterminesLeaves ==
  ASSUME NEW H, NEW s \in Seq(H), NEW t \in Seq(H),
         \A i \in 1 .. Len(s) : s[i].kind = "leaf", \A i \in 1 .. Len(t) : t[i].kind = "leaf",
         BuildMerkleTreeV2(s) = BuildMerkleTreeV2(t)
  PROVE  s = t
<1>1. IsSeq(s) /\ IsSeq(t)
  BY DEF IsSeq
<1>2. CASE s = <<>> \/ t = <<>>
  <2>1. BuildMerkleTreeV2(<<>>).kind = "none"
    BY DEF BuildMerkleTreeV2, NoRoot
  <2> QED BY <1>1, <1>2, <2>1, RootV2
<1>3. CASE s # <<>> /\ t # <<>>
  <2> DEFINE g == LoopV2(s)
             h == LoopV2(t)
             m == IF Len(s) >= Len(t) THEN Len(s) ELSE Len(t)
  <2>1. IsLoop(g, "second", s) /\ IsLoop(h, "second", t)
    BY SecondLoop
  <2>2. Len(s) \in Nat /\ Len(t) \in Nat /\ Len(s) >= 1 /\ Len(t) >= 1
    BY <1>3
  <2>3. m \in Nat /\ m >= Len(s) /\ m >= Len(t)
    BY <2>2
  <2>4. g[Len(s)][1] = h[Len(t)][1]
    BY <1>1, <1>3, RootV2
  <2> HIDE DEF g, h, m
  <2>5. g[m] = g[Len(s)] /\ h[m] = h[Len(t)]
    BY <1>1, <2>1, <2>2, <2>3, RootStays
  <2>6. IsSeq(g[m]) /\ Len(g[m]) = 1 /\ IsSeq(h[m]) /\ Len(h[m]) = 1
    BY <1>1, <2>1, <2>2, <2>3, LoopEnds
  <2>7. \A i \in 1 .. 1 : g[m][i] = h[m][i]
    BY <2>4, <2>5
  <2>8. g[m] = h[m]
    BY <2>6, <2>7, SeqEqual
  <2> QED BY <1>1, <2>1, <2>3, <2>8, LoopDescends
<1> QED BY <1>2, <1>3

\* A root of the first scheme is no root of the second.
LEMMA RootV1 ==
  ASSUME NEW s, IsSeq(s), \A i \in 1 .. Len(s) : s[i].kind \in {"v1", "v1node"}
  PROVE  BuildMerkleTree(s).kind \in {"none", "v1", "v1node"}
<1>1. CASE s = <<>>
  BY <1>1 DEF BuildMerkleTree, NoRoot
<1>2. CASE s # <<>>
  <2> DEFINE g == LoopV1(s)
             Firsts(u) == \A i \in 1 .. Len(u) : u[i].kind \in {"v1", "v1node"}
             T == {k \in Nat : ~Firsts(g[k])}
  <2>1. Len(s) \in Nat /\ Len(s) >= 1
    BY <1>2 DEF IsSeq
  <2>2. IsLoop(g, "first", s)
    BY FirstLoop
  <2>3. BuildMerkleTree(s) = g[Len(s)][1]
    BY <1>2 DEF BuildMerkleTree, LoopV1
  <2> HIDE DEF g
  <2>4. T = {}
    <3> SUFFICES ASSUME T # {} PROVE FALSE
      OBVIOUS
    <3>1. PICK x \in T : \A y \in T : x <= y
      <4>1. T \in SUBSET Nat
        OBVIOUS
      <4> HIDE DEF T
      <4> QED BY <4>1, LeastElement
    <3>2. x # 0
      <4>1. g[0] = s
        BY <2>2, LoopSteps
      <4> QED BY <3>1, <4>1
    <3>3. x - 1 \in Nat /\ Firsts(g[x - 1]) /\ (x - 1) + 1 = x
      BY <3>1, <3>2
    <3>4. IsSeq(g[x - 1]) /\ (g[x] = g[x - 1] \/ g[x] = LevelV1(g[x - 1]))
      <4>1. g[x] = Round("first", g[x - 1])
        BY <2>2, <3>3, LoopSteps
      <4>2. IsSeq(g[x - 1])
        BY <2>2, <3>3, LoopLengths
      <4> QED BY <4>1, <4>2 DEF Round
    <3>5. Firsts(LevelV1(g[x - 1]))
      <4> DEFINE u == g[x - 1]
      <4>1. Len(LevelV1(u)) = HalfUp(Len(u))
        BY <3>4, LevelSeq
      <4>2. ASSUME NEW i \in 1 .. HalfUp(Len(u)) PROVE LevelV1(u)[i].kind = "v1node"
        BY DEF LevelV1, CombineHashes
      <4> QED BY <4>1, <4>2
    <3>6. Firsts(g[x])
      BY <3>3, <3>4, <3>5
    <3> QED BY <3>1, <3>6
  <2>5. Len(g[Len(s)]) = 1
    <3> DEFINE n == Len(s)
    <3>1. n \in Nat /\ n >= Len(s)
      BY <2>1
    <3> HIDE DEF n
    <3>2. Len(g[n]) = 1
      BY <2>1, <2>2, <3>1, LoopEnds
    <3> QED BY <3>2 DEF n
  <2>6. Firsts(g[Len(s)])
    BY <2>1, <2>4
  <2> QED BY <2>3, <2>5, <2>6
<1> QED BY <1>1, <1>2

-----------------------------------------------------------------------------
(* The first scheme over hashes that are all different.                    *)

IsV1(s) == \A i \in 1 .. Len(s) : s[i].kind = "v1"
Distinct(s) == \A i, j \in 1 .. Len(s) : s[i] = s[j] => i = j

\* Different nodes have different parents, and the parents tell whether the
\* last of them was alone.
LEMMA DistinctLevel ==
  ASSUME NEW s, IsSeq(s), Distinct(s)
  PROVE  /\ Distinct(LevelV1(s))
         /\ \A i \in 1 .. HalfUp(Len(s)) :
              /\ LevelV1(s)[i].kind = "v1node" /\ LevelV1(s)[i].left = s[2*i - 1]
              /\ 2*i <= Len(s) => LevelV1(s)[i].right = s[2*i] /\ s[2*i] # s[2*i - 1]
              /\ 2*i > Len(s) => LevelV1(s)[i].right = s[2*i - 1]
<1> DEFINE n == Len(s)
           u == LevelV1(s)
<1>1. n \in Nat /\ Len(u) = HalfUp(n) /\ HalfUp(n) \in Nat
  BY SeqIs, LevelSeq, Halves
<1>2. ASSUME NEW i \in 1 .. HalfUp(n)
      PROVE  /\ 2*i - 1 \in 1 .. n
             /\ u[i].kind = "v1node" /\ u[i].left = s[2*i - 1]
             /\ 2*i <= n => u[i].right = s[2*i] /\ s[2*i] # s[2*i - 1]
             /\ 2*i > n => u[i].right = s[2*i - 1]
  <2>1. 2*i - 1 \in 1 .. n /\ (2*i <= n => 2*i \in 1 .. n) /\ 2*i # 2*i - 1 /\ ~(2*i > n /\ 2*i <= n)
    BY <1>1, Halves
  <2>2. u[i] = CombineHashes(s[2*i - 1], IF 2*i <= n THEN s[2*i] ELSE s[2*i - 1])
    BY DEF LevelV1
  <2>3. u[i].kind = "v1node" /\ u[i].left = s[2*i - 1] /\ u[i].right = IF 2*i <= n THEN s[2*i] ELSE s[2*i - 1]
    BY <2>2 DEF CombineHashes
  <2> HIDE DEF u, n
  <2> QED BY <2>1, <2>3 DEF Distinct, n
<1>3. ASSUME NEW i \in 1 .. HalfUp(n), NEW j \in 1 .. HalfUp(n), u[i] = u[j] PROVE i = j
  <2>1. 2*i - 1 \in 1 .. n /\ 2*j - 1 \in 1 .. n /\ s[2*i - 1] = s[2*j - 1]
    BY <1>2, <1>3
  <2>2. 2*i - 1 = 2*j - 1
    BY <2>1 DEF Distinct
  <2> QED BY <1>1, <2>2
<1> HIDE DEF n, u
<1>4. Distinct(u)
  BY <1>1, <1>3 DEF Distinct
<1> QED BY <1>2, <1>4 DEF n, u

\* So such a level determines the level below.
LEMMA DistinctDetermines ==
  ASSUME NEW s, NEW t, IsSeq(s), IsSeq(t), Distinct(s), Distinct(t), LevelV1(s) = LevelV1(t)
  PROVE  s = t
<1>1. Len(s) \in Nat /\ Len(t) \in Nat /\ HalfUp(Len(s)) = HalfUp(Len(t)) /\ HalfUp(Len(s)) \in Nat
  <2>1. Len(LevelV1(s)) = HalfUp(Len(s)) /\ Len(LevelV1(t)) = HalfUp(Len(t))
    BY LevelSeq
  <2> QED BY <2>1, SeqIs, Halves
<1>2. ASSUME NEW i \in 1 .. HalfUp(Len(s))
      PROVE  /\ s[2*i - 1] = t[2*i - 1]
             /\ 2*i <= Len(s) <=> 2*i <= Len(t)
             /\ 2*i <= Len(s) => s[2*i] = t[2*i]
  <2> DEFINE a == LevelV1(s)[i]
             x == 2*i <= Len(s)
             y == 2*i <= Len(t)
  <2>1. a.left = s[2*i - 1] /\ (x => a.right = s[2*i] /\ s[2*i] # s[2*i - 1]) /\ (~x => a.right = s[2*i - 1])
    <3>1. ~x => 2*i > Len(s)
      BY <1>1
    <3> QED BY <3>1, DistinctLevel
  <2>2. a.left = t[2*i - 1] /\ (y => a.right = t[2*i] /\ t[2*i] # t[2*i - 1]) /\ (~y => a.right = t[2*i - 1])
    <3>1. ~y => 2*i > Len(t)
      BY <1>1
    <3>2. i \in 1 .. HalfUp(Len(t)) /\ a = LevelV1(t)[i]
      BY <1>1
    <3> HIDE DEF a
    <3> QED BY <3>1, <3>2, DistinctLevel
  <2> HIDE DEF a, x, y
  <2>3. s[2*i - 1] = t[2*i - 1] /\ (x <=> y) /\ (x => s[2*i] = t[2*i])
    BY <2>1, <2>2
  <2> QED BY <2>3 DEF x, y
<1>3. Len(s) = Len(t)
  <2>1. ASSUME NEW a \in Nat, NEW b \in Nat, HalfUp(a) = HalfUp(b),
               \A i \in 1 .. HalfUp(a) : 2*i <= a <=> 2*i <= b
        PROVE  a = b
    <3>1. CASE HalfUp(a) = 0
      BY <2>1, <3>1 DEF HalfUp
    <3>2. CASE HalfUp(a) # 0
      <4>1. HalfUp(a) \in 1 .. HalfUp(a)
        BY <3>2 DEF HalfUp
      <4>2. 2*HalfUp(a) <= a <=> 2*HalfUp(a) <= b
        BY <2>1, <4>1
      <4> QED BY <2>1, <4>2 DEF HalfUp
    <3> QED BY <3>1, <3>2
  <2> QED BY <1>1, <1>2, <2>1
<1>4. ASSUME NEW j \in 1 .. Len(s) PROVE s[j] = t[j]
  <2>1. HalfUp(j) \in 1 .. HalfUp(Len(s)) /\ (j = 2*HalfUp(j) - 1 \/ (j = 2*HalfUp(j) /\ 2*HalfUp(j) <= Len(s)))
    BY <1>1, Halves
  <2> QED BY <1>2, <2>1
<1> QED BY <1>3, <1>4, SeqEqual

\* In every round the nodes are different; after the first they are no leaves.
LEMMA LoopDistinct ==
  ASSUME NEW s, IsSeq(s), Distinct(s), NEW g, IsLoop(g, "first", s)
  PROVE  \A k \in Nat : IsSeq(g[k]) /\ Distinct(g[k])
<1> DEFINE T == {k \in Nat : ~Distinct(g[k])}
<1>1. \A k \in Nat : IsSeq(g[k])
  BY LoopLengths
<1>2. T = {}
  <2> SUFFICES ASSUME T # {} PROVE FALSE
    OBVIOUS
  <2>1. PICK x \in T : \A y \in T : x <= y
    <3>1. T \in SUBSET Nat
      OBVIOUS
    <3> HIDE DEF T
    <3> QED BY <3>1, LeastElement
  <2>2. x # 0
    BY <2>1, LoopSteps
  <2>3. x - 1 \in Nat /\ Distinct(g[x - 1]) /\ (x - 1) + 1 = x
    BY <2>1, <2>2
  <2>4. g[x] = g[x - 1] \/ g[x] = LevelV1(g[x - 1])
    BY <2>3, LoopSteps DEF Round
  <2>5. Distinct(LevelV1(g[x - 1]))
    BY <1>1, <2>3, DistinctLevel
  <2> QED BY <2>1, <2>3, <2>4, <2>5
<1> QED BY <1>1, <1>2

\* The levels up to m are levels of a tree, not the root again.
Rising(g, m) == \A k \in Nat : k < m => g[k + 1] = LevelV1(g[k])

\* The first round that leaves one node: every later one keeps it.
LEMMA FirstRoot ==
  ASSUME NEW s, IsSeq(s), Len(s) >= 1, NEW g, IsLoop(g, "first", s)
  PROVE  \E h \in Nat : Len(g[h]) = 1 /\ g[h] = g[Len(s)] /\ Rising(g, h)
<1> DEFINE T == {k \in Nat : Len(g[k]) = 1}
           n == Len(s)
<1>1. n \in Nat /\ n >= Len(s)
  BY SeqIs
<1> HIDE DEF n
<1>2. n \in T
  BY <1>1, LoopEnds
<1>3. PICK h \in T : \A y \in T : h <= y
  <2>1. T \in SUBSET Nat /\ T # {}
    BY <1>2
  <2> HIDE DEF T
  <2> QED BY <2>1, LeastElement
<1>4. ASSUME NEW k \in Nat, k < h PROVE g[k + 1] = LevelV1(g[k])
  <2>1. Len(g[k]) # 1
    BY <1>3, <1>4
  <2>2. g[k + 1] = Round("first", g[k])
    BY <1>4, LoopSteps
  <2> QED BY <2>1, <2>2 DEF Round
<1>5. g[n] = g[h]
  <2> DEFINE U == {k \in Nat : k >= h /\ g[k] # g[h]}
  <2> HIDE DEF T
  <2>1. ASSUME U # {} PROVE FALSE
    <3>1. PICK x \in U : \A y \in U : x <= y
      <4>1. U \in SUBSET Nat
        OBVIOUS
      <4> HIDE DEF U
      <4> QED BY <2>1, <4>1, LeastElement
    <3>2. h \in Nat /\ x \in Nat /\ x > h
      <4>1. h \in Nat
        BY <1>3 DEF T
      <4> QED BY <3>1, <4>1
    <3>3. x - 1 \in Nat /\ x - 1 >= h /\ x - 1 < x /\ (x - 1) + 1 = x
      BY <3>2
    <3>4. g[x - 1] = g[h]
      BY <3>1, <3>3
    <3>5. Len(g[x - 1]) = 1
      BY <1>3, <3>4 DEF T
    <3>6. g[x] = g[x - 1]
      <4>1. g[x] = Round("first", g[x - 1])
        BY <3>3, LoopSteps
      <4> QED BY <3>5, <4>1 DEF Round
    <3> QED BY <3>1, <3>4, <3>6
  <2>2. n >= h
    <3>1. h \in Nat
      BY <1>3 DEF T
    <3> QED BY <1>1, <1>2, <1>3, <3>1
  <2> QED BY <1>1, <2>1, <2>2
<1> QED BY <1>3, <1>4, <1>5 DEF n, Rising

\* Two lists with one root of the first scheme have the same levels, seen from
\* the root; the shorter tree cannot end where the other has nodes.
LEMMA SameLevels ==
  ASSUME NEW s, IsSeq(s), Distinct(s), Len(s) >= 1, IsV1(s),
         NEW g, IsLoop(g, "first", s), NEW m \in Nat, Rising(g, m),
         NEW t, IsSeq(t), Distinct(t), Len(t) >= 1,
         NEW f, IsLoop(f, "first", t), NEW d \in Nat, Rising(f, m + d),
         g[m] = f[m + d]
  PROVE  d = 0 /\ s = t
<1> DEFINE T == {k \in Nat : k <= m /\ g[k] = f[k + d]}
<1>1. PICK x \in T : \A y \in T : x <= y
  <2>1. T \in SUBSET Nat /\ m \in T
    OBVIOUS
  <2> HIDE DEF T
  <2> QED BY <2>1, LeastElement
<1>2. x = 0
  <2> SUFFICES ASSUME x # 0 PROVE FALSE
    OBVIOUS
  <2>1. x \in Nat /\ x <= m /\ g[x] = f[x + d]
    BY <1>1
  <2>2. x - 1 \in Nat /\ x - 1 < m /\ (x - 1) + 1 = x /\ x - 1 < x
    BY <2>1
  <2>3. (x - 1) + d \in Nat /\ (x - 1) + d < m + d /\ ((x - 1) + d) + 1 = x + d
    BY <2>1, <2>2
  <2>4. g[x] = LevelV1(g[x - 1]) /\ f[x + d] = LevelV1(f[(x - 1) + d])
    BY <2>2, <2>3 DEF Rising
  <2>5. IsSeq(g[x - 1]) /\ Distinct(g[x - 1]) /\ IsSeq(f[(x - 1) + d]) /\ Distinct(f[(x - 1) + d])
    BY <2>2, <2>3, LoopDistinct
  <2>6. g[x - 1] = f[(x - 1) + d]
    BY <2>1, <2>4, <2>5, DistinctDetermines
  <2>7. x - 1 \in T
    BY <2>2, <2>6
  <2> HIDE DEF T
  <2> QED BY <1>1, <2>1, <2>2, <2>7
<1>3. s = f[d]
  <2>1. g[0] = f[0 + d] /\ 0 + d = d /\ g[0] = s
    BY <1>1, <1>2, LoopSteps
  <2> QED BY <2>1
<1>4. d = 0
  <2> SUFFICES ASSUME d # 0 PROVE FALSE
    OBVIOUS
  <2>1. d - 1 \in Nat /\ d - 1 < m + d /\ (d - 1) + 1 = d
    OBVIOUS
  <2>2. f[d] = LevelV1(f[d - 1]) /\ IsSeq(f[d - 1]) /\ Distinct(f[d - 1])
    BY <2>1, LoopDistinct DEF Rising
  <2>3. Len(s) = HalfUp(Len(f[d - 1])) /\ 1 \in 1 .. Len(s)
    <3>1. Len(s) \in Nat
      BY SeqIs
    <3>2. Len(LevelV1(f[d - 1])) = HalfUp(Len(f[d - 1]))
      BY <2>2, LevelSeq
    <3> QED BY <1>3, <2>2, <3>1, <3>2
  <2>4. s[1].kind = "v1node"
    BY <1>3, <2>2, <2>3, DistinctLevel
  <2> QED BY <2>3, <2>4 DEF IsV1
<1>5. f[0] = t
  BY LoopSteps
<1> QED BY <1>3, <1>4, <1>5

\* BuildMerkleTree is injective on lists that repeat no hash; FirstSchemeDuplicates
\* shows that it is not on others.
THEOREM FirstRootDetermines ==
  ASSUME NEW s, IsSeq(s), s # <<>>, Distinct(s), IsV1(s),
         NEW t, IsSeq(t), t # <<>>, Distinct(t), IsV1(t),
         BuildMerkleTree(s) = BuildMerkleTree(t)
  PROVE  s = t
<1> DEFINE g == LoopV1(s)
           f == LoopV1(t)
<1>1. IsLoop(g, "first", s) /\ IsLoop(f, "first", t)
  BY FirstLoop
<1>2. Len(s) \in Nat /\ Len(s) >= 1 /\ Len(t) \in Nat /\ Len(t) >= 1
  BY DEF IsSeq
<1>3. BuildMerkleTree(s) = g[Len(s)][1] /\ BuildMerkleTree(t) = f[Len(t)][1]
  BY DEF BuildMerkleTree, LoopV1
<1> HIDE DEF g, f
<1>4. PICK m \in Nat : Len(g[m]) = 1 /\ g[m] = g[Len(s)] /\ Rising(g, m)
  BY <1>1, <1>2, FirstRoot
<1>5. PICK n \in Nat : Len(f[n]) = 1 /\ f[n] = f[Len(t)] /\ Rising(f, n)
  BY <1>1, <1>2, FirstRoot
<1>6. g[m] = f[n]
  <2>1. IsSeq(g[m]) /\ IsSeq(f[n]) /\ g[m][1] = f[n][1]
    BY <1>1, <1>3, <1>4, <1>5, LoopLengths
  <2>2. \A i \in 1 .. Len(g[m]) : g[m][i] = f[n][i]
    BY <1>4, <2>1
  <2> QED BY <1>4, <1>5, <2>1, <2>2, SeqEqual
<1>7. CASE m <= n
  <2>1. PICK d \in Nat : n = m + d
    <3>1. n - m \in Nat /\ n = m + (n - m)
      BY <1>7
    <3> QED BY <3>1
  <2>2. g[m] = f[m + d] /\ Rising(f, m + d)
    BY <1>5, <1>6, <2>1
  <2> QED BY <1>1, <1>2, <1>4, <2>2, SameLevels
<1>8. CASE n <= m
  <2>1. PICK d \in Nat : m = n + d
    <3>1. m - n \in Nat /\ m = n + (m - n)
      BY <1>8
    <3> QED BY <3>1
  <2>2. f[n] = g[n + d] /\ Rising(g, n + d)
    BY <1>4, <1>6, <2>1
  <2> QED BY <1>1, <1>2, <1>5, <2>2, SameLevels
<1> QED BY <1>7, <1>8

-----------------------------------------------------------------------------
(* What a root says of the records.                                        *)

\* The leaf of the second scheme keeps its fields apart (calculateHashV2).
LEMMA LeafInjective ==
  ASSUME NEW r, NEW q, calculateHashV2(r) = calculateHashV2(q)
  PROVE  /\ r.id = q.id /\ r.timestamp = q.timestamp /\ r.source = q.source
         /\ canonicalPayload(r) = canonicalPayload(q)
BY DEF calculateHashV2

Leaves(records) == [i \in DOMAIN records |-> hashForVersion(records[i], batchHashVersion(records))]

LEMMA LeavesSeq ==
  ASSUME NEW records, IsSeq(records)
  PROVE  IsSeq(Leaves(records)) /\ Len(Leaves(records)) = Len(records)
<1>1. Len(records) \in Nat /\ DOMAIN records = 1 .. Len(records)
  BY SeqIs
<1>2. Leaves(records) = [i \in 1 .. Len(records) |-> Leaves(records)[i]]
  BY <1>1 DEF Leaves
<1> QED BY <1>1, <1>2, SequenceOf

\* A root of the second scheme commits to every hashed field of every record of
\* the batch, to their number and to their order: what makes VALID against the
\* ledger mean unchanged, for batches of any size (CalculateRecordMerkleRoot).
THEOREM RootCommitsToRecords ==
  ASSUME NEW D, NEW r \in Seq(D), NEW q \in Seq(D), batchHashVersion(r) >= 2,
         CalculateRecordMerkleRoot(r) = CalculateRecordMerkleRoot(q)
  PROVE  /\ Len(r) = Len(q)
         /\ \A i \in DOMAIN r : /\ r[i].id = q[i].id /\ r[i].timestamp = q[i].timestamp
                                /\ r[i].source = q[i].source
                                /\ canonicalPayload(r[i]) = canonicalPayload(q[i])
<1>1. IsSeq(r) /\ IsSeq(q) /\ DOMAIN r = 1 .. Len(r) /\ DOMAIN q = 1 .. Len(q) /\ Len(r) \in Nat
  BY DEF IsSeq
<1>2. /\ IsSeq(Leaves(r)) /\ Len(Leaves(r)) = Len(r)
      /\ IsSeq(Leaves(q)) /\ Len(Leaves(q)) = Len(q)
  BY <1>1, LeavesSeq
<1>3. CalculateRecordMerkleRoot(r) = BuildMerkleTreeV2(Leaves(r))
  BY DEF CalculateRecordMerkleRoot, Leaves
<1>4. \A i \in 1 .. Len(r) : Leaves(r)[i] = calculateHashV2(r[i])
  BY <1>1 DEF Leaves, hashForVersion
<1>5. \A i \in 1 .. Len(Leaves(r)) : Leaves(r)[i].kind = "leaf"
  <2>1. \A d : calculateHashV2(d).kind = "leaf"
    BY DEF calculateHashV2
  <2> QED BY <1>2, <1>4, <2>1
<1>6. r # <<>>
  BY DEF batchHashVersion
<1>7. BuildMerkleTreeV2(Leaves(r)).kind \in {"leaf", "node"}
  <2>1. Leaves(r) # <<>>
    BY <1>2, <1>6
  <2> QED BY <1>2, <1>5, <2>1, RootV2
<1>8. CASE batchHashVersion(q) >= 2
  <2>1. CalculateRecordMerkleRoot(q) = BuildMerkleTreeV2(Leaves(q))
    BY <1>8 DEF CalculateRecordMerkleRoot, Leaves
  <2>2. \A i \in 1 .. Len(q) : Leaves(q)[i] = calculateHashV2(q[i])
    BY <1>1, <1>8 DEF Leaves, hashForVersion
  <2>3. \A i \in 1 .. Len(Leaves(q)) : Leaves(q)[i].kind = "leaf"
    <3>1. \A d : calculateHashV2(d).kind = "leaf"
      BY DEF calculateHashV2
    <3> QED BY <1>2, <2>2, <3>1
  <2>4. Leaves(r) = Leaves(q)
    <3>1. PICK S, T : Leaves(r) \in Seq(S) /\ Leaves(q) \in Seq(T)
      BY <1>2 DEF IsSeq
    <3>2. Leaves(r) \in Seq(S \cup T) /\ Leaves(q) \in Seq(S \cup T)
      BY <3>1
    <3> QED BY <1>3, <1>5, <2>1, <2>3, <3>2, RootDeterminesLeaves
  <2>5. Len(r) = Len(q)
    BY <1>2, <2>4
  <2>6. \A i \in 1 .. Len(r) : calculateHashV2(r[i]) = calculateHashV2(q[i])
    BY <1>4, <2>2, <2>4, <2>5
  <2> QED BY <1>1, <2>5, <2>6, LeafInjective
<1>9. CASE ~(batchHashVersion(q) >= 2)
  <2>1. CalculateRecordMerkleRoot(q) = BuildMerkleTree(Leaves(q))
    BY <1>9 DEF CalculateRecordMerkleRoot, Leaves
  <2>2. \A i \in 1 .. Len(q) : Leaves(q)[i] = calculateHashV1(q[i])
    BY <1>1, <1>9 DEF Leaves, hashForVersion
  <2>3. \A i \in 1 .. Len(Leaves(q)) : Leaves(q)[i].kind \in {"v1", "v1node"}
    <3>1. \A d : calculateHashV1(d).kind = "v1"
      BY DEF calculateHashV1
    <3> QED BY <1>2, <2>2, <3>1
  <2>4. BuildMerkleTree(Leaves(q)).kind \in {"none", "v1", "v1node"}
    BY <1>2, <2>3, RootV1
  <2> QED BY <1>3, <1>7, <2>1, <2>4
<1> QED BY <1>8, <1>9

V1Hashes(records) == [i \in DOMAIN records |-> calculateHashV1(records[i])]

LEMMA V1HashesSeq ==
  ASSUME NEW records, IsSeq(records)
  PROVE  /\ IsSeq(V1Hashes(records)) /\ Len(V1Hashes(records)) = Len(records) /\ IsV1(V1Hashes(records))
         /\ ~(batchHashVersion(records) >= 2) => CalculateRecordMerkleRoot(records) = BuildMerkleTree(V1Hashes(records))
<1>1. Len(records) \in Nat /\ DOMAIN records = 1 .. Len(records)
  BY SeqIs
<1>2. V1Hashes(records) = [i \in 1 .. Len(records) |-> V1Hashes(records)[i]]
  BY <1>1 DEF V1Hashes
<1>3. IsSeq(V1Hashes(records)) /\ Len(V1Hashes(records)) = Len(records)
  BY <1>1, <1>2, SequenceOf
<1>4. \A d : calculateHashV1(d).kind = "v1"
  BY DEF calculateHashV1
<1>5. IsV1(V1Hashes(records))
  BY <1>1, <1>3, <1>4 DEF IsV1, V1Hashes
<1>6. ASSUME ~(batchHashVersion(records) >= 2) PROVE CalculateRecordMerkleRoot(records) = BuildMerkleTree(V1Hashes(records))
  <2>1. V1Hashes(records) = [i \in DOMAIN records |-> hashForVersion(records[i], batchHashVersion(records))]
    BY <1>6 DEF V1Hashes, hashForVersion
  <2> QED BY <1>6, <2>1 DEF CalculateRecordMerkleRoot
<1> QED BY <1>3, <1>5, <1>6

\* A root of the first scheme commits to the number of records and to their
\* hashes as long as no hash occurs twice in a batch (CalculateRecordMerkleRoot).
THEOREM FirstSchemeCommits ==
  ASSUME NEW r, IsSeq(r), r # <<>>, ~(batchHashVersion(r) >= 2), Distinct(V1Hashes(r)),
         NEW q, IsSeq(q), q # <<>>, Distinct(V1Hashes(q)),
         CalculateRecordMerkleRoot(r) = CalculateRecordMerkleRoot(q)
  PROVE  Len(r) = Len(q) /\ \A i \in DOMAIN r : calculateHashV1(r[i]) = calculateHashV1(q[i])
<1>1. /\ IsSeq(V1Hashes(r)) /\ Len(V1Hashes(r)) = Len(r) /\ IsV1(V1Hashes(r))
      /\ IsSeq(V1Hashes(q)) /\ Len(V1Hashes(q)) = Len(q) /\ IsV1(V1Hashes(q))
      /\ CalculateRecordMerkleRoot(r) = BuildMerkleTree(V1Hashes(r))
      /\ ~(batchHashVersion(q) >= 2) => CalculateRecordMerkleRoot(q) = BuildMerkleTree(V1Hashes(q))
  BY V1HashesSeq
<1>2. DOMAIN r = 1 .. Len(r) /\ DOMAIN q = 1 .. Len(q) /\ Len(r) \in Nat /\ Len(q) \in Nat
  BY SeqIs
<1>3. CASE ~(batchHashVersion(q) >= 2)
  <2>1. Len(r) # 0 /\ Len(q) # 0
    BY DEF IsSeq
  <2>2. V1Hashes(r) # <<>> /\ V1Hashes(q) # <<>>
    BY <1>1, <2>1
  <2>3. V1Hashes(r) = V1Hashes(q)
    BY <1>1, <1>3, <2>2, FirstRootDetermines
  <2>4. Len(r) = Len(q)
    BY <1>1, <2>3
  <2>5. ASSUME NEW i \in DOMAIN r PROVE calculateHashV1(r[i]) = calculateHashV1(q[i])
    <3>1. i \in DOMAIN q
      BY <1>2, <2>4
    <3>2. V1Hashes(r)[i] = calculateHashV1(r[i]) /\ V1Hashes(q)[i] = calculateHashV1(q[i])
      BY <3>1 DEF V1Hashes
    <3> QED BY <2>3, <3>2
  <2> QED BY <2>4, <2>5
<1>4. CASE batchHashVersion(q) >= 2
  <2>1. PICK S, T : r \in Seq(S) /\ q \in Seq(T)
    BY DEF IsSeq
  <2>2. r \in Seq(S \cup T) /\ q \in Seq(S \cup T)
    BY <2>1
  <2>3. /\ Len(q) = Len(r)
        /\ \A i \in DOMAIN q : /\ q[i].id = r[i].id /\ q[i].timestamp = r[i].timestamp
                                /\ q[i].source = r[i].source
                                /\ canonicalPayload(q[i]) = canonicalPayload(r[i])
    BY <1>4, <2>2, RootCommitsToRecords
  <2> QED BY <1>2, <2>3 DEF calculateHashV1
<1> QED BY <1>3, <1>4
=============================================================================
