-------------------------- MODULE MerkleTreeProofs --------------------------
(***************************************************************************)
(* The commitment tree, for every depth of the tree, every size of the     *)
(* ring of roots and every hash function.  Two things are proved: which of *)
(* the roots there have been the ring still holds, where what the hashes   *)
(* are plays no part; and that hashing one path per insertion gives the    *)
(* root of the tree of all the leaves.                                     *)
(***************************************************************************)
EXTENDS MerkleTreeWithHistory, FiniteSetTheorems, WellFoundedInduction, TLAPS

----------------------------------------------------------------------------
(***************************************************************************)
(* Powers of two.                                                          *)
(***************************************************************************)

(* Induction over the natural numbers, for a set of them: the least number   *)
(* outside it would have a predecessor inside it.                            *)
LEMMA SetInduction ==
  ASSUME NEW S, 0 \in S, \A n \in Nat : n \in S => n + 1 \in S
  PROVE  \A n \in Nat : n \in S
<1> DEFINE T == Nat \ S
           R == OpToRel(<, Nat)
<1>1. IsWellFoundedOn(R, Nat)
      BY NatLessThanWellFounded
<1>2. \A x, y \in Nat : x < y => <<x, y>> \in R
      BY DEF OpToRel
<1>3. SUFFICES ASSUME T # {} PROVE FALSE
      OBVIOUS
<1> HIDE DEF R
<1>4. PICK x \in T : \A y \in T : ~(<<y, x>> \in R)
  <2>1. T \subseteq Nat OBVIOUS
  <2> HIDE DEF T
  <2> QED BY <1>1, <1>3, <2>1, WFMin
<1>5. x # 0 /\ x - 1 \in Nat /\ x - 1 < x
      OBVIOUS
<1>6. x - 1 \in S
      BY <1>2, <1>4, <1>5
<1>7. x - 1 + 1 \in S
      BY <1>5, <1>6
<1> QED  BY <1>7

\* A power of two, as an operator of its own.
Pow(k) == 2 ^ k

(* 2^k counts the subsets of a set of k elements.  The library says so,      *)
(* and says of the power nothing else: what follows is drawn from it.        *)
LEMMA PowerOfTwo ==
  ASSUME NEW k \in Nat
  PROVE  /\ IsFiniteSet(1 .. k) /\ Cardinality(1 .. k) = k
         /\ IsFiniteSet(SUBSET (1 .. k)) /\ Cardinality(SUBSET (1 .. k)) = Pow(k)
         /\ Pow(k) \in Nat
<1>1. IsFiniteSet(1 .. k) /\ Cardinality(1 .. k) = k
      BY FS_Interval
<1>2. IsFiniteSet(SUBSET (1 .. k)) /\ Cardinality(SUBSET (1 .. k)) = 2 ^ k
      BY <1>1, FS_SUBSET
<1>3. Cardinality(SUBSET (1 .. k)) \in Nat
      BY <1>2, FS_CardinalityType
<1> QED  BY <1>1, <1>2, <1>3 DEF Pow

(* A set of one more element has twice as many subsets: those without the    *)
(* new element, and each of them with it.                                    *)
LEMMA PowerDoubles ==
  ASSUME NEW k \in Nat
  PROVE  Pow(k + 1) = 2 * Pow(k)
<1> DEFINE A == SUBSET (1 .. k)
           x == k + 1
           B == {S \cup {x} : S \in A}
<1>1. x \notin 1 .. k /\ 1 .. k + 1 = 1 .. k \cup {x}
      OBVIOUS
<1>2. SUBSET (1 .. k + 1) = A \cup B
  <2>1. ASSUME NEW S \in SUBSET (1 .. k + 1)
        PROVE  S \in A \cup B
    <3>1. CASE x \in S
      <4>1. S \ {x} \in A /\ S = (S \ {x}) \cup {x}
            BY <1>1, <3>1
      <4> QED  BY <4>1
    <3>2. CASE x \notin S
          BY <1>1, <3>2
    <3> QED  BY <3>1, <3>2
  <2>2. A \cup B \subseteq SUBSET (1 .. k + 1)
        BY <1>1
  <2> QED  BY <2>1, <2>2
<1>3. A \cap B = {}
      BY <1>1
<1>4. IsFiniteSet(A) /\ Cardinality(A) = Pow(k) /\ Pow(k) \in Nat
      BY PowerOfTwo
<1>5. IsFiniteSet(B) /\ Cardinality(B) = Cardinality(A)
  <2> DEFINE f == [S \in A |-> S \cup {x}]
  <2>1. f \in Bijection(A, B)
    <3>1. f \in [A -> B]
          OBVIOUS
    <3>2. \A S, T \in A : f[S] = f[T] => S = T
      <4> SUFFICES ASSUME NEW S \in A, NEW T \in A, S \cup {x} = T \cup {x} PROVE S = T
            OBVIOUS
      <4>1. x \notin S /\ x \notin T
            BY <1>1
      <4> QED  BY <4>1
    <3>3. \A T \in B : \E S \in A : f[S] = T
          OBVIOUS
    <3> QED  BY <3>1, <3>2, <3>3 DEF Bijection, Injection, Surjection, IsInjective
  <2>2. ExistsBijection(A, B)
        BY <2>1 DEF ExistsBijection
  <2> HIDE DEF A, B
  <2> QED  BY <1>4, <2>2, FS_Bijection
<1>6. Cardinality(A \cup B) = Cardinality(A) + Cardinality(B) - Cardinality(A \cap B)
  <2> HIDE DEF A, B
  <2> QED  BY <1>4, <1>5, FS_Union
<1>7. Cardinality({}) = 0
      BY FS_EmptySet
<1> HIDE DEF A, B
<1>8. Cardinality(SUBSET (1 .. k + 1)) = Pow(k + 1)
  <2> HIDE DEF x
  <2>1. k + 1 \in Nat
        OBVIOUS
  <2> QED  BY <2>1, PowerOfTwo
<1>9. Cardinality(A \cup B) = Pow(k) + Pow(k)
      BY <1>3, <1>4, <1>5, <1>6, <1>7
<1>10. Pow(k + 1) = Pow(k) + Pow(k)
       BY <1>2, <1>8, <1>9, Zenon
<1> QED  BY <1>4, <1>10

(* 2^0 = 1.                                                                  *)
LEMMA PowerOfNone == Pow(0) = 1
<1>1. 1 .. 0 = {} /\ SUBSET {} = {{}}
      OBVIOUS
<1>2. Cardinality({{}}) = 1
      BY FS_Singleton
<1>3. Cardinality(SUBSET (1 .. 0)) = Pow(0)
      BY PowerOfTwo
<1> QED  BY <1>1, <1>2, <1>3

(* A power of two is a positive natural number.                              *)
LEMMA PowerPositive == \A k \in Nat : Pow(k) \in Nat /\ Pow(k) > 0
<1> DEFINE S == {k \in Nat : Pow(k) \in Nat /\ Pow(k) > 0}
<1>1. 0 \in S
      BY PowerOfNone
<1>2. ASSUME NEW k \in Nat, k \in S
      PROVE  k + 1 \in S
      BY <1>2, PowerDoubles
<1>3. \A k \in Nat : k \in S
  <2> HIDE DEF S
  <2> QED  BY <1>1, <1>2, SetInduction
<1> QED  BY <1>3

----------------------------------------------------------------------------
(***************************************************************************)
(* The recursive functions of the model, one level at a time.  Each is a   *)
(* CHOOSE of a function that satisfies its definition, so what its values  *)
(* are rests on a proof that there is one: it is built level by level.     *)
(***************************************************************************)

\* The hash of an empty subtree.
Zero(lvl) == Zeroes[lvl]
\* All the leaves there is room for, the absent ones included.
Row == [i \in 0 .. Capacity - 1 |-> LeafAt(i)]
\* A node of the tree of these leaves.
Node(row, lvl, i) == TreeOf(row)[lvl][i]
\* How many nodes a level has.
Wide(lvl) == Pow(Levels - lvl)
\* The hash on the path of the next pair on entering a level.
PathAt(leaf_1, leaf_2, lvl) == PathHash(leaf_1, leaf_2)[lvl]

(* The tree has at least one level above its leaves.                         *)
LEMMA LevelsType == Levels \in Nat /\ Levels >= 1
BY LevelsAssumption

(* The recursive function Zeroes exists, and its value at a level is the     *)
(* one its definition gives it.                                              *)
LEMMA ZeroStep ==
  /\ Zero(0) = ZeroLeaf
  /\ \A lvl \in 1 .. Levels : Zero(lvl) = Hash(Zero(lvl - 1), Zero(lvl - 1))
<1> DEFINE Next1(f, lvl) == Hash(f[lvl - 1], f[lvl - 1])
           Body(f, m) == [lvl \in 0 .. m |-> IF lvl = 0 THEN ZeroLeaf ELSE Next1(f, lvl)]
           S == {m \in Nat : \E f : f = Body(f, m)}
<1>1. 0 \in S
  <2>1. [lvl \in 0 .. 0 |-> ZeroLeaf] = Body([lvl \in 0 .. 0 |-> ZeroLeaf], 0)
        OBVIOUS
  <2> QED  BY <2>1
<1>2. ASSUME NEW m \in Nat, m \in S
      PROVE  m + 1 \in S
  <2>1. PICK f : f = Body(f, m)
        BY <1>2
  <2> DEFINE g == [lvl \in 0 .. m + 1 |-> IF lvl = m + 1 THEN Next1(f, lvl) ELSE f[lvl]]
  <2>2. \A lvl \in 0 .. m + 1 : lvl # 0 => lvl - 1 \in 0 .. m + 1 /\ g[lvl - 1] = f[lvl - 1]
        OBVIOUS
  <2>3. \A lvl \in 0 .. m + 1 : lvl # 0 => Next1(g, lvl) = Next1(f, lvl)
        BY <2>2
  <2>4. \A lvl \in 0 .. m : f[lvl] = IF lvl = 0 THEN ZeroLeaf ELSE Next1(f, lvl)
        BY <2>1
  <2>5. \A lvl \in 0 .. m + 1 : g[lvl] = IF lvl = 0 THEN ZeroLeaf ELSE Next1(f, lvl)
        BY <2>4
  <2> HIDE DEF Next1
  <2>6. \A lvl \in 0 .. m + 1 : g[lvl] = IF lvl = 0 THEN ZeroLeaf ELSE Next1(g, lvl)
        BY <2>3, <2>5
  <2>7. g = Body(g, m + 1)
        BY <2>6
  <2> HIDE DEF g, Body
  <2> QED  BY <2>7
<1>3. \E f : f = Body(f, Levels)
  <2>1. \A m \in Nat : m \in S
    <3> HIDE DEF S
    <3> QED  BY <1>1, <1>2, SetInduction
  <2> QED  BY <2>1, LevelsType
<1>4. Zeroes = CHOOSE f : f = Body(f, Levels)
      BY DEF Zeroes
<1>5. Zeroes = Body(Zeroes, Levels)
  <2> HIDE DEF Body
  <2> QED  BY <1>3, <1>4
<1>6. \A lvl \in 0 .. Levels : Zeroes[lvl] = IF lvl = 0 THEN ZeroLeaf ELSE Next1(Zeroes, lvl)
      BY <1>5
<1> HIDE DEF Next1, Body
<1>7. 0 \in 0 .. Levels /\ \A lvl \in 1 .. Levels : lvl \in 0 .. Levels /\ lvl # 0
      BY LevelsType
<1>8. Zeroes[0] = ZeroLeaf /\ \A lvl \in 1 .. Levels : Zeroes[lvl] = Next1(Zeroes, lvl)
      BY <1>6, <1>7
<1> QED  BY <1>8 DEF Zero, Next1

(* The same for the levels of the tree of a row of leaves.                   *)
LEMMA NodeStep ==
  ASSUME NEW row
  PROVE  /\ \A i : Node(row, 0, i) = row[i]
         /\ \A lvl \in 1 .. Levels : \A i \in 0 .. Wide(lvl) - 1 :
              Node(row, lvl, i) = Hash(Node(row, lvl - 1, 2 * i), Node(row, lvl - 1, 2 * i + 1))
<1> DEFINE Next1(f, lvl) == [i \in 0 .. 2 ^ (Levels - lvl) - 1 |->
                               Hash(f[lvl - 1][2 * i], f[lvl - 1][2 * i + 1])]
           Body(f, m) == [lvl \in 0 .. m |-> IF lvl = 0 THEN row ELSE Next1(f, lvl)]
           S == {m \in Nat : \E f : f = Body(f, m)}
<1>1. 0 \in S
  <2>1. [lvl \in 0 .. 0 |-> row] = Body([lvl \in 0 .. 0 |-> row], 0)
        OBVIOUS
  <2> QED  BY <2>1
<1>2. ASSUME NEW m \in Nat, m \in S
      PROVE  m + 1 \in S
  <2>1. PICK f : f = Body(f, m)
        BY <1>2
  <2> DEFINE g == [lvl \in 0 .. m + 1 |-> IF lvl = m + 1 THEN Next1(f, lvl) ELSE f[lvl]]
  <2>2. \A lvl \in 0 .. m + 1 : lvl # 0 => lvl - 1 \in 0 .. m + 1 /\ g[lvl - 1] = f[lvl - 1]
        OBVIOUS
  <2>3. \A lvl \in 0 .. m + 1 : lvl # 0 => Next1(g, lvl) = Next1(f, lvl)
        BY <2>2
  <2> HIDE DEF Next1
  <2>4. \A lvl \in 0 .. m : f[lvl] = IF lvl = 0 THEN row ELSE Next1(f, lvl)
        BY <2>1
  <2>5. \A lvl \in 0 .. m + 1 : g[lvl] = IF lvl = 0 THEN row ELSE Next1(f, lvl)
        BY <2>4
  <2>6. \A lvl \in 0 .. m + 1 : g[lvl] = IF lvl = 0 THEN row ELSE Next1(g, lvl)
        BY <2>3, <2>5
  <2>7. g = Body(g, m + 1)
        BY <2>6
  <2> HIDE DEF g, Body
  <2> QED  BY <2>7
<1>3. \E f : f = Body(f, Levels)
  <2>1. \A m \in Nat : m \in S
    <3> HIDE DEF S
    <3> QED  BY <1>1, <1>2, SetInduction
  <2> QED  BY <2>1, LevelsType
<1> DEFINE t == TreeOf(row)
<1>4. t = CHOOSE f : f = Body(f, Levels)
      BY DEF TreeOf
<1>5. t = Body(t, Levels)
  <2> HIDE DEF Body, t
  <2> QED  BY <1>3, <1>4
<1> HIDE DEF t
<1>6. \A lvl \in 0 .. Levels : t[lvl] = IF lvl = 0 THEN row ELSE Next1(t, lvl)
  <2> HIDE DEF Next1
  <2> QED  BY <1>5
<1>7. 0 \in 0 .. Levels /\ \A lvl \in 1 .. Levels : lvl \in 0 .. Levels /\ lvl # 0
      BY LevelsType
<1> HIDE DEF Body
<1>8. t[0] = row /\ \A lvl \in 1 .. Levels : t[lvl] = Next1(t, lvl)
  <2> HIDE DEF Next1
  <2> QED  BY <1>6, <1>7
<1>9. ASSUME NEW lvl \in 1 .. Levels, NEW i \in 0 .. Wide(lvl) - 1
      PROVE  t[lvl][i] = Hash(t[lvl - 1][2 * i], t[lvl - 1][2 * i + 1])
  <2>1. t[lvl] = Next1(t, lvl)
        BY <1>8
  <2> QED  BY <2>1 DEF Wide, Pow
<1>10. \A i : Node(row, 0, i) = row[i]
       BY <1>8 DEF Node, t
<1> QED  BY <1>9, <1>10 DEF Node, t

(* The same for the hashes along the path of the next pair.                  *)
LEMMA PathStep ==
  ASSUME NEW leaf_1, NEW leaf_2
  PROVE  /\ PathAt(leaf_1, leaf_2, 1) = Hash(leaf_1, leaf_2)
         /\ \A lvl \in 1 .. Levels - 1 :
              PathAt(leaf_1, leaf_2, lvl + 1) =
                IF IsRight(lvl) THEN Hash(filled[lvl], PathAt(leaf_1, leaf_2, lvl))
                ELSE Hash(PathAt(leaf_1, leaf_2, lvl), Zero(lvl))
<1> DEFINE Next1(f, lvl) == IF IsRight(lvl - 1) THEN Hash(filled[lvl - 1], f[lvl - 1])
                            ELSE Hash(f[lvl - 1], Zeroes[lvl - 1])
           first == Hash(leaf_1, leaf_2)
           Body(f, m) == [lvl \in 1 .. m |-> IF lvl = 1 THEN first ELSE Next1(f, lvl)]
           S == {m \in Nat : \E f : f = Body(f, m)}
<1>1. 0 \in S
  <2>1. [lvl \in 1 .. 0 |-> first] = Body([lvl \in 1 .. 0 |-> first], 0)
        OBVIOUS
  <2> QED  BY <2>1
<1>2. ASSUME NEW m \in Nat, m \in S
      PROVE  m + 1 \in S
  <2>1. PICK f : f = Body(f, m)
        BY <1>2
  <2> DEFINE g == [lvl \in 1 .. m + 1 |-> IF lvl = m + 1
                                          THEN IF lvl = 1 THEN first ELSE Next1(f, lvl)
                                          ELSE f[lvl]]
  <2>2. \A lvl \in 1 .. m + 1 : lvl # 1 => lvl - 1 \in 1 .. m + 1 /\ g[lvl - 1] = f[lvl - 1]
    <3> HIDE DEF Next1, first
    <3> QED  OBVIOUS
  <2> HIDE DEF g
  <2>3. \A lvl \in 1 .. m + 1 : lvl # 1 => Next1(g, lvl) = Next1(f, lvl)
        BY <2>2
  <2> HIDE DEF Next1, first
  <2>4. \A lvl \in 1 .. m : f[lvl] = IF lvl = 1 THEN first ELSE Next1(f, lvl)
        BY <2>1
  <2>5. \A lvl \in 1 .. m + 1 : g[lvl] = IF lvl = 1 THEN first ELSE Next1(f, lvl)
        BY <2>4 DEF g
  <2>6. \A lvl \in 1 .. m + 1 : g[lvl] = IF lvl = 1 THEN first ELSE Next1(g, lvl)
        BY <2>3, <2>5
  <2>7. g = Body(g, m + 1)
        BY <2>6 DEF g
  <2> HIDE DEF Body
  <2> QED  BY <2>7
<1>3. \E f : f = Body(f, Levels)
  <2>1. \A m \in Nat : m \in S
    <3> HIDE DEF S
    <3> QED  BY <1>1, <1>2, SetInduction
  <2> QED  BY <2>1, LevelsType
<1> DEFINE t == PathHash(leaf_1, leaf_2)
<1>4. t = CHOOSE f : f = Body(f, Levels)
      BY DEF PathHash
<1>5. t = Body(t, Levels)
  <2> HIDE DEF Body, t
  <2> QED  BY <1>3, <1>4
<1> HIDE DEF t
<1>6. \A lvl \in 1 .. Levels : t[lvl] = IF lvl = 1 THEN first ELSE Next1(t, lvl)
  <2> HIDE DEF Next1, first
  <2> QED  BY <1>5
<1> HIDE DEF Body
<1>7. t[1] = first
      BY <1>6, LevelsType
<1>8. ASSUME NEW lvl \in 1 .. Levels - 1
      PROVE  t[lvl + 1] = IF IsRight(lvl) THEN Hash(filled[lvl], t[lvl])
                          ELSE Hash(t[lvl], Zeroes[lvl])
  <2>1. lvl + 1 \in 1 .. Levels /\ lvl + 1 # 1 /\ lvl + 1 - 1 = lvl
        BY LevelsType
  <2>2. t[lvl + 1] = Next1(t, lvl + 1)
    <3> HIDE DEF Next1, first
    <3> QED  BY <1>6, <2>1
  <2> QED  BY <2>1, <2>2
<1> QED  BY <1>7, <1>8 DEF PathAt, t, Zero

----------------------------------------------------------------------------
(***************************************************************************)
(* Where the nodes of the tree are.                                        *)
(***************************************************************************)

\* The index of leaf n's ancestor at a level.
At(n, lvl) == n \div Pow(lvl)

(* Halving a quotient is dividing by twice the divisor.                      *)
LEMMA Halves ==
  ASSUME NEW n \in Nat, NEW m \in Nat \ {0}
  PROVE  n \div (2 * m) = (n \div m) \div 2
<1> DEFINE p == n \div m
           q == p \div 2
<1>1. p \in Nat /\ p * m <= n /\ n < p * m + m
  BY SMTT(60)
<1> HIDE DEF p
<1>2. q \in Nat /\ (p = 2 * q \/ p = 2 * q + 1)
  BY <1>1
<1> HIDE DEF q
<1> DEFINE w == 2 * m
<1>3. q * w <= n /\ n < q * w + w
  <2>1. CASE p = 2 * q
    BY <1>1, <1>2, <2>1, SMTT(60)
  <2>2. CASE p = 2 * q + 1
    BY <1>1, <1>2, <2>2, SMTT(60)
  <2> QED  BY <1>2, <2>1, <2>2
<1>4. w \in Nat /\ w > 0
  OBVIOUS
<1> HIDE DEF w
<1>5. n \div w = q
  BY <1>2, <1>3, <1>4, SMTT(60)
<1> QED  BY <1>5 DEF w, q, p

(* A node's parent is at half its index.                                     *)
LEMMA AtStep ==
  ASSUME NEW n \in Nat
  PROVE  /\ At(n, 0) = n
         /\ \A lvl \in Nat : At(n, lvl) \in Nat /\ At(n, lvl + 1) = At(n, lvl) \div 2
<1>1. At(n, 0) = n
      BY PowerOfNone DEF At
<1>2. ASSUME NEW lvl \in Nat
      PROVE  At(n, lvl) \in Nat /\ At(n, lvl + 1) = At(n, lvl) \div 2
  <2> DEFINE m == Pow(lvl)
  <2>1. m \in Nat \ {0}
        BY PowerPositive
  <2>2. Pow(lvl + 1) = 2 * m
        BY PowerDoubles
  <2> HIDE DEF m
  <2>3. n \div (2 * m) = (n \div m) \div 2
        BY <2>1, Halves
  <2>4. n \div m \in Nat
        BY <2>1, SMTT(60)
  <2> QED  BY <2>2, <2>3, <2>4 DEF At, m
<1> QED  BY <1>1, <1>2

(* The leaves of a pair have the same ancestors, and the next pair's are     *)
(* the same nodes or the ones beside them.                                   *)
LEMMA AtOfPair ==
  ASSUME NEW n \in Nat, n % 2 = 0
  PROVE  \A lvl \in Nat :
           /\ At(n + 1, lvl + 1) = At(n, lvl + 1)
           /\ At(n + 2, lvl + 1) \in {At(n, lvl + 1), At(n, lvl + 1) + 1}
<1> DEFINE S == {lvl \in Nat : /\ At(n + 1, lvl + 1) = At(n, lvl + 1)
                               /\ At(n + 2, lvl + 1) \in {At(n, lvl + 1), At(n, lvl + 1) + 1}}
<1>1. n + 1 \in Nat /\ n + 2 \in Nat
      OBVIOUS
<1>2. 0 \in S
  <2>1. At(n, 1) = n \div 2 /\ At(n + 1, 1) = (n + 1) \div 2 /\ At(n + 2, 1) = (n + 2) \div 2
    <3>1. \A k \in Nat : At(k, 0 + 1) = At(k, 0) \div 2 /\ At(k, 0) = k
          BY AtStep
    <3> QED  BY <1>1, <3>1
  <2>2. (n + 1) \div 2 = n \div 2 /\ (n + 2) \div 2 = n \div 2 + 1
        OBVIOUS
  <2> QED  BY <2>1, <2>2
<1>3. ASSUME NEW lvl \in Nat, lvl \in S
      PROVE  lvl + 1 \in S
  <2> DEFINE l == lvl + 1
  <2>1. l \in Nat
        OBVIOUS
  <2> HIDE DEF l
  <2>2. \A k \in Nat : At(k, l) \in Nat /\ At(k, l + 1) = At(k, l) \div 2
        BY <2>1, AtStep
  <2>3. /\ At(n, l + 1) = At(n, l) \div 2 /\ At(n + 1, l + 1) = At(n + 1, l) \div 2
        /\ At(n + 2, l + 1) = At(n + 2, l) \div 2 /\ At(n, l) \in Nat
        BY <1>1, <2>2
  <2>4. At(n + 1, l) = At(n, l) /\ At(n + 2, l) \in {At(n, l), At(n, l) + 1}
        BY <1>3 DEF l
  <2> DEFINE p == At(n, l)
  <2>5. p \div 2 \in Nat /\ (p + 1) \div 2 \in {p \div 2, p \div 2 + 1}
    <3> HIDE DEF p
    <3>1. p \in Nat
          BY <2>3 DEF p
    <3> QED  BY <3>1
  <2> HIDE DEF p
  <2>6. /\ At(n + 1, l + 1) = At(n, l + 1)
        /\ At(n + 2, l + 1) \in {At(n, l + 1), At(n, l + 1) + 1}
        BY <2>3, <2>4, <2>5 DEF p
  <2> QED  BY <2>1, <2>6 DEF l
<1>4. \A lvl \in Nat : lvl \in S
  <2> HIDE DEF S
  <2> QED  BY <1>2, <1>3, SetInduction
<1> QED  BY <1>4

(* How many nodes the levels have: as many as there is room for leaves at    *)
(* the bottom, one at the top, half as many at each level as at the one      *)
(* below.                                                                    *)
LEMMA WideStep ==
  /\ Wide(0) = Capacity /\ Wide(Levels) = 1 /\ Capacity \in Nat
  /\ \A lvl \in 0 .. Levels : Wide(lvl) \in Nat /\ Wide(lvl) > 0
  /\ \A lvl \in 1 .. Levels : Wide(lvl - 1) = 2 * Wide(lvl)
<1>1. \A lvl \in 0 .. Levels : Levels - lvl \in Nat
      BY LevelsType
<1>2. Wide(0) = Capacity /\ Wide(Levels) = 1 /\ Capacity \in Nat
  <2>1. Levels - 0 = Levels /\ Levels - Levels = 0 /\ Levels \in Nat
        BY LevelsType
  <2>2. Pow(Levels - 0) = Pow(Levels) /\ Pow(Levels - Levels) = Pow(0)
        BY <2>1
  <2> QED  BY <2>1, <2>2, PowerOfNone, PowerPositive DEF Wide, Capacity, Pow
<1>3. \A lvl \in 0 .. Levels : Wide(lvl) \in Nat /\ Wide(lvl) > 0
      BY <1>1, PowerPositive DEF Wide
<1>4. ASSUME NEW lvl \in 1 .. Levels
      PROVE  Wide(lvl - 1) = 2 * Wide(lvl)
  <2> DEFINE k == Levels - lvl
  <2>1. k \in Nat /\ Levels - (lvl - 1) = k + 1
        BY LevelsType
  <2>2. Wide(lvl - 1) = Pow(k + 1)
        BY <2>1 DEF Wide
  <2> HIDE DEF k
  <2> QED  BY <2>1, <2>2, PowerDoubles DEF Wide, k
<1> QED  BY <1>2, <1>3, <1>4

(* A leaf's ancestors are nodes of the tree, and the topmost is the root.    *)
LEMMA AtInTree ==
  ASSUME NEW n \in Nat, n < Capacity
  PROVE  /\ \A lvl \in 0 .. Levels : At(n, lvl) \in 0 .. Wide(lvl) - 1
         /\ At(n, Levels) = 0
<1> DEFINE S == {lvl \in Nat : lvl <= Levels => At(n, lvl) < Wide(lvl)}
<1>1. 0 \in S
      BY AtStep, WideStep
<1>2. ASSUME NEW lvl \in Nat, lvl \in S
      PROVE  lvl + 1 \in S
  <2> SUFFICES ASSUME lvl + 1 <= Levels PROVE At(n, lvl + 1) < Wide(lvl + 1)
      OBVIOUS
  <2>1. lvl + 1 \in 1 .. Levels /\ lvl + 1 - 1 = lvl /\ lvl \in 0 .. Levels /\ lvl + 1 \in 0 .. Levels
        BY LevelsType
  <2>2. Wide(lvl) = 2 * Wide(lvl + 1) /\ Wide(lvl + 1) \in Nat
        BY <2>1, WideStep
  <2>3. At(n, lvl) \in Nat /\ At(n, lvl + 1) = At(n, lvl) \div 2
        BY AtStep
  <2>4. At(n, lvl) < Wide(lvl)
        BY <1>2, <2>1
  <2> QED  BY <2>2, <2>3, <2>4
<1>3. \A lvl \in Nat : lvl \in S
  <2> HIDE DEF S
  <2> QED  BY <1>1, <1>2, SetInduction
<1>4. ASSUME NEW lvl \in 0 .. Levels
      PROVE  At(n, lvl) \in 0 .. Wide(lvl) - 1
  <2>1. lvl \in Nat /\ lvl <= Levels /\ At(n, lvl) < Wide(lvl)
        BY <1>3, LevelsType
  <2>2. At(n, lvl) \in Nat /\ Wide(lvl) \in Nat
        BY <2>1, AtStep, WideStep
  <2> QED  BY <2>1, <2>2
<1>5. At(n, Levels) = 0
  <2>1. At(n, Levels) \in 0 .. Wide(Levels) - 1
        BY <1>4, LevelsType
  <2> QED  BY <2>1, WideStep
<1> QED  BY <1>4, <1>5

(* A node's children are nodes of the level below.                           *)
LEMMA Children ==
  ASSUME NEW lvl \in 1 .. Levels, NEW i \in 0 .. Wide(lvl) - 1
  PROVE  /\ lvl - 1 \in 0 .. Levels
         /\ 2 * i \in 0 .. Wide(lvl - 1) - 1 /\ 2 * i + 1 \in 0 .. Wide(lvl - 1) - 1
<1>1. lvl - 1 \in 0 .. Levels /\ lvl \in 0 .. Levels
      BY LevelsType
<1>2. Wide(lvl - 1) = 2 * Wide(lvl) /\ Wide(lvl) \in Nat
      BY <1>1, WideStep
<1> QED  BY <1>1, <1>2

----------------------------------------------------------------------------
(***************************************************************************)
(* What the nodes of the tree are.                                         *)
(***************************************************************************)

(* Right of the last leaf's ancestors every subtree is empty.                *)
LEMMA NodesBeyond ==
  ASSUME NEW row, NEW k \in Nat,
         \A i \in 0 .. Capacity - 1 : i > k => row[i] = ZeroLeaf
  PROVE  \A lvl \in 0 .. Levels : \A i \in 0 .. Wide(lvl) - 1 :
           i > At(k, lvl) => Node(row, lvl, i) = Zero(lvl)
<1> DEFINE S == {lvl \in Nat : lvl <= Levels => \A i \in 0 .. Wide(lvl) - 1 :
                                  i > At(k, lvl) => Node(row, lvl, i) = Zero(lvl)}
<1>1. 0 \in S
      BY AtStep, WideStep, NodeStep, ZeroStep
<1>2. ASSUME NEW m \in Nat, m \in S
      PROVE  m + 1 \in S
  <2> DEFINE lvl == m + 1
  <2> SUFFICES ASSUME lvl <= Levels, NEW i \in 0 .. Wide(lvl) - 1, i > At(k, lvl)
               PROVE  Node(row, lvl, i) = Zero(lvl)
      OBVIOUS
  <2>1. lvl \in 1 .. Levels /\ lvl - 1 = m /\ m <= Levels
        BY LevelsType
  <2>2. At(k, m) \in Nat /\ At(k, lvl) = At(k, m) \div 2
        BY AtStep
  <2>3. \A j \in 0 .. Wide(m) - 1 : j > At(k, m) => Node(row, m, j) = Zero(m)
        BY <1>2, <2>1
  <2> HIDE DEF lvl
  <2>4. 2 * i \in 0 .. Wide(m) - 1 /\ 2 * i + 1 \in 0 .. Wide(m) - 1 /\ i \in Nat
        BY <2>1, Children
  <2>5. 2 * i > At(k, m) /\ 2 * i + 1 > At(k, m)
        BY <2>2, <2>4
  <2>6. Node(row, m, 2 * i) = Zero(m) /\ Node(row, m, 2 * i + 1) = Zero(m)
        BY <2>3, <2>4, <2>5
  <2>7. Node(row, lvl, i) = Hash(Node(row, lvl - 1, 2 * i), Node(row, lvl - 1, 2 * i + 1))
        BY <2>1, NodeStep
  <2>8. Zero(lvl) = Hash(Zero(lvl - 1), Zero(lvl - 1))
        BY <2>1, ZeroStep
  <2> QED  BY <2>1, <2>6, <2>7, <2>8
<1>3. \A m \in Nat : m \in S
  <2> HIDE DEF S
  <2> QED  BY <1>1, <1>2, SetInduction
<1> QED  BY <1>3, LevelsType

(* In a tree without leaves every subtree is empty.                          *)
LEMMA NodesOfNone ==
  ASSUME NEW row, \A i \in 0 .. Capacity - 1 : row[i] = ZeroLeaf
  PROVE  \A lvl \in 0 .. Levels : \A i \in 0 .. Wide(lvl) - 1 : Node(row, lvl, i) = Zero(lvl)
<1> DEFINE S == {lvl \in Nat : lvl <= Levels => \A i \in 0 .. Wide(lvl) - 1 :
                                  Node(row, lvl, i) = Zero(lvl)}
<1>1. 0 \in S
      BY WideStep, NodeStep, ZeroStep
<1>2. ASSUME NEW m \in Nat, m \in S
      PROVE  m + 1 \in S
  <2> DEFINE lvl == m + 1
  <2> SUFFICES ASSUME lvl <= Levels, NEW i \in 0 .. Wide(lvl) - 1
               PROVE  Node(row, lvl, i) = Zero(lvl)
      OBVIOUS
  <2>1. lvl \in 1 .. Levels /\ lvl - 1 = m /\ m <= Levels
        BY LevelsType
  <2>2. \A j \in 0 .. Wide(m) - 1 : Node(row, m, j) = Zero(m)
        BY <1>2, <2>1
  <2> HIDE DEF lvl
  <2>3. 2 * i \in 0 .. Wide(m) - 1 /\ 2 * i + 1 \in 0 .. Wide(m) - 1
        BY <2>1, Children
  <2>4. Node(row, m, 2 * i) = Zero(m) /\ Node(row, m, 2 * i + 1) = Zero(m)
        BY <2>2, <2>3
  <2>5. Node(row, lvl, i) = Hash(Node(row, lvl - 1, 2 * i), Node(row, lvl - 1, 2 * i + 1))
        BY <2>1, NodeStep
  <2>6. Zero(lvl) = Hash(Zero(lvl - 1), Zero(lvl - 1))
        BY <2>1, ZeroStep
  <2> QED  BY <2>1, <2>4, <2>5, <2>6
<1>3. \A m \in Nat : m \in S
  <2> HIDE DEF S
  <2> QED  BY <1>1, <1>2, SetInduction
<1> QED  BY <1>3, LevelsType

(* Adding a pair changes no node but the pair's ancestors.                   *)
LEMMA NodesElsewhere ==
  ASSUME NEW row, NEW row2, NEW n \in Nat, n % 2 = 0,
         \A i \in 0 .. Capacity - 1 : i # n /\ i # n + 1 => row2[i] = row[i]
  PROVE  \A lvl \in 1 .. Levels : \A i \in 0 .. Wide(lvl) - 1 :
           i # At(n, lvl) => Node(row2, lvl, i) = Node(row, lvl, i)
<1> DEFINE S == {l \in Nat : l + 1 <= Levels => \A i \in 0 .. Wide(l + 1) - 1 :
                     i # At(n, l + 1) => Node(row2, l + 1, i) = Node(row, l + 1, i)}
<1>1. 0 \in S
  <2> SUFFICES ASSUME NEW i \in 0 .. Wide(1) - 1, i # At(n, 1)
               PROVE  Node(row2, 1, i) = Node(row, 1, i)
      OBVIOUS
  <2>1. 1 \in 1 .. Levels
        BY LevelsType
  <2>2. /\ 2 * i \in 0 .. Wide(1 - 1) - 1 /\ 2 * i + 1 \in 0 .. Wide(1 - 1) - 1 /\ i \in Nat
        BY <2>1, Children
  <2>3. At(n, 0 + 1) = At(n, 0) \div 2 /\ At(n, 0) = n
        BY AtStep
  <2>4. 2 * i # n /\ 2 * i # n + 1 /\ 2 * i + 1 # n /\ 2 * i + 1 # n + 1
        BY <2>2, <2>3
  <2>5. row2[2 * i] = row[2 * i] /\ row2[2 * i + 1] = row[2 * i + 1]
        BY <2>2, <2>4, WideStep
  <2>6. \A j : Node(row2, 0, j) = row2[j] /\ Node(row, 0, j) = row[j]
        BY NodeStep
  <2>7. /\ Node(row2, 1, i) = Hash(Node(row2, 1 - 1, 2 * i), Node(row2, 1 - 1, 2 * i + 1))
        /\ Node(row, 1, i) = Hash(Node(row, 1 - 1, 2 * i), Node(row, 1 - 1, 2 * i + 1))
        BY <2>1, NodeStep
  <2> QED  BY <2>5, <2>6, <2>7
<1>2. ASSUME NEW m \in Nat, m \in S
      PROVE  m + 1 \in S
  <2> DEFINE l == m + 1
             lvl == l + 1
  <2> SUFFICES ASSUME lvl <= Levels, NEW i \in 0 .. Wide(lvl) - 1, i # At(n, lvl)
               PROVE  Node(row2, lvl, i) = Node(row, lvl, i)
      OBVIOUS
  <2>1. lvl \in 1 .. Levels /\ lvl - 1 = l /\ l <= Levels /\ l \in Nat
        BY LevelsType
  <2>2. \A j \in 0 .. Wide(l) - 1 : j # At(n, l) => Node(row2, l, j) = Node(row, l, j)
        BY <1>2, <2>1
  <2> HIDE DEF l
  <2>3. At(n, l) \in Nat /\ At(n, lvl) = At(n, l) \div 2
        BY <2>1, AtStep
  <2> HIDE DEF lvl
  <2>4. 2 * i \in 0 .. Wide(l) - 1 /\ 2 * i + 1 \in 0 .. Wide(l) - 1 /\ i \in Nat
        BY <2>1, Children
  <2>5. 2 * i # At(n, l) /\ 2 * i + 1 # At(n, l)
        BY <2>3, <2>4
  <2>6. /\ Node(row2, l, 2 * i) = Node(row, l, 2 * i)
        /\ Node(row2, l, 2 * i + 1) = Node(row, l, 2 * i + 1)
        BY <2>2, <2>4, <2>5
  <2>7. /\ Node(row2, lvl, i) = Hash(Node(row2, lvl - 1, 2 * i), Node(row2, lvl - 1, 2 * i + 1))
        /\ Node(row, lvl, i) = Hash(Node(row, lvl - 1, 2 * i), Node(row, lvl - 1, 2 * i + 1))
        BY <2>1, NodeStep
  <2> QED  BY <2>1, <2>6, <2>7
<1>3. \A m \in Nat : m \in S
  <2> HIDE DEF S
  <2> QED  BY <1>1, <1>2, SetInduction
<1>4. ASSUME NEW lvl \in 1 .. Levels
      PROVE  \A i \in 0 .. Wide(lvl) - 1 : i # At(n, lvl) => Node(row2, lvl, i) = Node(row, lvl, i)
  <2> DEFINE m == lvl - 1
  <2>1. m \in Nat /\ m + 1 = lvl /\ lvl <= Levels
        BY LevelsType
  <2>2. m \in S
        BY <1>3, <2>1
  <2> HIDE DEF m
  <2> QED  BY <2>1, <2>2
<1> QED  BY <1>4

----------------------------------------------------------------------------
(***************************************************************************)
(* The inductive invariant.  Going backwards round the ring from the       *)
(* current slot, one meets the roots from the newest to the oldest; a slot *)
(* is empty only if the tree has not had that many roots yet.              *)
(***************************************************************************)

\* How many insertions ago the root in a slot was the current one, when the
\* current one is in the slot current.
Age(slot, current) == IF slot <= current
                      THEN current - slot
                      ELSE current - slot + RootHistorySize

Slots == 0 .. RootHistorySize - 1

RingInOrder ==
    /\ DOMAIN ring = {slot \in Slots : Age(slot, currentRootIndex) <= Insertions}
    /\ \A slot \in DOMAIN ring : ring[slot] = roots[Insertions - Age(slot, currentRootIndex)]

IInv == TypeOK /\ RingInOrder

(* The tree has room for a natural number of leaves.                        *)
LEMMA CapacityType == Capacity \in Nat
BY WideStep

(* The next slot is the following one, or the first after the last.          *)
LEMMA NextSlot ==
    ASSUME currentRootIndex \in Slots
    PROVE  /\ NextRootIndex \in Slots
           /\ NextRootIndex = IF currentRootIndex + 1 = RootHistorySize
                              THEN 0 ELSE currentRootIndex + 1
BY RootHistorySizeAssumption DEF Slots, NextRootIndex

(* A pair of leaves makes one more insertion.                                *)
LEMMA OneMoreInsertion ==
    ASSUME NEW n \in Nat
    PROVE  (n + 2) \div 2 = n \div 2 + 1 /\ n \div 2 \in Nat
OBVIOUS

(* An insertion ages every root by one and puts the new one in the slot of   *)
(* the oldest.                                                               *)
LEMMA RootsAge ==
    ASSUME currentRootIndex \in Slots
    PROVE  /\ Age(NextRootIndex, NextRootIndex) = 0
           /\ \A slot \in Slots : slot # NextRootIndex =>
                 /\ Age(slot, NextRootIndex) = Age(slot, currentRootIndex) + 1
                 /\ Age(slot, currentRootIndex) \in Nat
BY NextSlot, RootHistorySizeAssumption DEF Slots, Age

----------------------------------------------------------------------------
(* The invariant holds in every reachable state.                             *)
THEOREM RingInvariant == Spec => []IInv
<1>1. Init => IInv
  <2> SUFFICES ASSUME Init
               PROVE  IInv
      OBVIOUS
  <2>1. Insertions = 0
        BY DEF Init, Insertions
  <2>2. TypeOK
        BY <2>1, CapacityType, RootHistorySizeAssumption DEF Init, TypeOK, Zeroes
  <2>3. {slot \in Slots : Age(slot, currentRootIndex) <= Insertions} = {0}
        BY <2>1, RootHistorySizeAssumption DEF Init, Slots, Age
  <2>4. RingInOrder
        BY <2>1, <2>3 DEF Init, RingInOrder, Age
  <2> QED  BY <2>2, <2>4 DEF IInv
<1>2. IInv /\ [Next]_vars => IInv'
  <2> SUFFICES ASSUME IInv, [Next]_vars
               PROVE  IInv'
      OBVIOUS
  <2>1. ASSUME NEW leaf_1, NEW leaf_2, InsertTwoLeaves(leaf_1, leaf_2)
        PROVE  IInv'
    <3> DEFINE root == PathHash(leaf_1, leaf_2)[Levels]
               next == NextRootIndex
    <3>1. nextIndex \in Nat /\ nextIndex % 2 = 0 /\ currentRootIndex \in Slots
          BY CapacityType DEF IInv, TypeOK, Slots
    <3>2. /\ nextIndex' = nextIndex + 2
          /\ nextIndex + 2 <= Capacity
          /\ DOMAIN filled' = 0 .. Levels
          /\ DOMAIN leaves' = 0 .. nextIndex + 1
          /\ PushRoot(root)
          BY <2>1 DEF InsertTwoLeaves, HasRoom
    <3>3. Insertions' = Insertions + 1 /\ Insertions \in Nat
          BY <3>1, <3>2, OneMoreInsertion DEF Insertions
    <3> HIDE DEF root
    <3>4. /\ currentRootIndex' = next
          /\ DOMAIN ring' = DOMAIN ring \cup {next}
          /\ \A slot \in DOMAIN ring' :
                ring'[slot] = IF slot = next THEN root ELSE ring[slot]
          /\ DOMAIN roots' = 0 .. Insertions + 1
          /\ \A n \in 0 .. Insertions : roots'[n] = roots[n]
          /\ roots'[Insertions + 1] = root
          BY <3>2, <3>3 DEF PushRoot
    <3>5. next \in Slots
          BY <3>1, NextSlot
    <3>6. TypeOK'
      <4>1. nextIndex' \in 0 .. Capacity /\ nextIndex' % 2 = 0
            BY <3>1, <3>2, CapacityType
      <4>2. DOMAIN leaves' = 0 .. nextIndex' - 1
            BY <3>1, <3>2
      <4>3. DOMAIN ring' \subseteq Slots
            BY <3>4, <3>5 DEF IInv, TypeOK, Slots
      <4> QED  BY <3>2, <3>3, <3>4, <3>5, <4>1, <4>2, <4>3 DEF TypeOK, Slots
    <3>7. /\ Age(next, currentRootIndex') = 0
          /\ \A slot \in Slots : slot # next =>
                Age(slot, currentRootIndex') = Age(slot, currentRootIndex) + 1 /\ Age(slot, currentRootIndex) \in Nat
          BY <3>1, <3>4, RootsAge
    <3> HIDE DEF next
    <3>8. DOMAIN ring' = {slot \in Slots : Age(slot, currentRootIndex') <= Insertions'}
          BY <3>3, <3>4, <3>5, <3>7 DEF IInv, RingInOrder
    <3>9. ASSUME NEW slot \in DOMAIN ring'
          PROVE  ring'[slot] = roots'[Insertions' - Age(slot, currentRootIndex')]
      <4>1. CASE slot = next
            BY <3>3, <3>4, <3>7, <4>1
      <4>2. CASE slot # next
        <5>1. /\ slot \in Slots
              /\ slot \in DOMAIN ring
              /\ Age(slot, currentRootIndex) <= Insertions
              /\ ring[slot] = roots[Insertions - Age(slot, currentRootIndex)]
              BY <3>4, <4>2 DEF IInv, RingInOrder
        <5>2. Age(slot, currentRootIndex') = Age(slot, currentRootIndex) + 1 /\ Age(slot, currentRootIndex) \in Nat
              BY <3>7, <4>2, <5>1
        <5>3. /\ Insertions' - Age(slot, currentRootIndex') = Insertions - Age(slot, currentRootIndex)
              /\ Insertions - Age(slot, currentRootIndex) \in 0 .. Insertions
              BY <3>3, <5>1, <5>2
        <5> QED  BY <3>4, <4>2, <5>1, <5>3
      <4> QED  BY <4>1, <4>2
    <3> QED  BY <3>6, <3>8, <3>9 DEF IInv, RingInOrder, Slots
  <2>2. CASE UNCHANGED vars
        BY <2>2 DEF IInv, TypeOK, RingInOrder, Age, Insertions, Slots, vars, treeVars,
                    ringVars
  <2> QED  BY <2>1, <2>2 DEF Next
<1> QED  BY <1>1, <1>2, PTL DEF Spec

(* The tree never holds more leaves than it has room for, nor half a pair,   *)
(* and every hash and root that a later call reads has been stored.          *)
THEOREM TreeTypeCorrect == Spec => []TypeOK
<1>1. IInv => TypeOK
      BY DEF IInv
<1> QED  BY <1>1, RingInvariant, PTL

(* is_known_root recognises exactly the roots of the window: the ring is     *)
(* what Pool's RootWindow says it is, however often it has wrapped.          *)
THEOREM RingIsWindow == Spec => []RingHoldsWindow
<1>1. IInv => RingHoldsWindow
  <2> SUFFICES ASSUME IInv
               PROVE  RingHoldsWindow
      OBVIOUS
  <2> DEFINE inRing   == {ring[slot] : slot \in DOMAIN ring}
             inWindow == {roots[n] : n \in KnownRoots(Insertions)}
  <2>1. Insertions \in Nat /\ currentRootIndex \in Slots
        BY CapacityType, OneMoreInsertion DEF IInv, TypeOK, Slots, Insertions
  <2>2. ASSUME NEW slot \in DOMAIN ring
        PROVE  ring[slot] \in inWindow
    <3>1. /\ slot \in Slots
          /\ Age(slot, currentRootIndex) <= Insertions
          /\ ring[slot] = roots[Insertions - Age(slot, currentRootIndex)]
          BY DEF IInv, RingInOrder
    <3>2. Age(slot, currentRootIndex) \in 0 .. RootHistorySize - 1
          BY <2>1, <3>1, RootHistorySizeAssumption DEF Age, Slots
    <3>3. Insertions - Age(slot, currentRootIndex) \in KnownRoots(Insertions)
          BY <2>1, <3>1, <3>2, RootHistorySizeAssumption DEF KnownRoots
    <3> QED  BY <3>1, <3>3
  <2>3. ASSUME NEW n \in KnownRoots(Insertions)
        PROVE  roots[n] \in inRing
    <3> DEFINE age  == Insertions - n
               slot == IF age <= currentRootIndex
                       THEN currentRootIndex - age
                       ELSE currentRootIndex - age + RootHistorySize
    <3>1. n \in 0 .. Insertions /\ age \in Slots /\ age <= Insertions
          BY <2>1, RootHistorySizeAssumption DEF KnownRoots, Slots
    <3>2. slot \in Slots /\ Age(slot, currentRootIndex) = age
          BY <2>1, <3>1, RootHistorySizeAssumption DEF Age, Slots
    <3>3. slot \in DOMAIN ring /\ ring[slot] = roots[Insertions - age]
          BY <3>1, <3>2 DEF IInv, RingInOrder
    <3>4. Insertions - age = n
          BY <2>1, <3>1
    <3> QED  BY <3>3, <3>4
  <2>4. inRing = inWindow
        BY <2>2, <2>3
  <2> QED  BY <2>4 DEF RingHoldsWindow, Recognised
<1> QED  BY <1>1, RingInvariant, PTL

----------------------------------------------------------------------------
(***************************************************************************)
(* The root.  An insertion can only rehash one path because of what the    *)
(* earlier ones left behind: the inductive invariant says that the hash    *)
(* saved at a level is that of the left sibling the path will meet there.  *)
(***************************************************************************)

\* Wherever the path of the next pair is a right child, the hash saved at that
\* level is that of its left sibling.
FilledOK(row, n, fil) ==
  \A lvl \in 1 .. Levels - 1 : At(n, lvl) % 2 = 1 => fil[lvl] = Node(row, lvl, At(n, lvl) - 1)

\* row2 is row with a pair added after its first n leaves.
PairAdded(row, n, leaf_1, leaf_2, row2) ==
  /\ n \in Nat /\ n % 2 = 0 /\ n + 2 <= Capacity
  /\ \A i \in 0 .. Capacity - 1 : i > n - 1 => row[i] = ZeroLeaf
  /\ \A i \in 0 .. Capacity - 1 :
       row2[i] = IF i = n THEN leaf_1 ELSE IF i = n + 1 THEN leaf_2 ELSE row[i]

(* The conjuncts of PairAdded, and what follows from them at once.           *)
LEMMA PairFacts ==
  ASSUME NEW row, NEW n, NEW leaf_1, NEW leaf_2, NEW row2,
         PairAdded(row, n, leaf_1, leaf_2, row2)
  PROVE  /\ n \in Nat /\ n % 2 = 0 /\ n + 2 <= Capacity /\ n < Capacity /\ n + 1 \in Nat
         /\ n \in 0 .. Capacity - 1 /\ n + 1 \in 0 .. Capacity - 1
         /\ \A i \in 0 .. Capacity - 1 : i > n + 1 => row2[i] = ZeroLeaf
         /\ \A i \in 0 .. Capacity - 1 : i # n /\ i # n + 1 => row2[i] = row[i]
         /\ row2[n] = leaf_1 /\ row2[n + 1] = leaf_2
<1>1. /\ n \in Nat /\ n % 2 = 0 /\ n + 2 <= Capacity /\ Capacity \in Nat /\ n < Capacity
      /\ n + 1 \in Nat /\ n \in 0 .. Capacity - 1 /\ n + 1 \in 0 .. Capacity - 1
      BY WideStep DEF PairAdded
<1>2. n # n + 1 /\ \A i \in 0 .. Capacity - 1 : i > n + 1 => i > n - 1 /\ i # n /\ i # n + 1
      BY <1>1
<1>3. \A i \in 0 .. Capacity - 1 : i > n - 1 => row[i] = ZeroLeaf
      BY DEF PairAdded
<1>4. \A i \in 0 .. Capacity - 1 :
        row2[i] = IF i = n THEN leaf_1 ELSE IF i = n + 1 THEN leaf_2 ELSE row[i]
      BY DEF PairAdded
<1>5. \A i \in 0 .. Capacity - 1 : i > n + 1 => row2[i] = ZeroLeaf
      BY <1>2, <1>3, <1>4
<1>6. \A i \in 0 .. Capacity - 1 : i # n /\ i # n + 1 => row2[i] = row[i]
      BY <1>4
<1>7. row2[n] = leaf_1 /\ row2[n + 1] = leaf_2
      BY <1>1, <1>2, <1>4
<1> QED  BY <1>1, <1>5, <1>6, <1>7

(* If the hash on entering a level is that of the pair's ancestor there,     *)
(* so is the one on entering the next: where the path is a right child the   *)
(* left sibling is the one that was saved, and where it is a left child      *)
(* the right sibling is empty.                                               *)
LEMMA PathUp ==
  ASSUME NEW row, NEW row2, NEW leaf_1, NEW leaf_2, NEW l \in 1 .. Levels - 1,
         PairAdded(row, nextIndex, leaf_1, leaf_2, row2), FilledOK(row, nextIndex, filled),
         PathAt(leaf_1, leaf_2, l) = Node(row2, l, At(nextIndex, l))
  PROVE  PathAt(leaf_1, leaf_2, l + 1) = Node(row2, l + 1, At(nextIndex, l + 1))
<1> DEFINE up == l + 1
           n == nextIndex
           p == At(n, l)
           q == At(n, up)
           a == PathAt(leaf_1, leaf_2, l)
           b == PathAt(leaf_1, leaf_2, up)
<1>1. /\ n \in Nat /\ n % 2 = 0 /\ n < Capacity /\ n + 1 \in Nat
      /\ \A i \in 0 .. Capacity - 1 : i > n + 1 => row2[i] = ZeroLeaf
      /\ \A i \in 0 .. Capacity - 1 : i # n /\ i # n + 1 => row2[i] = row[i]
      BY PairFacts
<1>2. /\ up \in 1 .. Levels /\ up \in 0 .. Levels /\ up - 1 = l /\ l \in Nat
      /\ l \in 1 .. Levels /\ l \in 0 .. Levels
      BY LevelsType
<1>3. IsRight(l) <=> p % 2 = 1
      BY DEF IsRight, At, Pow
<1>4. p % 2 = 1 => filled[l] = Node(row, l, p - 1)
      BY DEF FilledOK
<1>5. b = IF IsRight(l) THEN Hash(filled[l], a) ELSE Hash(a, Zero(l))
      BY PathStep
<1>6. a = Node(row2, l, p)
      OBVIOUS
<1> HIDE DEF n
<1>7. p \in Nat /\ q = p \div 2
      BY <1>1, <1>2, AtStep
<1>8. p \in 0 .. Wide(l) - 1 /\ q \in 0 .. Wide(up) - 1
      BY <1>1, <1>2, AtInTree
<1>9. \A i \in 0 .. Wide(l) - 1 : i # p => Node(row2, l, i) = Node(row, l, i)
  <2>1. n \in Nat /\ n % 2 = 0
        BY <1>1
  <2>2. \A i \in 0 .. Capacity - 1 : i # n /\ i # n + 1 => row2[i] = row[i]
        BY <1>1
  <2>3. \A lvl \in 1 .. Levels : \A i \in 0 .. Wide(lvl) - 1 :
          i # At(n, lvl) => Node(row2, lvl, i) = Node(row, lvl, i)
        BY <2>1, <2>2, NodesElsewhere
  <2> QED  BY <1>2, <2>3
<1>10. \A i \in 0 .. Wide(l) - 1 : i > p => Node(row2, l, i) = Zero(l)
  <2>1. l - 1 \in Nat /\ l - 1 + 1 = l
        OBVIOUS
  <2>2. At(n + 1, l - 1 + 1) = At(n, l - 1 + 1)
        BY <1>1, <2>1, AtOfPair
  <2>3. At(n + 1, l) = p
        BY <2>1, <2>2
  <2>4. \A i \in 0 .. Wide(l) - 1 : i > At(n + 1, l) => Node(row2, l, i) = Zero(l)
        BY <1>1, <1>2, NodesBeyond
  <2> QED  BY <2>3, <2>4
<1> HIDE DEF up, p, q, a, b
<1>11. 2 * q \in 0 .. Wide(l) - 1 /\ 2 * q + 1 \in 0 .. Wide(l) - 1
  <2>1. 2 * q \in 0 .. Wide(up - 1) - 1 /\ 2 * q + 1 \in 0 .. Wide(up - 1) - 1
        BY <1>2, <1>8, Children
  <2> QED  BY <1>2, <2>1
<1>12. Node(row2, up, q) = Hash(Node(row2, l, 2 * q), Node(row2, l, 2 * q + 1))
  <2>1. Node(row2, up, q) = Hash(Node(row2, up - 1, 2 * q), Node(row2, up - 1, 2 * q + 1))
        BY <1>2, <1>8, NodeStep
  <2> QED  BY <1>2, <2>1
<1>13. ASSUME p % 2 = 1
       PROVE  b = Node(row2, up, q)
  <2>1. 2 * q = p - 1 /\ 2 * q + 1 = p /\ p - 1 # p
        BY <1>7, <1>13
  <2>2. Node(row2, l, p - 1) = Node(row, l, p - 1)
        BY <1>9, <1>11, <2>1
  <2>3. b = Hash(Node(row, l, p - 1), Node(row2, l, p))
        BY <1>3, <1>4, <1>5, <1>6, <1>13
  <2> QED  BY <1>12, <2>1, <2>2, <2>3
<1>14. ASSUME p % 2 # 1
       PROVE  b = Node(row2, up, q)
  <2>1. 2 * q = p /\ 2 * q + 1 = p + 1 /\ p + 1 > p
        BY <1>7, <1>14
  <2>2. Node(row2, l, p + 1) = Zero(l)
        BY <1>10, <1>11, <2>1
  <2>3. b = Hash(Node(row2, l, p), Zero(l))
        BY <1>3, <1>5, <1>6, <1>14
  <2> QED  BY <1>12, <2>1, <2>2, <2>3
<1>15. b = Node(row2, up, q)
       BY <1>13, <1>14
<1> QED  BY <1>15 DEF b, up, q, n

(* The path InsertTwoLeaves hashes is the path of the new tree.              *)
LEMMA PathIsNodes ==
  ASSUME NEW row, NEW row2, NEW leaf_1, NEW leaf_2,
         PairAdded(row, nextIndex, leaf_1, leaf_2, row2), FilledOK(row, nextIndex, filled)
  PROVE  \A lvl \in 1 .. Levels :
           PathAt(leaf_1, leaf_2, lvl) = Node(row2, lvl, At(nextIndex, lvl))
<1> DEFINE n == nextIndex
           On(lvl) == PathAt(leaf_1, leaf_2, lvl) = Node(row2, lvl, At(n, lvl))
           S == {l \in Nat : l + 1 <= Levels => On(l + 1)}
<1>1. 0 \in S
  <2>1. 1 \in 1 .. Levels /\ 1 \in 0 .. Levels /\ 1 - 1 = 0
        BY LevelsType
  <2>2. n \in Nat /\ n < Capacity /\ n % 2 = 0 /\ row2[n] = leaf_1 /\ row2[n + 1] = leaf_2
        BY PairFacts
  <2> HIDE DEF n
  <2>3. At(n, 0 + 1) = At(n, 0) \div 2 /\ At(n, 0) = n
        BY <2>2, AtStep
  <2> DEFINE i == At(n, 1)
  <2>4. i \in 0 .. Wide(1) - 1
        BY <2>1, <2>2, AtInTree
  <2>5. 2 * i = n
        BY <2>2, <2>3
  <2> HIDE DEF i
  <2>6. Node(row2, 1, i) = Hash(Node(row2, 1 - 1, 2 * i), Node(row2, 1 - 1, 2 * i + 1))
        BY <2>1, <2>4, NodeStep
  <2>7. Node(row2, 0, n) = leaf_1 /\ Node(row2, 0, n + 1) = leaf_2
        BY <2>2, NodeStep
  <2>8. Node(row2, 1, i) = Hash(leaf_1, leaf_2)
        BY <2>1, <2>5, <2>6, <2>7
  <2>9. PathAt(leaf_1, leaf_2, 1) = Hash(leaf_1, leaf_2)
        BY PathStep
  <2>10. On(1)
         BY <2>8, <2>9 DEF i
  <2>11. 0 + 1 = 1 /\ 0 \in Nat
         OBVIOUS
  <2> HIDE DEF On
  <2> QED  BY <2>10, <2>11
<1>2. ASSUME NEW m \in Nat, m \in S
      PROVE  m + 1 \in S
  <2> DEFINE l == m + 1
  <2> SUFFICES ASSUME l + 1 <= Levels PROVE On(l + 1)
      OBVIOUS
  <2>1. l \in 1 .. Levels - 1 /\ l <= Levels
        BY LevelsType
  <2> HIDE DEF On
  <2>2. On(l)
        BY <1>2, <2>1
  <2> HIDE DEF l
  <2>3. PathAt(leaf_1, leaf_2, l) = Node(row2, l, At(nextIndex, l))
        BY <2>2 DEF On
  <2>4. PathAt(leaf_1, leaf_2, l + 1) = Node(row2, l + 1, At(nextIndex, l + 1))
        BY <2>1, <2>3, PathUp
  <2> QED  BY <2>4 DEF On
<1>3. \A m \in Nat : m \in S
  <2> HIDE DEF S
  <2> QED  BY <1>1, <1>2, SetInduction
<1>4. ASSUME NEW lvl \in 1 .. Levels
      PROVE  On(lvl)
  <2> DEFINE m == lvl - 1
  <2>1. m \in Nat /\ m + 1 = lvl /\ lvl <= Levels
        BY LevelsType
  <2>2. m + 1 <= Levels => On(m + 1)
        BY <1>3, <2>1
  <2> HIDE DEF m, On
  <2> QED  BY <2>1, <2>2
<1> QED  BY <1>4

\* The hashes saved are those the next insertion needs, and the root is right.
TreeInOrder == FilledOK(Row, nextIndex, filled) /\ RootOfAllLeaves

(* What InsertTwoLeaves does to the leaves is what PairAdded says.           *)
LEMMA RowGrows ==
  ASSUME TypeOK,
         NEW leaf_1, NEW leaf_2, InsertTwoLeaves(leaf_1, leaf_2)
  PROVE  PairAdded(Row, nextIndex, leaf_1, leaf_2, Row')
<1>1. nextIndex \in Nat /\ nextIndex % 2 = 0 /\ nextIndex + 2 <= Capacity /\ Capacity \in Nat
      BY CapacityType DEF TypeOK, InsertTwoLeaves, HasRoom
<1>2. nextIndex' = nextIndex + 2 /\ \A i \in 0 .. nextIndex + 1 :
         leaves'[i] = IF i < nextIndex THEN leaves[i] ELSE IF i = nextIndex THEN leaf_1 ELSE leaf_2
      BY DEF InsertTwoLeaves
<1>3. \A i \in 0 .. Capacity - 1 : Row[i] = IF i < nextIndex THEN leaves[i] ELSE ZeroLeaf
      BY DEF Row, LeafAt
<1>4. \A i \in 0 .. Capacity - 1 : Row'[i] = IF i < nextIndex' THEN leaves'[i] ELSE ZeroLeaf
      BY DEF Row, LeafAt
<1>5. \A i \in 0 .. Capacity - 1 : i > nextIndex - 1 => Row[i] = ZeroLeaf
      BY <1>1, <1>3
<1>6. ASSUME NEW i \in 0 .. Capacity - 1
      PROVE  Row'[i] = IF i = nextIndex THEN leaf_1 ELSE IF i = nextIndex + 1 THEN leaf_2
                       ELSE Row[i]
  <2>1. CASE i < nextIndex + 2
    <3>1. i \in 0 .. nextIndex + 1
          BY <1>1, <2>1
    <3>2. Row'[i] = IF i < nextIndex THEN leaves[i] ELSE IF i = nextIndex THEN leaf_1 ELSE leaf_2
          BY <1>2, <1>4, <2>1, <3>1
    <3>3. Row[i] = IF i < nextIndex THEN leaves[i] ELSE ZeroLeaf
          BY <1>3
    <3> QED  BY <1>1, <3>1, <3>2, <3>3
  <2>2. CASE ~ (i < nextIndex + 2)
    <3>1. Row'[i] = ZeroLeaf /\ Row[i] = ZeroLeaf /\ i # nextIndex /\ i # nextIndex + 1
          BY <1>1, <1>2, <1>3, <1>4, <2>2
    <3> QED  BY <3>1
  <2> QED  BY <2>1, <2>2
<1> QED  BY <1>1, <1>5, <1>6 DEF PairAdded

(* What an insertion leaves saved is what the next insertion will need.      *)
LEMMA FilledGrows ==
  ASSUME NEW row, NEW row2, NEW leaf_1, NEW leaf_2, NEW fil2, NEW l \in 1 .. Levels - 1,
         PairAdded(row, nextIndex, leaf_1, leaf_2, row2), FilledOK(row, nextIndex, filled),
         fil2[l] = IF IsRight(l) THEN filled[l] ELSE PathAt(leaf_1, leaf_2, l),
         At(nextIndex + 2, l) % 2 = 1
  PROVE  fil2[l] = Node(row2, l, At(nextIndex + 2, l) - 1)
<1> DEFINE n == nextIndex
           p == At(n, l)
           r == At(n + 2, l)
           a == PathAt(leaf_1, leaf_2, l)
<1>1. n \in Nat /\ n % 2 = 0 /\ n < Capacity /\ n + 2 \in Nat
      BY PairFacts
<1>2. \A i \in 0 .. Capacity - 1 : i # n /\ i # n + 1 => row2[i] = row[i]
      BY PairFacts
<1>3. /\ l \in Nat /\ l \in 1 .. Levels /\ l \in 0 .. Levels
      /\ l - 1 \in Nat /\ l - 1 + 1 = l
      BY LevelsType
<1>4. IsRight(l) <=> p % 2 = 1
      BY DEF IsRight, At, Pow
<1>5. p % 2 = 1 => filled[l] = Node(row, l, p - 1)
      BY DEF FilledOK
<1>6. a = Node(row2, l, p)
      BY <1>3, PathIsNodes
<1>7. r % 2 = 1
      OBVIOUS
<1>8. fil2[l] = IF IsRight(l) THEN filled[l] ELSE a
      OBVIOUS
<1> HIDE DEF n
<1>9. p \in Nat /\ r \in Nat
      BY <1>1, <1>3, AtStep
<1>10. p \in 0 .. Wide(l) - 1
       BY <1>1, <1>3, AtInTree
<1>11. r \in {p, p + 1}
  <2>1. At(n + 2, l - 1 + 1) \in {At(n, l - 1 + 1), At(n, l - 1 + 1) + 1}
        BY <1>1, <1>3, AtOfPair
  <2> QED  BY <1>3, <2>1
<1>12. \A i \in 0 .. Wide(l) - 1 : i # p => Node(row2, l, i) = Node(row, l, i)
  <2>1. n \in Nat /\ n % 2 = 0
        BY <1>1
  <2>2. \A lvl \in 1 .. Levels : \A i \in 0 .. Wide(lvl) - 1 :
          i # At(n, lvl) => Node(row2, lvl, i) = Node(row, lvl, i)
        BY <1>2, <2>1, NodesElsewhere
  <2> QED  BY <1>3, <2>2
<1> HIDE DEF p, r, a
<1>13. fil2[l] = Node(row2, l, r - 1)
  <2>1. ASSUME r = p
        PROVE  fil2[l] = Node(row2, l, r - 1)
    <3>1. p % 2 = 1
          BY <1>7, <2>1
    <3>2. fil2[l] = Node(row, l, p - 1)
          BY <1>4, <1>5, <1>8, <3>1
    <3>3. p - 1 \in 0 .. Wide(l) - 1 /\ p - 1 # p
      <4>1. Wide(l) \in Nat
            BY <1>3, WideStep
      <4> QED  BY <1>9, <1>10, <3>1, <4>1
    <3>4. Node(row2, l, p - 1) = Node(row, l, p - 1)
          BY <1>12, <3>3
    <3> QED  BY <2>1, <3>2, <3>4
  <2>2. ASSUME r = p + 1
        PROVE  fil2[l] = Node(row2, l, r - 1)
    <3>1. ~ (p % 2 = 1) /\ r - 1 = p
          BY <1>7, <1>9, <2>2
    <3> QED  BY <1>4, <1>6, <1>8, <3>1
  <2> QED  BY <1>11, <2>1, <2>2
<1> QED  BY <1>13 DEF r, n

(* The empty tree is in order.                                               *)
LEMMA TreeInitially == Init => TreeInOrder
<1> SUFFICES ASSUME Init PROVE TreeInOrder
    OBVIOUS
<1>1. nextIndex = 0 /\ GetLastRoot = Zero(Levels)
      BY DEF Init, GetLastRoot, Zero
<1>2. \A i \in 0 .. Capacity - 1 : Row[i] = ZeroLeaf
      BY <1>1, CapacityType DEF Row, LeafAt
<1>3. Levels \in 0 .. Levels /\ 0 \in 0 .. Wide(Levels) - 1
      BY LevelsType, WideStep
<1>4. Node(Row, Levels, 0) = Zero(Levels)
      BY <1>2, <1>3, NodesOfNone
<1>5. ReferenceRoot = Node(Row, Levels, 0)
      BY DEF ReferenceRoot, Node, Row
<1>6. ASSUME NEW lvl \in 1 .. Levels - 1
      PROVE  At(0, lvl) % 2 # 1
  <2>1. Pow(lvl) \in Nat /\ Pow(lvl) > 0
        BY PowerPositive
  <2>2. At(0, lvl) = 0
        BY <2>1, SMTT(30) DEF At
  <2> QED  BY <2>2
<1> QED  BY <1>1, <1>4, <1>5, <1>6 DEF TreeInOrder, FilledOK, RootOfAllLeaves

(* An insertion keeps the tree in order.                                     *)
LEMMA TreeGrows ==
  ASSUME IInv, TreeInOrder, NEW leaf_1, NEW leaf_2, InsertTwoLeaves(leaf_1, leaf_2)
  PROVE  TreeInOrder'
<1>1. PairAdded(Row, nextIndex, leaf_1, leaf_2, Row')
      BY RowGrows DEF IInv
<1>2. FilledOK(Row, nextIndex, filled)
      BY DEF TreeInOrder
<1>3. nextIndex' = nextIndex + 2
      BY DEF InsertTwoLeaves
<1>4. ASSUME NEW l \in 1 .. Levels - 1, At(nextIndex', l) % 2 = 1
      PROVE  filled'[l] = Node(Row', l, At(nextIndex', l) - 1)
  <2>1. filled'[l] = IF IsRight(l) THEN filled[l] ELSE PathAt(leaf_1, leaf_2, l)
    <3>1. l \in 0 .. Levels
          BY LevelsType
    <3> QED  BY <3>1 DEF InsertTwoLeaves, PathAt
  <2>2. At(nextIndex + 2, l) % 2 = 1
        BY <1>3, <1>4
  <2>3. filled'[l] = Node(Row', l, At(nextIndex + 2, l) - 1)
        BY <1>1, <1>2, <2>1, <2>2, FilledGrows
  <2> QED  BY <1>3, <2>3
<1>5. FilledOK(Row', nextIndex', filled')
      BY <1>4 DEF FilledOK
<1>6. GetLastRoot' = PathAt(leaf_1, leaf_2, Levels)
  <2>1. PushRoot(PathAt(leaf_1, leaf_2, Levels))
        BY DEF InsertTwoLeaves, PathAt
  <2> DEFINE root == PathAt(leaf_1, leaf_2, Levels)
             next == NextRootIndex
  <2> HIDE DEF root, next
  <2>2. /\ currentRootIndex' = next
        /\ ring' = [slot \in DOMAIN ring \cup {next} |-> IF slot = next THEN root ELSE ring[slot]]
        BY <2>1 DEF PushRoot, root, next
  <2>3. ring'[next] = root
        BY <2>2
  <2> QED  BY <2>2, <2>3 DEF GetLastRoot, root
<1>7. PathAt(leaf_1, leaf_2, Levels) = Node(Row', Levels, 0)
  <2>1. Levels \in 1 .. Levels
        BY LevelsType
  <2>2. PathAt(leaf_1, leaf_2, Levels) = Node(Row', Levels, At(nextIndex, Levels))
        BY <1>1, <1>2, <2>1, PathIsNodes
  <2>3. nextIndex \in Nat /\ nextIndex < Capacity
        BY <1>1, PairFacts
  <2>4. At(nextIndex, Levels) = 0
        BY <2>3, AtInTree
  <2> QED  BY <2>2, <2>4
<1>8. ReferenceRoot' = Node(Row', Levels, 0)
      BY DEF ReferenceRoot, Node, Row
<1>9. RootOfAllLeaves'
      BY <1>6, <1>7, <1>8 DEF RootOfAllLeaves
<1> QED  BY <1>5, <1>9 DEF TreeInOrder

(* The root the contract keeps is that of the tree of all its leaves, after  *)
(* any number of insertions: whoever rebuilds the tree from the announced    *)
(* leaves gets a root the contract knows.                                    *)
THEOREM RootIsOfAllLeaves == Spec => []RootOfAllLeaves
<1>1. IInv /\ TreeInOrder /\ [Next]_vars => TreeInOrder'
  <2> SUFFICES ASSUME IInv, TreeInOrder, [Next]_vars
               PROVE  TreeInOrder'
      OBVIOUS
  <2>1. ASSUME NEW leaf_1, NEW leaf_2, InsertTwoLeaves(leaf_1, leaf_2)
        PROVE  TreeInOrder'
        BY <2>1, TreeGrows
  <2>2. CASE UNCHANGED vars
    <3>1. Row' = Row /\ nextIndex' = nextIndex /\ filled' = filled
          BY <2>2 DEF Row, LeafAt, vars, treeVars, ringVars
    <3>2. GetLastRoot' = GetLastRoot
          BY <2>2 DEF GetLastRoot, vars, treeVars, ringVars
    <3>3. ReferenceRoot' = ReferenceRoot
          BY <3>1 DEF ReferenceRoot, Row
    <3> QED  BY <3>1, <3>2, <3>3 DEF TreeInOrder, FilledOK, RootOfAllLeaves
  <2> QED  BY <2>1, <2>2 DEF Next
<1>2. TreeInOrder => RootOfAllLeaves
      BY DEF TreeInOrder
<1> QED  BY <1>1, <1>2, TreeInitially, RingInvariant, PTL DEF Spec
=============================================================================
