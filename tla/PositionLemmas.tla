---------------------------- MODULE PositionLemmas ----------------------------
(* Numbers, and the positions of LedgerPositions: what the proofs about the    *)
(* two syncs keep needing.                                                     *)
EXTENDS LedgerPositions, FiniteSetsExt, WellFoundedInduction, TLAPS

\* A set with 0 in it, and with each number's successor, has them all: induction
\* for a goal that is a set's membership.
LEMMA SetInduction ==
  ASSUME NEW S, 0 \in S, \A n \in Nat : n \in S => n + 1 \in S
  PROVE  \A n \in Nat : n \in S
PROOF
  <1> DEFINE T == Nat \ S
             R == OpToRel(<, Nat)
  <1>1. IsWellFoundedOn(R, Nat)
        BY NatLessThanWellFounded
  <1>2. \A x, y \in Nat : x < y => <<x, y>> \in R
        BY DEF OpToRel
  <1>3. SUFFICES ASSUME T # {} PROVE FALSE
        OBVIOUS
  <1> HIDE DEF R
  <1>4. PICK x \in T : \A y \in T : ~(<<y, x>> \in R)
    <2>1. T \subseteq Nat OBVIOUS
    <2> HIDE DEF T
    <2> QED BY <1>1, <1>3, <2>1, WFMin
  <1>5. x # 0 /\ x - 1 \in Nat /\ x - 1 < x
        OBVIOUS
  <1>6. x - 1 \in S
        BY <1>2, <1>4, <1>5
  <1>7. x - 1 + 1 \in S
        BY <1>5, <1>6
  <1> QED  BY <1>7

\* A set of natural numbers has a smallest.
LEMMA SmallestNat ==
  ASSUME NEW S, S \subseteq Nat, S # {}
  PROVE  \E x \in S : \A y \in S : x <= y
PROOF
  <1>1. PICK x \in S : \A y \in S : ~ (<<y, x>> \in OpToRel(<, Nat))
    BY NatLessThanWellFounded, WFMin
  <1>2. \A y \in S : ~ (y < x)
    BY <1>1 DEF OpToRel
  <1>3. ASSUME NEW y \in S
        PROVE  x <= y
    <2>1. x \in Nat /\ y \in Nat
      OBVIOUS
    <2>2. ~ (y < x)
      BY <1>2
    <2> QED BY <2>1, <2>2
  <1> QED BY <1>3

\* A set of natural numbers with a bound has a largest, which Max names.
LEMMA LargestNat ==
  ASSUME NEW n \in Nat, NEW S, S \subseteq 0 .. n, S # {}
  PROVE  Max(S) \in S /\ \A y \in S : y <= Max(S)
PROOF
  <1> DEFINE T == {m \in 0 .. n : n - m \in S}
  <1>1. T \subseteq Nat /\ T # {}
    <2>1. PICK s \in S : TRUE
      OBVIOUS
    <2>2. n - s \in 0 .. n /\ n - (n - s) = s
      BY <2>1
    <2>3. n - s \in T
      BY <2>1, <2>2
    <2> QED BY <2>3
  <1>2. PICK m \in T : \A k \in T : m <= k
    <2> HIDE DEF T
    <2> QED BY <1>1, SmallestNat
  <1>3. m \in 0 .. n /\ n - m \in S
    BY <1>2
  <1>4. ASSUME NEW y \in S
        PROVE  y <= n - m
    <2>1. y \in 0 .. n
      OBVIOUS
    <2>2. n - y \in 0 .. n /\ n - (n - y) = y
      BY <2>1
    <2>3. n - y \in T
      BY <2>2
    <2>4. m <= n - y
      BY <1>2, <2>3
    <2> QED BY <1>3, <2>1, <2>4
  <1>5. \E x \in S : \A y \in S : x >= y
    <2>1. ASSUME NEW y \in S PROVE n - m >= y
      BY <1>3, <1>4
    <2> QED BY <1>3, <2>1
  <1>6. Max(S) \in S /\ \A y \in S : Max(S) >= y
    BY <1>5 DEF Max
  <1>7. ASSUME NEW y \in S
        PROVE  y <= Max(S)
    <2>1. y \in 0 .. n /\ Max(S) \in 0 .. n
      BY <1>6
    <2> QED BY <1>6, <2>1
  <1> QED BY <1>6, <1>7

\* The smaller of two.
LEMMA SmallerOfTwo ==
  ASSUME NEW a \in Int, NEW b \in Int
  PROVE  /\ Min({a, b}) \in {a, b}
         /\ Min({a, b}) <= a /\ Min({a, b}) <= b
    BY DEF Min

\* The larger of two is one of them.
LEMMA LargerOfTwo ==
  ASSUME NEW a \in Int, NEW b \in Int
  PROVE  Max({a, b}) \in {a, b}
  BY DEF Max

\* A ledger's positions are those between its first and the next one's.
LEMMA Division ==
  ASSUME NEW e \in Nat
  PROVE  /\ LedgerOf(e) \in Nat
         /\ FirstOf(LedgerOf(e)) <= e
         /\ e < FirstOf(LedgerOf(e) + 1)
    BY WidthAssumption, SMTT(60) DEF LedgerOf, FirstOf

\* A ledger has room for its events, and the next begins where it ends.
LEMMA FirstOfType ==
  ASSUME NEW l \in Nat
  PROVE  /\ FirstOf(l) \in Nat /\ EndOf(l) \in Nat
         /\ FirstOf(l + 1) = FirstOf(l) + Width
         /\ EndOf(l) = FirstOf(l + 1) - 1
         /\ FirstOf(l) < FirstOf(l + 1)
    BY WidthAssumption DEF FirstOf, EndOf

\* A later ledger begins later.
LEMMA FirstOfMonotone ==
  ASSUME NEW l \in Nat, NEW m \in Nat, l <= m
  PROVE  FirstOf(l) <= FirstOf(m)
PROOF
  <1>1. PICK d \in Nat : m = l + d
    OBVIOUS
  <1>2. m * Width = l * Width + d * Width
    BY <1>1, WidthAssumption
  <1>3. d * Width \in Nat /\ l * Width \in Nat
    BY WidthAssumption
  <1> QED BY <1>2, <1>3 DEF FirstOf

\* An event's ledger is at most l just when it is before the next one's first.
LEMMA LedgerIsAtMost ==
  ASSUME NEW e \in Nat, NEW l \in Nat
  PROVE  LedgerOf(e) <= l <=> e < FirstOf(l + 1)
PROOF
  <1>1. /\ LedgerOf(e) \in Nat /\ FirstOf(LedgerOf(e)) <= e
        /\ e < FirstOf(LedgerOf(e) + 1)
    BY Division
  <1>2. CASE LedgerOf(e) <= l
    <2>1. FirstOf(LedgerOf(e) + 1) <= FirstOf(l + 1)
      BY <1>1, <1>2, FirstOfMonotone
    <2>2. FirstOf(LedgerOf(e) + 1) \in Nat /\ FirstOf(l + 1) \in Nat
      BY <1>1, FirstOfType
    <2> QED BY <1>1, <1>2, <2>1, <2>2
  <1>3. CASE ~ (LedgerOf(e) <= l)
    <2>1. l + 1 <= LedgerOf(e)
      BY <1>1, <1>3
    <2>2. FirstOf(l + 1) <= FirstOf(LedgerOf(e))
      BY <1>1, <2>1, FirstOfMonotone
    <2>3. FirstOf(LedgerOf(e)) \in Nat /\ FirstOf(l + 1) \in Nat
      BY <1>1, FirstOfType
    <2> QED BY <1>1, <1>3, <2>2, <2>3
  <1> QED BY <1>2, <1>3

\* A later ledger's positions are later.
LEMMA PositionsSplit ==
  ASSUME NEW l \in Nat, NEW m \in Nat
  PROVE  /\ l <= m => EndOf(l) <= EndOf(m)
         /\ l < m => EndOf(l) < FirstOf(m)
PROOF
  <1>1. FirstOf(l + 1) \in Nat /\ FirstOf(m + 1) \in Nat /\ FirstOf(m) \in Nat
        BY FirstOfType
  <1>2. l <= m => FirstOf(l + 1) <= FirstOf(m + 1)
        BY FirstOfMonotone
  <1>3. l < m => FirstOf(l + 1) <= FirstOf(m)
        BY FirstOfMonotone
  <1> QED  BY <1>1, <1>2, <1>3, FirstOfType

\* A position that a ledger has for an event is where no ledger ends.
LEMMA EndsApart ==
  ASSUME NEW t \in Nat, NEW n \in Nat, FirstOf(t + 1) <= n, n < EndOf(t + 1), NEW l \in Nat
  PROVE  n # EndOf(l)
PROOF
  <1>1. /\ FirstOf(t + 1) \in Nat /\ EndOf(t) = FirstOf(t + 1) - 1
        /\ EndOf(l) \in Nat /\ EndOf(t) \in Nat /\ EndOf(t + 1) \in Nat
        BY FirstOfType
  <1>2. CASE l <= t
    <2>1. EndOf(l) <= EndOf(t)
          BY <1>2, PositionsSplit
    <2> QED  BY <1>1, <2>1
  <1>3. CASE t + 1 <= l
    <2>1. EndOf(t + 1) <= EndOf(l)
          BY <1>3, PositionsSplit
    <2> QED  BY <1>1, <2>1
  <1> QED  BY <1>2, <1>3

\* Where a ledger ends is still that ledger.
LEMMA LedgerOfEnd ==
  ASSUME NEW k \in Nat
  PROVE  LedgerOf(EndOf(k)) = k
PROOF
  <1>1. EndOf(k) \in Nat /\ EndOf(k) = FirstOf(k + 1) - 1 /\ FirstOf(k) < FirstOf(k + 1)
        /\ FirstOf(k) \in Nat /\ FirstOf(k + 1) \in Nat
        BY FirstOfType
  <1>2. LedgerOf(EndOf(k)) \in Nat
        BY <1>1, Division
  <1>3. LedgerOf(EndOf(k)) <= k
        BY <1>1, LedgerIsAtMost
  <1>4. ASSUME k > 0 PROVE ~(LedgerOf(EndOf(k)) <= k - 1)
    <2>1. k - 1 \in Nat /\ k - 1 + 1 = k
          BY <1>4
    <2>2. FirstOf(k - 1 + 1) = FirstOf(k)
          BY <2>1
    <2>3. ~(EndOf(k) < FirstOf(k))
          BY <1>1
    <2> QED  BY <1>1, <2>1, <2>2, <2>3, LedgerIsAtMost
  <1> QED  BY <1>2, <1>3, <1>4

\* A ledger's first position is in it.
LEMMA LedgerOfFirst ==
  ASSUME NEW k \in Nat, k > 0
  PROVE  LedgerOf(FirstOf(k)) = k
PROOF
  <1>1. FirstOf(k) < FirstOf(k + 1) /\ FirstOf(k) \in Nat
        BY FirstOfType
  <1>2. LedgerOf(FirstOf(k)) \in Nat
        BY <1>1, Division
  <1>3. LedgerOf(FirstOf(k)) <= k
        BY <1>1, LedgerIsAtMost
  <1>4. ~(LedgerOf(FirstOf(k)) <= k - 1)
    <2>1. k - 1 \in Nat /\ k - 1 + 1 = k
          OBVIOUS
    <2>2. FirstOf(k - 1 + 1) = FirstOf(k)
          BY <2>1
    <2>3. ~(FirstOf(k) < FirstOf(k))
          BY <1>1
    <2> QED  BY <1>1, <2>1, <2>2, <2>3, LedgerIsAtMost
  <1> QED  BY <1>2, <1>3, <1>4
=============================================================================
