----------------------------- MODULE PoolProofs -----------------------------
(***************************************************************************)
(* Theorems about the pool contract, for every value of its constants.     *)
(***************************************************************************)
EXTENDS Pool, FiniteSetTheorems, TLAPS

----------------------------------------------------------------------------
(***************************************************************************)
(* What the proofs need to know of ValueOf: it is a natural number, and it *)
(* adds up.  The stroops of disjoint sets of notes are disjoint, so every  *)
(* fact here is one about the size of finite sets.                         *)
(***************************************************************************)

(***************************************************************************)
(* Finitely many notes with natural amounts have finitely many stroops.    *)
(***************************************************************************)
LEMMA StroopsFinite ==
    ASSUME NEW amount, NEW S, IsFiniteSet(S), \A i \in S : amount[i] \in Nat
    PROVE  IsFiniteSet(Stroops(amount, S))
<1> DEFINE pile == [i \in S |-> {i} \X (1 .. amount[i])]
           piles == {{i} \X (1 .. amount[i]) : i \in S}
<1>1. pile \in Surjection(S, piles)
      BY DEF Surjection
<1>2. IsFiniteSet(piles)
      BY <1>1, FS_Surjection
<1>3. \A i \in S : IsFiniteSet({i} \X (1 .. amount[i]))
      <2> SUFFICES ASSUME NEW i \in S
                   PROVE  IsFiniteSet({i} \X (1 .. amount[i]))
          OBVIOUS
      <2>1. IsFiniteSet(1 .. amount[i])
            BY FS_Interval
      <2>2. IsFiniteSet({i})
            BY FS_Singleton
      <2> QED  BY <2>1, <2>2, FS_Product
<1>4. \A T \in piles : IsFiniteSet(T)
      BY <1>3
<1> QED  BY <1>2, <1>4, FS_UNION DEF Stroops

(***************************************************************************)
(* The value of finitely many notes is a natural number.                   *)
(***************************************************************************)
LEMMA ValueOfType ==
    ASSUME NEW amount, NEW S, IsFiniteSet(S), \A i \in S : amount[i] \in Nat
    PROVE  ValueOf(amount, S) \in Nat
BY StroopsFinite, FS_CardinalityType DEF ValueOf

(***************************************************************************)
(* No notes are worth nothing.                                             *)
(***************************************************************************)
LEMMA ValueOfEmpty ==
    ASSUME NEW amount
    PROVE  ValueOf(amount, {}) = 0
<1>1. Stroops(amount, {}) = {}
      BY DEF Stroops
<1> QED  BY <1>1, FS_EmptySet DEF ValueOf

(***************************************************************************)
(* One note is worth its amount.                                           *)
(***************************************************************************)
LEMMA ValueOfOne ==
    ASSUME NEW amount, NEW i, amount[i] \in Nat
    PROVE  ValueOf(amount, {i}) = amount[i]
<1>1. Stroops(amount, {i}) = {i} \X (1 .. amount[i])
      BY DEF Stroops
<1>2. IsFiniteSet({i}) /\ Cardinality({i}) = 1
      BY FS_Singleton
<1> DEFINE a == amount[i]
<1>3. a \in Nat
      OBVIOUS
<1> HIDE DEF a
<1>4. /\ IsFiniteSet(1 .. a)
      /\ Cardinality(1 .. a) = IF 1 > a THEN 0 ELSE a - 1 + 1
      BY <1>3, FS_Interval
<1>5. Cardinality(1 .. a) = a
      BY <1>3, <1>4
<1>6. Cardinality({i} \X (1 .. a)) = Cardinality({i}) * Cardinality(1 .. a)
      BY <1>2, <1>4, FS_Product
<1>7. Cardinality({i} \X (1 .. a)) = a
      BY <1>2, <1>3, <1>5, <1>6
<1> QED  BY <1>1, <1>7 DEF ValueOf, a

(***************************************************************************)
(* Disjoint sets of notes: their values add.                               *)
(***************************************************************************)
LEMMA ValueOfUnion ==
    ASSUME NEW amount, NEW S, NEW T, IsFiniteSet(S), IsFiniteSet(T),
           S \cap T = {}, \A i \in S \cup T : amount[i] \in Nat
    PROVE  ValueOf(amount, S \cup T) = ValueOf(amount, S) + ValueOf(amount, T)
<1> DEFINE X == Stroops(amount, S)
           Y == Stroops(amount, T)
<1>1. IsFiniteSet(X) /\ IsFiniteSet(Y)
      BY StroopsFinite
<1>2. Stroops(amount, S \cup T) = X \cup Y
      BY DEF Stroops
<1>3. X \cap Y = {}
      BY DEF Stroops
<1>4. Cardinality(X \cap Y) = 0
      BY <1>3, FS_EmptySet
<1>5. Cardinality(X) \in Nat /\ Cardinality(Y) \in Nat
      BY <1>1, FS_CardinalityType
<1> HIDE DEF X, Y
<1>6. Cardinality(X \cup Y)
          = Cardinality(X) + Cardinality(Y) - Cardinality(X \cap Y)
      BY <1>1, FS_Union
<1>7. Cardinality(X \cup Y) = Cardinality(X) + Cardinality(Y)
      BY <1>4, <1>5, <1>6
<1> QED  BY <1>2, <1>7 DEF ValueOf, X, Y

(***************************************************************************)
(* Two notes are worth the sum of their amounts.                           *)
(***************************************************************************)
LEMMA ValueOfTwo ==
    ASSUME NEW amount, NEW i, NEW j, i # j, amount[i] \in Nat, amount[j] \in Nat
    PROVE  /\ IsFiniteSet({i, j})
           /\ ValueOf(amount, {i, j}) = amount[i] + amount[j]
<1>1. IsFiniteSet({i}) /\ IsFiniteSet({j})
      BY FS_Singleton
<1>2. {i} \cup {j} = {i, j} /\ {i} \cap {j} = {}
      OBVIOUS
<1>3. IsFiniteSet({i} \cup {j})
      BY <1>1, FS_Union
<1>4. ValueOf(amount, {i} \cup {j}) = ValueOf(amount, {i}) + ValueOf(amount, {j})
      BY <1>1, <1>2, ValueOfUnion
<1>5. ValueOf(amount, {i}) = amount[i] /\ ValueOf(amount, {j}) = amount[j]
      BY ValueOfOne
<1> QED  BY <1>2, <1>3, <1>4, <1>5

(***************************************************************************)
(* Taking some of the notes away takes their value away.                   *)
(***************************************************************************)
LEMMA ValueOfDifference ==
    ASSUME NEW amount, NEW S, IsFiniteSet(S), NEW T \in SUBSET S,
           \A i \in S : amount[i] \in Nat
    PROVE  /\ ValueOf(amount, S \ T) = ValueOf(amount, S) - ValueOf(amount, T)
           /\ ValueOf(amount, T) <= ValueOf(amount, S)
<1>1. IsFiniteSet(T) /\ IsFiniteSet(S \ T)
      BY FS_Subset
<1>2. (S \ T) \cup T = S /\ (S \ T) \cap T = {}
      OBVIOUS
<1>3. ValueOf(amount, (S \ T) \cup T) = ValueOf(amount, S \ T) + ValueOf(amount, T)
      BY <1>1, ValueOfUnion
<1>4. ValueOf(amount, S \ T) \in Nat /\ ValueOf(amount, T) \in Nat
      BY <1>1, ValueOfType
<1>5. ValueOf(amount, S) = ValueOf(amount, S \ T) + ValueOf(amount, T)
      BY <1>2, <1>3
<1> QED  BY <1>4, <1>5

(***************************************************************************)
(* The value depends only on the amounts of the notes it counts.           *)
(***************************************************************************)
LEMMA ValueOfSame ==
    ASSUME NEW amount, NEW other, NEW S, \A i \in S : amount[i] = other[i]
    PROVE  ValueOf(amount, S) = ValueOf(other, S)
<1>1. Stroops(amount, S) = Stroops(other, S)
      BY DEF Stroops
<1> QED  BY <1>1 DEF ValueOf

----------------------------------------------------------------------------
(***************************************************************************)
(* Arithmetic: what the conversions return.                                *)
(***************************************************************************)

(* The tree has room for a natural number of leaves. *)
LEMMA CapacityType == Capacity \in Nat
<1>1. Levels \in Nat
      BY PoolAssumption
<1>2. IsFiniteSet(1 .. Levels) /\ Cardinality(1 .. Levels) = Levels
      BY <1>1, FS_Interval
<1>3. Cardinality(SUBSET (1 .. Levels)) = 2 ^ Levels
      BY <1>2, FS_SUBSET
<1>4. Cardinality(SUBSET (1 .. Levels)) \in Nat
      BY <1>2, FS_SUBSET, FS_CardinalityType
<1> QED  BY <1>3, <1>4 DEF Capacity

(* Division of naturals by a positive number gives a natural number. *)
LEMMA DivType ==
    ASSUME NEW x \in Nat, NEW y \in Nat, y > 0
    PROVE  x \div y \in Nat
OBVIOUS

(* The product of naturals is a natural number. *)
LEMMA ProductType ==
    ASSUME NEW x \in Nat, NEW y \in Nat
    PROVE  x * y \in Nat
OBVIOUS

(* A share price values any number of shares at a natural number of assets. *)
LEMMA WorthType ==
    ASSUME NEW s \in Nat, NEW p \in Nat
    PROVE  Worth(s, p) \in Nat
<1>1. s * p \in Nat
      BY ProductType
<1> QED  BY <1>1, DivType, VaultAssumption DEF Worth

(* A deposit into the vault is credited a natural number of shares. *)
LEMMA SharesForType ==
    ASSUME NEW amount \in Nat, NEW p \in Nat, p > 0
    PROVE  SharesFor(amount, p) \in Nat
<1>1. amount * Unit \in Nat
      BY ProductType, VaultAssumption
<1> QED  BY <1>1, DivType DEF SharesFor

(* A divest never redeems more shares than the pool has. *)
LEMMA SharesNeededType ==
    ASSUME NEW deficit \in Nat, NEW buffer \in Nat, NEW s \in Nat, NEW p \in Nat,
           Worth(ShareProbe, p) > 0
    PROVE  SharesNeeded(deficit, buffer, s, p) \in 0 .. s
<1> DEFINE probe   == Worth(ShareProbe, p)
           desired == (deficit + buffer) * ShareProbe
           needed  == (desired + probe - 1) \div probe
<1>1. probe \in Nat /\ probe > 0
      BY WorthType, VaultAssumption
<1>2. desired \in Nat
      BY ProductType, VaultAssumption
<1> HIDE DEF probe, desired
<1>3. desired + probe - 1 \in Nat
      BY <1>1, <1>2
<1>4. needed \in Nat
      BY <1>1, <1>3, DivType
<1>5. SharesNeeded(deficit, buffer, s, p) = IF needed > s THEN s ELSE needed
      BY DEF SharesNeeded, needed, desired, probe
<1> HIDE DEF needed
<1> QED  BY <1>4, <1>5

(* A larger number has a larger multiple. *)
LEMMA ProductMonotone ==
    ASSUME NEW a \in Nat, NEW b \in Nat, NEW c \in Nat, a <= b
    PROVE  a * c <= b * c
<1>1. PICK d \in Nat : b = a + d
      OBVIOUS
<1>2. b * c = a * c + d * c
      BY <1>1
<1>3. a * c \in Nat /\ d * c \in Nat
      OBVIOUS
<1> QED  BY <1>2, <1>3

(* What division leaves. *)
LEMMA DivBounds ==
    ASSUME NEW x \in Nat, NEW y \in Nat, y > 0
    PROVE  /\ x \div y \in Nat
           /\ (x \div y) * y <= x
           /\ x < (x \div y) * y + y
BY SMTT(30)

(* A quotient is the largest such number. *)
LEMMA DivIsLargest ==
    ASSUME NEW x \in Nat, NEW y \in Nat, y > 0, NEW k \in Nat, k * y <= x
    PROVE  k <= x \div y
<1> DEFINE q == x \div y
<1>1. q \in Nat /\ x < q * y + y /\ q * y \in Nat
      BY DivBounds
<1> HIDE DEF q
<1>2. ASSUME q < k
      PROVE  FALSE
  <2>1. q + 1 \in Nat /\ q + 1 <= k
        BY <1>1, <1>2
  <2>2. (q + 1) * y <= k * y
        BY <2>1, ProductMonotone
  <2>3. (q + 1) * y = q * y + y
        BY <1>1
  <2>4. k * y \in Nat
        OBVIOUS
  <2> QED  BY <1>1, <2>2, <2>3, <2>4
<1>3. k <= q
      BY <1>1, <1>2
<1> QED  BY <1>3 DEF q

(* Shares redeemed apart are worth what they are worth together, but for one *)
(* stroop that rounding may keep.                                            *)
LEMMA WorthSplits ==
    ASSUME NEW s \in Nat, NEW t \in Nat, NEW p \in Nat
    PROVE  /\ Worth(s, p) \in Nat /\ Worth(t, p) \in Nat /\ Worth(s + t, p) \in Nat
           /\ Worth(s, p) + Worth(t, p) <= Worth(s + t, p)
           /\ Worth(s + t, p) <= Worth(s, p) + Worth(t, p) + 1
<1> DEFINE a == s * p
           b == t * p
           u == a \div Unit
           v == b \div Unit
           w == (a + b) \div Unit
<1>1. Unit \in Nat /\ Unit > 0
      BY VaultAssumption
<1>2. a \in Nat /\ b \in Nat /\ (s + t) * p = a + b
      OBVIOUS
<1>3. Worth(s, p) = u /\ Worth(t, p) = v /\ Worth(s + t, p) = w
      BY <1>2 DEF Worth
<1> HIDE DEF a, b
<1>4. /\ u \in Nat /\ u * Unit <= a /\ a < u * Unit + Unit
      /\ v \in Nat /\ v * Unit <= b /\ b < v * Unit + Unit
      /\ w \in Nat /\ w * Unit <= a + b /\ a + b < w * Unit + Unit
      BY <1>1, <1>2, DivBounds
<1> HIDE DEF u, v, w
<1>5. u + v <= w
  <2>1. (u + v) * Unit = u * Unit + v * Unit /\ u * Unit \in Nat /\ v * Unit \in Nat
        BY <1>1, <1>4
  <2>2. (u + v) * Unit <= a + b /\ u + v \in Nat
        BY <1>2, <1>4, <2>1
  <2>3. u + v <= (a + b) \div Unit
        BY <1>1, <1>2, <2>2, DivIsLargest
  <2> QED  BY <2>3 DEF w
<1>6. w <= u + v + 1
  <2>1. ASSUME u + v + 2 <= w
        PROVE  FALSE
    <3>1. (u + v + 2) * Unit <= w * Unit
          BY <1>1, <1>4, <2>1, ProductMonotone
    <3>2. /\ (u + v + 2) * Unit = u * Unit + v * Unit + Unit + Unit
          /\ u * Unit \in Nat /\ v * Unit \in Nat /\ w * Unit \in Nat
          BY <1>1, <1>4
    <3> QED  BY <1>1, <1>2, <1>4, <3>1, <3>2
  <2> QED  BY <1>4, <2>1
<1> QED  BY <1>3, <1>4, <1>5, <1>6

(* The probe, the rounding up and the clamp: the shares that a divest        *)
(* redeems are worth the deficit and the buffer, or they are all there are.  *)
LEMMA NeededIsEnough ==
    ASSUME NEW deficit \in Nat, NEW buffer \in Nat, NEW s \in Nat, NEW p \in Nat,
           Worth(ShareProbe, p) > 0
    PROVE  \/ SharesNeeded(deficit, buffer, s, p) = s
           \/ Worth(SharesNeeded(deficit, buffer, s, p), p) >= deficit + buffer
<1> DEFINE probe   == Worth(ShareProbe, p)
           desired == deficit + buffer
           total   == desired * ShareProbe
           needed  == (total + probe - 1) \div probe
<1>1. /\ Unit \in Nat /\ Unit > 0 /\ ShareProbe \in Nat /\ ShareProbe > 0
      /\ ShareProbe * p \in Nat
      BY VaultAssumption
<1>2. probe \in Nat /\ probe > 0 /\ probe * Unit <= ShareProbe * p
      BY <1>1, DivBounds DEF Worth
<1>3. desired \in Nat /\ total \in Nat
      BY <1>1
<1>4. SharesNeeded(deficit, buffer, s, p) = IF needed > s THEN s ELSE needed
      BY DEF SharesNeeded
<1> HIDE DEF probe, desired
<1>5. needed \in Nat /\ total <= needed * probe
  <2>1. total + probe - 1 \in Nat
        BY <1>2, <1>3
  <2>2. /\ needed \in Nat
        /\ total + probe - 1 < needed * probe + probe
        BY <1>2, <2>1, DivBounds
  <2> HIDE DEF needed, total
  <2>3. needed * probe \in Nat
        BY <1>2, <2>2
  <2> QED  BY <1>2, <1>3, <2>2, <2>3
<1> HIDE DEF needed
<1>6. desired * Unit <= needed * p
  <2> DEFINE have == needed * p
             want == desired * Unit
  <2>1. have \in Nat /\ want \in Nat
        BY <1>1, <1>3, <1>5
  <2>2. total * Unit <= (needed * probe) * Unit
    <3>1. needed * probe \in Nat
          BY <1>2, <1>5
    <3> HIDE DEF total
    <3> QED  BY <1>1, <1>3, <1>5, <3>1, ProductMonotone
  <2>3. (needed * probe) * Unit <= (needed * p) * ShareProbe
    <3>1. probe * Unit \in Nat
          BY <1>1, <1>2
    <3>2. (probe * Unit) * needed <= (ShareProbe * p) * needed
          BY <1>1, <1>2, <1>5, <3>1, ProductMonotone
    <3>3. /\ (needed * probe) * Unit = (probe * Unit) * needed
          /\ (needed * p) * ShareProbe = (ShareProbe * p) * needed
          BY <1>1, <1>2, <1>5
    <3> QED  BY <3>2, <3>3
  <2>4. total * Unit = want * ShareProbe
        BY <1>1, <1>3
  <2>5. /\ total * Unit \in Nat /\ (needed * probe) * Unit \in Nat
        /\ have * ShareProbe \in Nat
        BY <1>1, <1>2, <1>3, <1>5, <2>1
  <2>6. want * ShareProbe <= have * ShareProbe
        BY <2>2, <2>3, <2>4, <2>5
  <2> HIDE DEF have, want
  <2>7. ASSUME have < want
        PROVE  FALSE
    <3>1. have + 1 \in Nat /\ have + 1 <= want
          BY <2>1, <2>7
    <3>2. (have + 1) * ShareProbe <= want * ShareProbe
          BY <1>1, <2>1, <3>1, ProductMonotone
    <3>3. (have + 1) * ShareProbe = have * ShareProbe + ShareProbe
          BY <1>1, <2>1
    <3>4. have * ShareProbe \in Nat /\ want * ShareProbe \in Nat
          BY <1>1, <2>1
    <3> QED  BY <1>1, <2>6, <3>2, <3>3, <3>4
  <2>8. want <= have
        BY <2>1, <2>7
  <2> QED  BY <2>8 DEF have, want
<1>7. desired <= Worth(needed, p)
  <2>1. needed * p \in Nat
        BY <1>5
  <2>2. desired <= (needed * p) \div Unit
        BY <1>1, <1>3, <1>6, <2>1, DivIsLargest
  <2> QED  BY <2>2 DEF Worth
<1>8. Worth(needed, p) \in Nat
  <2>1. needed * p \in Nat
        BY <1>5
  <2> QED  BY <1>1, <2>1, DivBounds DEF Worth
<1>9. CASE needed > s
      BY <1>4, <1>9
<1>10. CASE ~(needed > s)
  <2>1. SharesNeeded(deficit, buffer, s, p) = needed
        BY <1>4, <1>10
  <2>2. Worth(needed, p) >= desired
        BY <1>3, <1>7, <1>8
  <2> QED  BY <2>1, <2>2 DEF desired
<1> QED  BY <1>9, <1>10

(* An investment loses what rounding keeps, at most one share and a stroop.  *)
LEMMA InvestLosesLittle ==
    ASSUME NEW amount \in Nat, NEW p \in Nat, p > 0
    PROVE  /\ SharesFor(amount, p) \in Nat
           /\ Worth(SharesFor(amount, p), p) \in Nat
           /\ p \div Unit \in Nat
           /\ amount <= Worth(SharesFor(amount, p), p) + p \div Unit + 1
<1> DEFINE s == (amount * Unit) \div p
           u == p \div Unit
           w == (s * p) \div Unit
<1>1. Unit \in Nat /\ Unit > 0 /\ amount * Unit \in Nat
      BY VaultAssumption
<1>2. s \in Nat /\ amount * Unit < s * p + p
      BY <1>1, DivBounds
<1>3. SharesFor(amount, p) = s /\ Worth(SharesFor(amount, p), p) = w
      BY DEF SharesFor, Worth
<1> HIDE DEF s
<1>4. s * p \in Nat
      BY <1>2
<1>5. w \in Nat /\ s * p < w * Unit + Unit
      BY <1>1, <1>4, DivBounds
<1>6. u \in Nat /\ p < u * Unit + Unit
      BY <1>1, DivBounds
<1> HIDE DEF u, w
<1>7. amount * Unit < (w + u + 2) * Unit
  <2>1. /\ (w + u + 2) * Unit = w * Unit + u * Unit + Unit + Unit
        /\ w * Unit \in Nat /\ u * Unit \in Nat
        BY <1>1, <1>5, <1>6
  <2> QED  BY <1>1, <1>2, <1>4, <1>5, <1>6, <2>1
<1>8. amount < w + u + 2
  <2>1. ASSUME w + u + 2 <= amount
        PROVE  FALSE
    <3>1. (w + u + 2) * Unit <= amount * Unit
          BY <1>1, <1>5, <1>6, <2>1, ProductMonotone
    <3>2. (w + u + 2) * Unit \in Nat
          BY <1>1, <1>5, <1>6
    <3> QED  BY <1>1, <1>7, <3>1, <3>2
  <2> QED  BY <1>5, <1>6, <2>1
<1> QED  BY <1>2, <1>3, <1>5, <1>6, <1>8 DEF u

----------------------------------------------------------------------------
(***************************************************************************)
(* What the contract's internal calls leave behind.                        *)
(***************************************************************************)

(* ensure_idle either fails or leaves at least what was asked for, and       *)
(* never a negative balance of shares.                                       *)
LEMMA EnsureIdleType ==
    ASSUME TypeOK, NEW required \in Nat, NEW funded \in EnsureIdle(required)
    PROVE  /\ funded.idle \in Nat
           /\ funded.idle >= required
           /\ funded.shares \in Nat
<1> USE DEF TypeOK
<1>1. price \in Nat
      BY PoolAssumption
<1>2. CASE idle >= required
      BY <1>2 DEF EnsureIdle
<1>3. CASE ~(idle >= required)
  <2> DEFINE deficit  == required - idle
             redeemed == SharesNeeded(deficit, Buffer, shares, price)
  <2>1. deficit \in Nat
        BY <1>3
  <2>2. /\ Worth(ShareProbe, price) # 0
        /\ funded \in {[idle |-> idle + out, shares |-> shares - redeemed] :
                          out \in Payouts(redeemed, deficit, price)}
        BY <1>3 DEF EnsureIdle
  <2>3. Worth(ShareProbe, price) \in Nat
        BY <1>1, WorthType, VaultAssumption
  <2>4. Buffer \in Nat
        BY DEF Buffer
  <2>5. redeemed \in 0 .. shares
        BY <1>1, <2>1, <2>2, <2>3, <2>4, SharesNeededType
  <2> HIDE DEF deficit, redeemed
  <2>6. PICK out \in Payouts(redeemed, deficit, price) :
               funded = [idle |-> idle + out, shares |-> shares - redeemed]
        BY <2>2
  <2>7. redeemed \in Nat /\ Worth(redeemed, price) \in Nat
        BY <1>1, <2>5, WorthType
  <2>8. out \in Nat /\ out >= deficit
        BY <2>7 DEF Payouts
  <2>9. funded.idle = idle + out /\ funded.shares = shares - redeemed
        BY <2>6
  <2> QED  BY <2>1, <2>5, <2>8, <2>9 DEF deficit
<1> QED  BY <1>2, <1>3

(* maybe_invest leaves natural balances whether or not the vault answers. *)
LEMMA MaybeInvestType ==
    ASSUME TypeOK, NEW cash \in Nat, NEW after \in MaybeInvest(cash)
    PROVE  after.idle \in Nat /\ after.shares \in Nat
<1> USE DEF TypeOK
<1>1. price \in Nat
      BY PoolAssumption
<1>2. Buffer \in Nat /\ Threshold \in Nat /\ Buffer < Threshold
      BY DEF Buffer, Threshold
<1>3. CASE after = [idle |-> cash, shares |-> shares]
      BY <1>3
<1>4. CASE after # [idle |-> cash, shares |-> shares]
  <2>1. /\ cash >= Threshold
        /\ price > 0
        /\ after = [idle   |-> Buffer,
                    shares |-> shares + SharesFor(cash - Buffer, price)]
        BY <1>1, <1>2, <1>4 DEF MaybeInvest
  <2>2. cash - Buffer \in Nat
        BY <1>2, <2>1
  <2>3. SharesFor(cash - Buffer, price) \in Nat
        BY <1>1, <2>1, <2>2, SharesForType
  <2> QED  BY <1>2, <2>1, <2>3
<1> QED  BY <1>3, <1>4

----------------------------------------------------------------------------
(***************************************************************************)
(* What a settlement does to the notes.                                    *)
(***************************************************************************)

(* Two leaves are appended, and the ones before them stay what they were.    *)
LEMMA SettleType ==
    ASSUME TypeOK, NEW tx, tx.ins \subseteq Leaves, tx.outs \in Note \X Note,
           Settle(tx)
    PROVE  /\ nextIndex' = nextIndex + 2
           /\ nextIndex' <= Capacity
           /\ Leaves' = Leaves \cup {nextIndex, nextIndex + 1}
           /\ notes' \in [Leaves' -> Note]
           /\ \A i \in Leaves : notes'[i] = notes[i]
           /\ notes'[nextIndex] = tx.outs[1]
           /\ notes'[nextIndex + 1] = tx.outs[2]
           /\ nullifiers' = nullifiers \cup tx.ins
           /\ nullifiers' \subseteq Leaves'
<1> USE DEF TypeOK
<1>1. /\ nextIndex' = nextIndex + 2
      /\ nextIndex' <= Capacity
      /\ notes' = [i \in 0 .. nextIndex + 1 |->
                      IF i < nextIndex THEN notes[i]
                                       ELSE tx.outs[i - nextIndex + 1]]
      BY CapacityType DEF Settle, InsertTwoLeaves
<1>2. nullifiers' = nullifiers \cup tx.ins
      BY DEF Settle, MarkSpent
<1>3. /\ Leaves' = 0 .. nextIndex + 1
      /\ Leaves' = Leaves \cup {nextIndex, nextIndex + 1}
      BY <1>1 DEF Leaves
<1>4. tx.outs[1] \in Note /\ tx.outs[2] \in Note
      OBVIOUS
<1>5. /\ \A i \in Leaves : notes'[i] = notes[i]
      /\ notes'[nextIndex] = tx.outs[1]
      /\ notes'[nextIndex + 1] = tx.outs[2]
      BY <1>1 DEF Leaves
<1>6. \A i \in Leaves' : notes'[i] \in Note
      BY <1>3, <1>4, <1>5
<1>7. notes' \in [Leaves' -> Note]
      BY <1>1, <1>3, <1>6
<1> QED  BY <1>1, <1>2, <1>3, <1>5, <1>7

(* Every leaf carries a natural amount. *)
LEMMA AmountType ==
    ASSUME TypeOK
    PROVE  /\ \A i \in Leaves : Amount[i] = notes[i].amount /\ Amount[i] \in Nat
           /\ IsFiniteSet(Leaves)
           /\ IsFiniteSet(Unspent)
<1>1. \A i \in Leaves : Amount[i] = notes[i].amount /\ Amount[i] \in Nat
      BY PoolAssumption DEF TypeOK, Amount, Note
<1>2. IsFiniteSet(Leaves)
      BY FS_Interval DEF TypeOK, Leaves
<1> QED  BY <1>1, <1>2, FS_Subset DEF Unspent

(* A transaction of the kind a call can make, whatever the prover chose. *)
Proposed(tx) ==
    /\ tx.ins \subseteq Leaves
    /\ tx.outs \in Note \X Note
    /\ tx.ext \in Int

(* Every step of the pool is one of its calls or something outside it.       *)
LEMMA StepCases ==
    ASSUME TypeOK, Next
    PROVE  \/ \E tx : Proposed(tx) /\ Transact(tx)
           \/ \E payee \in Payees : CollectYield(payee)
           \/ \E p \in InvestParams : UpdateInvestParams(p)
           \/ UpdateAspRoots
           \/ Reprice
           \/ Donate
<1>1. CASE SubmitTransaction
  <2>1. PICK root \in 0 .. Insertions, ins \in InputSets, ext \in ExtAmounts :
        \E skew \in ProofSkew, roots \in AspRoots, sender \in Owners, payee \in Payees :
        \E outs \in Outputs(ValueOf(Amount, ins) + ext + skew) :
           Transact([root |-> root, ins |-> ins, ext |-> ext, pub |-> ext + skew,
                     asp |-> roots, sender |-> sender, payee |-> payee, outs |-> outs])
        BY <1>1 DEF SubmitTransaction
  <2>2. PICK skew \in ProofSkew, roots \in AspRoots, sender \in Owners, payee \in Payees :
        \E outs \in Outputs(ValueOf(Amount, ins) + ext + skew) :
           Transact([root |-> root, ins |-> ins, ext |-> ext, pub |-> ext + skew,
                     asp |-> roots, sender |-> sender, payee |-> payee, outs |-> outs])
        BY <2>1
  <2>3. PICK outs \in Outputs(ValueOf(Amount, ins) + ext + skew) :
           Transact([root |-> root, ins |-> ins, ext |-> ext, pub |-> ext + skew,
                     asp |-> roots, sender |-> sender, payee |-> payee, outs |-> outs])
        BY <2>2
  <2> DEFINE tx == [root |-> root, ins |-> ins, ext |-> ext, pub |-> ext + skew,
                    asp |-> roots, sender |-> sender, payee |-> payee, outs |-> outs]
  <2>4. Proposed(tx)
        BY PoolAssumption DEF Proposed, InputSets, Outputs
  <2> QED  BY <2>3, <2>4
<1> QED  BY <1>1 DEF Next

----------------------------------------------------------------------------
(***************************************************************************)
(* Type correctness.                                                       *)
(***************************************************************************)

(* Whatever the calls and the vault do, the stored state is well formed: the *)
(* tree holds whole leaves and never more than it has room for, a nullifier  *)
(* belongs to a leaf, and no balance, liability or parameter leaves its      *)
(* range (in particular no payment takes the idle balance below zero).       *)
THEOREM TypeCorrect == Spec => []TypeOK
<1>1. Init => TypeOK
  <2> SUFFICES ASSUME Init
               PROVE  TypeOK
      OBVIOUS
  <2>1. nextIndex = 0 /\ nextIndex <= Capacity
        BY CapacityType DEF Init
  <2>2. Leaves = {} /\ notes \in [Leaves -> Note]
        BY DEF Init, Leaves
  <2>3. /\ params \in Int \X Int
        /\ 0 <= Buffer /\ Buffer < Threshold
        BY PoolAssumption DEF Init, ValidParams, Buffer, Threshold
  <2> QED  BY <2>1, <2>2, <2>3 DEF Init, TypeOK
<1>2. TypeOK /\ [Next]_vars => TypeOK'
  <2> SUFFICES ASSUME TypeOK, [Next]_vars
               PROVE  TypeOK'
      OBVIOUS
  <2>1. ASSUME NEW tx, Proposed(tx), Transact(tx)
        PROVE  TypeOK'
    <3>1. /\ tx.ins \subseteq Leaves
          /\ tx.outs \in Note \X Note
          /\ tx.ext \in Int
          BY <2>1 DEF Proposed
    <3>2. Settle(tx) /\ UNCHANGED <<price, params, asp>>
          BY <2>1 DEF Transact, Deposit, Transfer, Withdraw, vaultVars, adminVars
    <3>3. /\ nextIndex' \in Nat
          /\ nextIndex' <= Capacity
          /\ notes' \in [Leaves' -> Note]
          /\ nullifiers' \subseteq Leaves'
          BY <3>1, <3>2, SettleType DEF TypeOK
    <3>4. liabilities' \in Nat /\ idle' \in Nat /\ shares' \in Nat
      <4>1. CASE Deposit(tx)
        <5>1. idle + tx.ext \in Nat /\ liabilities' = liabilities + tx.ext
              BY <3>1, <4>1 DEF Deposit, AddLiabilities, TypeOK
        <5>2. PICK after \in MaybeInvest(idle + tx.ext) :
                     idle' = after.idle /\ shares' = after.shares
              BY <4>1 DEF Deposit
        <5> QED  BY <3>1, <4>1, <5>1, <5>2, MaybeInvestType DEF Deposit, TypeOK
      <4>2. CASE Transfer(tx)
            BY <4>2 DEF Transfer, TypeOK
      <4>3. CASE Withdraw(tx)
        <5>1. -tx.ext \in Nat
              BY <3>1, <4>3 DEF Withdraw
        <5>2. PICK funded \in EnsureIdle(-tx.ext) :
                     /\ idle' = AfterPayment(funded.idle, -tx.ext, tx.payee)
                     /\ shares' = funded.shares
              BY <4>3 DEF Withdraw
        <5>3. funded.idle \in Nat /\ funded.idle >= -tx.ext /\ funded.shares \in Nat
              BY <5>1, EnsureIdleType
        <5>4. liabilities' \in Nat
              BY <4>3, <5>1 DEF Withdraw, SubLiabilities, TypeOK
        <5> QED  BY <3>1, <5>1, <5>2, <5>3, <5>4 DEF AfterPayment
      <4> QED  BY <2>1, <4>1, <4>2, <4>3 DEF Transact
    <3> QED  BY <3>2, <3>3, <3>4 DEF TypeOK, Buffer, Threshold
  <2>2. ASSUME NEW payee \in Payees, CollectYield(payee)
        PROVE  TypeOK'
    <3> DEFINE surplus == GetSurplus(idle, VaultPositionValue)
    <3>1. price \in Nat
          BY PoolAssumption DEF TypeOK
    <3>2. VaultPositionValue \in Nat
          BY <3>1, WorthType DEF VaultPositionValue, TypeOK
    <3>3. surplus \in Nat
          BY <3>2 DEF GetSurplus, TypeOK
    <3>4. PICK funded \in EnsureIdle(surplus) :
             LET left == GetSurplus(funded.idle, Worth(funded.shares, price))
                 pay  == IF left < funded.idle THEN left ELSE funded.idle
             IN  /\ idle' = AfterPayment(funded.idle, pay, payee)
                 /\ shares' = funded.shares
          BY <2>2 DEF CollectYield
    <3>5. funded.idle \in Nat /\ funded.shares \in Nat
          BY <3>3, <3>4, EnsureIdleType
    <3>6. Worth(funded.shares, price) \in Nat
          BY <3>1, <3>5, WorthType
    <3>7. GetSurplus(funded.idle, Worth(funded.shares, price)) \in Nat
          BY <3>5, <3>6 DEF GetSurplus, TypeOK
    <3>8. idle' \in Nat /\ shares' \in Nat
          BY <3>4, <3>5, <3>7 DEF AfterPayment
    <3>9. UNCHANGED <<notes, nextIndex, nullifiers, liabilities, price, params, asp>>
          BY <2>2 DEF CollectYield, treeVars, vaultVars, adminVars
    <3> QED  BY <3>8, <3>9 DEF TypeOK, Leaves, Buffer, Threshold
  <2>3. ASSUME NEW p \in InvestParams, UpdateInvestParams(p)
        PROVE  TypeOK'
    <3>1. p \in Int \X Int
          BY PoolAssumption
    <3> QED  BY <2>3, <3>1 DEF UpdateInvestParams, ValidParams, TypeOK, Leaves,
                               Buffer, Threshold, treeVars, vaultVars
  <2>4. CASE UpdateAspRoots
        BY <2>4 DEF UpdateAspRoots, AspRoots, TypeOK, Leaves, Buffer, Threshold,
                    treeVars, vaultVars
  <2>5. CASE Reprice
        BY <2>5 DEF Reprice, TypeOK, Leaves, Buffer, Threshold, treeVars, adminVars
  <2>6. CASE Donate
        BY <2>6 DEF Donate, TypeOK, Leaves, Buffer, Threshold, treeVars, vaultVars,
                    adminVars
  <2>7. CASE UNCHANGED vars
        BY <2>7 DEF TypeOK, Leaves, Buffer, Threshold, vars, treeVars, vaultVars,
                    adminVars
  <2> QED  BY <2>1, <2>2, <2>3, <2>4, <2>5, <2>6, <2>7, StepCases
<1> QED  BY <1>1, <1>2, PTL DEF Spec

----------------------------------------------------------------------------
(***************************************************************************)
(* What the pool owes.                                                     *)
(***************************************************************************)

(* An accepted transaction spends unspent leaves, moves its external amount  *)
(* in or out of the notes, and leaves the amounts of the others alone.       *)
LEMMA SettleValue ==
    ASSUME TypeOK, NEW tx, Proposed(tx), Accepted(tx), Settle(tx)
    PROVE  /\ tx.ins \subseteq Unspent
           /\ Unspent' = (Unspent \ tx.ins) \cup {nextIndex, nextIndex + 1}
           /\ \A i \in Leaves : Amount'[i] = Amount[i]
           /\ ValueOf(Amount', {nextIndex, nextIndex + 1})
                  = ValueOf(Amount, tx.ins) + tx.ext
           /\ NoteLiability' = NoteLiability + tx.ext
           /\ NoteLiability + tx.ext \in Nat
<1> DEFINE fresh == {nextIndex, nextIndex + 1}
           kept  == Unspent \ tx.ins
<1>1. /\ tx.ins \subseteq Leaves
      /\ tx.outs \in Note \X Note
      /\ tx.ext \in Int
      BY DEF Proposed
<1>2. /\ Leaves' = Leaves \cup fresh
      /\ notes' \in [Leaves' -> Note]
      /\ \A i \in Leaves : notes'[i] = notes[i]
      /\ notes'[nextIndex] = tx.outs[1]
      /\ notes'[nextIndex + 1] = tx.outs[2]
      /\ nullifiers' = nullifiers \cup tx.ins
      BY <1>1, SettleType
<1>3. nextIndex \in Nat /\ nullifiers \subseteq Leaves
      BY DEF TypeOK
<1>4. fresh \cap Leaves = {}
      BY <1>3 DEF Leaves
<1>5. tx.ins \subseteq Unspent
      BY <1>1 DEF Accepted, IsSpent, Unspent
<1>6. Unspent' = kept \cup fresh
  <2> HIDE DEF fresh
  <2>1. Leaves' \ nullifiers' = ((Leaves \ nullifiers) \ tx.ins) \cup fresh
        BY <1>1, <1>2, <1>3, <1>4
  <2> QED  BY <2>1 DEF Unspent
<1>7. /\ \A i \in Leaves : Amount[i] = notes[i].amount /\ Amount[i] \in Nat
      /\ IsFiniteSet(Unspent)
      BY AmountType
<1>8. Amount' = [i \in Leaves' |-> notes'[i].amount]
      BY DEF Amount
<1>9. /\ \A i \in Leaves : Amount'[i] = Amount[i]
      /\ Amount'[nextIndex] = tx.outs[1].amount
      /\ Amount'[nextIndex + 1] = tx.outs[2].amount
      BY <1>2, <1>7, <1>8
<1>10. tx.outs[1].amount \in Nat /\ tx.outs[2].amount \in Nat
      BY <1>1, PoolAssumption DEF Note
<1>11. /\ ValueOf(Amount', fresh) = tx.outs[1].amount + tx.outs[2].amount
       /\ IsFiniteSet(fresh)
  <2>1. nextIndex # nextIndex + 1
        BY <1>3
  <2>2. Amount'[nextIndex] \in Nat /\ Amount'[nextIndex + 1] \in Nat
        BY <1>9, <1>10
  <2>3. /\ ValueOf(Amount', fresh) = Amount'[nextIndex] + Amount'[nextIndex + 1]
        /\ IsFiniteSet(fresh)
        BY <2>1, <2>2, ValueOfTwo, Zenon
  <2> QED  BY <1>9, <2>3
<1>12. tx.outs[1].amount + tx.outs[2].amount = ValueOf(Amount, tx.ins) + tx.ext
      BY DEF Accepted, PublicAmountMatches, VerifyProof, CircuitAccepts
<1>13. ValueOf(Amount', kept) = ValueOf(Amount, kept)
      BY <1>9, ValueOfSame DEF Unspent
<1>14. /\ ValueOf(Amount, kept) = ValueOf(Amount, Unspent) - ValueOf(Amount, tx.ins)
       /\ ValueOf(Amount, tx.ins) \in Nat
       /\ ValueOf(Amount, Unspent) \in Nat
  <2>1. \A i \in Unspent : Amount[i] \in Nat
        BY <1>7 DEF Unspent
  <2>2. IsFiniteSet(tx.ins)
        BY <1>5, <1>7, FS_Subset
  <2>3. \A i \in tx.ins : Amount[i] \in Nat
        BY <1>5, <2>1
  <2> QED  BY <1>5, <1>7, <2>1, <2>2, <2>3, ValueOfDifference, ValueOfType
<1>15. ValueOf(Amount', kept \cup fresh)
         = ValueOf(Amount', kept) + ValueOf(Amount', fresh)
  <2>1. IsFiniteSet(kept)
        BY <1>7, FS_Subset
  <2>2. kept \cap fresh = {}
        BY <1>4 DEF Unspent
  <2>3. \A i \in kept \cup fresh : Amount'[i] \in Nat
        BY <1>7, <1>9, <1>10 DEF Unspent
  <2> QED  BY <1>11, <2>1, <2>2, <2>3, ValueOfUnion
<1>16. ValueOf(Amount', fresh) = ValueOf(Amount, tx.ins) + tx.ext
      BY <1>11, <1>12
<1>17. NoteLiability' = ValueOf(Amount', kept \cup fresh)
      BY <1>6 DEF NoteLiability
<1>18. NoteLiability' = ValueOf(Amount, Unspent) - ValueOf(Amount, tx.ins)
                          + (ValueOf(Amount, tx.ins) + tx.ext)
      BY <1>13, <1>14, <1>15, <1>16, <1>17
<1>19. NoteLiability' = NoteLiability + tx.ext
      BY <1>1, <1>14, <1>18 DEF NoteLiability
<1>20. NoteLiability + tx.ext \in Nat
  <2>1. ValueOf(Amount, tx.ins) <= ValueOf(Amount, Unspent)
        BY <1>5, <1>7, ValueOfDifference DEF Unspent
  <2>2. ValueOf(Amount, tx.ins) + tx.ext \in Nat
        BY <1>10, <1>12
  <2> QED  BY <1>1, <1>14, <2>1, <2>2 DEF NoteLiability
<1> QED  BY <1>5, <1>6, <1>9, <1>16, <1>19, <1>20

(* A step that touches no leaf and no nullifier owes what was owed before.   *)
LEMMA LiabilityUnchanged ==
    ASSUME UNCHANGED treeVars
    PROVE  NoteLiability' = NoteLiability
BY DEF treeVars, NoteLiability, Amount, Unspent, Leaves

(* TotalLiabilities is the value of the unspent notes after any sequence of  *)
(* calls.  NotesBacked is inductive with TypeOK alone: an accepted           *)
(* transaction spends only unspent notes, and its proof conserves value with *)
(* the very amount the contract adds to or takes from the liabilities, which *)
(* also shows that the saturation of sub_liabilities never acts.             *)
THEOREM LiabilitiesAreBacked == Spec => []NotesBacked
<1>1. Init => NotesBacked
  <2> SUFFICES ASSUME Init
               PROVE  NotesBacked
      OBVIOUS
  <2>1. Unspent = {}
        BY DEF Init, Unspent, Leaves
  <2>2. NoteLiability = 0
        BY <2>1, ValueOfEmpty DEF NoteLiability
  <2> QED  BY <2>2 DEF Init, NotesBacked
<1>2. TypeOK /\ NotesBacked /\ [Next]_vars => NotesBacked'
  <2> SUFFICES ASSUME TypeOK, NotesBacked, [Next]_vars
               PROVE  NotesBacked'
      OBVIOUS
  <2>1. ASSUME NEW tx, Proposed(tx), Transact(tx)
        PROVE  NotesBacked'
    <3>1. tx.ext \in Int /\ Accepted(tx) /\ Settle(tx)
          BY <2>1 DEF Proposed, Transact, Deposit, Transfer, Withdraw
    <3>2. NoteLiability' = liabilities + tx.ext
          BY <2>1, <3>1, SettleValue DEF NotesBacked
    <3>3. liabilities' \in Nat /\ liabilities' = liabilities + tx.ext
      <4>1. liabilities \in Nat
            BY DEF TypeOK
      <4>2. CASE Deposit(tx)
            BY <3>1, <4>1, <4>2 DEF Deposit, AddLiabilities
      <4>3. CASE Transfer(tx)
            BY <3>1, <4>1, <4>3 DEF Transfer
      <4>4. CASE Withdraw(tx)
        <5>1. liabilities + tx.ext >= 0
              BY <2>1, <3>1, SettleValue DEF NotesBacked
        <5> QED  BY <3>1, <4>1, <4>4, <5>1 DEF Withdraw, SubLiabilities
      <4> QED  BY <2>1, <4>2, <4>3, <4>4 DEF Transact
    <3> QED  BY <3>2, <3>3 DEF NotesBacked
  <2>2. CASE UNCHANGED <<treeVars, liabilities>>
        BY <2>2, LiabilityUnchanged DEF NotesBacked
  <2>3. CASE \E payee \in Payees : CollectYield(payee)
        BY <2>2, <2>3 DEF CollectYield
  <2>4. CASE \E p \in InvestParams : UpdateInvestParams(p)
        BY <2>2, <2>4 DEF UpdateInvestParams
  <2>5. CASE UpdateAspRoots \/ Reprice \/ Donate \/ UNCHANGED vars
        BY <2>2, <2>5 DEF UpdateAspRoots, Reprice, Donate, vars
  <2> QED  BY <2>1, <2>3, <2>4, <2>5, StepCases
<1> QED  BY <1>1, <1>2, TypeCorrect, PTL DEF Spec

----------------------------------------------------------------------------
(***************************************************************************)
(* The policy.                                                             *)
(***************************************************************************)

(* A key spends only while the policy of that very moment allows it: a proof *)
(* that names an older policy root is refused, however well it verifies.     *)
THEOREM PolicyIsInForce == Spec => PolicyInForce
<1> DEFINE Allowed ==
        \A i \in nullifiers' \ nullifiers :
           /\ RequiresMembership    => notes[i].owner \in asp.allowed
           /\ RequiresNonMembership => notes[i].owner \notin asp.blocked
<1>1. TypeOK /\ [Next]_vars => Allowed
  <2> SUFFICES ASSUME TypeOK, [Next]_vars
               PROVE  Allowed
      OBVIOUS
  <2>1. ASSUME NEW tx, Proposed(tx), Transact(tx)
        PROVE  Allowed
    <3>1. Accepted(tx) /\ Settle(tx)
          BY <2>1 DEF Transact, Deposit, Transfer, Withdraw
    <3>2. nullifiers' = nullifiers \cup tx.ins
          BY <3>1 DEF Settle, MarkSpent
    <3>3. \A i \in tx.ins : notes[i].owner \in InputKeys(tx)
          BY DEF InputKeys
    <3> QED  BY <3>1, <3>2, <3>3 DEF Accepted, CurrentAspRoots, VerifyProof,
                                         AspMembership, AspNonMembership
  <2>2. CASE UNCHANGED nullifiers
        BY <2>2
  <2> QED  BY <2>1, <2>2, StepCases
           DEF CollectYield, UpdateInvestParams, UpdateAspRoots, Reprice, Donate,
               treeVars, vars
<1> QED  BY <1>1, TypeCorrect, PTL DEF Spec, PolicyInForce

----------------------------------------------------------------------------
(***************************************************************************)
(* Refinement.                                                             *)
(***************************************************************************)

(* The pool's transactions, seen through the refinement mapping, are the     *)
(* entries of the book: its initial state is an empty book, a transaction    *)
(* settles (it takes unspent notes and adds notes never used before, for     *)
(* exactly the change in what is owed) and everything else is a stutter.     *)
THEOREM PoolImplementsBook == Spec => ImplementsBook
<1> DEFINE held == [i \in Unspent |-> Amount[i]]
<1>1. Init => Book!Init
  <2> SUFFICES ASSUME Init
               PROVE  Book!Init
      OBVIOUS
  <2>1. Leaves = {} /\ Unspent = {}
        BY DEF Init, Unspent, Leaves
  <2> QED  BY <2>1 DEF Init, Book!Init
<1>2. TypeOK /\ NotesBacked /\ [Next]_vars /\ NotesBacked'
         => [Book!Settle]_(Book!vars)
  <2> SUFFICES ASSUME TypeOK, NotesBacked, [Next]_vars, NotesBacked'
               PROVE  [Book!Settle]_(Book!vars)
      OBVIOUS
  <2>1. ASSUME NEW tx, Proposed(tx), Transact(tx)
        PROVE  Book!Settle
    <3> DEFINE fresh == {nextIndex, nextIndex + 1}
    <3>1. tx.ext \in Int /\ Accepted(tx) /\ Settle(tx)
          BY <2>1 DEF Proposed, Transact, Deposit, Transfer, Withdraw
    <3>2. /\ tx.ins \subseteq Unspent
          /\ Unspent' = (Unspent \ tx.ins) \cup fresh
          /\ \A i \in Leaves : Amount'[i] = Amount[i]
          /\ ValueOf(Amount', fresh) = ValueOf(Amount, tx.ins) + tx.ext
          /\ NoteLiability' = NoteLiability + tx.ext
          /\ NoteLiability + tx.ext \in Nat
          BY <2>1, <3>1, SettleValue
    <3>3. Leaves' = Leaves \cup fresh
          BY <2>1, <3>1, SettleType DEF Proposed
    <3>4. fresh \cap Leaves = {} /\ Unspent \subseteq Leaves
          BY DEF TypeOK, Leaves, Unspent
    <3>5. /\ DOMAIN held = Unspent
          /\ DOMAIN held' = Unspent'
          /\ \A i \in Unspent : held[i] = Amount[i]
          /\ \A i \in Unspent' : held'[i] = Amount'[i]
          OBVIOUS
    <3> HIDE DEF held, fresh
    <3>6. Unspent \ Unspent' = tx.ins /\ Unspent' \ Unspent = fresh
          BY <3>2, <3>4
    <3>7. ValueOf(held', fresh) = ValueOf(Amount', fresh)
          BY <3>2, <3>5, ValueOfSame
    <3>8. ValueOf(held, tx.ins) = ValueOf(Amount, tx.ins)
          BY <3>2, <3>5, ValueOfSame
    <3>9. ValueOf(Amount, tx.ins) \in Nat
      <4>1. IsFiniteSet(tx.ins) /\ \A i \in tx.ins : Amount[i] \in Nat
            BY <3>2, <3>4, AmountType, FS_Subset
      <4> QED  BY <4>1, ValueOfType
    <3>10. liabilities' = liabilities + ValueOf(held', fresh) - ValueOf(held, tx.ins)
          BY <3>1, <3>2, <3>7, <3>8, <3>9 DEF NotesBacked, TypeOK
    <3>11. liabilities' >= 0
          BY <3>2 DEF NotesBacked
    <3>12. \A i \in Unspent \ tx.ins : held'[i] = held[i]
          BY <3>2, <3>4, <3>5
    <3>13. Book!Fresh = fresh /\ Book!Gone = tx.ins
          BY <3>5, <3>6 DEF Book!Fresh, Book!Gone, held
    <3>14. \A a, S : Book!ValueOf(a, S) = ValueOf(a, S)
          BY DEF Book!ValueOf, Book!Stroops, Book!Cardinality, ValueOf, Stroops,
                 Cardinality
    <3>15. fresh \cap Leaves = {}
          BY <3>4
    <3>16. \A i \in (DOMAIN held) \ tx.ins : held'[i] = held[i]
          BY <3>5, <3>12
    <3>17. liabilities' = liabilities + Book!ValueOf(held', fresh)
                            - Book!ValueOf(held, tx.ins)
          BY <3>10, <3>14
    <3> QED  BY <3>3, <3>11, <3>13, <3>15, <3>16, <3>17 DEF Book!Settle, held
  <2>2. CASE UNCHANGED <<treeVars, liabilities>>
        BY <2>2 DEF Book!vars, treeVars, Unspent, Leaves, Amount
  <2> QED  BY <2>1, <2>2, StepCases
           DEF CollectYield, UpdateInvestParams, UpdateAspRoots, Reprice, Donate, vars
<1> QED  BY <1>1, <1>2, TypeCorrect, LiabilitiesAreBacked, PTL
         DEF Spec, ImplementsBook, Book!Spec

----------------------------------------------------------------------------
(***************************************************************************)
(* The vault: payments, the buffer and the surplus.                        *)
(***************************************************************************)

(* What ensure_idle did: nothing, or a divest whose payment is what the      *)
(* redeemed shares are worth less the vault's fee, and which redeems enough  *)
(* for the buffer too or all there is.                                       *)
LEMMA EnsureIdleDivests ==
    ASSUME TypeOK, NEW required \in Nat, NEW funded \in EnsureIdle(required)
    PROVE  \/ required <= idle /\ funded.idle = idle /\ funded.shares = shares
           \/ \E redeemed \in 0 .. shares, out \in Nat :
                 /\ idle < required
                 /\ funded.idle = idle + out
                 /\ funded.shares = shares - redeemed
                 /\ required - idle <= out
                 /\ Worth(redeemed, price) <= out + VaultFee
                 /\ \/ redeemed = shares
                    \/ Worth(redeemed, price) >= required - idle + Buffer
<1>1. /\ price \in Nat /\ idle \in Nat /\ shares \in Nat /\ Buffer \in Nat
      /\ VaultFee \in Nat
      BY PoolAssumption, VaultAssumption DEF TypeOK, Buffer
<1>2. CASE idle >= required
      BY <1>1, <1>2 DEF EnsureIdle
<1>3. CASE ~(idle >= required)
  <2> DEFINE deficit  == required - idle
             redeemed == SharesNeeded(deficit, Buffer, shares, price)
  <2>1. deficit \in Nat
        BY <1>1, <1>3
  <2>2. /\ Worth(ShareProbe, price) # 0
        /\ funded \in {[idle |-> idle + out, shares |-> shares - redeemed] :
                          out \in Payouts(redeemed, deficit, price)}
        BY <1>3 DEF EnsureIdle
  <2>3. Worth(ShareProbe, price) > 0
        BY <1>1, <2>2, WorthType, VaultAssumption
  <2>4. redeemed \in 0 .. shares
        BY <1>1, <2>1, <2>3, SharesNeededType
  <2>5. redeemed = shares \/ Worth(redeemed, price) >= deficit + Buffer
        BY <1>1, <2>1, <2>3, NeededIsEnough
  <2> HIDE DEF deficit, redeemed
  <2>6. PICK out \in Payouts(redeemed, deficit, price) :
               funded = [idle |-> idle + out, shares |-> shares - redeemed]
        BY <2>2
  <2>7. redeemed \in Nat /\ Worth(redeemed, price) \in Nat
        BY <1>1, <2>4, WorthType
  <2>8. out \in Nat /\ out >= deficit /\ Worth(redeemed, price) <= out + VaultFee
        BY <1>1, <2>7 DEF Payouts
  <2>9. funded.idle = idle + out /\ funded.shares = shares - redeemed
        BY <2>6
  <2>10. idle < required /\ required - idle <= out
        BY <1>1, <1>3, <2>8 DEF deficit
  <2>11. redeemed = shares \/ Worth(redeemed, price) >= required - idle + Buffer
        BY <2>5 DEF deficit
  <2> QED  BY <2>4, <2>8, <2>9, <2>10, <2>11
<1> QED  BY <1>2, <1>3

(* ensure_idle loses a rounded stroop and the vault's fee at most, and       *)
(* nothing when there is enough idle.                                        *)
LEMMA EnsureIdleKeepsAssets ==
    ASSUME TypeOK, NEW required \in Nat, NEW funded \in EnsureIdle(required)
    PROVE  /\ funded.idle \in Nat /\ Worth(funded.shares, price) \in Nat
           /\ required <= funded.idle
           /\ VaultPositionValue \in Nat
           /\ idle + VaultPositionValue
                <= funded.idle + Worth(funded.shares, price) + VaultFee + 1
           /\ required <= idle =>
                funded.idle = idle /\ Worth(funded.shares, price) = VaultPositionValue
<1>1. price \in Nat /\ idle \in Nat /\ shares \in Nat /\ VaultFee \in Nat
      BY PoolAssumption, VaultAssumption DEF TypeOK
<1>2. funded.idle \in Nat /\ required <= funded.idle /\ funded.shares \in Nat
      BY EnsureIdleType
<1>3. Worth(funded.shares, price) \in Nat /\ VaultPositionValue \in Nat
      BY <1>1, <1>2, WorthType DEF VaultPositionValue
<1>4. CASE required <= idle /\ funded.idle = idle /\ funded.shares = shares
      BY <1>1, <1>2, <1>3, <1>4 DEF VaultPositionValue
<1>5. CASE \E redeemed \in 0 .. shares, out \in Nat :
              /\ idle < required
              /\ funded.idle = idle + out
              /\ funded.shares = shares - redeemed
              /\ Worth(redeemed, price) <= out + VaultFee
  <2>1. PICK redeemed \in 0 .. shares, out \in Nat :
              /\ idle < required
              /\ funded.idle = idle + out
              /\ funded.shares = shares - redeemed
              /\ Worth(redeemed, price) <= out + VaultFee
        BY <1>5
  <2>2. redeemed \in Nat /\ redeemed + funded.shares = shares
        BY <1>1, <2>1
  <2>3. /\ Worth(redeemed, price) \in Nat
        /\ Worth(redeemed + funded.shares, price)
             <= Worth(redeemed, price) + Worth(funded.shares, price) + 1
        BY <1>1, <1>2, <2>2, WorthSplits
  <2>4. VaultPositionValue <= Worth(redeemed, price) + Worth(funded.shares, price) + 1
        BY <2>2, <2>3 DEF VaultPositionValue
  <2>5. ~(required <= idle)
        BY <1>1, <2>1
  <2> QED  BY <1>1, <1>2, <1>3, <2>1, <2>3, <2>4, <2>5
<1> QED  BY <1>2, <1>3, <1>4, <1>5, EnsureIdleDivests

(* A solvent pool that the vault answers always finds the money: whatever    *)
(* the price, the probe's batch, the rounding up and the clamp (ensure_idle).*)
THEOREM SolventPoolServes == Spec => []ServedWhenSolvent
<1>1. TypeOK => ServedWhenSolvent
  <2> SUFFICES ASSUME TypeOK, Worth(ShareProbe, price) > 0, NEW required \in 1 .. Assets
               PROVE  EnsureIdle(required) # {}
      BY DEF ServedWhenSolvent
  <2>1. /\ price \in Nat /\ idle \in Nat /\ shares \in Nat /\ Buffer \in Nat
        /\ VaultFee \in Nat
        BY PoolAssumption, VaultAssumption DEF TypeOK, Buffer
  <2>2. Worth(shares, price) \in Nat
        BY <2>1, WorthType
  <2>3. required \in Nat /\ required <= idle + Worth(shares, price)
        BY <2>1, <2>2 DEF Assets, VaultPositionValue
  <2>4. CASE idle >= required
        BY <2>4 DEF EnsureIdle
  <2>5. CASE ~(idle >= required)
    <3> DEFINE deficit  == required - idle
               redeemed == SharesNeeded(deficit, Buffer, shares, price)
               out      == Worth(redeemed, price)
    <3>1. deficit \in Nat /\ deficit > 0 /\ deficit <= Worth(shares, price)
          BY <2>1, <2>2, <2>3, <2>5
    <3>2. shares # 0
      <4>1. 0 * price = 0 /\ 0 \div Unit = 0
            BY <2>1, VaultAssumption
      <4>2. Worth(0, price) = 0
            BY <4>1 DEF Worth
      <4> QED  BY <2>2, <3>1, <4>2
    <3>3. redeemed \in 0 .. shares
          BY <2>1, <3>1, SharesNeededType
    <3>4. redeemed = shares \/ out >= deficit + Buffer
          BY <2>1, <3>1, NeededIsEnough
    <3>5. EnsureIdle(required) =
            {[idle |-> idle + o, shares |-> shares - redeemed] :
                o \in Payouts(redeemed, deficit, price)}
          BY <2>5, <3>2 DEF EnsureIdle
    <3> HIDE DEF redeemed, deficit
    <3>6. out \in Nat
      <4>1. redeemed \in Nat
            BY <2>1, <3>3
      <4> QED  BY <2>1, <4>1, WorthType
    <3>7. out >= deficit
      <4>1. CASE redeemed = shares
        <5>1. out = Worth(shares, price)
              BY <4>1
        <5> HIDE DEF out
        <5>2. out >= deficit
              BY <2>2, <3>1, <5>1
        <5> QED  BY <5>2
      <4>2. CASE out >= deficit + Buffer
        <5> HIDE DEF out
        <5> QED  BY <2>1, <3>1, <3>6, <4>2
      <4> QED  BY <3>4, <4>1, <4>2
    <3> HIDE DEF out
    <3>8. Worth(redeemed, price) = out
          BY DEF out
    <3>9. out \in Payouts(redeemed, deficit, price)
          BY <2>1, <3>6, <3>7, <3>8 DEF Payouts
    <3> QED  BY <3>5, <3>9
  <2> QED  BY <2>4, <2>5
<1> QED  BY <1>1, TypeCorrect, PTL

(* Arithmetic of collect_yield: what is left after a payment of at most the  *)
(* surplus there still was.                                                  *)
LEMMA SurplusPaid ==
    ASSUME NEW have \in Nat, NEW cash \in Nat, NEW rest \in Nat, NEW owed \in Nat,
           NEW fee \in Nat, NEW left \in Nat, NEW pay \in Nat, NEW now \in Nat,
           owed < have, have <= cash + rest + fee + 1,
           left = (IF cash + rest > owed THEN cash + rest - owed ELSE 0),
           pay <= left, pay <= cash, now >= cash - pay
    PROVE  now + rest + fee >= owed
OBVIOUS

(* What collect_yield leaves covers what the pool owes, less the vault's fee.*)
LEMMA CollectLeavesEnough ==
    ASSUME TypeOK, NEW payee \in Payees, CollectYield(payee)
    PROVE  Assets' + VaultFee >= liabilities' /\ Assets' \in Nat
<1> DEFINE surplus == GetSurplus(idle, VaultPositionValue)
<1>1. PICK funded \in EnsureIdle(surplus) :
         LET left == GetSurplus(funded.idle, Worth(funded.shares, price))
             pay  == IF left < funded.idle THEN left ELSE funded.idle
         IN  /\ idle' = AfterPayment(funded.idle, pay, payee)
             /\ shares' = funded.shares
      BY DEF CollectYield
<1> DEFINE rest == Worth(funded.shares, price)
           left == GetSurplus(funded.idle, rest)
           pay  == IF left < funded.idle THEN left ELSE funded.idle
<1>2. surplus > 0 /\ price' = price /\ liabilities' = liabilities
      BY DEF CollectYield, vaultVars
<1>3. idle \in Nat /\ liabilities \in Nat /\ VaultFee \in Nat /\ price \in Nat /\ shares \in Nat
      BY PoolAssumption, VaultAssumption DEF TypeOK
<1>4. VaultPositionValue \in Nat
      BY <1>3, WorthType DEF VaultPositionValue
<1>5. surplus \in Nat /\ liabilities < idle + VaultPositionValue
      BY <1>2, <1>3, <1>4 DEF GetSurplus
<1>6. /\ funded.idle \in Nat /\ rest \in Nat
      /\ idle + VaultPositionValue <= funded.idle + rest + VaultFee + 1
      BY <1>5, EnsureIdleKeepsAssets
<1>7. idle' = AfterPayment(funded.idle, pay, payee)
      BY <1>1
<1>8. Assets' = idle' + rest
      BY <1>1, <1>2 DEF Assets, VaultPositionValue
<1> HIDE DEF surplus, rest
<1>9. left \in Nat /\ left = (IF funded.idle + rest > liabilities
                              THEN funded.idle + rest - liabilities ELSE 0)
      BY <1>3, <1>6 DEF GetSurplus
<1> HIDE DEF left
<1>10. pay \in Nat /\ pay <= left /\ pay <= funded.idle
      BY <1>6, <1>9
<1> HIDE DEF pay
<1>11. idle' \in Nat /\ idle' >= funded.idle - pay
      BY <1>6, <1>7, <1>10 DEF AfterPayment
<1> DEFINE have == idle + VaultPositionValue
           cash == funded.idle
           now  == idle'
<1>12. /\ have \in Nat /\ cash \in Nat /\ rest \in Nat /\ now \in Nat
       /\ left \in Nat /\ pay \in Nat
      BY <1>3, <1>4, <1>6, <1>9, <1>10, <1>11
<1>13. /\ liabilities < have /\ have <= cash + rest + VaultFee + 1
       /\ left = (IF cash + rest > liabilities THEN cash + rest - liabilities ELSE 0)
       /\ pay <= left /\ pay <= cash /\ now >= cash - pay
      BY <1>5, <1>6, <1>9, <1>10, <1>11
<1>14. Assets' = now + rest
      BY <1>8
<1> HIDE DEF have, cash, now
<1>15. now + rest \in Nat
      BY <1>12
<1>16. now + rest + VaultFee >= liabilities
      BY <1>3, <1>12, <1>13, SurplusPaid
<1> QED  BY <1>2, <1>14, <1>15, <1>16

(* collect_yield never reaches note-backed funds.                            *)
THEOREM CollectingIsSafe == Spec => CollectKeepsBacking
<1>1. TypeOK /\ [Next]_vars =>
        [(\E payee \in Payees : CollectYield(payee))
            => Assets' + VaultFee >= liabilities']_vars
      BY CollectLeavesEnough
<1> QED  BY <1>1, TypeCorrect, PTL DEF Spec, CollectKeepsBacking

(* Arithmetic: a redemption worth the deficit and the buffer leaves the      *)
(* buffer, less the vault's fee, whether or not the payment goes out.        *)
LEMMA RefillSplits ==
    ASSUME NEW cash \in Nat, NEW out \in Nat, NEW paid \in Nat, NEW fee \in Nat,
           NEW buffer \in Nat, NEW worth \in Nat, NEW had, NEW now,
           had = cash + out, now = had \/ now = had - paid,
           worth <= out + fee, worth >= paid - cash + buffer
    PROVE  now + fee >= buffer
OBVIOUS

(* A withdrawal that redeems shares refills the buffer, less what the vault  *)
(* kept back, or has redeemed every share.                                   *)
LEMMA WithdrawRefills ==
    ASSUME TypeOK, NEW tx, Proposed(tx), Withdraw(tx), shares' < shares
    PROVE  idle' + VaultFee >= Buffer \/ shares' = 0
<1> DEFINE paid == -tx.ext
<1>1. PICK funded \in EnsureIdle(paid) :
             /\ idle' = AfterPayment(funded.idle, paid, tx.payee)
             /\ shares' = funded.shares
      BY DEF Withdraw
<1>2. paid \in Nat
      BY DEF Withdraw, Proposed
<1> HIDE DEF paid
<1>3. price \in Nat /\ idle \in Nat /\ shares \in Nat /\ Buffer \in Nat /\ VaultFee \in Nat
      BY PoolAssumption, VaultAssumption DEF TypeOK, Buffer
<1>4. funded.shares # shares
      BY <1>1, <1>3
<1>5. PICK redeemed \in 0 .. shares, out \in Nat :
         /\ idle < paid
         /\ funded.idle = idle + out
         /\ funded.shares = shares - redeemed
         /\ paid - idle <= out
         /\ Worth(redeemed, price) <= out + VaultFee
         /\ \/ redeemed = shares
            \/ Worth(redeemed, price) >= paid - idle + Buffer
      BY <1>2, <1>4, EnsureIdleDivests
<1>6. CASE redeemed = shares
      BY <1>1, <1>3, <1>5, <1>6
<1>7. CASE Worth(redeemed, price) >= paid - idle + Buffer
  <2> DEFINE worth == Worth(redeemed, price)
  <2>1. redeemed \in Nat
        BY <1>3, <1>5
  <2>2. worth \in Nat
        BY <1>3, <2>1, WorthType
  <2>3. worth <= out + VaultFee /\ worth >= paid - idle + Buffer
        BY <1>5, <1>7
  <2> HIDE DEF worth
  <2>4. out \in Nat
        BY <1>5
  <2>5. funded.idle = idle + out /\ funded.idle \in Nat
        BY <1>3, <1>5, <2>4
  <2> DEFINE now == idle'
             had == funded.idle
  <2>6. now = had \/ now = had - paid
        BY <1>1 DEF AfterPayment
  <2>7. had = idle + out
        BY <2>5
  <2> HIDE DEF now, had
  <2>8. now + VaultFee >= Buffer
        BY <1>2, <1>3, <2>2, <2>3, <2>4, <2>6, <2>7, RefillSplits
  <2> QED  BY <2>8 DEF now
<1> QED  BY <1>5, <1>6, <1>7

(* The buffer is refilled: only a withdrawal lowers the liabilities.         *)
THEOREM DivestRefillsBuffer == Spec => BufferRefilled
<1>1. TypeOK /\ [Next]_vars =>
        [liabilities' < liabilities /\ shares' < shares
           => idle' + VaultFee >= Buffer \/ shares' = 0]_vars
  <2> SUFFICES ASSUME TypeOK, Next, liabilities' < liabilities, shares' < shares
               PROVE  idle' + VaultFee >= Buffer \/ shares' = 0
      BY DEF vars
  <2>1. liabilities \in Nat
        BY DEF TypeOK
  <2>2. CASE \E tx : Proposed(tx) /\ Transact(tx)
    <3>1. PICK tx : Proposed(tx) /\ Transact(tx)
          BY <2>2
    <3>2. ~ Deposit(tx)
          BY <2>1, <3>1 DEF Deposit, AddLiabilities, Proposed
    <3>3. ~ Transfer(tx)
          BY <2>1 DEF Transfer
    <3> QED  BY <3>1, <3>2, <3>3, WithdrawRefills DEF Transact
  <2>3. liabilities' # liabilities
        BY <2>1
  <2> QED  BY <2>2, <2>3, StepCases
           DEF CollectYield, UpdateInvestParams, UpdateAspRoots, Reprice, Donate
<1> QED  BY <1>1, TypeCorrect, PTL DEF Spec, BufferRefilled

(* Arithmetic of the shortfall: assets that follow the liabilities but for a *)
(* loss add that loss to the shortfall at most.                              *)
LEMMA ShortfallGrows ==
    ASSUME NEW owed \in Nat, NEW assets \in Nat, NEW owes \in Nat, NEW has \in Nat,
           NEW loss \in Nat, NEW moved \in Int,
           owes <= owed + moved, assets + moved <= has + loss
    PROVE  (IF owes > has THEN owes - has ELSE 0)
              <= (IF owed > assets THEN owed - assets ELSE 0) + loss
OBVIOUS

(* A deposit that is invested loses a share's price and a stroop at most.    *)
LEMMA InvestKeepsAssets ==
    ASSUME TypeOK, NEW cash \in Nat, NEW after \in MaybeInvest(cash)
    PROVE  /\ after.idle \in Nat /\ Worth(after.shares, price) \in Nat
           /\ VaultPositionValue \in Nat /\ price \div Unit \in Nat
           /\ cash + VaultPositionValue
                <= after.idle + Worth(after.shares, price) + price \div Unit + 1
<1>1. /\ price \in Nat /\ shares \in Nat /\ Unit \in Nat /\ Unit > 0
      /\ Buffer \in Nat /\ Threshold \in Nat /\ Buffer < Threshold
      BY PoolAssumption, VaultAssumption DEF TypeOK, Buffer, Threshold
<1>2. after.idle \in Nat /\ after.shares \in Nat
      BY MaybeInvestType
<1>3. Worth(after.shares, price) \in Nat /\ VaultPositionValue \in Nat
      BY <1>1, <1>2, WorthType DEF VaultPositionValue
<1>4. price \div Unit \in Nat
      BY <1>1, DivType
<1>5. CASE after = [idle |-> cash, shares |-> shares]
  <2>1. after.idle = cash /\ Worth(after.shares, price) = VaultPositionValue
        BY <1>5 DEF VaultPositionValue
  <2> DEFINE unit == price \div Unit
  <2>2. unit \in Nat
        BY <1>4
  <2> HIDE DEF unit
  <2>3. cash + VaultPositionValue <= cash + VaultPositionValue + unit + 1
        BY <1>3, <2>2
  <2> QED  BY <1>2, <1>3, <1>4, <2>1, <2>3 DEF unit
<1>6. CASE after # [idle |-> cash, shares |-> shares]
  <2> DEFINE bought == SharesFor(cash - Buffer, price)
             worth  == Worth(bought, price)
             unit   == price \div Unit
  <2>1. /\ cash >= Threshold /\ price > 0
        /\ after = [idle |-> Buffer, shares |-> shares + bought]
        BY <1>1, <1>6 DEF MaybeInvest
  <2>2. cash - Buffer \in Nat
        BY <1>1, <2>1
  <2>3. /\ bought \in Nat /\ worth \in Nat /\ unit \in Nat
        /\ cash - Buffer <= worth + unit + 1
        BY <1>1, <2>1, <2>2, InvestLosesLittle
  <2> HIDE DEF bought
  <2>4. Worth(shares, price) + worth <= Worth(shares + bought, price)
        BY <1>1, <2>3, WorthSplits
  <2>5. after.idle = Buffer /\ Worth(after.shares, price) = Worth(shares + bought, price)
        BY <2>1
  <2>6. VaultPositionValue + worth <= Worth(after.shares, price)
        BY <2>4, <2>5 DEF VaultPositionValue
  <2> DEFINE now == Worth(after.shares, price)
  <2>7. now \in Nat /\ VaultPositionValue + worth <= now
        BY <1>3, <2>6
  <2> HIDE DEF now, worth, unit
  <2>8. cash + VaultPositionValue <= Buffer + now + unit + 1
        BY <1>1, <1>3, <2>3, <2>7
  <2> QED  BY <1>2, <1>3, <1>4, <2>5, <2>8 DEF now, unit
<1> QED  BY <1>5, <1>6

\* What a step may add to the shortfall.
Loss == price \div Unit + 1 + VaultFee

(* Only the market hurts: at an unchanged price no call of the contract adds *)
(* more than roundings and the vault's fee to the shortfall.                 *)
LEMMA StepHurtsLittle ==
    ASSUME TypeOK, NotesBacked, Next, price' = price
    PROVE  Shortfall' <= Shortfall + Loss
<1>1. /\ price \in Nat /\ shares \in Nat /\ idle \in Nat /\ liabilities \in Nat
      /\ VaultFee \in Nat /\ Unit \in Nat /\ Unit > 0
      BY PoolAssumption, VaultAssumption DEF TypeOK
<1>2. VaultPositionValue \in Nat /\ price \div Unit \in Nat
      BY <1>1, WorthType, DivType DEF VaultPositionValue
<1>3. Assets \in Nat /\ Loss \in Nat /\ VaultFee + 1 <= Loss /\ price \div Unit + 1 <= Loss
  <2> DEFINE unit == price \div Unit
  <2>1. unit \in Nat
        BY <1>2
  <2> HIDE DEF unit
  <2>2. unit + 1 + VaultFee \in Nat /\ VaultFee + 1 <= unit + 1 + VaultFee
        /\ unit + 1 <= unit + 1 + VaultFee
        BY <1>1, <2>1
  <2>3. idle + VaultPositionValue \in Nat
        BY <1>1, <1>2
  <2> QED  BY <2>2, <2>3 DEF Assets, Loss, unit
<1>4. Shortfall = IF liabilities > Assets THEN liabilities - Assets ELSE 0
      BY DEF Shortfall
<1>5. Shortfall' = IF liabilities' > Assets' THEN liabilities' - Assets' ELSE 0
      BY DEF Shortfall
<1> DEFINE owes == liabilities'
           has  == Assets'
<1>6. ASSUME NEW moved \in Int, owes \in Nat, has \in Nat,
             owes <= liabilities + moved, Assets + moved <= has + Loss
      PROVE  Shortfall' <= Shortfall + Loss
  <2>1. Shortfall' = IF owes > has THEN owes - has ELSE 0
        BY <1>5
  <2> HIDE DEF owes, has
  <2>2. (IF owes > has THEN owes - has ELSE 0)
           <= (IF liabilities > Assets THEN liabilities - Assets ELSE 0) + Loss
        BY <1>1, <1>3, <1>6, ShortfallGrows
  <2> QED  BY <1>4, <2>1, <2>2
<1>7. ASSUME UNCHANGED <<liabilities, idle, shares>>
      PROVE  Shortfall' <= Shortfall + Loss
  <2>1. Shortfall' = Shortfall
        BY <1>7 DEF Shortfall, Assets, VaultPositionValue
  <2>2. Shortfall \in Nat
        BY <1>1, <1>3, <1>4
  <2> HIDE DEF owes, has
  <2> QED  BY <1>3, <2>1, <2>2
<1>8. ASSUME NEW tx, Proposed(tx), Deposit(tx)
      PROVE  Shortfall' <= Shortfall + Loss
  <2>1. tx.ext \in Int /\ tx.ext > 0 /\ idle + tx.ext \in Nat
        BY <1>1, <1>8 DEF Deposit, Proposed
  <2>2. PICK after \in MaybeInvest(idle + tx.ext) : idle' = after.idle /\ shares' = after.shares
        BY <1>8 DEF Deposit
  <2>3. owes = liabilities + tx.ext /\ owes \in Nat
        BY <1>1, <1>8, <2>1 DEF Deposit, AddLiabilities
  <2> DEFINE now  == Worth(after.shares, price)
             unit == price \div Unit
             cash == idle + tx.ext
  <2>4. /\ after.idle \in Nat /\ now \in Nat /\ unit \in Nat
        /\ cash + VaultPositionValue <= after.idle + now + unit + 1
        BY <2>1, <2>2, InvestKeepsAssets
  <2>5. has = after.idle + now
        BY <2>2 DEF Assets, VaultPositionValue
  <2>6. Assets + tx.ext = cash + VaultPositionValue
        BY <1>1, <1>2, <2>1 DEF Assets
  <2>7. unit + 1 <= Loss
        BY <1>3
  <2> HIDE DEF owes, has, now, unit, cash
  <2>8. has \in Nat
        BY <2>4, <2>5
  <2> DEFINE before == cash + VaultPositionValue
             left   == after.idle
  <2>9. before \in Int /\ left \in Nat
        BY <1>1, <1>2, <2>1, <2>4 DEF cash
  <2>10. has = left + now /\ before <= left + now + unit + 1
        BY <2>4, <2>5
  <2> HIDE DEF before, left
  <2>11. before <= has + Loss
        BY <1>3, <2>4, <2>7, <2>9, <2>10
  <2>12. Assets + tx.ext <= has + Loss
        BY <2>6, <2>11 DEF before
  <2> QED  BY <1>6, <2>1, <2>3, <2>8, <2>12 DEF owes, has
<1>9. ASSUME NEW tx, Proposed(tx), Withdraw(tx)
      PROVE  Shortfall' <= Shortfall + Loss
  <2> DEFINE paid == -tx.ext
  <2>1. tx.ext \in Int /\ paid \in Nat /\ paid > 0
        BY <1>9 DEF Withdraw, Proposed
  <2>2. PICK funded \in EnsureIdle(paid) :
               /\ idle' = AfterPayment(funded.idle, paid, tx.payee)
               /\ shares' = funded.shares
        BY <1>9 DEF Withdraw
  <2>3. liabilities + tx.ext \in Nat
        BY <1>9, SettleValue DEF Withdraw, NotesBacked
  <2>4. owes = liabilities + tx.ext /\ owes \in Nat
        BY <1>1, <1>9, <2>1, <2>3 DEF Withdraw, SubLiabilities
  <2> DEFINE now  == Worth(funded.shares, price)
             left == idle'
  <2>5. /\ funded.idle \in Nat /\ now \in Nat /\ paid <= funded.idle
        /\ idle + VaultPositionValue <= funded.idle + now + VaultFee + 1
        BY <2>1, <2>2, EnsureIdleKeepsAssets
  <2>6. left \in Nat /\ left >= funded.idle - paid
        BY <2>1, <2>2, <2>5 DEF AfterPayment
  <2>7. has = left + now
        BY <2>2 DEF Assets, VaultPositionValue
  <2>8. Assets = idle + VaultPositionValue
        BY DEF Assets
  <2>9. tx.ext = -paid
        BY <2>1
  <2> HIDE DEF owes, has, now, left, paid
  <2>10. has \in Nat /\ Assets + tx.ext <= has + Loss
        BY <1>1, <1>3, <2>1, <2>5, <2>6, <2>7, <2>8, <2>9
  <2> QED  BY <1>6, <2>1, <2>4, <2>10 DEF owes, has
<1>10. ASSUME NEW payee \in Payees, CollectYield(payee)
       PROVE  Shortfall' <= Shortfall + Loss
  <2>1. has + VaultFee >= owes /\ has \in Nat
        BY <1>10, CollectLeavesEnough
  <2>2. owes \in Nat
        BY <1>1, <1>10 DEF CollectYield
  <2>3. Shortfall' = IF owes > has THEN owes - has ELSE 0
        BY <1>5
  <2>4. Shortfall \in Nat
        BY <1>1, <1>3, <1>4
  <2> HIDE DEF owes, has
  <2>5. Shortfall' \in Nat /\ Shortfall' <= VaultFee
        BY <1>1, <2>1, <2>2, <2>3
  <2> QED  BY <1>1, <1>3, <2>4, <2>5
<1>11. CASE Donate
  <2>1. /\ owes = liabilities /\ owes \in Nat
        /\ has = idle + 1 + VaultPositionValue
        BY <1>1, <1>11 DEF Donate, Assets, VaultPositionValue
  <2>2. Assets = idle + VaultPositionValue
        BY DEF Assets
  <2> HIDE DEF owes, has
  <2>3. has \in Nat /\ Assets + 0 <= has + Loss /\ owes <= liabilities + 0
        BY <1>1, <1>2, <1>3, <2>1, <2>2
  <2> QED  BY <1>6, <2>1, <2>3 DEF owes, has
<1>12. CASE \E tx : Proposed(tx) /\ Transact(tx)
       BY <1>7, <1>8, <1>9, <1>12 DEF Transact, Transfer
<1>13. CASE Reprice \/ UpdateAspRoots \/ \E p \in InvestParams : UpdateInvestParams(p)
       BY <1>7, <1>13 DEF Reprice, UpdateAspRoots, UpdateInvestParams
<1> QED  BY <1>10, <1>11, <1>12, <1>13, StepCases

(* Any step that leaves the share price alone adds at most a rounding error  *)
(* and the vault's fee to the shortfall (transact, collect_yield).           *)
THEOREM MarketAloneHurts == Spec => OnlyTheMarketHurts
<1>1. TypeOK /\ NotesBacked /\ [Next]_vars =>
        [price' = price => Shortfall' <= Shortfall + price \div Unit + 1 + VaultFee]_vars
  <2> SUFFICES ASSUME TypeOK, NotesBacked, Next, price' = price
               PROVE  Shortfall' <= Shortfall + price \div Unit + 1 + VaultFee
      BY DEF vars
  <2>1. price \in Nat /\ Unit \in Nat /\ Unit > 0 /\ VaultFee \in Nat
        BY PoolAssumption, VaultAssumption DEF TypeOK
  <2> DEFINE unit == price \div Unit
  <2>2. unit \in Nat
        BY <2>1, DivType
  <2>3. Shortfall \in Nat
    <3>1. VaultPositionValue \in Nat /\ idle \in Nat /\ liabilities \in Nat
          BY <2>1, WorthType DEF VaultPositionValue, TypeOK
    <3>2. Assets \in Nat
          BY <3>1 DEF Assets
    <3> QED  BY <3>1, <3>2 DEF Shortfall
  <2>4. Shortfall' <= Shortfall + (unit + 1 + VaultFee)
        BY StepHurtsLittle DEF Loss
  <2> HIDE DEF unit
  <2>5. Shortfall + (unit + 1 + VaultFee) = Shortfall + unit + 1 + VaultFee
        BY <2>1, <2>2, <2>3
  <2> QED  BY <2>4, <2>5 DEF unit
<1> QED  BY <1>1, TypeCorrect, LiabilitiesAreBacked, PTL DEF Spec, OnlyTheMarketHurts
=============================================================================
