----------------------------- MODULE CtSyncProofs -----------------------------
(* The openings of the confidential-token wallet, for any number of refreshes  *)
(* beside the one tab that makes operations, any chain of events, any window   *)
(* of the RPC that covers the seam and the indexer's lag.                      *)
EXTENDS CtSync, PositionLemmas

----------------------------------------------------------------------------
(* The replay of a chain's events, onto openings. *)

\* The last position is a number.
LEMMA LastPositionType == LastPosition \in Nat
  BY CtSyncAssumption, WidthAssumption DEF LastPosition, EndOf, FirstOf

\* Replay's recursive definition has a solution, so Replay is one.
LEMMA ReplayDef ==
  ASSUME NEW h, NEW b, NEW E
  PROVE  Replay(h, b, E) =
           [n \in 0 .. LastPosition |->
              IF n = 0 THEN b
              ELSE IF n \in E THEN Apply(h, Replay(h, b, E)[n - 1], n)
              ELSE Replay(h, b, E)[n - 1]]
PROOF
  <1> DEFINE Next1(f, n) == IF n \in E THEN Apply(h, f[n - 1], n) ELSE f[n - 1]
             Body(f, m) == [n \in 0 .. m |-> IF n = 0 THEN b ELSE Next1(f, n)]
             S == {m \in Nat : \E f : f = Body(f, m)}
  <1>1. 0 \in S
    <2>1. [n \in 0 .. 0 |-> b] = Body([n \in 0 .. 0 |-> b], 0)
          OBVIOUS
    <2> QED  BY <2>1
  <1>2. ASSUME NEW m \in Nat, m \in S
        PROVE  m + 1 \in S
    <2>1. PICK f : f = Body(f, m)
          BY <1>2
    <2> DEFINE g == [n \in 0 .. m + 1 |-> IF n = m + 1 THEN Next1(f, n) ELSE f[n]]
    <2>2. \A n \in 0 .. m + 1 : n # 0 => n - 1 \in 0 .. m + 1 /\ g[n - 1] = f[n - 1]
          OBVIOUS
    <2>3. \A n \in 0 .. m + 1 : n # 0 => Next1(g, n) = Next1(f, n)
          BY <2>2
    <2>4. \A n \in 0 .. m : f[n] = IF n = 0 THEN b ELSE Next1(f, n)
          BY <2>1
    <2>5. \A n \in 0 .. m + 1 : g[n] = IF n = 0 THEN b ELSE Next1(f, n)
          BY <2>4
    <2> HIDE DEF Next1
    <2>6. \A n \in 0 .. m + 1 : g[n] = IF n = 0 THEN b ELSE Next1(g, n)
          BY <2>3, <2>5
    <2>7. g = Body(g, m + 1)
          BY <2>6
    <2> HIDE DEF g, Body
    <2> QED  BY <2>7
  <1>3. \E f : f = Body(f, LastPosition)
    <2>1. \A m \in Nat : m \in S
      <3> HIDE DEF S
      <3> QED  BY <1>1, <1>2, SetInduction
    <2> QED  BY <2>1, LastPositionType
  <1>4. Replay(h, b, E) = CHOOSE f : f = Body(f, LastPosition)
        BY DEF Replay
  <1> DEFINE r == Replay(h, b, E)
  <1>5. r = Body(r, LastPosition)
    <2> HIDE DEF Body
    <2> QED BY <1>3, <1>4
  <1> QED  BY <1>5

\* The openings after position n.
After(h, b, E, n) == Replay(h, b, E)[n]

\* Replay starts from the openings it is given and, at each position, applies the
\* event there if it was fetched.
LEMMA ReplayStep ==
  ASSUME NEW h, NEW b, NEW E
  PROVE  /\ After(h, b, E, 0) = b
         /\ \A n \in 1 .. LastPosition :
              After(h, b, E, n) = IF n \in E THEN Apply(h, After(h, b, E, n - 1), n)
                                  ELSE After(h, b, E, n - 1)
PROOF
  <1> DEFINE r == Replay(h, b, E)
  <1>1. r = [n \in 0 .. LastPosition |->
               IF n = 0 THEN b ELSE IF n \in E THEN Apply(h, r[n - 1], n) ELSE r[n - 1]]
        BY ReplayDef
  <1> HIDE DEF r
  <1>2. \A n \in 0 .. LastPosition :
          r[n] = IF n = 0 THEN b ELSE IF n \in E THEN Apply(h, r[n - 1], n) ELSE r[n - 1]
        BY <1>1
  <1> QED  BY <1>2, LastPositionType DEF r, After

\* Two replays that agree at p, and have the same events from there to q, agree at
\* q, whatever they have elsewhere.
LEMMA ReplayAgree ==
  ASSUME NEW h1, NEW b1, NEW E1, NEW h2, NEW b2, NEW E2,
         NEW p \in 0 .. LastPosition, NEW q \in p .. LastPosition,
         After(h1, b1, E1, p) = After(h2, b2, E2, p),
         \A n \in p + 1 .. q : /\ n \in E1 <=> n \in E2
                               /\ n \in E1 => h1[n] = h2[n]
  PROVE  After(h1, b1, E1, q) = After(h2, b2, E2, q)
PROOF
  <1> DEFINE r1(pos) == After(h1, b1, E1, pos)
             r2(pos) == After(h2, b2, E2, pos)
             S  == {k \in Nat : p + k <= q => r1(p + k) = r2(p + k)}
  <1>1. 0 \in S
        BY LastPositionType
  <1>2. ASSUME NEW k \in Nat, k \in S
        PROVE  k + 1 \in S
    <2> SUFFICES ASSUME p + k + 1 <= q
                 PROVE  r1(p + (k + 1)) = r2(p + (k + 1))
        OBVIOUS
    <2> DEFINE n == p + (k + 1)
    <2>1. n \in 1 .. LastPosition /\ n - 1 = p + k /\ n \in p + 1 .. q /\ p + k <= q
          BY LastPositionType
    <2>2. r1(n - 1) = r2(n - 1)
          BY <1>2, <2>1
    <2>3. /\ r1(n) = IF n \in E1 THEN Apply(h1, r1(n - 1), n) ELSE r1(n - 1)
          /\ r2(n) = IF n \in E2 THEN Apply(h2, r2(n - 1), n) ELSE r2(n - 1)
          BY <2>1, ReplayStep
    <2> HIDE DEF n, r1, r2
    <2>4. n \in E1 => Apply(h1, r1(n - 1), n) = Apply(h2, r1(n - 1), n)
          BY <2>1 DEF Apply
    <2>5. r1(n) = r2(n)
          BY <2>1, <2>2, <2>3, <2>4
    <2> QED  BY <2>5 DEF n
  <1>3. \A k \in Nat : k \in S
    <2> HIDE DEF S
    <2> QED  BY <1>1, <1>2, SetInduction
  <1>4. q - p \in Nat /\ p + (q - p) = q
        BY LastPositionType
  <1> QED  BY <1>3, <1>4

\* In particular, two replays of one chain.
LEMMA SameFrom ==
  ASSUME NEW h, NEW b1, NEW E1, NEW b2, NEW E2,
         NEW p \in 0 .. LastPosition, NEW q \in p .. LastPosition,
         After(h, b1, E1, p) = After(h, b2, E2, p),
         \A n \in p + 1 .. q : n \in E1 <=> n \in E2
  PROVE  After(h, b1, E1, q) = After(h, b2, E2, q)
  BY ReplayAgree

\* Where nothing was fetched, nothing changes.
LEMMA ReplayQuiet ==
  ASSUME NEW h, NEW b, NEW E, NEW p \in 0 .. LastPosition, NEW q \in p .. LastPosition,
         \A n \in p + 1 .. q : n \notin E
  PROVE  After(h, b, E, q) = After(h, b, E, p)
PROOF
  <1> DEFINE r(pos) == After(h, b, E, pos)
             S == {k \in Nat : p + k <= q => r(p + k) = r(p)}
  <1>1. 0 \in S
        BY LastPositionType
  <1>2. ASSUME NEW k \in Nat, k \in S
        PROVE  k + 1 \in S
    <2> SUFFICES ASSUME p + k + 1 <= q
                 PROVE  r(p + (k + 1)) = r(p)
        OBVIOUS
    <2> DEFINE n == p + (k + 1)
    <2>1. n \in 1 .. LastPosition /\ n - 1 = p + k /\ n \in p + 1 .. q /\ p + k <= q
          BY LastPositionType
    <2>2. r(n) = IF n \in E THEN Apply(h, r(n - 1), n) ELSE r(n - 1)
      <3>1. n \in 1 .. LastPosition
            BY <2>1
      <3> HIDE DEF n
      <3> QED  BY <3>1, ReplayStep
    <2> HIDE DEF n, r
    <2>3. r(n) = r(p)
          BY <1>2, <2>1, <2>2
    <2> QED  BY <2>3 DEF n
  <1>3. \A k \in Nat : k \in S
    <2> HIDE DEF S
    <2> QED  BY <1>1, <1>2, SetInduction
  <1>4. q - p \in Nat /\ p + (q - p) = q
        BY LastPositionType
  <1> QED  BY <1>3, <1>4

----------------------------------------------------------------------------
(* What the three kinds of events do to a pair of openings. *)

\* A pair of openings, and a set of events the loop knows how to apply.
Shaped(b) == b = [spendable |-> b.spendable, receiving |-> b.receiving]
Known(h, E) == \A n \in E : h[n] \in Kinds

\* The receiving balance with one more credit.
Credited(bag, n) == bag (+) SetToBag({n})

\* A credit goes to the receiving balance.
LEMMA ApplyCredit ==
  ASSUME NEW h, NEW b, NEW n, h[n] = "credit", Shaped(b)
  PROVE  Apply(h, b, n) = [spendable |-> b.spendable, receiving |-> Credited(b.receiving, n)]
PROOF
  <1> DEFINE s == b.spendable
             r == b.receiving
  <1>1. b = [spendable |-> s, receiving |-> r]
        BY DEF Shaped
  <1>2. Apply(h, b, n) = [b EXCEPT !.receiving = Credited(r, n)]
        BY DEF Apply, Credited
  <1> HIDE DEF s, r
  <1>3. Apply(h, b, n) = [spendable |-> s, receiving |-> Credited(r, n)]
        BY <1>1, <1>2
  <1> QED  BY <1>3 DEF s, r

\* A merge moves the receiving balance to the spendable one.
LEMMA ApplyMerge ==
  ASSUME NEW h, NEW b, NEW n, h[n] = "merge"
  PROVE  Apply(h, b, n) = [spendable |-> [b.spendable EXCEPT !.credits = @ (+) b.receiving],
                           receiving |-> EmptyBag]
  BY DEF Apply, Merged

\* A spend says what its spendable opening is, whatever it was before.
LEMMA ApplySpend ==
  ASSUME NEW h, NEW b, NEW n, h[n] = "spend", Shaped(b)
  PROVE  Apply(h, b, n) = [spendable |-> Spent(n), receiving |-> b.receiving]
PROOF
  <1> DEFINE s == b.spendable
             r == b.receiving
  <1>1. b = [spendable |-> s, receiving |-> r]
        BY DEF Shaped
  <1>2. Apply(h, b, n) = [b EXCEPT !.spendable = Spent(n)]
        BY DEF Apply
  <1> HIDE DEF s, r
  <1>3. Apply(h, b, n) = [spendable |-> Spent(n), receiving |-> r]
        BY <1>1, <1>2
  <1> QED  BY <1>3 DEF r

\* An event makes a pair of openings of a pair of openings.
LEMMA ApplyShaped ==
  ASSUME NEW h, NEW b, NEW n, h[n] \in Kinds, Shaped(b)
  PROVE  Shaped(Apply(h, b, n))
PROOF
  <1>1. CASE h[n] = "credit"
        BY <1>1, ApplyCredit DEF Shaped
  <1>2. CASE h[n] = "merge"
        BY <1>2, ApplyMerge DEF Shaped
  <1>3. CASE h[n] = "spend"
        BY <1>3, ApplySpend DEF Shaped
  <1> QED  BY <1>1, <1>2, <1>3 DEF Kinds

\* The receiving balance an event leaves does not depend on the spendable one.
LEMMA ApplyReceiving ==
  ASSUME NEW h, NEW x, NEW y, NEW n, h[n] \in Kinds, Shaped(x), Shaped(y),
         x.receiving = y.receiving
  PROVE  Apply(h, x, n).receiving = Apply(h, y, n).receiving
PROOF
  <1>1. CASE h[n] = "credit"
        BY <1>1, ApplyCredit
  <1>2. CASE h[n] = "merge"
        BY <1>2, ApplyMerge
  <1>3. CASE h[n] = "spend"
        BY <1>3, ApplySpend
  <1> QED  BY <1>1, <1>2, <1>3 DEF Kinds

\* Neither does a replay lose that shape.
LEMMA ReplayShaped ==
  ASSUME NEW h, NEW b, NEW E, Known(h, E), Shaped(b)
  PROVE  \A q \in 0 .. LastPosition : Shaped(After(h, b, E, q))
PROOF
  <1> DEFINE r(pos) == After(h, b, E, pos)
             S == {q \in Nat : q <= LastPosition => Shaped(r(q))}
  <1>1. 0 \in S
        BY ReplayStep
  <1>2. ASSUME NEW k \in Nat, k \in S
        PROVE  k + 1 \in S
    <2> SUFFICES ASSUME k + 1 <= LastPosition
                 PROVE  Shaped(r(k + 1))
        OBVIOUS
    <2> DEFINE n == k + 1
    <2>1. n \in 1 .. LastPosition /\ n - 1 = k /\ k <= LastPosition
          BY LastPositionType
    <2>2. r(n) = IF n \in E THEN Apply(h, r(n - 1), n) ELSE r(n - 1)
      <3>1. n \in 1 .. LastPosition
            BY <2>1
      <3> HIDE DEF n
      <3> QED  BY <3>1, ReplayStep
    <2>3. Shaped(r(k))
          BY <1>2, <2>1
    <2> HIDE DEF n, r
    <2> DEFINE before == r(k)
    <2>4. r(n) = IF n \in E THEN Apply(h, before, n) ELSE before
          BY <2>1, <2>2
    <2> HIDE DEF before
    <2>5. Shaped(before)
          BY <2>3 DEF before
    <2>6. n \in E => h[n] \in Kinds
          BY DEF Known
    <2>7. n \in E => Shaped(Apply(h, before, n))
          BY <2>5, <2>6, ApplyShaped
    <2>8. Shaped(r(n))
          BY <2>4, <2>5, <2>7
    <2> QED  BY <2>8 DEF n
  <1>3. \A k \in Nat : k \in S
    <2> HIDE DEF S
    <2> QED  BY <1>1, <1>2, SetInduction
  <1> QED  BY <1>3, LastPositionType

\* Credits alone leave the spendable opening as it was.
LEMMA OnlyCredits ==
  ASSUME NEW h, NEW b, NEW E, Known(h, E), Shaped(b),
         NEW p \in 0 .. LastPosition, NEW q \in p .. LastPosition,
         \A n \in p + 1 .. q : n \in E => h[n] = "credit"
  PROVE  After(h, b, E, q).spendable = After(h, b, E, p).spendable
PROOF
  <1> DEFINE r(pos) == After(h, b, E, pos)
             S == {k \in Nat : p + k <= q => r(p + k).spendable = r(p).spendable}
  <1>1. 0 \in S
        BY LastPositionType
  <1>2. ASSUME NEW k \in Nat, k \in S
        PROVE  k + 1 \in S
    <2> SUFFICES ASSUME p + k + 1 <= q
                 PROVE  r(p + (k + 1)).spendable = r(p).spendable
        OBVIOUS
    <2> DEFINE n == p + (k + 1)
    <2>1. /\ n \in 1 .. LastPosition /\ n - 1 = p + k /\ n \in p + 1 .. q /\ p + k <= q
          /\ n - 1 \in 0 .. LastPosition
          BY LastPositionType
    <2>2. r(n) = IF n \in E THEN Apply(h, r(n - 1), n) ELSE r(n - 1)
      <3>1. n \in 1 .. LastPosition
            BY <2>1
      <3> HIDE DEF n
      <3> QED  BY <3>1, ReplayStep
    <2>3. Shaped(r(n - 1))
          BY <2>1, ReplayShaped
    <2> HIDE DEF n, r
    <2>4. n \in E => h[n] = "credit" /\ h[n] \in Kinds
          BY <2>1 DEF Kinds
    <2> DEFINE before == r(n - 1)
    <2> HIDE DEF before
    <2>5. n \in E => Apply(h, before, n).spendable = before.spendable
          BY <2>3, <2>4, ApplyCredit DEF before
    <2>6. r(n).spendable = before.spendable
          BY <2>2, <2>5 DEF before
    <2>7. before.spendable = r(p).spendable
          BY <1>2, <2>1 DEF before
    <2> QED  BY <2>6, <2>7 DEF n
  <1>3. \A k \in Nat : k \in S
    <2> HIDE DEF S
    <2> QED  BY <1>1, <1>2, SetInduction
  <1>4. q - p \in Nat /\ p + (q - p) = q
        BY LastPositionType
  <1> QED  BY <1>3, <1>4

\* Replays from the same receiving balance keep the same receiving balance.
LEMMA SameReceiving ==
  ASSUME NEW h, NEW b1, NEW b2, NEW E, Known(h, E), Shaped(b1), Shaped(b2),
         b1.receiving = b2.receiving
  PROVE  \A q \in 0 .. LastPosition :
           After(h, b1, E, q).receiving = After(h, b2, E, q).receiving
PROOF
  <1> DEFINE r1(pos) == After(h, b1, E, pos)
             r2(pos) == After(h, b2, E, pos)
             S == {q \in Nat : q <= LastPosition => r1(q).receiving = r2(q).receiving}
  <1>1. 0 \in S
        BY ReplayStep
  <1>2. ASSUME NEW k \in Nat, k \in S
        PROVE  k + 1 \in S
    <2> SUFFICES ASSUME k + 1 <= LastPosition
                 PROVE  r1(k + 1).receiving = r2(k + 1).receiving
        OBVIOUS
    <2> DEFINE n == k + 1
    <2>1. n \in 1 .. LastPosition /\ n - 1 = k /\ k \in 0 .. LastPosition
          BY LastPositionType
    <2>2. /\ r1(n) = IF n \in E THEN Apply(h, r1(n - 1), n) ELSE r1(n - 1)
          /\ r2(n) = IF n \in E THEN Apply(h, r2(n - 1), n) ELSE r2(n - 1)
      <3>1. n \in 1 .. LastPosition
            BY <2>1
      <3> HIDE DEF n
      <3>2. r1(n) = IF n \in E THEN Apply(h, r1(n - 1), n) ELSE r1(n - 1)
            BY <3>1, ReplayStep
      <3>3. r2(n) = IF n \in E THEN Apply(h, r2(n - 1), n) ELSE r2(n - 1)
            BY <3>1, ReplayStep
      <3> QED  BY <3>2, <3>3
    <2>3. Shaped(r1(k)) /\ Shaped(r2(k))
          BY <2>1, ReplayShaped
    <2>4. r1(k).receiving = r2(k).receiving
          BY <1>2, <2>1
    <2> HIDE DEF n, r1, r2
    <2>5. n \in E => h[n] \in Kinds
          BY DEF Known
    <2> DEFINE x == r1(k)
               y == r2(k)
    <2>6. /\ r1(n) = IF n \in E THEN Apply(h, x, n) ELSE x
          /\ r2(n) = IF n \in E THEN Apply(h, y, n) ELSE y
          /\ Shaped(x) /\ Shaped(y) /\ x.receiving = y.receiving
          BY <2>1, <2>2, <2>3, <2>4
    <2> HIDE DEF x, y
    <2>7. ASSUME n \in E
          PROVE  Apply(h, x, n).receiving = Apply(h, y, n).receiving
      <3> QED  BY <2>5, <2>6, <2>7, ApplyReceiving
    <2>8. r1(n).receiving = r2(n).receiving
          BY <2>6, <2>7
    <2> QED  BY <2>8 DEF n
  <1>3. \A k \in Nat : k \in S
    <2> HIDE DEF S
    <2> QED  BY <1>1, <1>2, SetInduction
  <1> QED  BY <1>3, LastPositionType

\* Once a spend is replayed, what the spendable opening was before is forgotten:
\* why setSpendable may write an opening ahead of its event.
LEMMA SpendWins ==
  ASSUME NEW h, NEW b1, NEW b2, NEW E, Known(h, E), Shaped(b1), Shaped(b2),
         b1.receiving = b2.receiving,
         NEW s \in 1 .. LastPosition, s \in E, h[s] = "spend",
         NEW q \in s .. LastPosition
  PROVE  After(h, b1, E, q) = After(h, b2, E, q)
PROOF
  <1> DEFINE r1(pos) == After(h, b1, E, pos)
             r2(pos) == After(h, b2, E, pos)
  <1>1. s \in 0 .. LastPosition /\ s - 1 \in 0 .. LastPosition
        BY LastPositionType
  <1>2. Shaped(r1(s - 1)) /\ Shaped(r2(s - 1)) /\ r1(s - 1).receiving = r2(s - 1).receiving
        BY <1>1, ReplayShaped, SameReceiving
  <1>3. r1(s) = Apply(h, r1(s - 1), s) /\ r2(s) = Apply(h, r2(s - 1), s)
    <2>1. r1(s) = Apply(h, r1(s - 1), s)
          BY ReplayStep
    <2>2. r2(s) = Apply(h, r2(s - 1), s)
          BY ReplayStep
    <2> QED  BY <2>1, <2>2
  <1>4. r1(s) = r2(s)
    <2> DEFINE x == r1(s - 1)
               y == r2(s - 1)
               v == Apply(h, x, s)
               w == Apply(h, y, s)
    <2> HIDE DEF x, y
    <2>2. v = [spendable |-> Spent(s), receiving |-> x.receiving]
          BY <1>2, ApplySpend DEF x
    <2>3. w = [spendable |-> Spent(s), receiving |-> y.receiving]
          BY <1>2, ApplySpend DEF y
    <2>4. v = w
          BY <1>2, <2>2, <2>3 DEF x, y
    <2> QED  BY <1>3, <2>4 DEF v, w, x, y
  <1> QED  BY <1>1, <1>4, ReplayAgree

\* After a spend, with only credits since, the spendable opening is the spend's.
LEMMA LastSpend ==
  ASSUME NEW h, NEW b, NEW E, Known(h, E), Shaped(b),
         NEW s \in 1 .. LastPosition, s \in E, h[s] = "spend",
         NEW q \in s .. LastPosition,
         \A n \in s + 1 .. q : n \in E => h[n] = "credit"
  PROVE  After(h, b, E, q).spendable = Spent(s)
PROOF
  <1> DEFINE r(pos) == After(h, b, E, pos)
  <1>1. s \in 0 .. LastPosition /\ s - 1 \in 0 .. LastPosition
        BY LastPositionType
  <1>2. r(s) = Apply(h, r(s - 1), s) /\ Shaped(r(s - 1))
        BY <1>1, ReplayStep, ReplayShaped
  <1>3. r(s).spendable = Spent(s)
    <2> DEFINE x == r(s - 1)
    <2> HIDE DEF x
    <2>2. Apply(h, x, s).spendable = Spent(s)
          BY <1>2, ApplySpend DEF x
    <2> QED  BY <1>2, <2>2 DEF x
  <1>4. r(q).spendable = r(s).spendable
        BY <1>1, OnlyCredits
  <1> QED  BY <1>3, <1>4

----------------------------------------------------------------------------
(* Credits counted once. *)

\* The openings are made of credits that happened, each of them once.
OnceAmong(b, C) ==
  \E S \in SUBSET C, T \in SUBSET C :
    /\ S \cap T = {}
    /\ b = [spendable |-> [spend |-> b.spendable.spend, credits |-> SetToBag(S)],
            receiving |-> SetToBag(T)]

\* The credits among the fetched events, up to q.
CreditsUpTo(h, E, q) == {e \in E : h[e] = "credit" /\ e <= q}

\* More credits may have happened.
LEMMA OnceGrows ==
  ASSUME NEW b, NEW C, NEW D, C \subseteq D, OnceAmong(b, C)
  PROVE  OnceAmong(b, D)
PROOF
  <1> C \in SUBSET D /\ SUBSET C \subseteq SUBSET D
        OBVIOUS
  <1> QED BY DEF OnceAmong

\* Two sets without a common member, as bags, add to their union.
LEMMA BagAdds ==
  ASSUME NEW S, NEW T, S \cap T = {}
  PROVE  SetToBag(S) (+) SetToBag(T) = SetToBag(S \cup T)
  BY DEF (+), SetToBag

\* Such a pair of openings is a pair of openings.
LEMMA OnceIsShaped ==
  ASSUME NEW b, NEW C, OnceAmong(b, C)
  PROVE  Shaped(b)
  BY DEF OnceAmong, Shaped

\* An event not counted yet leaves the credits counted once.
LEMMA ApplyOnce ==
  ASSUME NEW h, NEW b, NEW n, h[n] \in Kinds, NEW C, OnceAmong(b, C), n \notin C
  PROVE  OnceAmong(Apply(h, b, n), IF h[n] = "credit" THEN C \cup {n} ELSE C)
PROOF
  <1>1. PICK S \in SUBSET C, T \in SUBSET C :
          /\ S \cap T = {}
          /\ b = [spendable |-> [spend |-> b.spendable.spend, credits |-> SetToBag(S)],
                  receiving |-> SetToBag(T)]
        BY DEF OnceAmong
  <1>2. Shaped(b)
        BY OnceIsShaped
  <1> DEFINE v == Apply(h, b, n)
             p == b.spendable.spend
  <1>3. b.spendable = [spend |-> p, credits |-> SetToBag(S)] /\ b.receiving = SetToBag(T)
        BY <1>1
  <1>4. CASE h[n] = "credit"
    <2>1. v = [spendable |-> b.spendable, receiving |-> SetToBag(T) (+) SetToBag({n})]
          BY <1>2, <1>3, <1>4, ApplyCredit DEF Credited
    <2>2. SetToBag(T) (+) SetToBag({n}) = SetToBag(T \cup {n})
          BY BagAdds
    <2> DEFINE U == T \cup {n}
               D == C \cup {n}
    <2>3. S \in SUBSET D /\ U \in SUBSET D /\ S \cap U = {}
          BY <1>1
    <2> HIDE DEF v, p
    <2>4. v = [spendable |-> [spend |-> p, credits |-> SetToBag(S)], receiving |-> SetToBag(U)]
          BY <1>3, <2>1, <2>2
    <2>5. v.spendable.spend = p
          BY <2>4
    <2> HIDE DEF U, D
    <2>6. OnceAmong(v, D)
          BY <2>3, <2>4, <2>5 DEF OnceAmong
    <2> QED  BY <1>4, <2>6 DEF v, D
  <1>5. CASE h[n] = "merge"
    <2>1. v = [spendable |-> [b.spendable EXCEPT !.credits = @ (+) b.receiving],
               receiving |-> EmptyBag]
          BY <1>5, ApplyMerge
    <2>2. SetToBag(S) (+) SetToBag(T) = SetToBag(S \cup T)
          BY <1>1, BagAdds
    <2> HIDE DEF p, v
    <2> DEFINE U == S \cup T
               N == {}
    <2>3. U \in SUBSET C /\ N \in SUBSET C /\ U \cap N = {}
          BY <1>1
    <2>4. v.spendable = [spend |-> p, credits |-> SetToBag(U)]
      <3> DEFINE x == b.spendable
      <3>1. x = [spend |-> p, credits |-> SetToBag(S)] /\ b.receiving = SetToBag(T)
            BY <1>3
      <3>2. v.spendable = [x EXCEPT !.credits = SetToBag(S) (+) SetToBag(T)]
            BY <1>3, <2>1
      <3> HIDE DEF x
      <3>3. v.spendable = [spend |-> p, credits |-> SetToBag(S) (+) SetToBag(T)]
            BY <3>1, <3>2
      <3> QED  BY <2>2, <3>3
    <2>5. v = [spendable |-> [spend |-> p, credits |-> SetToBag(U)], receiving |-> SetToBag(N)]
          BY <2>1, <2>4 DEF EmptyBag
    <2>6. v.spendable.spend = p
          BY <2>4
    <2> HIDE DEF U, N
    <2>7. OnceAmong(v, C)
          BY <2>3, <2>5, <2>6 DEF OnceAmong
    <2> QED  BY <1>5, <2>7 DEF v
  <1>6. CASE h[n] = "spend"
    <2>1. v = [spendable |-> Spent(n), receiving |-> SetToBag(T)]
          BY <1>2, <1>3, <1>6, ApplySpend
    <2>2. Spent(n) = [spend |-> n, credits |-> SetToBag({})]
          BY DEF Spent, EmptyBag
    <2> HIDE DEF v
    <2> DEFINE N == {}
    <2>3. N \in SUBSET C /\ T \in SUBSET C /\ N \cap T = {}
          OBVIOUS
    <2>4. v = [spendable |-> [spend |-> n, credits |-> SetToBag(N)], receiving |-> SetToBag(T)]
          BY <2>1, <2>2
    <2>5. v.spendable.spend = n
          BY <2>4
    <2> HIDE DEF N
    <2>6. OnceAmong(v, C)
          BY <2>3, <2>4, <2>5 DEF OnceAmong
    <2> QED  BY <1>6, <2>6 DEF v
  <1> QED  BY <1>4, <1>5, <1>6 DEF Kinds

\* The empty openings count none.
LEMMA EmptyOnce == OnceAmong(Empty, {})
PROOF
  <1> DEFINE N == {}
  <1>1. Empty = [spendable |-> [spend |-> 0, credits |-> SetToBag(N)], receiving |-> SetToBag(N)]
        BY DEF Empty, Spent, EmptyBag
  <1>2. Empty.spendable.spend = 0
        BY DEF Empty, Spent
  <1>3. N \in SUBSET N /\ N \cap N = {}
        OBVIOUS
  <1> HIDE DEF N
  <1>4. OnceAmong(Empty, N)
        BY <1>1, <1>2, <1>3 DEF OnceAmong
  <1> QED  BY <1>4 DEF N

\* What the chain makes of an account holds each of its credits at most once.
LEMMA ReplayOnce ==
  ASSUME NEW h, NEW E, Known(h, E), E \subseteq Nat \ {0}
  PROVE  \A q \in 0 .. LastPosition :
           OnceAmong(After(h, Empty, E, q), CreditsUpTo(h, E, q))
PROOF
  <1> DEFINE r(pos) == After(h, Empty, E, pos)
             S == {q \in Nat : q <= LastPosition => OnceAmong(r(q), CreditsUpTo(h, E, q))}
  <1>1. 0 \in S
    <2>1. r(0) = Empty
          BY ReplayStep
    <2> HIDE DEF r
    <2> QED  BY <2>1, EmptyOnce, OnceGrows
  <1>2. ASSUME NEW k \in Nat, k \in S
        PROVE  k + 1 \in S
    <2> SUFFICES ASSUME k + 1 <= LastPosition
                 PROVE  OnceAmong(r(k + 1), CreditsUpTo(h, E, k + 1))
        OBVIOUS
    <2> DEFINE n == k + 1
               before == r(k)
               C == CreditsUpTo(h, E, k)
               D == CreditsUpTo(h, E, n)
    <2>1. n \in 1 .. LastPosition /\ n - 1 = k /\ k <= LastPosition
          BY LastPositionType
    <2>2. r(n) = IF n \in E THEN Apply(h, before, n) ELSE before
          BY <2>1, ReplayStep
    <2>3. OnceAmong(before, C)
          BY <1>2, <2>1
    <2>4. n \notin C /\ C \subseteq D /\ (n \in E /\ h[n] = "credit" => C \cup {n} \subseteq D)
      <3>1. \A e : e \in C <=> e \in E /\ h[e] = "credit" /\ e <= k
            BY DEF CreditsUpTo
      <3>2. \A e : e \in D <=> e \in E /\ h[e] = "credit" /\ e <= n
            BY DEF CreditsUpTo
      <3>3. k \in Nat /\ n \in Nat /\ ~(n <= k) /\ n <= n
            OBVIOUS
      <3> HIDE DEF C, D
      <3>4. \A e \in E : e <= k => e <= n
            OBVIOUS
      <3> HIDE DEF n
      <3> QED  BY <3>1, <3>2, <3>3, <3>4
    <2> HIDE DEF n, r, before, C, D
    <2>5. CASE n \in E
      <3>1. h[n] \in Kinds
            BY <2>5 DEF Known
      <3>2. OnceAmong(Apply(h, before, n), IF h[n] = "credit" THEN C \cup {n} ELSE C)
            BY <2>3, <2>4, <3>1, ApplyOnce
      <3>3. (IF h[n] = "credit" THEN C \cup {n} ELSE C) \subseteq D
            BY <2>4, <2>5
      <3>4. OnceAmong(Apply(h, before, n), D)
            BY <3>2, <3>3, OnceGrows
      <3> QED  BY <2>2, <2>5, <3>4 DEF n, D
    <2>6. CASE n \notin E
          BY <2>2, <2>3, <2>4, <2>6, OnceGrows DEF n, D
    <2> QED  BY <2>5, <2>6
  <1>3. \A k \in Nat : k \in S
    <2> HIDE DEF S
    <2> QED  BY <1>1, <1>2, SetInduction
  <1> QED  BY <1>3, LastPositionType

----------------------------------------------------------------------------
(* The inductive invariant. *)

\* Where a replay can stop.
Position == 0 .. LastPosition

\* What the chain makes of the account up to q.
Truth(h, q) == After(h, Empty, DOMAIN h, q)

\* Replaying what comes after the record's cursor, as far as the chain is closed,
\* gives what replaying all of it gives.
Sound(h, t, r) ==
  After(h, r.balance, {e \in DOMAIN h : e > r.cursor}, EndOf(t))
     = Truth(h, EndOf(t))

\* A record, stored or loaded: synced to the end of a closed ledger, its openings
\* made of credits that happened, each once, and sound.
RecordOK(h, t, r) ==
  /\ r = [balance |-> r.balance, cursor |-> r.cursor]
  /\ r.cursor = 0 \/ \E l \in StartLedger .. t : r.cursor = EndOf(l)
  /\ OnceAmong(r.balance, {e \in DOMAIN h : h[e] = "credit"})
  /\ Sound(h, t, r)

\* The account's events are after its deployment, in a ledger closed or open, and
\* none is where a ledger ends.
EventsOK(h, t) ==
  \A e \in DOMAIN h :
    /\ e \in Nat /\ FirstOf(StartLedger + 1) <= e /\ e < EndOf(t + 1)
    /\ \A l \in Nat : e /= EndOf(l)
    /\ h[e] \in Kinds

\* A sync under way has, or will read, every event its openings lack.
ReadsAll(h, t, ar, x) ==
  /\ x.phase = "backfill" =>
       \E l \in 1 .. ar + 1 : x.start = FirstOf(l) /\ x.state.cursor < FirstOf(l)
  /\ x.phase = "tail" =>
       /\ x.start \in Nat /\ x.start <= FirstOf(t + 1)
       /\ x.events \subseteq {e \in DOMAIN h : e > x.state.cursor /\ e <= EndOf(t)}
       /\ \A e \in DOMAIN h : e > x.state.cursor /\ e < x.start => e \in x.events
       /\ \A e \in DOMAIN h : e >= x.start => e > x.state.cursor

\* All the fields of an actor.
Whole(x) ==
  x = [phase |-> x.phase, spending |-> x.spending, state |-> x.state,
       start |-> x.start, events |-> x.events]

\* An actor: the record it loaded is sound, its sync reads all it lacks, the proof
\* it makes is about what the chain made of the account, and the spend it awaits is
\* the account's last.
ActorOK(h, t, ar, x) ==
  /\ Whole(x)
  /\ RecordOK(h, t, x.state)
  /\ x.phase \in {"loaded", "backfill"} => x.events = {}
  /\ ReadsAll(h, t, ar, x)
  /\ x.phase = "proving" =>
       x.state.balance = Truth(h, x.state.cursor)
  /\ x.phase = "awaiting" =>
       /\ x.start \in DOMAIN h /\ h[x.start] = "spend"
       /\ \A e \in DOMAIN h : e > x.start => h[e] = "credit"

\* The chain, the account on it and the indexer.
WorldOK(h, t, truth, ar) ==
  /\ t \in StartLedger .. MaxLedger
  /\ ar \in StartLedger .. t /\ t <= ar + MaxLag
  /\ EventsOK(h, t)
  /\ truth = Truth(h, LastPosition)

\* Only an operator has a spend under way.
Waits(x) == x.spending \/ x.phase \in {"proving", "awaiting"}

\* Every actor, and only an operator spends.
TabsOK(h, t, ar, tabs) ==
  /\ DOMAIN tabs = Actors
  /\ \A a \in Actors : ActorOK(h, t, ar, tabs[a]) /\ (Waits(tabs[a]) => a \in Operators)

\* The inductive invariant.
IInv ==
  /\ WorldOK(chain, tip, account, archived)
  /\ RecordOK(chain, tip, store)
  /\ TabsOK(chain, tip, archived, actor)

\* The RPC keeps more ledgers than the seam and the indexer's lag take up.
IndexerKeepsUp == Retention >= SeamMargin + MaxLag

\* One merge or spend runs at a time. Neither one tab nor its busy marks see to that:
\* a merge of the balance card may run beside a spend of the same tab's form. The run
\* ct_two_tabs shows what happens then.
OneOperator == \A a, b \in Operators : a = b

\* A chain that goes on from a closed ledger t.
Extends(h, g, t) ==
  /\ DOMAIN h \subseteq DOMAIN g
  /\ \A e \in DOMAIN h : g[e] = h[e]
  /\ \A e \in DOMAIN g : e \in DOMAIN h \/ e > EndOf(t)

----------------------------------------------------------------------------
(* Where events, cursors and ledgers' ends are. *)

\* A closed ledger's end, and where the open one begins, are positions.
LEMMA Bounds ==
  ASSUME NEW t \in StartLedger .. MaxLedger
  PROVE  /\ t \in Nat /\ t >= 1 /\ EndOf(t) \in Position /\ EndOf(t) \in Nat
         /\ FirstOf(t + 1) \in Nat /\ EndOf(t) = FirstOf(t + 1) - 1
         /\ EndOf(t + 1) <= LastPosition /\ EndOf(t + 1) \in Nat
         /\ FirstOf(t + 1) < EndOf(t + 1) + 1 /\ FirstOf(StartLedger + 1) <= FirstOf(t + 1)
         /\ EndOf(t) < EndOf(t + 1)
PROOF
  <1>1. /\ t \in Nat /\ t >= 1 /\ MaxLedger + 1 \in Nat /\ StartLedger + 1 \in Nat
        /\ t + 1 \in Nat /\ t <= MaxLedger + 1 /\ t + 1 <= MaxLedger + 1
        /\ StartLedger + 1 <= t + 1
        BY CtSyncAssumption
  <1>2. /\ FirstOf(t + 1) \in Nat /\ EndOf(t) \in Nat /\ EndOf(t) = FirstOf(t + 1) - 1
        /\ FirstOf(t + 1) < FirstOf(t + 1 + 1) /\ EndOf(t + 1) = FirstOf(t + 1 + 1) - 1
        /\ EndOf(t + 1) \in Nat
        BY <1>1, FirstOfType
  <1>3. EndOf(t + 1) <= EndOf(MaxLedger + 1) /\ EndOf(t) <= EndOf(MaxLedger + 1)
        BY <1>1, PositionsSplit
  <1>4. FirstOf(StartLedger + 1) <= FirstOf(t + 1)
        BY <1>1, FirstOfMonotone, CtSyncAssumption
  <1>5. FirstOf(t + 1 + 1) \in Nat /\ EndOf(t) < EndOf(t + 1)
    <2>1. EndOf(t) < FirstOf(t + 1) /\ FirstOf(t + 1) <= EndOf(t + 1)
          BY <1>1, <1>2, FirstOfType
    <2> QED  BY <1>1, <1>2, <2>1, FirstOfType
  <1> QED  BY <1>1, <1>2, <1>3, <1>4, <1>5, LastPositionType DEF LastPosition, Position

\* An event's position is one of those replayed.
LEMMA EventBounds ==
  ASSUME NEW t \in StartLedger .. MaxLedger, NEW h, EventsOK(h, t), NEW e \in DOMAIN h
  PROVE  e \in 1 .. LastPosition
PROOF
  <1>1. e \in Nat /\ FirstOf(StartLedger + 1) <= e /\ e < EndOf(t + 1)
        BY DEF EventsOK
  <1>2. EndOf(t + 1) <= LastPosition /\ EndOf(t + 1) \in Nat
        BY Bounds
  <1>3. FirstOf(StartLedger + 1) \in Nat /\ FirstOf(StartLedger) \in Nat /\ FirstOf(StartLedger) < FirstOf(StartLedger + 1)
        BY CtSyncAssumption, FirstOfType
  <1> QED  BY <1>1, <1>2, <1>3, LastPositionType

\* The loop knows how to apply every event of the chain.
LEMMA EventsKnown ==
  ASSUME NEW t, NEW h, EventsOK(h, t), NEW E, E \subseteq DOMAIN h
  PROVE  Known(h, E)
  BY DEF EventsOK, Known

\* A record's cursor is where a closed ledger ends.
LEMMA CursorBounds ==
  ASSUME NEW t \in StartLedger .. MaxLedger, NEW h, NEW r, RecordOK(h, t, r)
  PROVE  r.cursor \in Nat /\ r.cursor <= EndOf(t) /\ r.cursor \in Position
PROOF
  <1>1. EndOf(t) \in Nat /\ EndOf(t) \in Position /\ t \in Nat
        BY Bounds
  <1>2. CASE r.cursor = 0
        BY <1>1, <1>2, LastPositionType DEF Position
  <1>3. CASE \E l \in StartLedger .. t : r.cursor = EndOf(l)
    <2>1. PICK l \in StartLedger .. t : r.cursor = EndOf(l)
          BY <1>3
    <2>2. l \in Nat /\ l <= t
          BY <1>1, CtSyncAssumption
    <2>3. EndOf(l) \in Nat /\ EndOf(l) <= EndOf(t)
          BY <1>1, <2>2, FirstOfType, PositionsSplit
    <2> QED  BY <1>1, <2>1, <2>3, LastPositionType DEF Position
  <1> QED  BY <1>2, <1>3 DEF RecordOK

----------------------------------------------------------------------------
(* The chain goes on. *)

\* A chain that goes on leaves what was made of its closed part.
LEMMA PastIsKept ==
  ASSUME NEW h, NEW g, NEW t \in StartLedger .. MaxLedger, NEW t2 \in t .. MaxLedger,
         EventsOK(h, t), EventsOK(g, t2), Extends(h, g, t), NEW b, NEW c,
         NEW q \in 0 .. EndOf(t)
  PROVE  After(g, b, {e \in DOMAIN g : e > c}, q) = After(h, b, {e \in DOMAIN h : e > c}, q)
PROOF
  <1> DEFINE G == {e \in DOMAIN g : e > c}
             H == {e \in DOMAIN h : e > c}
  <1>1. After(g, b, G, 0) = After(h, b, H, 0)
        BY ReplayStep
  <1>2. 0 \in Position /\ q \in Position /\ EndOf(t) \in Nat
        BY Bounds, LastPositionType DEF Position
  <1>3. \A n \in 1 .. q : (n \in G <=> n \in H) /\ (n \in G => g[n] = h[n])
        BY <1>2 DEF Extends
  <1> HIDE DEF G, H
  <1>4. After(g, b, G, q) = After(h, b, H, q)
        BY <1>1, <1>2, <1>3, ReplayAgree DEF Position
  <1> QED  BY <1>4 DEF G, H

\* Every event is past position 0.
LEMMA WholeChain ==
  ASSUME NEW t \in StartLedger .. MaxLedger, NEW h, EventsOK(h, t)
  PROVE  {e \in DOMAIN h : e > 0} = DOMAIN h
  BY EventBounds

\* A record stays sound as the chain goes on.
LEMMA RecordKept ==
  ASSUME NEW h, NEW g, NEW t \in StartLedger .. MaxLedger, NEW t2 \in t .. MaxLedger,
         EventsOK(h, t), EventsOK(g, t2), Extends(h, g, t), NEW r, RecordOK(h, t, r)
  PROVE  RecordOK(g, t2, r)
PROOF
  <1> DEFINE c == r.cursor
             b == r.balance
             G == {e \in DOMAIN g : e > c}
             H == {e \in DOMAIN h : e > c}
  <1>1. t2 \in StartLedger .. MaxLedger /\ t \in Nat /\ t2 \in Nat /\ t <= t2
        BY CtSyncAssumption
  <1>2. c \in Nat /\ c <= EndOf(t)
        BY CursorBounds
  <1>3. EndOf(t) \in Position /\ EndOf(t2) \in Position /\ EndOf(t) <= EndOf(t2) /\ EndOf(t) \in Nat
        BY <1>1, Bounds, PositionsSplit
  <1>4. After(g, b, G, EndOf(t)) = After(h, b, H, EndOf(t))
    <2>1. EndOf(t) \in 0 .. EndOf(t)
          BY <1>3
    <2> HIDE DEF b, c
    <2> QED  BY <2>1, PastIsKept
  <1>5. Truth(g, EndOf(t)) = Truth(h, EndOf(t))
    <2>1. {e \in DOMAIN g : e > 0} = DOMAIN g /\ {e \in DOMAIN h : e > 0} = DOMAIN h
          BY <1>1, WholeChain
    <2>2. After(g, Empty, {e \in DOMAIN g : e > 0}, EndOf(t)) = After(h, Empty, {e \in DOMAIN h : e > 0}, EndOf(t))
          BY <1>3, PastIsKept
    <2> QED  BY <2>1, <2>2 DEF Truth
  <1>6. After(h, b, H, EndOf(t)) = Truth(h, EndOf(t))
        BY DEF RecordOK, Sound
  <1>7. \A n \in EndOf(t) + 1 .. EndOf(t2) : n \in G <=> n \in DOMAIN g
        BY <1>2, <1>3
  <1>8. After(g, b, G, EndOf(t2)) = Truth(g, EndOf(t2))
    <2> DEFINE p == EndOf(t)
               q == EndOf(t2)
               D == DOMAIN g
    <2>1. After(g, b, G, p) = After(g, Empty, D, p)
          BY <1>4, <1>5, <1>6 DEF Truth
    <2>2. p \in 0 .. LastPosition /\ q \in p .. LastPosition
          BY <1>3, LastPositionType DEF Position
    <2>3. \A n \in p + 1 .. q : n \in G <=> n \in D
          BY <1>7
    <2> HIDE DEF G, b, p, q, D
    <2>5. After(g, b, G, q) = After(g, Empty, D, q)
          BY <2>1, <2>2, <2>3, SameFrom
    <2> QED  BY <2>5 DEF q, D, Truth
  <1>9. Sound(g, t2, r)
        BY <1>8 DEF Sound
  <1>10. OnceAmong(b, {e \in DOMAIN g : g[e] = "credit"})
    <2>1. {e \in DOMAIN h : h[e] = "credit"} \subseteq {e \in DOMAIN g : g[e] = "credit"}
          BY DEF Extends
    <2> QED  BY <2>1, OnceGrows DEF RecordOK
  <1>11. r.cursor = 0 \/ \E l \in StartLedger .. t2 : r.cursor = EndOf(l)
    <2>1. StartLedger .. t \subseteq StartLedger .. t2
          BY <1>1, CtSyncAssumption
    <2> QED  BY <2>1 DEF RecordOK
  <1> QED  BY <1>9, <1>10, <1>11 DEF RecordOK

\* So does an actor, unless a spend or merge comes after the spend it awaits.
LEMMA ActorKept ==
  ASSUME NEW h, NEW g, NEW t \in StartLedger .. MaxLedger, NEW t2 \in t .. MaxLedger,
         EventsOK(h, t), EventsOK(g, t2), Extends(h, g, t),
         NEW ar \in Nat, NEW ar2 \in Nat, ar <= ar2,
         NEW x, ActorOK(h, t, ar, x),
         x.phase = "awaiting" => \A e \in DOMAIN g \ DOMAIN h : g[e] = "credit"
  PROVE  ActorOK(g, t2, ar2, x)
PROOF
  <1>1. t2 \in StartLedger .. MaxLedger /\ t \in Nat /\ t2 \in Nat /\ t <= t2
        BY CtSyncAssumption
  <1>2. RecordOK(h, t, x.state)
        BY DEF ActorOK
  <1>3. RecordOK(g, t2, x.state)
        BY <1>2, RecordKept
  <1>4. x.state.cursor \in Nat /\ x.state.cursor <= EndOf(t)
        BY <1>2, CursorBounds
  <1>5. /\ EndOf(t) \in Nat /\ EndOf(t2) \in Nat /\ EndOf(t) <= EndOf(t2)
        /\ FirstOf(t + 1) \in Nat /\ FirstOf(t2 + 1) \in Nat /\ FirstOf(t + 1) <= FirstOf(t2 + 1)
        /\ EndOf(t) = FirstOf(t + 1) - 1
        BY <1>1, Bounds, PositionsSplit, FirstOfMonotone
  <1>6. \A e \in DOMAIN g : e \in Nat
        BY DEF EventsOK
  <1>7. ReadsAll(g, t2, ar2, x)
    <2>1. CASE x.phase = "backfill"
      <3>1. PICK l \in 1 .. ar + 1 : x.start = FirstOf(l) /\ x.state.cursor < FirstOf(l)
            BY <2>1 DEF ActorOK, ReadsAll
      <3>2. l \in 1 .. ar2 + 1
            OBVIOUS
      <3> QED  BY <2>1, <3>1, <3>2 DEF ReadsAll
    <2>2. CASE x.phase = "tail"
      <3>1. /\ x.start \in Nat /\ x.start <= FirstOf(t + 1)
            /\ x.events \subseteq {e \in DOMAIN h : e > x.state.cursor /\ e <= EndOf(t)}
            /\ \A e \in DOMAIN h : e > x.state.cursor /\ e < x.start => e \in x.events
            /\ \A e \in DOMAIN h : e >= x.start => e > x.state.cursor
            BY <2>2 DEF ActorOK, ReadsAll
      <3>2. x.start <= FirstOf(t2 + 1)
            BY <1>5, <3>1
      <3>3. x.events \subseteq {e \in DOMAIN g : e > x.state.cursor /\ e <= EndOf(t2)}
            BY <1>5, <1>6, <3>1 DEF Extends
      <3>4. ASSUME NEW e \in DOMAIN g, e \notin DOMAIN h
            PROVE  e > x.state.cursor /\ ~(e < x.start)
        <4>1. e > EndOf(t) /\ e \in Nat
              BY <1>6, <3>4 DEF Extends
        <4> QED  BY <1>4, <1>5, <3>1, <4>1
      <3> QED  BY <2>2, <3>1, <3>2, <3>3, <3>4 DEF ReadsAll
    <2> QED  BY <2>1, <2>2 DEF ReadsAll
  <1>8. ASSUME x.phase = "proving"
        PROVE  x.state.balance = Truth(g, x.state.cursor)
    <2>1. {e \in DOMAIN g : e > 0} = DOMAIN g /\ {e \in DOMAIN h : e > 0} = DOMAIN h
          BY <1>1, WholeChain
    <2>2. x.state.cursor \in 0 .. EndOf(t)
          BY <1>4, <1>5
    <2>3. After(g, Empty, {e \in DOMAIN g : e > 0}, x.state.cursor)
            = After(h, Empty, {e \in DOMAIN h : e > 0}, x.state.cursor)
          BY <2>2, PastIsKept
    <2> QED  BY <1>8, <2>1, <2>3 DEF ActorOK, Truth
  <1>9. ASSUME x.phase = "awaiting"
        PROVE  /\ x.start \in DOMAIN g /\ g[x.start] = "spend"
               /\ \A e \in DOMAIN g : e > x.start => g[e] = "credit"
        BY <1>9 DEF ActorOK, Extends
  <1> QED  BY <1>3, <1>7, <1>8, <1>9 DEF ActorOK

----------------------------------------------------------------------------
(* An event happens. *)

\* One more event in the open ledger.
Added(h, t, n, kind, g) ==
  /\ n \in Nat /\ FirstOf(t + 1) <= n /\ n < EndOf(t + 1)
  /\ \A e \in DOMAIN h : e < n
  /\ kind \in Kinds
  /\ g = [e \in DOMAIN h \cup {n} |-> IF e = n THEN kind ELSE h[e]]

\* What that makes of the chain.
OneMore(h, g, n, kind) ==
  /\ DOMAIN g = DOMAIN h \cup {n} /\ n \notin DOMAIN h
  /\ g[n] = kind /\ \A e \in DOMAIN h : g[e] = h[e]

\* The chain with that event is a chain that goes on.
LEMMA EventAdded ==
  ASSUME NEW t \in StartLedger .. MaxLedger, NEW h, EventsOK(h, t),
         NEW n, NEW kind, NEW g, Added(h, t, n, kind, g)
  PROVE  EventsOK(g, t) /\ Extends(h, g, t) /\ OneMore(h, g, n, kind)
PROOF
  <1>1. /\ n \in Nat /\ FirstOf(t + 1) <= n /\ n < EndOf(t + 1)
        /\ \A e \in DOMAIN h : e < n
        /\ kind \in Kinds
        BY DEF Added
  <1>2. n \notin DOMAIN h
        BY <1>1
  <1>3. /\ DOMAIN g = DOMAIN h \cup {n} /\ g[n] = kind
        /\ \A e \in DOMAIN h : g[e] = h[e]
        BY <1>2 DEF Added
  <1>4. /\ t \in Nat /\ FirstOf(t + 1) \in Nat /\ FirstOf(StartLedger + 1) <= FirstOf(t + 1)
        /\ EndOf(t) \in Nat /\ EndOf(t) = FirstOf(t + 1) - 1
        BY Bounds
  <1>5. FirstOf(StartLedger + 1) \in Nat
        BY CtSyncAssumption, FirstOfType
  <1>6. FirstOf(StartLedger + 1) <= n /\ n > EndOf(t)
        BY <1>1, <1>4, <1>5
  <1>7. \A l \in Nat : n # EndOf(l)
        BY <1>1, <1>4, EndsApart
  <1>8. EventsOK(g, t)
    <2> SUFFICES ASSUME NEW e \in DOMAIN g
                 PROVE  /\ e \in Nat /\ FirstOf(StartLedger + 1) <= e /\ e < EndOf(t + 1)
                        /\ \A l \in Nat : e /= EndOf(l)
                        /\ g[e] \in Kinds
          BY DEF EventsOK
    <2>1. CASE e = n
          BY <1>1, <1>3, <1>6, <1>7, <2>1
    <2>2. CASE e \in DOMAIN h
          BY <1>3, <2>2 DEF EventsOK
    <2> QED  BY <1>3, <2>1, <2>2
  <1>9. Extends(h, g, t)
        BY <1>3, <1>6 DEF Extends
  <1> QED  BY <1>2, <1>3, <1>8, <1>9 DEF OneMore

\* What the chain makes of the account grows by that event.
LEMMA TruthGrows ==
  ASSUME NEW t \in StartLedger .. MaxLedger, NEW h, EventsOK(h, t),
         NEW n, NEW kind, NEW g, Added(h, t, n, kind, g)
  PROVE  Truth(g, LastPosition) = Apply(g, Truth(h, LastPosition), n)
PROOF
  <1>1. /\ DOMAIN g = DOMAIN h \cup {n} /\ n \notin DOMAIN h /\ EventsOK(g, t)
        /\ \A e \in DOMAIN h : g[e] = h[e]
    <2>1. EventsOK(g, t) /\ OneMore(h, g, n, kind)
          BY EventAdded
    <2> QED  BY <2>1 DEF OneMore
  <1>2. n \in Nat /\ \A e \in DOMAIN h : e < n
        BY DEF Added
  <1>3. n \in 1 .. LastPosition /\ \A e \in DOMAIN g : e \in Nat
    <2>1. n \in DOMAIN g
          BY <1>1
    <2>2. n \in 1 .. LastPosition
          BY <1>1, <2>1, EventBounds
    <2> QED  BY <1>1, <2>2 DEF EventsOK
  <1> DEFINE m == n - 1
             G == DOMAIN g
             H == DOMAIN h
  <1>4. m \in 0 .. LastPosition /\ 0 \in 0 .. LastPosition /\ m \in 0 .. m
        /\ n \in n .. LastPosition /\ LastPosition \in n .. LastPosition
        /\ LastPosition \in m .. LastPosition /\ m \in Nat /\ n \in 0 .. LastPosition
        /\ LastPosition \in Nat
        BY <1>3, LastPositionType
  <1>5. \A k \in 0 + 1 .. m : (k \in G <=> k \in H) /\ (k \in G => g[k] = h[k])
        BY <1>1, <1>2
  <1>6. \A k \in n + 1 .. LastPosition : k \notin G
        BY <1>1, <1>2, <1>4
  <1>7. \A k \in m + 1 .. LastPosition : k \notin H
        BY <1>1, <1>2, <1>4
  <1>8. After(g, Empty, G, 0) = After(h, Empty, H, 0)
        BY ReplayStep
  <1>9. After(g, Empty, G, n) = Apply(g, After(g, Empty, G, m), n)
        BY <1>1, <1>3, ReplayStep
  <1> HIDE DEF m, G, H
  <1>10. After(g, Empty, G, m) = After(h, Empty, H, m)
        BY <1>4, <1>5, <1>8, ReplayAgree
  <1>11. After(h, Empty, H, LastPosition) = After(h, Empty, H, m)
        BY <1>4, <1>7, ReplayQuiet
  <1>12. After(g, Empty, G, LastPosition) = After(g, Empty, G, n)
        BY <1>4, <1>6, ReplayQuiet
  <1> QED  BY <1>9, <1>10, <1>11, <1>12 DEF G, H, Truth

\* A record that was never synced is sound.
LEMMA FreshRecordOK ==
  ASSUME NEW t \in StartLedger .. MaxLedger, NEW h, EventsOK(h, t)
  PROVE  RecordOK(h, t, FreshState)
PROOF
  <1> DEFINE r == FreshState
  <1>1. r.balance = Empty /\ r.cursor = 0 /\ r = [balance |-> r.balance, cursor |-> r.cursor]
        BY DEF FreshState
  <1> HIDE DEF r
  <1>2. Sound(h, t, r)
        BY <1>1, WholeChain DEF Sound, Truth
  <1>3. OnceAmong(r.balance, {e \in DOMAIN h : h[e] = "credit"})
        BY <1>1, EmptyOnce, OnceGrows
  <1> QED  BY <1>1, <1>2, <1>3 DEF RecordOK, r

\* The next position of the open ledger is past every event.
LEMMA NextAtBounds ==
  ASSUME tip \in StartLedger .. MaxLedger, EventsOK(chain, tip)
  PROVE  /\ NextAt \in Nat /\ FirstOf(tip + 1) <= NextAt
         /\ \A e \in DOMAIN chain : e < NextAt
PROOF
  <1> DEFINE S == {FirstOf(tip + 1)} \cup {e + 1 : e \in DOMAIN chain}
             z == EndOf(tip + 1)
  <1>1. FirstOf(tip + 1) \in Nat /\ z \in Nat /\ FirstOf(tip + 1) <= z
        BY Bounds, FirstOfType
  <1>2. \A e \in DOMAIN chain : e \in Nat /\ e < z
        BY DEF EventsOK
  <1>3. S \subseteq 0 .. z /\ S # {}
        BY <1>1, <1>2
  <1>4. Max(S) \in S /\ \A y \in S : y <= Max(S)
    <2> HIDE DEF S, z
    <2> QED  BY <1>1, <1>3, LargestNat
  <1>5. NextAt = Max(S)
        BY DEF NextAt
  <1> HIDE DEF z
  <1>6. NextAt \in Nat /\ FirstOf(tip + 1) <= NextAt
        BY <1>1, <1>3, <1>4, <1>5
  <1>7. ASSUME NEW e \in DOMAIN chain
        PROVE  e < NextAt
    <2>1. e + 1 \in S
          OBVIOUS
    <2>2. e + 1 <= NextAt
          BY <1>4, <1>5, <2>1
    <2> QED  BY <1>2, <1>6, <2>2
  <1> QED  BY <1>6, <1>7

\* The event that happens is one more in the open ledger.
LEMMA HappensAdds ==
  ASSUME tip \in StartLedger .. MaxLedger, EventsOK(chain, tip),
         NEW kind \in Kinds, Happens(kind)
  PROVE  Added(chain, tip, NextAt, kind, chain')
  BY NextAtBounds DEF Happens, Added

----------------------------------------------------------------------------
(* Actors. *)

\* What an assignment to fields of an actor makes of it: the idle actor,
LEMMA IdleFields ==
  /\ Whole(Idle) /\ Idle.phase = "idle" /\ Idle.spending = FALSE
  /\ Idle.state = FreshState /\ Idle.start = 0 /\ Idle.events = {}
  BY DEF Whole, Idle

\* a sync with its source chosen,
LEMMA WithStart ==
  ASSUME NEW r, Whole(r), NEW p, NEW s, NEW x, x = [r EXCEPT !.phase = p, !.start = s]
  PROVE  x = [phase |-> p, spending |-> r.spending, state |-> r.state,
              start |-> s, events |-> r.events]
  BY DEF Whole

\* a record loaded or synced,
LEMMA WithState ==
  ASSUME NEW r, Whole(r), NEW p, NEW s, NEW x, x = [r EXCEPT !.phase = p, !.state = s]
  PROVE  x = [phase |-> p, spending |-> r.spending, state |-> s,
              start |-> r.start, events |-> r.events]
  BY DEF Whole

\* an operation begun,
LEMMA WithStateToSpend ==
  ASSUME NEW r, Whole(r), NEW p, NEW s, NEW b, NEW x,
         x = [r EXCEPT !.phase = p, !.state = s, !.spending = b]
  PROVE  x = [phase |-> p, spending |-> b, state |-> s,
              start |-> r.start, events |-> r.events]
  BY DEF Whole

\* and the indexer's leg read.
LEMMA WithEvents ==
  ASSUME NEW r, Whole(r), NEW p, NEW e, NEW x, x = [r EXCEPT !.phase = p, !.events = e]
  PROVE  x = [phase |-> p, spending |-> r.spending, state |-> r.state,
              start |-> r.start, events |-> e]
  BY DEF Whole

\* Two assignments to an actor's fields are one to the actor: its source,
LEMMA StartSet ==
  ASSUME NEW tabs, NEW a \in DOMAIN tabs, NEW p, NEW s,
         NEW tabs2, tabs2 = [tabs EXCEPT ![a].phase = p, ![a].start = s]
  PROVE  \E x : tabs2 = [tabs EXCEPT ![a] = x] /\ x = [tabs[a] EXCEPT !.phase = p, !.start = s]
  OBVIOUS

\* and its events.
LEMMA EventsSet ==
  ASSUME NEW tabs, NEW a \in DOMAIN tabs, NEW p, NEW s,
         NEW tabs2, tabs2 = [tabs EXCEPT ![a].phase = p, ![a].events = s]
  PROVE  \E x : tabs2 = [tabs EXCEPT ![a] = x] /\ x = [tabs[a] EXCEPT !.phase = p, !.events = s]
  OBVIOUS

\* An actor with nothing under way is sound.
LEMMA IdleOK ==
  ASSUME NEW t \in StartLedger .. MaxLedger, NEW h, EventsOK(h, t), NEW ar
  PROVE  ActorOK(h, t, ar, Idle) /\ ~Waits(Idle)
PROOF
  <1>1. RecordOK(h, t, FreshState)
        BY FreshRecordOK
  <1> QED  BY <1>1 DEF Idle, ActorOK, ReadsAll, Waits, Whole

\* The actors stay sound as the chain goes on.
LEMMA TabsKept ==
  ASSUME NEW h, NEW g, NEW t \in StartLedger .. MaxLedger, NEW t2 \in t .. MaxLedger,
         EventsOK(h, t), EventsOK(g, t2), Extends(h, g, t),
         NEW ar \in Nat, NEW ar2 \in Nat, ar <= ar2,
         NEW tabs, TabsOK(h, t, ar, tabs),
         \A a \in Actors : tabs[a].phase = "awaiting" =>
           \A e \in DOMAIN g \ DOMAIN h : g[e] = "credit"
  PROVE  TabsOK(g, t2, ar2, tabs)
PROOF
  <1>1. ASSUME NEW a \in Actors
        PROVE  ActorOK(g, t2, ar2, tabs[a])
    <2> DEFINE x == tabs[a]
    <2>1. ActorOK(h, t, ar, x) /\ (x.phase = "awaiting" => \A e \in DOMAIN g \ DOMAIN h : g[e] = "credit")
          BY DEF TabsOK
    <2> HIDE DEF x
    <2>2. ActorOK(g, t2, ar2, x)
          BY <2>1, ActorKept
    <2> QED  BY <2>2 DEF x
  <1> QED  BY <1>1 DEF TabsOK

\* So do they when one of them changes to a sound one.
LEMMA TabChanged ==
  ASSUME NEW h, NEW t, NEW ar, NEW tabs, TabsOK(h, t, ar, tabs),
         NEW a \in Actors, NEW x, ActorOK(h, t, ar, x), Waits(x) => a \in Operators,
         NEW tabs2, tabs2 = [tabs EXCEPT ![a] = x]
  PROVE  TabsOK(h, t, ar, tabs2)
PROOF
  <1>1. DOMAIN tabs2 = Actors /\ tabs2[a] = x /\ \A b \in Actors : b # a => tabs2[b] = tabs[b]
        BY DEF TabsOK
  <1>2. ASSUME NEW b \in Actors
        PROVE  ActorOK(h, t, ar, tabs2[b]) /\ (Waits(tabs2[b]) => b \in Operators)
        BY <1>1 DEF TabsOK
  <1> QED  BY <1>1, <1>2 DEF TabsOK

\* The same chain, with later ledgers closed, is a chain that goes on.
LEMMA SameChain ==
  ASSUME NEW h, NEW t \in StartLedger .. MaxLedger, NEW t2 \in t .. MaxLedger, EventsOK(h, t)
  PROVE  EventsOK(h, t2) /\ Extends(h, h, t)
PROOF
  <1>1. t \in Nat /\ t2 \in Nat /\ t + 1 \in Nat /\ t2 + 1 \in Nat /\ t + 1 <= t2 + 1
        BY CtSyncAssumption
  <1>2. EndOf(t + 1) \in Nat /\ EndOf(t2 + 1) \in Nat /\ EndOf(t + 1) <= EndOf(t2 + 1)
        BY <1>1, FirstOfType, PositionsSplit
  <1>3. \A e \in DOMAIN h : e \in Nat /\ e < EndOf(t + 1)
        BY DEF EventsOK
  <1>4. \A e \in DOMAIN h : e < EndOf(t2 + 1)
        BY <1>2, <1>3
  <1> QED  BY <1>4 DEF EventsOK, Extends

----------------------------------------------------------------------------
(* The initial state, and the steps of the chain and of the indexer. *)

\* The initial state is sound.
LEMMA InitOK == Init => IInv
PROOF
  <1> SUFFICES ASSUME Init PROVE IInv
        OBVIOUS
  <1> DEFINE t == StartLedger
             h == <<>>
  <1>1. t \in StartLedger .. MaxLedger /\ t \in Nat /\ DOMAIN h = {}
        BY CtSyncAssumption
  <1>2. EventsOK(h, t)
        BY <1>1 DEF EventsOK
  <1>3. Truth(h, LastPosition) = Empty
    <2> DEFINE D == DOMAIN h
    <2>1. After(h, Empty, D, 0) = Empty
          BY ReplayStep
    <2>2. 0 \in 0 .. LastPosition /\ LastPosition \in 0 .. LastPosition
          BY LastPositionType
    <2>3. \A n \in 0 + 1 .. LastPosition : n \notin D
          BY <1>1
    <2> HIDE DEF D, h
    <2>4. After(h, Empty, D, LastPosition) = After(h, Empty, D, 0)
          BY <2>2, <2>3, ReplayQuiet
    <2> QED  BY <2>1, <2>4 DEF Truth, D
  <1>4. RecordOK(h, t, FreshState)
        BY <1>1, <1>2, FreshRecordOK
  <1>5. ActorOK(h, t, t, Idle) /\ ~Waits(Idle)
        BY <1>1, <1>2, IdleOK
  <1>6. tip = t /\ chain = h /\ account = Empty /\ archived = t /\ store = FreshState
        /\ actor = [a \in Actors |-> Idle]
        BY DEF Init
  <1>7. WorldOK(chain, tip, account, archived)
        BY <1>1, <1>2, <1>3, <1>6, CtSyncAssumption DEF WorldOK
  <1>8. TabsOK(chain, tip, archived, actor)
        BY <1>5, <1>6 DEF TabsOK
  <1> QED  BY <1>4, <1>6, <1>7, <1>8 DEF IInv

\* The types in WorldOK, in the form the steps use.
LEMMA WorldType ==
  ASSUME NEW h, NEW t, NEW truth, NEW ar, WorldOK(h, t, truth, ar)
  PROVE  /\ t \in StartLedger .. MaxLedger /\ t \in Nat /\ ar \in Nat /\ ar <= t
         /\ t \in t .. MaxLedger /\ t <= ar + MaxLag /\ EventsOK(h, t)
         /\ truth = Truth(h, LastPosition)
  BY CtSyncAssumption DEF WorldOK

\* One lemma for each action: a ledger closes.
LEMMA CloseLedgerOK == IInv /\ CloseLedger => IInv'
PROOF
  <1> SUFFICES ASSUME IInv, CloseLedger PROVE IInv'
        OBVIOUS
  <1> DEFINE t == tip
             t2 == tip + 1
  <1>1. /\ t \in StartLedger .. MaxLedger /\ t \in Nat /\ archived \in Nat /\ archived <= t
        /\ archived \in StartLedger .. t
        /\ EventsOK(chain, t) /\ account = Truth(chain, LastPosition)
        BY WorldType DEF IInv, WorldOK
  <1>2. /\ tip' = t2 /\ t < MaxLedger /\ t2 <= archived + MaxLag
        /\ chain' = chain /\ account' = account /\ archived' = archived /\ store' = store
        /\ actor' = actor
        BY DEF CloseLedger
  <1>3. t2 \in t .. MaxLedger /\ t2 \in StartLedger .. MaxLedger /\ archived \in StartLedger .. t2
        BY <1>1, <1>2, CtSyncAssumption
  <1> HIDE DEF t, t2
  <1>4. EventsOK(chain, t2) /\ Extends(chain, chain, t)
        BY <1>1, <1>3, SameChain
  <1>5. RecordOK(chain, t2, store)
        BY <1>1, <1>3, <1>4, RecordKept DEF IInv, t
  <1>6. TabsOK(chain, t2, archived, actor)
    <2>1. TabsOK(chain, t, archived, actor) /\ archived <= archived
          BY <1>1 DEF IInv, t
    <2>2. \A a \in Actors : actor[a].phase = "awaiting" =>
            \A e \in DOMAIN chain \ DOMAIN chain : chain[e] = "credit"
          OBVIOUS
    <2> QED  BY <1>1, <1>3, <1>4, <2>1, <2>2, TabsKept
  <1>7. WorldOK(chain, t2, account, archived)
        BY <1>1, <1>2, <1>3, <1>4 DEF WorldOK
  <1> QED  BY <1>2, <1>5, <1>6, <1>7 DEF IInv

\* The indexer catches up.
LEMMA ArchiveOK == IInv /\ Archive => IInv'
PROOF
  <1> SUFFICES ASSUME IInv, Archive PROVE IInv'
        OBVIOUS
  <1>1. /\ tip \in StartLedger .. MaxLedger /\ tip \in Nat /\ archived \in Nat /\ archived <= tip
        /\ archived \in StartLedger .. tip /\ tip <= archived + MaxLag /\ tip \in tip .. MaxLedger
        /\ EventsOK(chain, tip) /\ account = Truth(chain, LastPosition)
        BY WorldType DEF IInv, WorldOK
  <1>2. PICK l \in archived + 1 .. tip : archived' = l
        BY DEF Archive
  <1>3. /\ tip' = tip /\ chain' = chain /\ account' = account /\ store' = store
        /\ actor' = actor
        BY DEF Archive
  <1>4. l \in StartLedger .. tip /\ l \in Nat /\ archived <= l /\ tip <= l + MaxLag
        BY <1>1, CtSyncAssumption
  <1>5. Extends(chain, chain, tip)
        BY <1>1, SameChain
  <1>6. TabsOK(chain, tip, l, actor)
    <2>1. TabsOK(chain, tip, archived, actor)
          BY DEF IInv
    <2>2. \A a \in Actors : actor[a].phase = "awaiting" =>
            \A e \in DOMAIN chain \ DOMAIN chain : chain[e] = "credit"
          OBVIOUS
    <2> QED  BY <1>1, <1>4, <1>5, <2>1, <2>2, TabsKept
  <1>7. WorldOK(chain, tip, account, l)
        BY <1>1, <1>4 DEF WorldOK
  <1> QED  BY <1>2, <1>3, <1>6, <1>7 DEF IInv

\* An event that nobody's awaited spend forbids leaves all sound.
LEMMA GrowthKeeps ==
  ASSUME NEW h, NEW t, NEW truth, NEW ar, WorldOK(h, t, truth, ar),
         NEW r, RecordOK(h, t, r), NEW tabs, TabsOK(h, t, ar, tabs),
         NEW n, NEW kind, NEW g, Added(h, t, n, kind, g),
         kind = "credit" \/ \A a \in Actors : tabs[a].phase # "awaiting"
  PROVE  WorldOK(g, t, Apply(g, truth, n), ar) /\ RecordOK(g, t, r) /\ TabsOK(g, t, ar, tabs)
PROOF
  <1>1. /\ t \in StartLedger .. MaxLedger /\ t \in Nat /\ ar \in Nat /\ ar <= ar
        /\ t \in t .. MaxLedger /\ EventsOK(h, t) /\ truth = Truth(h, LastPosition)
        BY WorldType
  <1>2. EventsOK(g, t) /\ Extends(h, g, t) /\ OneMore(h, g, n, kind)
        BY <1>1, EventAdded
  <1>3. Truth(g, LastPosition) = Apply(g, truth, n)
        BY <1>1, TruthGrows
  <1>4. WorldOK(g, t, Apply(g, truth, n), ar)
        BY <1>2, <1>3 DEF WorldOK
  <1>5. RecordOK(g, t, r)
        BY <1>1, <1>2, RecordKept
  <1>6. \A a \in Actors : tabs[a].phase = "awaiting" =>
          \A e \in DOMAIN g \ DOMAIN h : g[e] = "credit"
        BY <1>2 DEF OneMore
  <1>7. TabsOK(g, t, ar, tabs)
        BY <1>1, <1>2, <1>6, TabsKept
  <1> QED  BY <1>4, <1>5, <1>7

----------------------------------------------------------------------------
(* Operations on the account. *)

\* The only operator that could await is the one that is not.
LEMMA NobodyAwaits ==
  ASSUME OneOperator, IInv, NEW a \in Operators, actor[a].phase # "awaiting"
  PROVE  \A b \in Actors : actor[b].phase # "awaiting"
  BY DEF OneOperator, IInv, TabsOK, Waits

\* In the next-state relation's terms.
LEMMA HappensKeeps ==
  ASSUME IInv, NEW kind \in Kinds, Happens(kind),
         kind = "credit" \/ \A a \in Actors : actor[a].phase # "awaiting"
  PROVE  /\ WorldOK(chain', tip, Apply(chain', account, NextAt), archived)
         /\ RecordOK(chain', tip, store) /\ TabsOK(chain', tip, archived, actor)
         /\ Added(chain, tip, NextAt, kind, chain')
PROOF
  <1>1. /\ WorldOK(chain, tip, account, archived) /\ RecordOK(chain, tip, store)
        /\ TabsOK(chain, tip, archived, actor)
        BY DEF IInv
  <1>2. tip \in StartLedger .. MaxLedger /\ EventsOK(chain, tip)
        BY <1>1, WorldType
  <1> DEFINE n == NextAt
             g == chain'
  <1>3. Added(chain, tip, n, kind, g)
        BY <1>2, HappensAdds
  <1> HIDE DEF n, g
  <1>4. /\ WorldOK(g, tip, Apply(g, account, n), archived)
        /\ RecordOK(g, tip, store) /\ TabsOK(g, tip, archived, actor)
        BY <1>1, <1>3, GrowthKeeps
  <1> QED  BY <1>3, <1>4 DEF n, g

\* A deposit, or another account's transfer.
LEMMA CreditOK == IInv /\ Credit => IInv'
PROOF
  <1> SUFFICES ASSUME IInv, Credit PROVE IInv'
        OBVIOUS
  <1>1. /\ Happens("credit") /\ account' = [account EXCEPT !.receiving = @ (+) SetToBag({NextAt})]
        /\ tip' = tip /\ archived' = archived /\ store' = store /\ actor' = actor
        BY DEF Credit
  <1>2. /\ WorldOK(chain', tip, Apply(chain', account, NextAt), archived)
        /\ RecordOK(chain', tip, store) /\ TabsOK(chain', tip, archived, actor)
        BY <1>1, HappensKeeps DEF Kinds
  <1>3. chain'[NextAt] = "credit"
        BY <1>1 DEF Happens
  <1>4. account' = Apply(chain', account, NextAt)
        BY <1>1, <1>3 DEF Apply
  <1> QED  BY <1>1, <1>2, <1>4 DEF IInv

\* A merge: only an operator makes one, and it awaits nothing then.
LEMMA MergeOK ==
  ASSUME OneOperator, NEW a \in Actors
  PROVE  IInv /\ Merge(a) => IInv'
PROOF
  <1> SUFFICES ASSUME IInv, Merge(a) PROVE IInv'
        OBVIOUS
  <1>1. /\ a \in Operators /\ actor[a].phase = "idle"
        /\ Happens("merge") /\ account' = Merged(account)
        /\ tip' = tip /\ archived' = archived /\ store' = store /\ actor' = actor
        BY DEF Merge
  <1>2. \A b \in Actors : actor[b].phase # "awaiting"
        BY <1>1, NobodyAwaits
  <1>3. /\ WorldOK(chain', tip, Apply(chain', account, NextAt), archived)
        /\ RecordOK(chain', tip, store) /\ TabsOK(chain', tip, archived, actor)
        BY <1>1, <1>2, HappensKeeps DEF Kinds
  <1>4. chain'[NextAt] = "merge"
        BY <1>1 DEF Happens
  <1>5. account' = Apply(chain', account, NextAt)
        BY <1>1, <1>4 DEF Apply
  <1> QED  BY <1>1, <1>3, <1>5 DEF IInv

\* A spend accepted by the contract.
LEMMA SubmitOK ==
  ASSUME OneOperator, NEW a \in Actors
  PROVE  IInv /\ Submit(a) => IInv'
PROOF
  <1> SUFFICES ASSUME IInv, Submit(a) PROVE IInv'
        OBVIOUS
  <1> DEFINE n == NextAt
             g == chain'
             x == [Idle EXCEPT !.phase = "awaiting", !.start = n]
  <1>1. /\ actor[a].phase = "proving"
        /\ Happens("spend") /\ account' = [account EXCEPT !.spendable = Spent(n)]
        /\ actor' = [actor EXCEPT ![a] = x]
        /\ tip' = tip /\ archived' = archived /\ store' = store
        BY DEF Submit
  <1>2. a \in Operators
        BY <1>1 DEF IInv, TabsOK, Waits
  <1>3. \A b \in Actors : actor[b].phase # "awaiting"
        BY <1>1, <1>2, NobodyAwaits
  <1>4. /\ WorldOK(g, tip, Apply(g, account, n), archived)
        /\ RecordOK(g, tip, store) /\ TabsOK(g, tip, archived, actor)
        /\ Added(chain, tip, n, "spend", g)
        BY <1>1, <1>3, HappensKeeps DEF Kinds
  <1>5. tip \in StartLedger .. MaxLedger /\ EventsOK(g, tip) /\ EventsOK(chain, tip)
        BY <1>4, WorldType DEF IInv
  <1>6. n \in DOMAIN g /\ g[n] = "spend" /\ \A e \in DOMAIN g : ~(e > n)
    <2>1. /\ n \in Nat /\ \A e \in DOMAIN chain : e < n
          /\ g = [e \in DOMAIN chain \cup {n} |-> IF e = n THEN "spend" ELSE chain[e]]
          BY <1>4 DEF Added
    <2>2. \A e \in DOMAIN chain : e \in Nat
          BY <1>5 DEF EventsOK
    <2> HIDE DEF n, g
    <2> QED  BY <2>1, <2>2
  <1>7. account' = Apply(g, account, n)
        BY <1>1, <1>6 DEF Apply
  <1> HIDE DEF n, g
  <1>8. ActorOK(g, tip, archived, x)
    <2>1. RecordOK(g, tip, FreshState)
          BY <1>5, FreshRecordOK
    <2>2. x = [Idle EXCEPT !.phase = "awaiting", !.start = n]
          OBVIOUS
    <2> HIDE DEF x
    <2>3. x = [phase |-> "awaiting", spending |-> Idle.spending, state |-> Idle.state,
               start |-> n, events |-> Idle.events]
          BY <2>2, IdleFields, WithStart
    <2>4. x.phase = "awaiting" /\ x.state = FreshState /\ x.start = n /\ Whole(x)
          BY <2>3, IdleFields DEF Whole
    <2> QED  BY <1>6, <2>1, <2>4 DEF ActorOK, ReadsAll
  <1>9. TabsOK(g, tip, archived, actor')
    <2> DEFINE tabs == actor'
    <2> HIDE DEF x
    <2>1. tabs = [actor EXCEPT ![a] = x]
          BY <1>1
    <2> HIDE DEF tabs
    <2>2. TabsOK(g, tip, archived, tabs)
          BY <1>2, <1>4, <1>8, <2>1, TabChanged
    <2> QED  BY <2>2 DEF tabs
  <1> QED  BY <1>1, <1>4, <1>7, <1>9 DEF IInv, g

\* The record is lost.
LEMMA ForgetOK == IInv /\ Forget => IInv'
PROOF
  <1> SUFFICES ASSUME IInv, Forget PROVE IInv'
        OBVIOUS
  <1>1. /\ store' = FreshState /\ tip' = tip /\ chain' = chain /\ account' = account
        /\ archived' = archived /\ actor' = actor
        BY DEF Forget
  <1>2. RecordOK(chain, tip, FreshState)
        BY WorldType, FreshRecordOK DEF IInv
  <1> QED  BY <1>1, <1>2 DEF IInv

----------------------------------------------------------------------------
(* A sync's steps. *)

\* A step of one actor that leaves the rest alone.
LEMMA OneChanges ==
  ASSUME IInv, NEW a \in Actors, NEW x, ActorOK(chain, tip, archived, x),
         Waits(x) => a \in Operators, actor' = [actor EXCEPT ![a] = x],
         RecordOK(chain, tip, store'),
         tip' = tip, chain' = chain, account' = account, archived' = archived
  PROVE  IInv'
PROOF
  <1>1. TabsOK(chain, tip, archived, actor')
    <2> DEFINE tabs == actor'
    <2>1. tabs = [actor EXCEPT ![a] = x] /\ TabsOK(chain, tip, archived, actor)
          BY DEF IInv
    <2> HIDE DEF tabs
    <2>2. TabsOK(chain, tip, archived, tabs)
          BY <2>1, TabChanged
    <2> QED  BY <2>2 DEF tabs
  <1> QED  BY <1>1 DEF IInv

\* A sync or an operation fails.
LEMMA GiveUpOK ==
  ASSUME NEW a \in Actors
  PROVE  IInv /\ GiveUp(a) => IInv'
PROOF
  <1> SUFFICES ASSUME IInv, GiveUp(a) PROVE IInv'
        OBVIOUS
  <1>1. /\ actor' = [actor EXCEPT ![a] = Idle] /\ store' = store
        /\ tip' = tip /\ chain' = chain /\ account' = account /\ archived' = archived
        BY DEF GiveUp
  <1>2. ActorOK(chain, tip, archived, Idle) /\ ~Waits(Idle)
        BY WorldType, IdleOK DEF IInv
  <1>3. RecordOK(chain, tip, store')
        BY <1>1 DEF IInv
  <1> QED  BY <1>1, <1>2, <1>3, OneChanges

\* A sync or an operation loads the record.
LEMMA BeginOK ==
  ASSUME NEW a \in Actors, NEW spending \in BOOLEAN, spending => a \in Operators
  PROVE  IInv /\ Begin(a, spending) => IInv'
PROOF
  <1> SUFFICES ASSUME IInv, Begin(a, spending) PROVE IInv'
        OBVIOUS
  <1> DEFINE x == [Idle EXCEPT !.phase = "loaded", !.state = store, !.spending = spending]
  <1>1. /\ actor' = [actor EXCEPT ![a] = x] /\ store' = store
        /\ tip' = tip /\ chain' = chain /\ account' = account /\ archived' = archived
        BY DEF Begin
  <1>2. x = [Idle EXCEPT !.phase = "loaded", !.state = store, !.spending = spending]
        OBVIOUS
  <1> HIDE DEF x
  <1>3. /\ x.phase = "loaded" /\ x.state = store /\ x.events = {} /\ x.spending = spending
        /\ Whole(x)
    <2>1. x = [phase |-> "loaded", spending |-> spending, state |-> store,
               start |-> Idle.start, events |-> Idle.events]
          BY <1>2, IdleFields, WithStateToSpend
    <2> QED  BY <2>1, IdleFields DEF Whole
  <1>4. RecordOK(chain, tip, store) /\ RecordOK(chain, tip, store')
        BY <1>1 DEF IInv
  <1>5. ActorOK(chain, tip, archived, x)
        BY <1>3, <1>4 DEF ActorOK, ReadsAll
  <1>6. Waits(x) => a \in Operators
        BY <1>3 DEF Waits
  <1> QED  BY <1>1, <1>4, <1>5, <1>6, OneChanges

----------------------------------------------------------------------------
(* What a sync lacks, and where it reads it. *)

\* What a record needs starts after the ledger it was synced to.
LEMMA NeededType ==
  ASSUME NEW t \in StartLedger .. MaxLedger, NEW h, NEW r, RecordOK(h, t, r)
  PROVE  /\ Needed(r) \in StartLedger .. t + 1
         /\ r.cursor = 0 => Needed(r) = StartLedger
         /\ r.cursor # 0 => Needed(r) - 1 \in StartLedger .. t /\ r.cursor = EndOf(Needed(r) - 1)
PROOF
  <1>1. t \in Nat /\ StartLedger \in Nat /\ StartLedger <= t
        BY CtSyncAssumption
  <1>2. CASE r.cursor = 0
        BY <1>1, <1>2 DEF Needed
  <1>3. CASE r.cursor # 0
    <2>1. PICK k \in StartLedger .. t : r.cursor = EndOf(k)
          BY <1>3 DEF RecordOK
    <2>2. k \in Nat /\ LedgerOf(EndOf(k)) = k
          BY <1>1, <2>1, LedgerOfEnd
    <2>3. Needed(r) = k + 1
          BY <1>3, <2>1, <2>2 DEF Needed
    <2> QED  BY <1>1, <1>3, <2>1, <2>2, <2>3
  <1> QED  BY <1>2, <1>3

\* The events a record lacks are those of the ledgers it needs.
LEMMA NeededEvents ==
  ASSUME NEW t \in StartLedger .. MaxLedger, NEW h, EventsOK(h, t), NEW r, RecordOK(h, t, r),
         NEW e \in DOMAIN h
  PROVE  e > r.cursor <=> LedgerOf(e) >= Needed(r)
PROOF
  <1>1. /\ e \in Nat /\ FirstOf(StartLedger + 1) <= e /\ \A l \in Nat : e # EndOf(l)
        BY DEF EventsOK
  <1>2. LedgerOf(e) \in Nat /\ StartLedger \in Nat /\ t \in Nat
        BY <1>1, Division, CtSyncAssumption
  <1>3. e > 0
        BY EventBounds
  <1>4. CASE r.cursor = 0
    <2>1. ~(LedgerOf(e) <= StartLedger)
      <3>1. LedgerOf(e) <= StartLedger <=> e < FirstOf(StartLedger + 1)
            BY <1>1, <1>2, LedgerIsAtMost
      <3>2. FirstOf(StartLedger + 1) \in Nat
            BY <1>2, FirstOfType
      <3> QED  BY <1>1, <3>1, <3>2
    <2>2. Needed(r) = StartLedger
          BY <1>4, NeededType
    <2> QED  BY <1>2, <1>3, <1>4, <2>1, <2>2
  <1>5. CASE r.cursor # 0
    <2> DEFINE k == Needed(r) - 1
    <2>1. k \in Nat /\ r.cursor = EndOf(k) /\ Needed(r) = k + 1
          BY <1>2, <1>5, NeededType
    <2> HIDE DEF k
    <2>2. LedgerOf(e) <= k <=> e < FirstOf(k + 1)
          BY <1>1, <2>1, LedgerIsAtMost
    <2>3. EndOf(k) = FirstOf(k + 1) - 1 /\ FirstOf(k + 1) \in Nat /\ EndOf(k) \in Nat /\ e # EndOf(k)
          BY <1>1, <2>1, FirstOfType
    <2> QED  BY <1>1, <1>2, <2>1, <2>2, <2>3
  <1> QED  BY <1>4, <1>5

\* An event is in a closed ledger just when it is at most where that one ends.
LEMMA ClosedEvents ==
  ASSUME NEW t \in StartLedger .. MaxLedger, NEW h, EventsOK(h, t), NEW e \in DOMAIN h,
         NEW l \in Nat
  PROVE  /\ LedgerOf(e) <= l <=> e <= EndOf(l)
         /\ LedgerOf(e) \in Nat /\ LedgerOf(e) > StartLedger /\ e \in Nat
PROOF
  <1>1. e \in Nat /\ FirstOf(StartLedger + 1) <= e
        BY DEF EventsOK
  <1>2. LedgerOf(e) \in Nat /\ StartLedger \in Nat
        BY <1>1, Division, CtSyncAssumption
  <1>3. LedgerOf(e) <= l <=> e < FirstOf(l + 1)
        BY <1>1, LedgerIsAtMost
  <1>4. EndOf(l) = FirstOf(l + 1) - 1 /\ FirstOf(l + 1) \in Nat
        BY FirstOfType
  <1>5. LedgerOf(e) <= StartLedger <=> e < FirstOf(StartLedger + 1)
        BY <1>1, <1>2, LedgerIsAtMost
  <1>6. FirstOf(StartLedger + 1) \in Nat
        BY <1>2, FirstOfType
  <1> QED  BY <1>1, <1>2, <1>3, <1>4, <1>5, <1>6

\* Started in the backfill: the seam is above what the indexer lacks.
LEMMA SeamReadsAll ==
  ASSUME IndexerKeepsUp, NEW h, NEW t, NEW truth, NEW ar, WorldOK(h, t, truth, ar),
         NEW r, RecordOK(h, t, r), t > Retention, Needed(r) < t - Retention + 1
  PROVE  LET seam == t - Retention + 1 + SeamMargin
         IN  seam \in 1 .. ar + 1 /\ r.cursor < FirstOf(seam)
PROOF
  <1> DEFINE seam == t - Retention + 1 + SeamMargin
  <1>1. /\ t \in StartLedger .. MaxLedger /\ t \in Nat /\ ar \in Nat /\ t <= ar + MaxLag
        BY WorldType
  <1>2. /\ Retention \in Nat /\ SeamMargin \in Nat /\ MaxLag \in Nat /\ Retention >= SeamMargin + MaxLag
        BY CtSyncAssumption DEF IndexerKeepsUp
  <1>3. seam \in Nat /\ seam >= 1 /\ seam <= ar + 1 /\ t - Retention + 1 <= seam
        BY <1>1, <1>2
  <1>4. Needed(r) \in Nat /\ Needed(r) < seam
    <2>1. Needed(r) \in StartLedger .. t + 1
          BY <1>1, NeededType
    <2>2. Needed(r) \in Nat
          BY <1>1, <2>1, CtSyncAssumption
    <2> QED  BY <1>1, <1>2, <1>3, <2>2
  <1> HIDE DEF seam
  <1>5. FirstOf(seam) \in Nat /\ r.cursor \in Nat
        BY <1>1, <1>3, FirstOfType, CursorBounds
  <1>6. r.cursor < FirstOf(seam)
    <2>1. CASE r.cursor = 0
      <3>1. seam - 1 \in Nat /\ seam - 1 + 1 = seam
            BY <1>3
      <3>2. FirstOf(seam - 1) \in Nat /\ FirstOf(seam - 1) < FirstOf(seam)
            BY <3>1, FirstOfType
      <3> QED  BY <1>5, <2>1, <3>2
    <2>2. CASE r.cursor # 0
      <3> DEFINE k == Needed(r) - 1
      <3>1. k \in Nat /\ r.cursor = EndOf(k) /\ k < seam
        <4>1. k \in StartLedger .. t /\ r.cursor = EndOf(k)
              BY <1>1, <2>2, NeededType
        <4>2. k \in Nat
              BY <1>1, <4>1, CtSyncAssumption
        <4> QED  BY <1>4, <1>3, <4>1, <4>2
      <3> HIDE DEF k
      <3> QED  BY <1>3, <3>1, PositionsSplit
    <2> QED  BY <2>1, <2>2
  <1> QED  BY <1>3, <1>6 DEF seam

\* Started at the RPC: nothing the record lacks comes before.
LEMMA TailReadsAll ==
  ASSUME NEW t \in StartLedger .. MaxLedger, NEW h, EventsOK(h, t), NEW r, RecordOK(h, t, r),
         NEW start,
         \/ r.cursor > 0 /\ start = r.cursor
         \/ \E l \in Nat : r.cursor = 0 /\ l <= StartLedger + 1 /\ start = FirstOf(l)
  PROVE  /\ start \in Nat /\ start <= FirstOf(t + 1)
         /\ \A e \in DOMAIN h : e > r.cursor <=> e >= start
PROOF
  <1>1. /\ t \in Nat /\ FirstOf(t + 1) \in Nat /\ EndOf(t) = FirstOf(t + 1) - 1 /\ EndOf(t) \in Nat
        /\ FirstOf(StartLedger + 1) <= FirstOf(t + 1)
        BY Bounds
  <1>2. r.cursor \in Nat /\ r.cursor <= EndOf(t)
        BY CursorBounds
  <1>3. CASE r.cursor > 0 /\ start = r.cursor
    <2>1. PICK k \in StartLedger .. t : r.cursor = EndOf(k)
          BY <1>2, <1>3 DEF RecordOK
    <2>2. k \in Nat
          BY CtSyncAssumption, <1>1
    <2>3. \A e \in DOMAIN h : e \in Nat /\ e # r.cursor
          BY <2>1, <2>2 DEF EventsOK
    <2> QED  BY <1>1, <1>2, <1>3, <2>3
  <1>4. ASSUME NEW l \in Nat, r.cursor = 0, l <= StartLedger + 1, start = FirstOf(l)
        PROVE  /\ start \in Nat /\ start <= FirstOf(t + 1)
               /\ \A e \in DOMAIN h : e > r.cursor <=> e >= start
    <2>1. StartLedger + 1 \in Nat /\ StartLedger + 1 <= t + 1
          BY <1>1, CtSyncAssumption
    <2>2. FirstOf(l) \in Nat /\ FirstOf(StartLedger + 1) \in Nat /\ FirstOf(l) <= FirstOf(StartLedger + 1)
          BY <1>4, <2>1, FirstOfType, FirstOfMonotone
    <2>3. ASSUME NEW e \in DOMAIN h
          PROVE  e > r.cursor /\ e >= start
      <3>1. e \in Nat /\ FirstOf(StartLedger + 1) <= e /\ e > 0
            BY EventBounds DEF EventsOK
      <3> QED  BY <1>4, <2>2, <3>1
    <2> QED  BY <1>1, <1>4, <2>2, <2>3
  <1> QED  BY <1>3, <1>4

\* The RPC's floor.
LEMMA OldestType ==
  ASSUME NEW t \in Nat, t = tip
  PROVE  Oldest \in Nat /\ (Oldest > 1 => t > Retention /\ Oldest = t - Retention + 1)
  BY CtSyncAssumption DEF Oldest

\* A sync chooses its sources.
LEMMA ReadFloorOK ==
  ASSUME IndexerKeepsUp, NEW a \in Actors
  PROVE  IInv /\ ReadFloor(a) => IInv'
PROOF
  <1> SUFFICES ASSUME IInv, ReadFloor(a) PROVE IInv'
        OBVIOUS
  <1> DEFINE state == actor[a].state
             next == Needed(state)
             Behind(o) == o > 0 /\ next < o
  <1>1. /\ WorldOK(chain, tip, account, archived) /\ tip \in StartLedger .. MaxLedger
        /\ tip \in Nat /\ EventsOK(chain, tip) /\ ActorOK(chain, tip, archived, actor[a])
        /\ RecordOK(chain, tip, state) /\ a \in DOMAIN actor /\ Whole(actor[a])
        BY WorldType DEF IInv, TabsOK, ActorOK
  <1>2. actor[a].phase = "loaded" /\ actor[a].events = {} /\ store' = store
        /\ tip' = tip /\ chain' = chain /\ account' = account /\ archived' = archived
        BY <1>1 DEF ReadFloor, ActorOK
  <1>3. PICK oldest \in {0, Oldest} : LET behind == Behind(oldest) IN
          actor' = [actor EXCEPT
            ![a].phase = IF behind THEN "backfill" ELSE "tail",
            ![a].start = CASE behind -> FirstOf(oldest + SeamMargin)
                           [] ~ behind /\ state.cursor > 0 -> state.cursor
                           [] OTHER -> FirstOf(Max({StartLedger, IF oldest > 0 THEN oldest + 1
                                                                 ELSE StartLedger}))]
        BY DEF ReadFloor
  <1> DEFINE p == IF Behind(oldest) THEN "backfill" ELSE "tail"
             s == CASE Behind(oldest) -> FirstOf(oldest + SeamMargin)
                    [] ~ Behind(oldest) /\ state.cursor > 0 -> state.cursor
                    [] OTHER -> FirstOf(Max({StartLedger, IF oldest > 0 THEN oldest + 1
                                                          ELSE StartLedger}))
  <1>4. PICK x : actor' = [actor EXCEPT ![a] = x] /\ x = [actor[a] EXCEPT !.phase = p, !.start = s]
    <2> DEFINE tabs2 == actor'
    <2>1. tabs2 = [actor EXCEPT ![a].phase = p, ![a].start = s]
          BY <1>3
    <2> HIDE DEF p, s, tabs2
    <2>2. \E x : tabs2 = [actor EXCEPT ![a] = x] /\ x = [actor[a] EXCEPT !.phase = p, !.start = s]
          BY <1>1, <2>1, StartSet
    <2> QED  BY <2>2 DEF tabs2
  <1>5. oldest \in Nat /\ next \in Nat /\ next >= 1 /\ StartLedger \in Nat
        /\ (oldest > 0 /\ next < oldest => tip > Retention /\ oldest = tip - Retention + 1)
    <2>1. next \in StartLedger .. tip + 1
          BY <1>1, NeededType
    <2>2. next \in Nat /\ next >= 1 /\ StartLedger \in Nat
          BY <1>1, <2>1, CtSyncAssumption
    <2>3. Oldest \in Nat /\ (Oldest > 1 => tip > Retention /\ Oldest = tip - Retention + 1)
          BY <1>1, OldestType
    <2> HIDE DEF next
    <2> QED  BY <1>1, <2>2, <2>3
  <1>6. x.phase = p /\ x.start = s /\ x.state = state /\ x.events = {} /\ Whole(x)
        /\ x.spending = actor[a].spending
    <2> HIDE DEF p, s
    <2>1. x = [phase |-> p, spending |-> actor[a].spending, state |-> actor[a].state,
               start |-> s, events |-> actor[a].events]
          BY <1>1, <1>4, WithStart
    <2> QED  BY <1>2, <2>1 DEF Whole
  <1> HIDE DEF state
  <1>7. ASSUME oldest > 0, next < oldest
        PROVE  ReadsAll(chain, tip, archived, x)
    <2>1. p = "backfill" /\ s = FirstOf(oldest + SeamMargin)
          BY <1>7
    <2>2. tip > Retention /\ oldest = tip - Retention + 1
      <3> HIDE DEF next
      <3> QED  BY <1>5, <1>7
    <2>3. next < tip - Retention + 1
      <3> HIDE DEF next
      <3> QED  BY <1>7, <2>2
    <2>4. oldest + SeamMargin \in 1 .. archived + 1 /\ state.cursor < FirstOf(oldest + SeamMargin)
          BY <1>1, <2>2, <2>3, SeamReadsAll
    <2> HIDE DEF p, s, next
    <2>5. x.phase = "backfill" /\ x.start = FirstOf(oldest + SeamMargin) /\ x.state = state
          BY <1>6, <2>1
    <2> QED  BY <2>4, <2>5 DEF ReadsAll
  <1>8. ASSUME ~(oldest > 0 /\ next < oldest)
        PROVE  ReadsAll(chain, tip, archived, x)
    <2>1. \/ state.cursor > 0 /\ s = state.cursor
          \/ \E l \in Nat : state.cursor = 0 /\ l <= StartLedger + 1 /\ s = FirstOf(l)
      <3>1. CASE state.cursor > 0
            BY <1>8, <3>1
      <3>2. CASE ~(state.cursor > 0)
        <4> DEFINE from == IF oldest > 0 THEN oldest + 1 ELSE StartLedger
        <4>1. state.cursor = 0
              BY <1>1, <3>2, CursorBounds
        <4>2. next = StartLedger
              BY <1>1, <4>1, NeededType
        <4>3. from \in Nat /\ from <= StartLedger + 1 /\ StartLedger \in Nat
          <5> HIDE DEF next
          <5> QED  BY <1>5, <1>8, <4>2
        <4>4. s = FirstOf(Max({StartLedger, from}))
              BY <1>8, <3>2
        <4> HIDE DEF from
        <4>5. Max({StartLedger, from}) \in Nat /\ Max({StartLedger, from}) <= StartLedger + 1
              BY <4>3, LargerOfTwo
        <4> HIDE DEF s
        <4> QED  BY <4>1, <4>4, <4>5
      <3> QED  BY <3>1, <3>2
    <2>2. p = "tail"
          BY <1>8
    <2> HIDE DEF p, s, next
    <2>3. /\ s \in Nat /\ s <= FirstOf(tip + 1)
          /\ \A e \in DOMAIN chain : e > state.cursor <=> e >= s
          BY <1>1, <2>1, TailReadsAll
    <2>4. x.phase = "tail" /\ x.start = s /\ x.state = state /\ x.events = {}
          BY <1>6, <2>2
    <2>5. \A e \in DOMAIN chain : e \in Nat
          BY <1>1 DEF EventsOK
    <2>6. \A e \in DOMAIN chain : ~(e > state.cursor /\ e < s)
          BY <2>3, <2>5
    <2> QED  BY <2>3, <2>4, <2>6 DEF ReadsAll
  <1>9. x.phase \in {"backfill", "tail"}
        BY <1>6
  <1>10. ReadsAll(chain, tip, archived, x)
        BY <1>7, <1>8
  <1> HIDE DEF p, s
  <1>11. ActorOK(chain, tip, archived, x)
        BY <1>1, <1>6, <1>9, <1>10 DEF ActorOK
  <1>12. Waits(x) => a \in Operators
        BY <1>6, <1>9 DEF Waits, IInv, TabsOK
  <1>13. RecordOK(chain, tip, store')
        BY <1>2 DEF IInv
  <1> QED  BY <1>2, <1>4, <1>11, <1>12, <1>13, OneChanges

\* The indexer's leg brings every event the record lacks below the seam.
LEMMA BackfillOK ==
  ASSUME NEW a \in Actors
  PROVE  IInv /\ Backfill(a) => IInv'
PROOF
  <1> SUFFICES ASSUME IInv, Backfill(a) PROVE IInv'
        OBVIOUS
  <1> DEFINE state == actor[a].state
             below == LedgerOf(actor[a].start) - 1
             E == EventsOf(Needed(state) .. Min({below, archived}))
  <1>1. /\ tip \in StartLedger .. MaxLedger /\ tip \in Nat /\ archived \in Nat /\ archived <= tip
        /\ EventsOK(chain, tip) /\ RecordOK(chain, tip, store)
        BY WorldType DEF IInv
  <1>2. /\ ActorOK(chain, tip, archived, actor[a]) /\ a \in DOMAIN actor
        /\ RecordOK(chain, tip, state) /\ Whole(actor[a])
        /\ ReadsAll(chain, tip, archived, actor[a])
        /\ (Waits(actor[a]) => a \in Operators)
        BY DEF IInv, TabsOK, ActorOK
  <1>3. /\ actor[a].phase = "backfill" /\ store' = store
        /\ actor' = [actor EXCEPT ![a].phase = "tail", ![a].events = E]
        /\ tip' = tip /\ chain' = chain /\ account' = account /\ archived' = archived
        BY DEF Backfill
  <1>4. PICK x : actor' = [actor EXCEPT ![a] = x]
                 /\ x = [actor[a] EXCEPT !.phase = "tail", !.events = E]
    <2> DEFINE tabs2 == actor'
    <2>1. tabs2 = [actor EXCEPT ![a].phase = "tail", ![a].events = E]
          BY <1>3
    <2> HIDE DEF tabs2, E
    <2>2. \E x : tabs2 = [actor EXCEPT ![a] = x] /\ x = [actor[a] EXCEPT !.phase = "tail", !.events = E]
          BY <1>2, <2>1, EventsSet
    <2> QED  BY <2>2 DEF tabs2
  <1>5. /\ x.phase = "tail" /\ x.start = actor[a].start /\ x.state = state /\ x.events = E
        /\ Whole(x) /\ x.spending = actor[a].spending
    <2> HIDE DEF E
    <2>1. x = [phase |-> "tail", spending |-> actor[a].spending, state |-> actor[a].state,
               start |-> actor[a].start, events |-> E]
          BY <1>2, <1>4, WithEvents
    <2> QED  BY <2>1 DEF Whole
  <1>6. PICK l \in 1 .. archived + 1 : actor[a].start = FirstOf(l) /\ state.cursor < FirstOf(l)
        BY <1>2, <1>3 DEF ReadsAll
  <1>7. l \in Nat /\ l > 0 /\ l - 1 \in Nat /\ l - 1 <= archived /\ l <= tip + 1
        BY <1>1
  <1>8. Min({below, archived}) = l - 1
    <2>1. LedgerOf(FirstOf(l)) = l
          BY <1>7, LedgerOfFirst
    <2>2. below = l - 1
          BY <1>6, <2>1
    <2> DEFINE m == l - 1
    <2>3. m \in Int /\ archived \in Int /\ m <= archived
          BY <1>1, <1>7
    <2> HIDE DEF m
    <2>4. Min({m, archived}) \in {m, archived} /\ Min({m, archived}) <= m
          BY <2>3, SmallerOfTwo
    <2>5. Min({m, archived}) = m
          BY <2>3, <2>4
    <2> QED  BY <2>2, <2>5 DEF m
  <1> HIDE DEF below
  <1>9. Needed(state) \in Nat
    <2>1. Needed(state) \in StartLedger .. tip + 1
          BY <1>1, <1>2, NeededType
    <2> QED  BY <1>1, <2>1, CtSyncAssumption
  <1> HIDE DEF state
  <1>10. FirstOf(l) \in Nat /\ FirstOf(l) <= FirstOf(tip + 1) /\ EndOf(tip) \in Nat /\ EndOf(l - 1) \in Nat
         /\ EndOf(l - 1) = FirstOf(l) - 1 /\ EndOf(l - 1) <= EndOf(tip) /\ state.cursor \in Nat
    <2>1. l - 1 + 1 = l /\ tip + 1 \in Nat /\ l - 1 <= tip
          BY <1>1, <1>7
    <2>2. FirstOf(l) \in Nat /\ FirstOf(l) <= FirstOf(tip + 1) /\ EndOf(tip) \in Nat
          BY <1>1, <1>7, <2>1, FirstOfType, FirstOfMonotone
    <2>3. EndOf(l - 1) \in Nat /\ EndOf(l - 1) = FirstOf(l - 1 + 1) - 1
          BY <1>7, FirstOfType
    <2>4. EndOf(l - 1) <= EndOf(tip)
          BY <1>1, <1>7, <2>1, PositionsSplit
    <2>5. state.cursor \in Nat
          BY <1>1, <1>2, CursorBounds
    <2> QED  BY <2>1, <2>2, <2>3, <2>4, <2>5
  <1>11. ASSUME NEW e \in DOMAIN chain
         PROVE  e \in E <=> e > state.cursor /\ e <= EndOf(l - 1)
    <2>1. e \in E <=> LedgerOf(e) \in Needed(state) .. l - 1
          BY <1>8 DEF EventsOf
    <2>2. e > state.cursor <=> LedgerOf(e) >= Needed(state)
          BY <1>1, <1>2, NeededEvents
    <2>3. (LedgerOf(e) <= l - 1 <=> e <= EndOf(l - 1)) /\ LedgerOf(e) \in Nat
          BY <1>1, <1>7, ClosedEvents
    <2> HIDE DEF E
    <2> QED  BY <1>7, <1>9, <2>1, <2>2, <2>3
  <1>12. E \subseteq DOMAIN chain
        BY DEF EventsOf
  <1>13. \A e \in DOMAIN chain : e \in Nat
        BY <1>1 DEF EventsOK
  <1> HIDE DEF E
  <1>14. E \subseteq {e \in DOMAIN chain : e > state.cursor /\ e <= EndOf(tip)}
    <2> SUFFICES ASSUME NEW e \in E
                 PROVE  e \in DOMAIN chain /\ e > state.cursor /\ e <= EndOf(tip)
          OBVIOUS
    <2>1. e \in DOMAIN chain /\ e \in Nat /\ e > state.cursor /\ e <= EndOf(l - 1)
          BY <1>11, <1>12, <1>13
    <2> QED  BY <1>10, <2>1
  <1>15. ASSUME NEW e \in DOMAIN chain
         PROVE  /\ e > state.cursor /\ e < FirstOf(l) => e \in E
                /\ e >= FirstOf(l) => e > state.cursor
    <2>1. e \in Nat /\ (e < FirstOf(l) => e <= EndOf(l - 1))
          BY <1>10, <1>13
    <2> QED  BY <1>6, <1>10, <1>11, <2>1
  <1>16. ReadsAll(chain, tip, archived, x)
    <2>1. x.phase = "tail" /\ x.start = FirstOf(l) /\ x.state = state /\ x.events = E
          BY <1>5, <1>6
    <2> QED  BY <1>10, <1>14, <1>15, <2>1 DEF ReadsAll
  <1>17. ActorOK(chain, tip, archived, x)
        BY <1>2, <1>5, <1>16 DEF ActorOK
  <1>18. Waits(x) => a \in Operators
        BY <1>2, <1>5 DEF Waits
  <1>19. RecordOK(chain, tip, store')
        BY <1>1, <1>3
  <1> QED  BY <1>3, <1>4, <1>17, <1>18, <1>19, OneChanges

----------------------------------------------------------------------------
(* The replay, and the record saved. *)

\* The record of a sync is what the chain makes of its closed ledgers.
LEMMA SyncedRecord ==
  ASSUME NEW t \in StartLedger .. MaxLedger, NEW h, EventsOK(h, t), NEW r, RecordOK(h, t, r),
         NEW E, E = {e \in DOMAIN h : e > r.cursor /\ e <= EndOf(t)}
  PROVE  After(h, r.balance, E, LastPosition) = Truth(h, EndOf(t))
PROOF
  <1> DEFINE q == EndOf(t)
             b == r.balance
             F == {e \in DOMAIN h : e > r.cursor}
  <1>1. q \in 0 .. LastPosition /\ 0 \in 0 .. LastPosition /\ q \in 0 .. LastPosition
        /\ LastPosition \in q .. LastPosition /\ q \in Nat /\ LastPosition \in Nat
        BY Bounds, LastPositionType DEF Position
  <1>2. After(h, b, F, q) = Truth(h, q)
        BY DEF RecordOK, Sound
  <1>3. \A n \in q + 1 .. LastPosition : n \notin E
        BY <1>1
  <1>4. \A n \in 0 + 1 .. q : n \in E <=> n \in F
        OBVIOUS
  <1>5. After(h, b, E, 0) = After(h, b, F, 0)
        BY ReplayStep
  <1> HIDE DEF q, b, F
  <1>6. After(h, b, E, LastPosition) = After(h, b, E, q)
        BY <1>1, <1>3, ReplayQuiet
  <1>7. After(h, b, E, q) = After(h, b, F, q)
        BY <1>1, <1>4, <1>5, SameFrom
  <1> QED  BY <1>2, <1>6, <1>7 DEF b, q

\* What the chain makes of the account counts each of its credits at most once.
LEMMA TruthIsOnce ==
  ASSUME NEW t \in StartLedger .. MaxLedger, NEW h, EventsOK(h, t), NEW q \in Position
  PROVE  OnceAmong(Truth(h, q), {e \in DOMAIN h : h[e] = "credit"})
PROOF
  <1> DEFINE D == DOMAIN h
             C == {e \in D : h[e] = "credit"}
  <1>1. Known(h, D)
        BY EventsKnown
  <1>2. D \subseteq Nat \ {0}
        BY EventBounds
  <1>3. CreditsUpTo(h, D, q) \subseteq C
        BY DEF CreditsUpTo
  <1> HIDE DEF D
  <1>4. OnceAmong(After(h, Empty, D, q), CreditsUpTo(h, D, q))
        BY <1>1, <1>2, ReplayOnce DEF Position
  <1> HIDE DEF C
  <1>5. OnceAmong(After(h, Empty, D, q), C)
        BY <1>3, <1>4, OnceGrows
  <1> QED  BY <1>5 DEF Truth, D, C

\* Such a record is sound.
LEMMA SyncedOK ==
  ASSUME NEW t \in StartLedger .. MaxLedger, NEW h, EventsOK(h, t)
  PROVE  RecordOK(h, t, [balance |-> Truth(h, EndOf(t)), cursor |-> EndOf(t)])
PROOF
  <1> DEFINE q == EndOf(t)
             b == Truth(h, q)
             F == {e \in DOMAIN h : e > q}
             r == [balance |-> b, cursor |-> q]
  <1>1. q \in 0 .. LastPosition /\ 0 \in 0 .. LastPosition /\ q \in Nat /\ q \in Position
        /\ t \in StartLedger .. t
        BY Bounds, LastPositionType, CtSyncAssumption DEF Position
  <1>2. \A n \in 0 + 1 .. q : n \notin F
        BY <1>1
  <1>3. OnceAmong(b, {e \in DOMAIN h : h[e] = "credit"})
        BY <1>1, TruthIsOnce
  <1>4. After(h, b, F, q) = b
    <2>1. After(h, b, F, 0) = b
          BY ReplayStep
    <2>2. q \in 0 .. LastPosition
          BY <1>1
    <2> HIDE DEF F, b, q
    <2>3. After(h, b, F, q) = After(h, b, F, 0)
          BY <1>1, <1>2, ReplayQuiet
    <2> QED  BY <2>1, <2>3
  <1>5. r.balance = b /\ r.cursor = q /\ r = [balance |-> r.balance, cursor |-> r.cursor]
        OBVIOUS
  <1> HIDE DEF r, b
  <1>6. Sound(h, t, r)
        BY <1>4, <1>5 DEF Sound, b
  <1>7. r.cursor = 0 \/ \E l \in StartLedger .. t : r.cursor = EndOf(l)
        BY <1>1, <1>5
  <1>8. RecordOK(h, t, r)
        BY <1>3, <1>5, <1>6, <1>7 DEF RecordOK
  <1> QED  BY <1>8 DEF r, b

\* A sync reads the head, replays and saves.
LEMMA ReadTailOK ==
  ASSUME NEW a \in Actors
  PROVE  IInv /\ ReadTail(a) => IInv'
PROOF
  <1> SUFFICES ASSUME IInv, ReadTail(a) PROVE IInv'
        OBVIOUS
  <1> DEFINE x == actor[a]
             state == x.state
             recent == {e \in EventsOf(1 .. tip) : e >= x.start}
             E == x.events \cup recent
             r == [balance |-> Truth(chain, EndOf(tip)), cursor |-> EndOf(tip)]
  <1>1. /\ tip \in StartLedger .. MaxLedger /\ tip \in Nat /\ EventsOK(chain, tip)
        BY WorldType DEF IInv
  <1>2. /\ ActorOK(chain, tip, archived, x) /\ RecordOK(chain, tip, state)
        /\ ReadsAll(chain, tip, archived, x) /\ (Waits(x) => a \in Operators)
        BY DEF IInv, TabsOK, ActorOK
  <1>3. /\ x.phase = "tail" /\ store' = Synced(state, E, tip)
        /\ actor' = [actor EXCEPT ![a] = IF x.spending
                                         THEN [Idle EXCEPT !.phase = "proving", !.state = store']
                                         ELSE Idle]
        /\ tip' = tip /\ chain' = chain /\ account' = account /\ archived' = archived
        BY DEF ReadTail
  <1>4. /\ x.start \in Nat
        /\ x.events \subseteq {e \in DOMAIN chain : e > state.cursor /\ e <= EndOf(tip)}
        /\ \A e \in DOMAIN chain : e > state.cursor /\ e < x.start => e \in x.events
        /\ \A e \in DOMAIN chain : e >= x.start => e > state.cursor
        BY <1>2, <1>3 DEF ReadsAll
  <1>5. ASSUME NEW e \in DOMAIN chain
        PROVE  e \in recent <=> e >= x.start /\ e <= EndOf(tip)
    <2>1. (LedgerOf(e) <= tip <=> e <= EndOf(tip)) /\ LedgerOf(e) \in Nat /\ LedgerOf(e) > StartLedger
          BY <1>1, ClosedEvents
    <2>2. StartLedger \in Nat
          BY CtSyncAssumption
    <2>3. LedgerOf(e) \in 1 .. tip <=> e <= EndOf(tip)
          BY <1>1, <2>1, <2>2
    <2> HIDE DEF x
    <2> QED  BY <2>3 DEF EventsOf
  <1>6. recent \subseteq DOMAIN chain
        BY DEF EventsOf
  <1>7. E = {e \in DOMAIN chain : e > state.cursor /\ e <= EndOf(tip)}
    <2>1. \A e \in DOMAIN chain : e \in Nat
          BY <1>1 DEF EventsOK
    <2> HIDE DEF recent, state, x
    <2>2. ASSUME NEW e \in DOMAIN chain
          PROVE  e \in E <=> e > state.cursor /\ e <= EndOf(tip)
      <3>1. e \in Nat
            BY <2>1
      <3> QED  BY <1>4, <1>5, <3>1 DEF state
    <2> QED  BY <1>4, <1>6, <2>2 DEF state
  <1> HIDE DEF E, recent
  <1>8. After(chain, state.balance, E, LastPosition) = Truth(chain, EndOf(tip))
    <2> HIDE DEF state
    <2> QED  BY <1>1, <1>2, <1>7, SyncedRecord
  <1>9. store' = r
        BY <1>3, <1>8 DEF Synced, ApplyAll, After
  <1>10. RecordOK(chain, tip, r)
        BY <1>1, SyncedOK
  <1> DEFINE y == IF x.spending THEN [Idle EXCEPT !.phase = "proving", !.state = r] ELSE Idle
  <1>11. actor' = [actor EXCEPT ![a] = y]
        BY <1>3, <1>9
  <1>12. ActorOK(chain, tip, archived, y) /\ (Waits(y) => a \in Operators)
    <2>1. CASE ~x.spending
      <3>1. y = Idle
            BY <2>1
      <3> QED  BY <1>1, <3>1, IdleOK
    <2>2. CASE x.spending
      <3>1. y = [Idle EXCEPT !.phase = "proving", !.state = r]
            BY <2>2
      <3>2. a \in Operators
            BY <1>2, <2>2 DEF Waits
      <3>3. r.balance = Truth(chain, r.cursor)
            OBVIOUS
      <3> HIDE DEF y, r, x
      <3>4. y = [phase |-> "proving", spending |-> Idle.spending, state |-> r,
                 start |-> Idle.start, events |-> Idle.events]
            BY <3>1, IdleFields, WithState
      <3>5. y.phase = "proving" /\ y.state = r /\ Whole(y)
            BY <3>4 DEF Whole
      <3>6. ActorOK(chain, tip, archived, y)
            BY <1>10, <3>3, <3>5 DEF ActorOK, ReadsAll
      <3> QED  BY <3>2, <3>6
    <2> QED  BY <2>1, <2>2
  <1>13. RecordOK(chain, tip, store')
        BY <1>9, <1>10
  <1> HIDE DEF y, r, x
  <1> QED  BY <1>3, <1>11, <1>12, <1>13, OneChanges

----------------------------------------------------------------------------
(* setSpendable. *)

\* The openings that setSpendable writes.
Respent(balance, s) == [balance EXCEPT !.spendable = Spent(s)]

\* The opening a spend leaves is what the record lacks or already has: if the
\* record was synced before the spend, the replay will meet it and forget what was
\* written; if past it, the spend is the account's last and the record has it.
LEMMA SpendKnown ==
  ASSUME NEW t \in StartLedger .. MaxLedger, NEW h, EventsOK(h, t), NEW r, RecordOK(h, t, r),
         NEW s \in DOMAIN h, h[s] = "spend", \A e \in DOMAIN h : e > s => h[e] = "credit",
         s <= EndOf(t)
  PROVE  RecordOK(h, t, [balance |-> Respent(r.balance, s), cursor |-> r.cursor])
PROOF
  <1> DEFINE q == EndOf(t)
             c == r.cursor
             F == {e \in DOMAIN h : e > c}
             D == DOMAIN h
             C == {e \in D : h[e] = "credit"}
             a == r.balance
             b == Respent(a, s)
             r2 == [balance |-> b, cursor |-> c]
  <1>1. /\ q \in 0 .. LastPosition /\ q \in Nat /\ c \in Nat /\ c <= q /\ LastPosition \in Nat
        /\ 0 \in 0 .. LastPosition /\ c \in Position
        BY Bounds, CursorBounds, LastPositionType DEF Position
  <1>2. s \in 1 .. LastPosition /\ q \in s .. LastPosition
    <2>1. s \in 1 .. LastPosition
          BY EventBounds
    <2> QED  BY <1>1, <2>1
  <1>3. OnceAmong(a, C) /\ Shaped(a) /\ After(h, a, F, q) = Truth(h, q)
        BY OnceIsShaped DEF RecordOK, Sound
  <1>4. \A e \in D : e \in Nat
        BY DEF EventsOK
  <1>5. Known(h, F) /\ Known(h, D)
        BY EventsKnown
  <1>6. b = [spendable |-> Spent(s), receiving |-> a.receiving]
    <2>1. b = [a EXCEPT !.spendable = Spent(s)]
          BY DEF Respent
    <2>2. a = [spendable |-> a.spendable, receiving |-> a.receiving]
          BY <1>3 DEF Shaped
    <2> DEFINE v == Spent(s)
    <2> HIDE DEF a, b, v
    <2>3. b = [spendable |-> v, receiving |-> a.receiving]
          BY <2>1, <2>2 DEF v
    <2> QED  BY <2>3 DEF v
  <1> HIDE DEF b
  <1>7. Shaped(b) /\ b.receiving = a.receiving /\ b.spendable = Spent(s)
        BY <1>6 DEF Shaped
  <1>8. OnceAmong(b, C)
    <2>1. PICK T \in SUBSET C : a.receiving = SetToBag(T)
          BY <1>3 DEF OnceAmong
    <2> DEFINE N == {}
    <2>2. N \in SUBSET C /\ N \cap T = {}
          OBVIOUS
    <2>3. Spent(s) = [spend |-> s, credits |-> SetToBag(N)]
          BY DEF Spent, EmptyBag
    <2>4. b.spendable.spend = s
          BY <1>7, <2>3
    <2> HIDE DEF N, C, a
    <2>5. b = [spendable |-> [spend |-> b.spendable.spend, credits |-> SetToBag(N)],
               receiving |-> SetToBag(T)]
          BY <1>6, <2>1, <2>3, <2>4
    <2> QED  BY <2>2, <2>5 DEF OnceAmong
  <1>9. After(h, b, F, q) = Truth(h, q)
    <2>1. CASE c < s
      <3>1. s \in F
            BY <2>1
      <3>2. Known(h, F) /\ Shaped(b) /\ Shaped(a) /\ b.receiving = a.receiving
            BY <1>3, <1>5, <1>7
      <3>3. s \in 1 .. LastPosition /\ q \in s .. LastPosition /\ h[s] = "spend"
            BY <1>2
      <3> HIDE DEF F, q, a, c
      <3>4. After(h, b, F, q) = After(h, a, F, q)
            BY <3>1, <3>2, <3>3, SpendWins
      <3> QED  BY <1>3, <3>4
    <2>2. CASE ~(c < s)
      <3>1. \A n \in 0 + 1 .. q : n \in F => h[n] = "credit"
        <4> SUFFICES ASSUME NEW n \in F PROVE h[n] = "credit"
              OBVIOUS
        <4>1. n \in D /\ n \in Nat /\ n > c /\ s \in Nat
              BY <1>4
        <4>2. n > s
              BY <1>1, <2>2, <4>1
        <4> QED  BY <4>1, <4>2
      <3>2. \A n \in s + 1 .. q : n \in D => h[n] = "credit"
        <4> SUFFICES ASSUME NEW n \in s + 1 .. q, n \in D PROVE h[n] = "credit"
              OBVIOUS
        <4>1. n > s
              BY <1>2
        <4> QED  BY <4>1
      <3>3. Shaped(Empty)
            BY EmptyOnce, OnceIsShaped
      <3>4. s \in D
            OBVIOUS
      <3>5. After(h, a, F, 0) = a
            BY ReplayStep
      <3>6. q \in 0 .. LastPosition
            BY <1>1
      <3> HIDE DEF F, D, q, a, c
      <3>7. After(h, a, F, q).spendable = After(h, a, F, 0).spendable
            BY <1>1, <1>3, <1>5, <3>1, <3>6, OnlyCredits
      <3>8. After(h, Empty, D, q).spendable = Spent(s)
            BY <1>2, <1>5, <3>2, <3>3, <3>4, LastSpend
      <3>9. Truth(h, q) = After(h, Empty, D, q)
            BY DEF Truth, D
      <3>10. a.spendable = Spent(s)
            BY <1>3, <3>5, <3>7, <3>8, <3>9
      <3>11. a = b
            BY <1>3, <1>6, <3>10 DEF Shaped
      <3> QED  BY <1>3, <3>11
    <2> QED  BY <2>1, <2>2
  <1>10. r2.balance = b /\ r2.cursor = c /\ r2 = [balance |-> r2.balance, cursor |-> r2.cursor]
        OBVIOUS
  <1>11. c = 0 \/ \E l \in StartLedger .. t : c = EndOf(l)
        BY DEF RecordOK
  <1> HIDE DEF r2
  <1>12. RecordOK(h, t, r2)
        BY <1>8, <1>9, <1>10, <1>11 DEF RecordOK, Sound
  <1> QED  BY <1>12 DEF r2, b

\* An operation's transaction has succeeded.
LEMMA SetSpendableOK ==
  ASSUME NEW a \in Actors
  PROVE  IInv /\ SetSpendable(a) => IInv'
PROOF
  <1> SUFFICES ASSUME IInv, SetSpendable(a) PROVE IInv'
        OBVIOUS
  <1> DEFINE s == actor[a].start
             b == Respent(store.balance, s)
             r == [balance |-> b, cursor |-> store.cursor]
  <1>1. /\ tip \in StartLedger .. MaxLedger /\ tip \in Nat /\ EventsOK(chain, tip)
        /\ RecordOK(chain, tip, store) /\ ActorOK(chain, tip, archived, actor[a])
        BY WorldType DEF IInv, TabsOK
  <1>2. /\ actor[a].phase = "awaiting" /\ LedgerOf(s) <= tip
        /\ store' = [store EXCEPT !.balance.spendable = Spent(s)]
        /\ actor' = [actor EXCEPT ![a] = Idle]
        /\ tip' = tip /\ chain' = chain /\ account' = account /\ archived' = archived
        BY DEF SetSpendable
  <1>3. s \in DOMAIN chain /\ chain[s] = "spend" /\ \A e \in DOMAIN chain : e > s => chain[e] = "credit"
        BY <1>1, <1>2 DEF ActorOK
  <1> HIDE DEF s
  <1>4. s <= EndOf(tip)
        BY <1>1, <1>2, <1>3, ClosedEvents
  <1>5. store' = r
    <2>1. store = [balance |-> store.balance, cursor |-> store.cursor]
          BY <1>1 DEF RecordOK
    <2>2. store' = [store EXCEPT !.balance = b]
          BY <1>2, <2>1 DEF Respent
    <2> HIDE DEF b
    <2> QED  BY <2>1, <2>2
  <1>6. RecordOK(chain, tip, r)
        BY <1>1, <1>3, <1>4, SpendKnown
  <1>7. ActorOK(chain, tip, archived, Idle) /\ ~Waits(Idle)
        BY <1>1, IdleOK
  <1>8. RecordOK(chain, tip, store')
        BY <1>5, <1>6
  <1> QED  BY <1>2, <1>7, <1>8, OneChanges

----------------------------------------------------------------------------
(* The theorems. *)

\* Every step preserves the invariant.
LEMMA NextOK ==
  ASSUME IndexerKeepsUp, OneOperator
  PROVE  IInv /\ [Next]_vars => IInv'
PROOF
  <1> SUFFICES ASSUME IInv, [Next]_vars PROVE IInv'
        OBVIOUS
  <1>1. CASE CloseLedger
        BY <1>1, CloseLedgerOK
  <1>2. CASE Credit
        BY <1>2, CreditOK
  <1>3. CASE Archive
        BY <1>3, ArchiveOK
  <1>4. CASE Forget
        BY <1>4, ForgetOK
  <1>5. ASSUME NEW a \in Actors, Begin(a, FALSE) PROVE IInv'
        BY <1>5, BeginOK
  <1>6. ASSUME NEW a \in Actors, a \in Operators, Begin(a, TRUE) PROVE IInv'
        BY <1>6, BeginOK
  <1>7. ASSUME NEW a \in Actors, ReadFloor(a) PROVE IInv'
        BY <1>7, ReadFloorOK
  <1>8. ASSUME NEW a \in Actors, Backfill(a) PROVE IInv'
        BY <1>8, BackfillOK
  <1>9. ASSUME NEW a \in Actors, ReadTail(a) PROVE IInv'
        BY <1>9, ReadTailOK
  <1>10. ASSUME NEW a \in Actors, GiveUp(a) PROVE IInv'
        BY <1>10, GiveUpOK
  <1>11. ASSUME NEW a \in Actors, Merge(a) PROVE IInv'
        BY <1>11, MergeOK
  <1>12. ASSUME NEW a \in Actors, Submit(a) PROVE IInv'
        BY <1>12, SubmitOK
  <1>13. ASSUME NEW a \in Actors, SetSpendable(a) PROVE IInv'
        BY <1>13, SetSpendableOK
  <1>14. CASE UNCHANGED vars
        BY <1>14 DEF vars, IInv
  <1> QED  BY <1>1, <1>2, <1>3, <1>4, <1>5, <1>6, <1>7, <1>8, <1>9, <1>10, <1>11,
              <1>12, <1>13, <1>14 DEF Next

\* The inductive invariant holds in every reachable state (sync, apply, setSpendable,
\* hybridFetchEvents), for any number of refreshes, any chain and any lag the RPC's
\* window covers.
THEOREM CtSyncInductive ==
  ASSUME IndexerKeepsUp, OneOperator
  PROVE  Spec => []IInv
PROOF
  <1>1. Init => IInv
        BY InitOK
  <1>2. IInv /\ [Next]_vars => IInv'
        BY NextOK
  <1> QED  BY <1>1, <1>2, PTL DEF Spec

\* A set as a bag has each of its members once.
LEMMA BagToSetOfSet ==
  ASSUME NEW S, NEW e \in BagToSet(SetToBag(S))
  PROVE  e \in S /\ SetToBag(S)[e] = 1
  BY DEF BagToSet, SetToBag

\* Openings that count credits once, as TypeOK says it.
LEMMA OnceCounts ==
  ASSUME NEW b, NEW C, OnceAmong(b, C)
  PROVE  LET credits == b.spendable.credits (+) b.receiving
         IN  \A e \in BagToSet(credits) : credits[e] = 1 /\ e \in C
PROOF
  <1>1. PICK S \in SUBSET C, T \in SUBSET C :
          /\ S \cap T = {}
          /\ b = [spendable |-> [spend |-> b.spendable.spend, credits |-> SetToBag(S)],
                  receiving |-> SetToBag(T)]
        BY DEF OnceAmong
  <1>2. b.spendable.credits = SetToBag(S) /\ b.receiving = SetToBag(T)
        BY <1>1
  <1> DEFINE credits == b.spendable.credits (+) b.receiving
             U == S \cup T
  <1>3. credits = SetToBag(U)
        BY <1>1, <1>2, BagAdds
  <1> HIDE DEF credits, U
  <1>4. ASSUME NEW e \in BagToSet(credits)
        PROVE  credits[e] = 1 /\ e \in U
        BY <1>3, BagToSetOfSet
  <1>5. U \subseteq C
        BY DEF U
  <1> QED  BY <1>4, <1>5 DEF credits

\* The invariant has TypeOK in it.
LEMMA TypeFollows == IInv => TypeOK
PROOF
  <1> SUFFICES ASSUME IInv PROVE TypeOK
        OBVIOUS
  <1> DEFINE C == {e \in DOMAIN chain : chain[e] = "credit"}
             Balances == {account, store.balance} \cup {actor[a].state.balance : a \in Actors}
  <1>1. /\ tip \in StartLedger .. MaxLedger /\ tip \in Nat /\ EventsOK(chain, tip)
        /\ archived \in StartLedger .. tip /\ account = Truth(chain, LastPosition)
        BY WorldType DEF IInv, WorldOK
  <1>2. DOMAIN chain \subseteq Positions /\ \A e \in DOMAIN chain : chain[e] \in Kinds
    <2> SUFFICES ASSUME NEW e \in DOMAIN chain
                 PROVE  e \in Positions /\ chain[e] \in Kinds
          OBVIOUS
    <2>1. /\ e \in Nat /\ FirstOf(StartLedger + 1) <= e /\ chain[e] \in Kinds
          BY <1>1 DEF EventsOK
    <2>2. e <= LastPosition
          BY <1>1, EventBounds
    <2>3. FirstOf(StartLedger + 1) \in Nat
          BY CtSyncAssumption, FirstOfType
    <2>4. Positions = FirstOf(StartLedger + 1) .. LastPosition
          BY DEF Positions, LastPosition
    <2> QED  BY <2>1, <2>2, <2>3, <2>4, LastPositionType
  <1>3. ASSUME NEW b \in Balances
        PROVE  OnceAmong(b, C)
    <2>1. OnceAmong(Truth(chain, LastPosition), C)
      <3>1. LastPosition \in Position
            BY LastPositionType DEF Position
      <3> QED  BY <1>1, <3>1, TruthIsOnce
    <2>2. OnceAmong(store.balance, C)
          BY DEF IInv, RecordOK
    <2>3. \A a \in Actors : OnceAmong(actor[a].state.balance, C)
          BY DEF IInv, TabsOK, ActorOK, RecordOK
    <2> HIDE DEF C
    <2> QED  BY <1>1, <2>1, <2>2, <2>3
  <1>4. \A b \in Balances :
          LET credits == b.spendable.credits (+) b.receiving
          IN  \A e \in BagToSet(credits) : credits[e] = 1 /\ chain[e] = "credit"
    <2> TAKE b \in Balances
    <2> DEFINE credits == b.spendable.credits (+) b.receiving
    <2>1. \A e \in BagToSet(credits) : credits[e] = 1 /\ e \in C
      <3> HIDE DEF C, Balances
      <3> QED  BY <1>3, OnceCounts
    <2> HIDE DEF credits
    <2>2. \A e \in BagToSet(credits) : credits[e] = 1 /\ chain[e] = "credit"
          BY <2>1
    <2> QED  BY <2>2 DEF credits
  <1>5. LedgerOf(store.cursor) <= tip
    <2>1. store.cursor \in Nat /\ store.cursor <= EndOf(tip)
          BY <1>1, CursorBounds DEF IInv
    <2>2. EndOf(tip) = FirstOf(tip + 1) - 1 /\ FirstOf(tip + 1) \in Nat
          BY <1>1, FirstOfType
    <2> QED  BY <1>1, <2>1, <2>2, LedgerIsAtMost
  <1>6. \A a \in Actors : actor[a].phase = "awaiting" => chain[actor[a].start] = "spend"
        BY DEF IInv, TabsOK, ActorOK
  <1> QED  BY <1>1, <1>2, <1>4, <1>5, <1>6 DEF TypeOK

\* A sound record reconciles with the account.
LEMMA ReconcilesFollows == IInv => Reconciles
PROOF
  <1> SUFFICES ASSUME IInv PROVE Reconciles
        OBVIOUS
  <1> DEFINE h == chain
             b == store.balance
             F == {e \in DOMAIN h : e > store.cursor}
             D == DOMAIN h
             q == EndOf(tip)
  <1>1. /\ tip \in StartLedger .. MaxLedger /\ account = Truth(h, LastPosition)
        /\ RecordOK(h, tip, store)
        BY WorldType DEF IInv
  <1>2. After(h, b, F, q) = After(h, Empty, D, q)
        BY <1>1 DEF RecordOK, Sound, Truth
  <1>3. /\ q \in 0 .. LastPosition /\ LastPosition \in q .. LastPosition /\ q \in Nat
        /\ store.cursor \in Nat /\ store.cursor <= q
        BY <1>1, Bounds, CursorBounds, LastPositionType DEF Position
  <1>4. \A n \in q + 1 .. LastPosition : n \in F <=> n \in D
        BY <1>3
  <1> HIDE DEF F, D, b, q
  <1>5. After(h, b, F, LastPosition) = After(h, Empty, D, LastPosition)
        BY <1>2, <1>3, <1>4, SameFrom
  <1>6. After(h, b, F, LastPosition) = account
        BY <1>1, <1>5 DEF Truth, D
  <1> QED  BY <1>6 DEF Reconciles, ApplyAll, After, b, F

\* A proof under way is about a state of the account.
LEMMA ProvesFollows == IInv => ProvesTheRecord
PROOF
  <1> SUFFICES ASSUME IInv, NEW a \in Actors, actor[a].phase = "proving"
               PROVE  ApplyAll(Empty, {e \in DOMAIN chain : e <= actor[a].state.cursor})
                        = actor[a].state.balance
        BY DEF ProvesTheRecord
  <1> DEFINE h == chain
             c == actor[a].state.cursor
             E == {e \in DOMAIN h : e <= c}
             D == DOMAIN h
  <1>1. /\ tip \in StartLedger .. MaxLedger /\ RecordOK(h, tip, actor[a].state)
        /\ actor[a].state.balance = Truth(h, c)
        BY WorldType DEF IInv, TabsOK, ActorOK
  <1>2. /\ c \in Nat /\ c \in 0 .. LastPosition /\ LastPosition \in c .. LastPosition
        /\ 0 \in 0 .. LastPosition
        BY <1>1, CursorBounds, LastPositionType DEF Position
  <1>3. \A n \in 0 + 1 .. c : n \in E <=> n \in D
        BY <1>2
  <1>4. \A n \in c + 1 .. LastPosition : n \notin E
        BY <1>2
  <1>5. After(h, Empty, E, 0) = After(h, Empty, D, 0)
        BY ReplayStep
  <1> HIDE DEF E, D, c
  <1>6. After(h, Empty, E, c) = After(h, Empty, D, c)
        BY <1>2, <1>3, <1>5, SameFrom
  <1>7. After(h, Empty, E, LastPosition) = After(h, Empty, E, c)
        BY <1>2, <1>4, ReplayQuiet
  <1>8. After(h, Empty, E, LastPosition) = actor[a].state.balance
        BY <1>1, <1>6, <1>7 DEF Truth, D
  <1> QED  BY <1>8 DEF ApplyAll, After, E, c

\* The openings, in the record and in every sync's memory, are made of credits that
\* happened, each of them once (apply), if one merge or spend runs at a time.
THEOREM CtSyncTypeCorrect ==
  ASSUME IndexerKeepsUp, OneOperator
  PROVE  Spec => []TypeOK
  BY CtSyncInductive, TypeFollows, PTL

\* Whatever interleaves, replaying the events after the record's cursor onto its
\* openings gives the account's (sync, setSpendable, hybridFetchEvents), if one merge
\* or spend runs at a time.
THEOREM CtSyncReconciles ==
  ASSUME IndexerKeepsUp, OneOperator
  PROVE  Spec => []Reconciles
  BY CtSyncInductive, ReconcilesFollows, PTL

\* A transfer or withdrawal proves about an opening the account had when its sync
\* read the head (CtRail.transfer, withdraw), if one merge or spend runs at a time.
THEOREM CtSyncProvesTheRecord ==
  ASSUME IndexerKeepsUp, OneOperator
  PROVE  Spec => []ProvesTheRecord
  BY CtSyncInductive, ProvesFollows, PTL
=============================================================================
