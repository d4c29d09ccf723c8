-------------------------- MODULE XpLedger_proofs ---------------------------
(***************************************************************************)
(* Theorems about the three parts of progress_service.py.                  *)
(*                                                                         *)
(* First the level curve: level_for_xp always stops, a larger total never  *)
(* has a smaller level, every price is above the one before it, and so the *)
(* level and the bar shown of any total are what it has paid for           *)
(* (LevelShown).                                                           *)
(*                                                                         *)
(* Then XpLedger, for any number of requests, activities and badges, any   *)
(* rewards and any criteria; when requests do not overlap, the ledger is   *)
(* the learner's account of XpAccount.                                     *)
(*                                                                         *)
(* Last the streaks: in any zone Streaks follows the learner's calendar    *)
(* while the days of the timestamps are the learner's, for the day before  *)
(* the run that ends with the last active day was none.                    *)
(***************************************************************************)
EXTENDS XpLedger, Streaks, LevelShown, TLAPS, FiniteSetTheorems,
        WellFoundedInduction

-----------------------------------------------------------------------------
(* Least elements *)

LEMMA LeastOfNat ==
  ASSUME NEW S \in SUBSET Nat, S # {}
  PROVE  \E n \in S : \A m \in S : n <= m
<1> DEFINE Less == {p \in Nat \X Nat : p[1] < p[2]}
<1>1. IsWellFoundedOn(Less, Nat)
  BY ONLY NatLessThanWellFounded, Zenon DEF OpToRel
<1>2. PICK n \in S : \A m \in S : ~(<<m, n>> \in Less)
  <2> HIDE DEF Less
  <2> QED BY <1>1, WFMin
<1>3. \A m \in S : n <= m
  <2> SUFFICES ASSUME NEW m \in S PROVE n <= m
    OBVIOUS
  <2>1. ~(m < n)
    BY <1>2
  <2> QED BY <2>1
<1> QED BY <1>3

\* What holds at 0 and is handed on holds up to n.
LEMMA UpTo ==
  ASSUME NEW n \in Nat, NEW S \in SUBSET Nat,
         0 \in S, \A i \in 0..n : i \in S => i + 1 \in S
  PROVE  n \in S
<1> SUFFICES ASSUME n \notin S PROVE FALSE
  OBVIOUS
<1> DEFINE Bad == {i \in 0..n : i \notin S}
<1>1. PICK i \in Bad : \A j \in Bad : i <= j
  <2>1. Bad \in SUBSET Nat /\ Bad # {}
    OBVIOUS
  <2> HIDE DEF Bad
  <2> QED BY <2>1, LeastOfNat
<1>2. i \in 0..n /\ i \notin S /\ i # 0
  OBVIOUS
<1>3. i - 1 \in 0..n /\ i - 1 \notin Bad
  BY <1>1, <1>2
<1>4. i - 1 \in S
  BY <1>3
<1> QED BY <1>2, <1>3, <1>4

-----------------------------------------------------------------------------
(* The level curve *)

\* Every price on the curve is a natural number: its two parts are counts.
LEMMA XpRequiredType == XpRequiredForLevel \in [Levels -> Nat]
<1>1. ASSUME NEW k \in Nat
      PROVE  PowThreeHalves(k) \in Nat
  <2> DEFINE square == LevelBaseXp * LevelBaseXp * k
             Q == {n \in 1..(10 * LevelBaseXp) : n * n <= square}
             q == Cardinality(Q)
             R == {n \in 1..(k - 1) :
                     n * n + 2 * q * k * n <= (square - q * q) * k * k}
  <2>1. IsFiniteSet(1..(10 * LevelBaseXp)) /\ Q \subseteq 1..(10 * LevelBaseXp)
    <3>1. 1 \in Int /\ 10 * LevelBaseXp \in Int
      BY DEF LevelBaseXp
    <3>2. IsFiniteSet(1..(10 * LevelBaseXp))
      BY <3>1, FS_Interval
    <3>3. QED
      BY <3>2
  <2>2. IsFiniteSet(1..(k - 1)) /\ R \subseteq 1..(k - 1)
    BY FS_Interval
  <2>3. q \in Nat
    BY <2>1, FS_Subset, FS_CardinalityType
  <2>4. Cardinality(R) \in Nat
    BY <2>2, FS_Subset, FS_CardinalityType
  <2>5. PowThreeHalves(k) = k * q + Cardinality(R)
    BY DEF PowThreeHalves
  <2> HIDE DEF q, R
  <2>6. QED
    BY <1>1, <2>3, <2>4, <2>5
<1>2. \A level \in Levels : level - 1 \in Nat
  BY DEF Levels, MaxLevel
<1>3. QED
  BY <1>1, <1>2 DEF XpRequiredForLevel

\* Among the levels at which the loop may stop there is a least one: the last
\* level is always such a level.
LEMMA LoopHasFirstStop ==
  ASSUME NEW x \in Nat
  PROVE  \E l \in LoopStops(x) : \A m \in LoopStops(x) : l <= m
<1>1. LoopStops(x) \subseteq Nat
  BY DEF LoopStops, Levels, MaxLevel
<1>2. MaxLevel \in LoopStops(x)
  BY DEF LoopStops, Levels, MaxLevel
<1> QED BY <1>1, <1>2, LeastOfNat

\* level_for_xp always answers a level, and it is the first stop of the loop.
LEMMA LevelForXpFirstStop ==
  ASSUME NEW x \in Nat
  PROVE  /\ LevelForXp(x) \in LoopStops(x)
         /\ \A m \in LoopStops(x) : LevelForXp(x) <= m
         /\ LevelForXp(x) \in Levels
<1>1. /\ LevelForXp(x) \in LoopStops(x)
      /\ \A m \in LoopStops(x) : LevelForXp(x) <= m
  BY LoopHasFirstStop DEF LevelForXp
<1>2. QED
  BY <1>1 DEF LoopStops

\* More XP never means a lower level, whatever the prices of the curve are:
\* every level at which the larger total stops also stops the smaller one.
THEOREM LevelForXpMonotone ==
  ASSUME NEW x \in Nat, NEW y \in Nat, x <= y
  PROVE  LevelForXp(x) <= LevelForXp(y)
<1>1. LoopStops(y) \subseteq LoopStops(x)
  BY XpRequiredType DEF LoopStops, Levels, MaxLevel
<1>2. QED
  BY <1>1, LevelForXpFirstStop DEF Levels

-----------------------------------------------------------------------------
(* What is shown of a total *)

\* Multiplication keeps the order of natural numbers.
LEMMA TimesGrows ==
  ASSUME NEW a \in Nat, NEW b \in Nat, NEW c \in Nat, a <= b
  PROVE  a * c <= b * c
<1>1. PICK d \in Nat : b = a + d
  <2>1. b - a \in Nat /\ b = a + (b - a)
    OBVIOUS
  <2> QED BY <2>1
<1>2. b * c = a * c + d * c /\ a * c \in Nat /\ d * c \in Nat
  BY <1>1
<1> QED BY <1>2

LEMMA SquareGrows ==
  ASSUME NEW a \in Nat, NEW b \in Nat, a <= b
  PROVE  a * a <= b * b
<1>1. a * a <= b * a /\ a * b <= b * b
  BY TimesGrows
<1>2. a * b = b * a /\ a * a \in Nat /\ b * a \in Nat /\ b * b \in Nat
  OBVIOUS
<1> QED BY <1>1, <1>2

\* r is the whole part of the root of s.
WholeRoot(r, s) == r * r <= s /\ s < (r + 1) * (r + 1)

\* Counting the positive numbers whose square is within s counts up to the
\* whole root of s, when the count does not stop before it.
LEMMA CountedRoot ==
  ASSUME NEW N \in Nat, NEW s \in Nat, s < N * N
  PROVE  LET q == Cardinality({n \in 1..N : n * n <= s})
         IN  q \in 0..N /\ WholeRoot(q, s)
<1> DEFINE Over == {n \in Nat : s < (n + 1) * (n + 1)}
           Q == {n \in 1..N : n * n <= s}
<1>1. N \in Over
  <2>1. N * N <= (N + 1) * (N + 1)
    BY SquareGrows
  <2> QED BY <2>1
<1>2. PICK q \in Over : \A m \in Over : q <= m
  <2> HIDE DEF Over
  <2>1. Over \in SUBSET Nat
    BY DEF Over
  <2> QED BY <1>1, <2>1, LeastOfNat
<1>3. q \in Nat /\ q <= N /\ s < (q + 1) * (q + 1)
  BY <1>1, <1>2
<1>4. \A n \in 1..q : n * n <= s
  <2> TAKE n \in 1..q
  <2>1. n - 1 \in Nat /\ ~(q <= n - 1)
    BY <1>3
  <2>2. n - 1 \notin Over
    BY <1>2, <2>1
  <2>3. ~(s < (n - 1 + 1) * (n - 1 + 1))
    BY <2>1, <2>2
  <2>4. n - 1 + 1 = n /\ n * n \in Nat
    BY <2>1
  <2> QED BY <2>3, <2>4
<1>5. \A n \in 1..N : n * n <= s => n <= q
  <2> SUFFICES ASSUME NEW n \in 1..N, n * n <= s, ~(n <= q)
               PROVE  FALSE
    OBVIOUS
  <2>1. (q + 1) * (q + 1) <= n * n
    BY <1>3, SquareGrows
  <2> QED BY <1>3, <2>1
<1>6. Q = 1..q
  BY <1>3, <1>4, <1>5
<1>7. Cardinality(1..q) = q
  <2>1. 1 \in Int /\ q \in Int /\ (IF 1 > q THEN 0 ELSE q - 1 + 1) = q
    BY <1>3
  <2> QED BY <2>1, FS_Interval
<1>8. q * q <= s
  <2>1. CASE q = 0
    BY <2>1
  <2>2. CASE q # 0
    BY <2>2, <1>3, <1>4
  <2> QED BY <2>1, <2>2
<1> HIDE DEF Q, Over
<1>9. Cardinality(Q) = q
  BY <1>6, <1>7
<1>10. q \in 0..N /\ WholeRoot(q, s)
  BY <1>3, <1>8 DEF WholeRoot
<1> QED BY <1>9, <1>10 DEF Q

\* The price of the level after k: k times the whole root of 10000 k, and less
\* than k more.
Rooted(k, q) ==
  /\ q \in 0..1000 /\ WholeRoot(q, 10000 * k)
  /\ k * q <= PowThreeHalves(k)
  /\ k # 0 => PowThreeHalves(k) < k * q + k
  /\ k = 0 => PowThreeHalves(k) = 0

\* There is such a root, and it is below 1000.
LEMMA PriceBounds ==
  ASSUME NEW k \in 0..99
  PROVE  \E q : Rooted(k, q)
<1> DEFINE square == LevelBaseXp * LevelBaseXp * k
           q == Cardinality({n \in 1..(10 * LevelBaseXp) : n * n <= square})
           R == {n \in 1..(k - 1) :
                   n * n + 2 * q * k * n <= (square - q * q) * k * k}
           r == Cardinality(R)
<1>1. square = 10000 * k /\ 10 * LevelBaseXp = 1000 /\ k \in Nat /\ square \in Nat
  BY DEF LevelBaseXp
<1>2. square < 1000 * 1000
  BY <1>1
<1>3. q \in 0..1000 /\ WholeRoot(q, square)
  <2>1. 10 * LevelBaseXp \in Nat /\ square < (10 * LevelBaseXp) * (10 * LevelBaseXp)
    BY <1>1, <1>2
  <2> DEFINE N == 10 * LevelBaseXp
  <2>2. square \in Nat /\ N \in Nat /\ square < N * N
    BY <1>1, <2>1
  <2>3. q = Cardinality({n \in 1..N : n * n <= square})
    OBVIOUS
  <2> HIDE DEF q, square, N
  <2>4. q \in 0..N /\ WholeRoot(q, square)
    BY ONLY <2>2, <2>3, CountedRoot
  <2> QED BY <1>1, <2>4 DEF N
<1>4. PowThreeHalves(k) = k * q + r
  BY DEF PowThreeHalves
<1>5. r \in Nat /\ r <= (IF 1 > k - 1 THEN 0 ELSE k - 1 - 1 + 1)
  <2>1. R \subseteq 1..(k - 1) /\ 1 \in Int /\ k - 1 \in Int
    BY <1>1
  <2> HIDE DEF R
  <2>2. IsFiniteSet(1..(k - 1))
    BY <2>1, FS_Interval
  <2>3. IsFiniteSet(R) /\ Cardinality(R) <= Cardinality(1..(k - 1))
    BY <2>1, <2>2, FS_Subset
  <2>4. Cardinality(R) \in Nat
    BY <2>3, FS_CardinalityType
  <2>5. Cardinality(1..(k - 1)) = IF 1 > k - 1 THEN 0 ELSE k - 1 - 1 + 1
    BY <2>1, FS_Interval
  <2> QED BY <2>3, <2>4, <2>5
<1> HIDE DEF q, r, square
<1>6. k * q \in Nat /\ (k = 0 => k * q = 0)
  BY <1>1, <1>3
<1>7. k # 0 => r < k
  BY <1>1, <1>5
<1>8. k = 0 => r = 0
  BY <1>5
<1>9. /\ k * q <= PowThreeHalves(k)
      /\ k # 0 => PowThreeHalves(k) < k * q + k
      /\ k = 0 => PowThreeHalves(k) = 0
  BY <1>1, <1>4, <1>5, <1>6, <1>7, <1>8
<1>10. WholeRoot(q, 10000 * k)
  BY <1>1, <1>3
<1> QED BY <1>3, <1>9, <1>10 DEF Rooted

\* The roots of two neighbours: the larger is not the smaller one, and k times
\* what it is larger by stays below 600.
LEMMA RootStep ==
  ASSUME NEW k \in 0..98, NEW q, NEW p, Rooted(k, q), Rooted(k + 1, p)
  PROVE  q <= p /\ k <= q /\ k * (p - q) < 600
<1>0. /\ q \in 0..1000 /\ p \in 0..1000
      /\ q * q <= 10000 * k /\ 10000 * k < (q + 1) * (q + 1)
      /\ p * p <= 10000 * (k + 1) /\ 10000 * (k + 1) < (p + 1) * (p + 1)
  BY DEF Rooted, WholeRoot
<1> USE <1>0
<1>1. q <= p
  <2> SUFFICES ASSUME ~(q <= p) PROVE FALSE
    OBVIOUS
  <2>1. (p + 1) * (p + 1) <= q * q
    BY SquareGrows
  <2> QED BY <2>1
<1>2. k <= q
  <2> SUFFICES ASSUME ~(k <= q) PROVE FALSE
    OBVIOUS
  <2>1. (q + 1) * (q + 1) <= k * k
    BY SquareGrows
  <2>2. k * k <= 98 * k
    BY TimesGrows
  <2> QED BY <2>1, <2>2
<1>3. k * (p - q) < 600
  <2>1. CASE p <= q + 1
    <3>1. p - q = 0 \/ p - q = 1
      BY <2>1, <1>1
    <3> QED BY <3>1
  <2>2. CASE p > q + 1
    <3> DEFINE d == p - q - 1
               b == q + 1
    <3>1. d \in Nat /\ b \in 1..1001 /\ p = b + d /\ p - q = d + 1
      BY <2>2
    <3> HIDE DEF d, b
    <3>2. p * p = b * b + 2 * (d * b) + d * d
      BY <3>1
    <3>3. d * b \in Nat /\ d * d \in Nat /\ b * b \in Nat
      BY <3>1
    <3>4. 10000 * k < b * b /\ b * b + 2 * (d * b) <= 10000 * k + 10000
      <4>1. 10000 * k < b * b
        BY DEF b
      <4>2. p * p <= 10000 * k + 10000
        OBVIOUS
      <4> QED BY <4>1, <4>2, <3>2, <3>3
    <3>5. d * b < 5000
      BY <3>3, <3>4
    <3>6. 10000 * (k * d) <= (b * b) * d
      <4>1. (10000 * k) * d <= (b * b) * d
        BY <3>1, <3>3, <3>4, TimesGrows
      <4>2. (10000 * k) * d = 10000 * (k * d)
        BY <3>1
      <4> QED BY <4>1, <4>2
    <3>7. (b * b) * d = (d * b) * b
      BY <3>1
    <3>8. (d * b) * b <= 5000 * b
      BY <3>1, <3>3, <3>5, TimesGrows
    <3>9. k * d \in Nat
      BY <3>1
    <3>10. k * d <= 500
      <4>1. 10000 * (k * d) <= 5000 * b
        <5>1. k * d \in Nat /\ (d * b) * b \in Nat /\ b \in Nat
          BY <3>1, <3>3, <3>9
        <5>2. 10000 * (k * d) <= (d * b) * b
          BY <3>6, <3>7
        <5> DEFINE u == k * d
                   v == (d * b) * b
        <5>3. u \in Nat /\ v \in Nat /\ 10000 * u <= v /\ v <= 5000 * b
          BY <5>1, <5>2, <3>8
        <5> HIDE DEF u, v
        <5>4. 10000 * u <= 5000 * b
          BY <5>1, <5>3
        <5> QED BY <5>4 DEF u
      <4> QED BY <4>1, <3>1, <3>9
    <3>11. k * (p - q) = k * d + k
      BY <3>1
    <3> QED BY <3>9, <3>10, <3>11
  <2> QED BY <2>1, <2>2
<1> QED BY <1>1, <1>2, <1>3


\* Each price is above the one before it, and by less than 2000.
LEMMA PriceStep ==
  ASSUME NEW k \in 0..98
  PROVE  /\ PowThreeHalves(k) < PowThreeHalves(k + 1)
         /\ PowThreeHalves(k + 1) - PowThreeHalves(k) < 2000
<1> DEFINE low  == PowThreeHalves(k)
           high == PowThreeHalves(k + 1)
<1>1. PICK q : Rooted(k, q)
  <2>1. k \in 0..99
    OBVIOUS
  <2> QED BY ONLY <2>1, PriceBounds
<1>2. PICK p : Rooted(k + 1, p)
  <2>1. k + 1 \in 0..99
    OBVIOUS
  <2> QED BY ONLY <2>1, PriceBounds
<1>3. q <= p /\ k <= q /\ k * (p - q) < 600
  BY ONLY <1>1, <1>2, k \in 0..98, RootStep
<1>4. /\ q \in 0..1000 /\ p \in 0..1000 /\ p # 0
      /\ k * q <= low /\ (k # 0 => low < k * q + k) /\ (k = 0 => low = 0)
      /\ (k + 1) * p <= high /\ high < (k + 1) * p + (k + 1)
  <2>1. ~WholeRoot(0, 10000 * (k + 1)) /\ k + 1 # 0
    BY DEF WholeRoot
  <2> QED BY <1>1, <1>2, <2>1 DEF Rooted
<1>5. low \in Int /\ high \in Int
  <2>1. k \in Levels \cup {0} /\ k + 1 \in Levels /\ k + 2 \in Levels
    BY DEF Levels, MaxLevel
  <2>2. XpRequiredForLevel[k + 1] = low /\ XpRequiredForLevel[k + 2] = high
    BY <2>1 DEF XpRequiredForLevel
  <2> QED BY <2>1, <2>2, XpRequiredType
<1> HIDE DEF low, high
<1>6. k * q \in Nat /\ k * p \in Nat /\ k * q <= k * p /\ k * p - k * q < 600
  <2>1. k * (p - q) = k * p - k * q
    BY <1>4
  <2>2. k * q <= k * p
    BY <1>3, <1>4, TimesGrows
  <2> QED BY <1>3, <1>4, <2>1, <2>2
<1>7. (k + 1) * p = k * p + p
  BY <1>4
<1>8. q \in 0..1000 /\ p \in 0..1000 /\ p # 0 /\ q <= p /\ k <= q
  BY <1>3, <1>4
<1> DEFINE kq == k * q
           kp == k * p
<1>9. /\ kq \in Nat /\ kp \in Nat /\ kq <= kp /\ kp - kq < 600
      /\ kp + p <= high /\ high < kp + p + k + 1
      /\ kq <= low /\ (k # 0 => low < kq + k) /\ (k = 0 => low = 0)
  BY <1>4, <1>6, <1>7
<1> HIDE DEF kq, kp
<1>10. low < high
  BY ONLY <1>5, <1>8, <1>9, k \in 0..98
<1>11. high - low < 2000
  BY ONLY <1>5, <1>8, <1>9, k \in 0..98
<1> QED BY <1>10, <1>11 DEF low, high

\* The prices of the levels: nothing for the first, each more than the one
\* before it, and by less than 2000.
LEMMA PricesRise ==
  /\ XpRequiredForLevel[1] = 0
  /\ \A l \in 1..99 : /\ XpRequiredForLevel[l] < XpRequiredForLevel[l + 1]
                      /\ XpRequiredForLevel[l + 1] - XpRequiredForLevel[l] < 2000
<1>1. XpRequiredForLevel[1] = 0
  <2>1. PICK q : Rooted(0, q)
    <3>1. 0 \in 0..99
      OBVIOUS
    <3> QED BY ONLY <3>1, PriceBounds
  <2>2. PowThreeHalves(0) = 0
    BY <2>1 DEF Rooted
  <2> QED BY <2>2 DEF XpRequiredForLevel, Levels, MaxLevel
<1>2. \A l \in 1..99 : /\ XpRequiredForLevel[l] < XpRequiredForLevel[l + 1]
                       /\ XpRequiredForLevel[l + 1] - XpRequiredForLevel[l] < 2000
  <2> TAKE l \in 1..99
  <2>1. l \in Levels /\ l + 1 \in Levels /\ l - 1 \in 0..98 /\ l - 1 + 1 = l + 1 - 1
    BY DEF Levels, MaxLevel
  <2>2. /\ XpRequiredForLevel[l] = PowThreeHalves(l - 1)
        /\ XpRequiredForLevel[l + 1] = PowThreeHalves(l - 1 + 1)
    BY <2>1 DEF XpRequiredForLevel
  <2> QED BY <2>1, <2>2, PriceStep
<1> QED BY <1>1, <1>2

\* A higher level never costs less.
LEMMA PricesInOrder ==
  ASSUME NEW a \in Levels, NEW b \in Levels, a <= b
  PROVE  XpRequiredForLevel[a] <= XpRequiredForLevel[b]
<1> DEFINE S == {d \in Nat : a + d \in Levels => XpRequiredForLevel[a] <= XpRequiredForLevel[a + d]}
<1>1. b - a \in Nat /\ a + (b - a) = b
  BY DEF Levels, MaxLevel
<1>2. 0 \in S
  <2>1. a + 0 = a
    BY DEF Levels
  <2> QED BY <2>1, XpRequiredType
<1>3. \A d \in 0..(b - a) : d \in S => d + 1 \in S
  <2> SUFFICES ASSUME NEW d \in Nat, d \in S, a + (d + 1) \in Levels
               PROVE  XpRequiredForLevel[a] <= XpRequiredForLevel[a + (d + 1)]
    OBVIOUS
  <2>1. a + d \in Levels /\ a + d \in 1..99 /\ a + (d + 1) = a + d + 1
    BY DEF Levels, MaxLevel
  <2>2. XpRequiredForLevel[a + d] < XpRequiredForLevel[a + d + 1]
    BY <2>1, PricesRise
  <2> QED BY <2>1, <2>2, XpRequiredType
<1>4. b - a \in S
  <2> HIDE DEF S
  <2>1. S \in SUBSET Nat
    BY DEF S
  <2> QED BY <1>1, <1>2, <1>3, <2>1, UpTo
<1> QED BY <1>1, <1>4

LEMMA HighestPaid ==
  ASSUME total \in Nat
  PROVE  LevelIsHighestPaid
<1> DEFINE shown == LevelForXp(total)
<1>1. shown \in LoopStops(total) /\ shown \in Levels /\ \A m \in LoopStops(total) : shown <= m
  BY LevelForXpFirstStop
<1> HIDE DEF shown
<1>2. ASSUME NEW level \in Levels, level <= shown
      PROVE  XpRequiredForLevel[level] <= total
  <2>1. CASE level = 1
    BY <2>1, PricesRise
  <2>2. CASE level # 1
    <3>1. level - 1 \in Levels /\ level - 1 + 1 = level /\ ~(shown <= level - 1)
      BY <1>1, <1>2, <2>2 DEF Levels, MaxLevel
    <3>2. level - 1 \notin LoopStops(total)
      BY <1>1, <3>1
    <3> QED BY <3>1, <3>2, XpRequiredType DEF LoopStops
  <2> QED BY <2>1, <2>2
<1>3. ASSUME NEW level \in Levels, XpRequiredForLevel[level] <= total, ~(level <= shown)
      PROVE  FALSE
  <2>1. shown # MaxLevel /\ shown + 1 \in Levels /\ shown + 1 <= level
    BY <1>1, <1>3 DEF Levels, MaxLevel
  <2>2. XpRequiredForLevel[shown + 1] > total
    BY <1>1, <2>1 DEF LoopStops
  <2>3. XpRequiredForLevel[shown + 1] <= XpRequiredForLevel[level]
    BY <2>1, PricesInOrder
  <2> QED BY <1>3, <2>1, <2>2, <2>3, XpRequiredType
<1> QED BY <1>2, <1>3 DEF LevelIsHighestPaid, shown

LEMMA BarIsRight ==
  ASSUME total \in Nat
  PROVE  BarFullOnlyAtTheEnd
<1> DEFINE level == LevelForXp(total)
           floor == XpRequiredForLevel[level]
           isMax == level >= MaxLevel
           next  == IF isMax THEN floor ELSE XpRequiredForLevel[level + 1]
           span  == IF next - floor > 1 THEN next - floor ELSE 1
           into  == total - floor
           part  == IF into < span THEN into ELSE span
           mille == IF isMax THEN 1000 ELSE (2000 * part + span) \div (2 * span)
<1>1. /\ DescribeLevel(total).into = into
      /\ DescribeLevel(total).forNext = (IF isMax THEN 0 ELSE span)
      /\ DescribeLevel(total).perMille = mille
      /\ DescribeLevel(total).isMax = isMax
  BY DEF DescribeLevel
<1>2. level \in LoopStops(total) /\ level \in Levels
  BY LevelForXpFirstStop
<1>3. floor <= total /\ floor \in Nat
  <2> HIDE DEF level
  <2>1. level <= level
    BY <1>2 DEF Levels
  <2>2. floor <= total
    BY <1>2, <2>1, HighestPaid DEF LevelIsHighestPaid, level
  <2> QED BY <1>2, <2>2, XpRequiredType
<1>4. ASSUME ~isMax
      PROVE  /\ XpRequiredForLevel[level + 1] \in Nat
             /\ total < XpRequiredForLevel[level + 1]
             /\ XpRequiredForLevel[level + 1] - floor < 2000
  <2> HIDE DEF level
  <2>1. level \in 1..99 /\ level + 1 \in Levels /\ level # MaxLevel
    BY <1>2, <1>4 DEF Levels, MaxLevel
  <2>2. XpRequiredForLevel[level + 1] \in Nat
    BY <2>1, XpRequiredType
  <2>3. total < XpRequiredForLevel[level + 1]
    BY <1>2, <2>1, <2>2 DEF LoopStops
  <2> QED BY <2>1, <2>2, <2>3, PricesRise
<1> HIDE DEF level, floor
<1>5. into >= 0
  BY <1>3
<1>6. ASSUME ~isMax
      PROVE  into < span /\ mille # 1000
  <2>1. next = XpRequiredForLevel[level + 1] /\ into \in Nat /\ into < next - floor /\ next \in Nat
    BY <1>3, <1>4, <1>6
  <2> HIDE DEF next, isMax
  <2>2. span = next - floor /\ span \in 1..1999 /\ into < span /\ into \in Nat
    <3>1. next - floor < 2000
      BY <1>4, <1>6, <2>1
    <3> HIDE DEF into
    <3>2. next - floor \in 1..1999
      <4>1. next - floor \in Int
        BY <1>3, <2>1
      <4>2. next - floor > 0
        BY <2>1, <4>1
      <4> QED BY ONLY <3>1, <4>1, <4>2
    <3> DEFINE d == next - floor
    <3>3. span = IF d > 1 THEN d ELSE 1
      OBVIOUS
    <3>4. into \in Nat /\ into < d /\ d \in 1..1999
      BY <2>1, <3>2
    <3> HIDE DEF d, span
    <3>5. span = d
      BY ONLY <3>3, <3>4
    <3> QED BY <3>4, <3>5 DEF d
  <2>3. part = into
    BY <2>2
  <2> HIDE DEF span, into, part
  <2>4. 2000 * part + span \in Nat /\ 2000 * part + span < 1000 * (2 * span)
    BY <2>2, <2>3
  <2>5. (2000 * part + span) \div (2 * span) # 1000
    <3> DEFINE x == 2000 * part + span
               y == 2 * span
    <3>1. x \in Nat /\ y \in Nat /\ y > 0 /\ x < 1000 * y
      BY <2>2, <2>4
    <3> HIDE DEF x, y
    <3>2. x \div y # 1000
      <4>1. (x \div y) * y <= x
        BY <3>1
      <4> QED BY <3>1, <4>1
    <3> QED BY <3>2 DEF x, y
  <2> QED BY <1>6, <2>2, <2>5
<1>7. isMax => mille = 1000
  OBVIOUS
<1> HIDE DEF into, mille, span, next, isMax
<1> QED BY <1>1, <1>5, <1>6, <1>7 DEF BarFullOnlyAtTheEnd

\* For every total a learner can come to, the level shown is the highest one
\* that total has paid for, and the bar is full exactly at the last level.
THEOREM ShownLevelIsPaidFor == LevelShownSpec => []LevelShownIsPaidFor
<1>1. LevelShownSpec => [](total \in Nat)
  <2>1. total = 0 => total \in Nat
    OBVIOUS
  <2>2. total \in Nat /\ [\E amount \in Nat : Earn(amount)]_total => (total \in Nat)'
    BY DEF Earn
  <2> QED BY <2>1, <2>2, PTL DEF LevelShownSpec
<1>2. total \in Nat => LevelShownIsPaidFor
  BY HighestPaid, BarIsRight DEF LevelShownIsPaidFor
<1> QED BY <1>1, <1>2, PTL

-----------------------------------------------------------------------------
(* Rows and columns *)

\* The row derived from a total is a row, and it is read column by column.
LEMMA RowForType ==
  ASSUME NEW x \in Nat
  PROVE  /\ RowFor(x) \in StatsRow
         /\ RowFor(x)["total_xp"] = x
         /\ RowFor(x)["level"] = LevelForXp(x)
BY LevelForXpFirstStop DEF RowFor, StatsRow, Columns, Levels

\* A larger total has a larger row, in both columns.
LEMMA RowForMonotone ==
  ASSUME NEW x \in Nat, NEW y \in Nat, x <= y, NEW c \in Columns
  PROVE  RowFor(x)[c] <= RowFor(y)[c]
BY LevelForXpMonotone, RowForType DEF Columns

\* The columns an UPDATE names are columns.
LEMMA ChangedType ==
  ASSUME NEW r, NEW row
  PROVE  Changed(r, row) \subseteq Columns
BY DEF Changed

-----------------------------------------------------------------------------
(* Type correctness *)

LEMMA TypeInit == Init => TypeOK
<1>1. NewStats \in StatsRow
  BY RowForType DEF NewStats
<1>2. QED
  BY <1>1 DEF Init, TypeOK, Phases

\* The pieces several actions share.
LEMMA EndTransactionType ==
  ASSUME TypeOK, NEW r \in Requests, EndTransaction(r)
  PROVE  /\ written' \in [Requests -> SUBSET Columns]
         /\ rows' \in [Requests -> SUBSET Sources]
         /\ pending' \in [Requests -> Nat]
         /\ granting' \in [Requests -> Sources \cup {None}]
         /\ lock' \in Requests \cup {None}
BY DEF TypeOK, EndTransaction

LEMMA ForgetType ==
  ASSUME TypeOK, NEW r \in Requests, Forget(r)
  PROVE  /\ pc' \in [Requests -> Phases]
         /\ cache' \in [Requests -> StatsRow]
         /\ newly' \in [Requests -> SUBSET Badges]
         /\ found' \in [Requests -> Nat]
<1>1. NewStats \in StatsRow
  BY RowForType DEF NewStats
<1>2. QED
  BY <1>1 DEF TypeOK, Forget, Phases

LEMMA PublishType ==
  ASSUME TypeOK, NEW r \in Requests, Publish(r)
  PROVE  /\ ledger' \in [Sources -> Nat]
         /\ xpSum' \in Nat
         /\ stats' \in StatsRow
<1>1. cache[r] \in StatsRow
  BY DEF TypeOK
<1>2. QED
  BY <1>1 DEF TypeOK, Publish, StatsRow

\* Every action keeps every variable in its type.
LEMMA TypeStep == TypeOK /\ [Next]_vars => TypeOK'
<1> SUFFICES ASSUME TypeOK, [Next]_vars
             PROVE  TypeOK'
  OBVIOUS
<1> USE DEF database, local
<1>1. ASSUME NEW r \in Requests, Authenticate(r)
      PROVE  TypeOK'
  BY <1>1 DEF Authenticate, TypeOK, Phases
<1>2. ASSUME NEW r \in Requests, NEW s \in Sources, FindUnpaid(r, s)
      PROVE  TypeOK'
  BY <1>2 DEF FindUnpaid, TypeOK
<1>3. ASSUME NEW r \in Requests, Grant(r)
      PROVE  TypeOK'
  <2> DEFINE amount == Reward[granting[r]]
             row == RowFor(cache[r]["total_xp"] + amount)
  <2>1. granting[r] \in Sources /\ amount \in Nat
    BY <1>3, RewardAssumption DEF Grant, TypeOK
  <2>2. cache[r]["total_xp"] \in Nat
    BY DEF TypeOK, StatsRow, Columns
  <2>3. row \in StatsRow
    BY <2>1, <2>2, RowForType
  <2>4. Changed(r, row) \subseteq Columns
    BY ChangedType
  <2>5. /\ lock' = IF Changed(r, row) # {} THEN r ELSE lock
        /\ written' = [written EXCEPT ![r] = @ \cup Changed(r, row)]
        /\ cache' = [cache EXCEPT ![r] = row]
        /\ pending' = [pending EXCEPT ![r] = @ + amount]
        /\ rows' = [rows EXCEPT ![r] = @ \cup {granting[r]}]
        /\ granting' = [granting EXCEPT ![r] = None]
        /\ UNCHANGED <<ledger, xpSum, awards, stats, pc, newly, found>>
    BY <1>3 DEF Grant
  <2> HIDE DEF row
  <2>6. QED
    BY <2>1, <2>3, <2>4, <2>5 DEF TypeOK
<1>4. ASSUME NEW r \in Requests, CommitCompletion(r)
      PROVE  TypeOK'
  BY <1>4, PublishType, EndTransactionType DEF CommitCompletion, TypeOK, Phases
<1>5. ASSUME NEW r \in Requests, Evaluate(r)
      PROVE  TypeOK'
  <2>1. CASE Forget(r)
    BY <1>5, <2>1, ForgetType DEF Evaluate, TypeOK
  <2>2. CASE newly' = [newly EXCEPT ![r] = Qualified(r)]
             /\ pc' = [pc EXCEPT ![r] = "award"] /\ UNCHANGED <<cache, found>>
    BY <1>5, <2>2 DEF Evaluate, Qualified, TypeOK, Phases
  <2>3. QED
    BY <1>5, <2>1, <2>2 DEF Evaluate
<1>6. ASSUME NEW r \in Requests, InsertAwards(r)
      PROVE  TypeOK'
  BY <1>6 DEF InsertAwards, TypeOK, Phases
<1>7. ASSUME NEW r \in Requests, AwardConflict(r)
      PROVE  TypeOK'
  BY <1>7, EndTransactionType, ForgetType DEF AwardConflict, TypeOK
<1>8. ASSUME NEW r \in Requests, CommitBadges(r)
      PROVE  TypeOK'
  BY <1>8, PublishType, EndTransactionType, ForgetType DEF CommitBadges, TypeOK
<1>9. ASSUME NEW r \in Requests, ReadLedgerSum(r)
      PROVE  TypeOK'
  BY <1>9 DEF ReadLedgerSum, TotalForUser, TypeOK, Phases
<1>10. ASSUME NEW r \in Requests, CommitRepair(r)
       PROVE  TypeOK'
  <2>1. RowFor(found[r]) \in StatsRow
    BY RowForType DEF TypeOK
  <2>2. stats' \in StatsRow
    BY <1>10, <2>1 DEF CommitRepair, TypeOK, StatsRow
  <2>3. QED
    BY <1>10, <2>2, EndTransactionType, ForgetType DEF CommitRepair, TypeOK
<1>11. ASSUME NEW r \in Requests, Abort(r)
       PROVE  TypeOK'
  BY <1>11, EndTransactionType, ForgetType DEF Abort, TypeOK
<1>12. CASE UNCHANGED vars
  BY <1>12 DEF vars, TypeOK
<1>13. QED
  BY <1>1, <1>2, <1>3, <1>4, <1>5, <1>6, <1>7, <1>8, <1>9, <1>10, <1>11, <1>12
     DEF Next, Advance

\* Type correctness of the ledger and of every request in flight.
THEOREM TypeCorrect == Spec => []TypeOK
BY TypeInit, TypeStep, PTL DEF Spec

-----------------------------------------------------------------------------
(* The cache never runs ahead of the ledger *)

\* A row bounded by the row of one total is bounded by that of a larger one.
LEMMA RowBoundGrows ==
  ASSUME NEW x \in Nat, NEW y \in Nat, x <= y,
         NEW row \in StatsRow, NEW c \in Columns, row[c] <= RowFor(x)[c]
  PROVE  row[c] <= RowFor(y)[c]
<1>1. /\ row[c] \in Nat
      /\ RowFor(x)[c] \in Nat
      /\ RowFor(y)[c] \in Nat
  BY RowForType DEF StatsRow
<1>2. RowFor(x)[c] <= RowFor(y)[c]
  BY RowForMonotone
<1>3. QED
  BY <1>1, <1>2

\* The row of an empty ledger is within any other.
LEMMA NewStatsWithin ==
  ASSUME NEW x \in Nat, NEW c \in Columns
  PROVE  NewStats[c] <= RowFor(x)[c]
BY RowForMonotone DEF NewStats

\* The ledger's sum only grows.
LEMMA SumGrows == TypeOK /\ [Next]_vars => xpSum <= xpSum'
<1> SUFFICES ASSUME TypeOK, [Next]_vars
             PROVE  xpSum <= xpSum'
  OBVIOUS
<1>1. ASSUME NEW r \in Requests, Publish(r)
      PROVE  xpSum <= xpSum'
  BY <1>1 DEF Publish, TypeOK
<1>2. \/ xpSum' = xpSum
      \/ \E r \in Requests : Publish(r)
  BY DEF Next, Advance, vars, database, Authenticate, FindUnpaid, Grant,
         CommitCompletion, Evaluate, InsertAwards, AwardConflict, CommitBadges,
         ReadLedgerSum, TotalForUser, CommitRepair, Abort
<1>3. QED
  BY <1>1, <1>2 DEF TypeOK

\* What one request believes, for the requests an action does not touch.
LEMMA OthersStayWithin ==
  ASSUME TypeOK, TypeOK', ViewWithinLedger, xpSum <= xpSum', NEW q \in Requests,
         cache'[q] = cache[q], pending'[q] = pending[q], found'[q] = found[q]
  PROVE  /\ \A c \in Columns : cache'[q][c] <= RowFor(xpSum' + pending'[q])[c]
         /\ found'[q] <= xpSum'
<1>1. /\ xpSum + pending[q] \in Nat
      /\ xpSum' + pending[q] \in Nat
      /\ xpSum + pending[q] <= xpSum' + pending[q]
      /\ cache[q] \in StatsRow
      /\ found[q] <= xpSum'
  BY DEF TypeOK, ViewWithinLedger
<1>2. \A c \in Columns : cache[q][c] <= RowFor(xpSum' + pending[q])[c]
  BY <1>1, RowBoundGrows DEF ViewWithinLedger
<1>3. QED
  BY <1>1, <1>2

\* Committing a request's own columns keeps the stored row within the ledger.
LEMMA PublishWithin ==
  ASSUME TypeOK, CacheWithinLedger, ViewWithinLedger, NEW r \in Requests, Publish(r)
  PROVE  \A c \in Columns : /\ stats'[c] <= RowFor(xpSum')[c]
                            /\ cache[r][c] <= RowFor(xpSum')[c]
<1> SUFFICES ASSUME NEW c \in Columns
             PROVE  /\ stats'[c] <= RowFor(xpSum')[c]
                    /\ cache[r][c] <= RowFor(xpSum')[c]
  OBVIOUS
<1>1. xpSum' = xpSum + pending[r] /\ xpSum \in Nat /\ xpSum' \in Nat /\ xpSum <= xpSum'
  BY DEF Publish, TypeOK
<1>2. cache[r][c] <= RowFor(xpSum')[c]
  BY <1>1 DEF ViewWithinLedger
<1>3. stats[c] <= RowFor(xpSum')[c]
  BY <1>1, RowBoundGrows DEF CacheWithinLedger, LedgerStats, TypeOK
<1>4. stats'[c] \in {cache[r][c], stats[c]}
  BY DEF Publish
<1>5. QED
  BY <1>2, <1>3, <1>4

LEMMA NothingPending == \A x \in Nat : x + 0 = x
OBVIOUS

\* A request that ends believes nothing.
LEMMA ForgottenWithin ==
  ASSUME TypeOK, TypeOK', NEW r \in Requests, Forget(r)
  PROVE  /\ \A c \in Columns : cache'[r][c] <= RowFor(xpSum' + pending'[r])[c]
         /\ found'[r] <= xpSum'
<1>1. xpSum' + pending'[r] \in Nat /\ xpSum' \in Nat
  BY DEF TypeOK
<1>2. cache'[r] = NewStats /\ found'[r] = 0
  BY DEF Forget, TypeOK
<1>3. QED
  BY <1>1, <1>2, NewStatsWithin

\* No step lets the stored row or a request's copy of it exceed the ledger.
LEMMA WithinStep ==
  TypeOK /\ CacheWithinLedger /\ ViewWithinLedger /\ [Next]_vars
    => CacheWithinLedger' /\ ViewWithinLedger'
<1> SUFFICES ASSUME TypeOK, CacheWithinLedger, ViewWithinLedger, [Next]_vars
             PROVE  CacheWithinLedger' /\ ViewWithinLedger'
  OBVIOUS
<1> DEFINE Within(q) ==
             /\ \A c \in Columns : cache'[q][c] <= RowFor(xpSum' + pending'[q])[c]
             /\ found'[q] <= xpSum'
<1>t. TypeOK'
  BY TypeStep
<1>g. xpSum <= xpSum'
  BY SumGrows
<1>s. ASSUME stats' = stats
      PROVE  CacheWithinLedger'
  BY <1>t, <1>g, <1>s, RowBoundGrows DEF CacheWithinLedger, LedgerStats, TypeOK
<1>v. (\A q \in Requests : Within(q)) => ViewWithinLedger'
  BY DEF ViewWithinLedger
<1>o. ASSUME NEW q \in Requests,
             cache'[q] = cache[q], pending'[q] = pending[q], found'[q] = found[q]
      PROVE  Within(q)
  BY <1>t, <1>g, <1>o, OthersStayWithin
<1>f. ASSUME NEW r \in Requests, Forget(r)
      PROVE  Within(r)
  BY <1>t, <1>f, ForgottenWithin
<1> HIDE DEF Within
<1> USE DEF database, local
<1>1. ASSUME NEW r \in Requests, Authenticate(r)
      PROVE  CacheWithinLedger' /\ ViewWithinLedger'
  <2>1. \A q \in Requests \ {r} : Within(q)
    BY <1>1, <1>o DEF Authenticate, TypeOK
  <2>2. Within(r)
    <3>1. /\ cache'[r] = stats /\ xpSum' = xpSum
          /\ found'[r] = found[r] /\ pending'[r] = pending[r]
      BY <1>1 DEF Authenticate, TypeOK
    <3>2. \A c \in Columns : stats[c] <= RowFor(xpSum + pending[r])[c]
      BY RowBoundGrows DEF CacheWithinLedger, LedgerStats, TypeOK
    <3>3. QED
      BY <3>1, <3>2 DEF Within, ViewWithinLedger
  <2>3. QED
    BY <1>1, <1>s, <1>v, <2>1, <2>2 DEF Authenticate
<1>2. ASSUME NEW r \in Requests, NEW s \in Sources, FindUnpaid(r, s)
      PROVE  CacheWithinLedger' /\ ViewWithinLedger'
  BY <1>2, <1>s, <1>v, <1>o DEF FindUnpaid
<1>3. ASSUME NEW r \in Requests, Grant(r)
      PROVE  CacheWithinLedger' /\ ViewWithinLedger'
  <2> DEFINE amount == Reward[granting[r]]
             old    == cache[r]["total_xp"]
  <2>1. /\ cache' = [cache EXCEPT ![r] = RowFor(old + amount)]
        /\ pending' = [pending EXCEPT ![r] = @ + amount]
        /\ UNCHANGED <<stats, xpSum, found>>
        /\ amount \in Nat
    BY <1>3, RewardAssumption DEF Grant, TypeOK
  <2>2. \A q \in Requests \ {r} : Within(q)
    BY <2>1, <1>o DEF TypeOK
  <2>3. old \in Nat /\ old <= xpSum + pending[r]
    <3>1. xpSum + pending[r] \in Nat /\ cache[r] \in [Columns -> Nat]
      BY DEF TypeOK, StatsRow
    <3>2. RowFor(xpSum + pending[r])["total_xp"] = xpSum + pending[r]
      BY <3>1, RowForType
    <3>3. "total_xp" \in Columns
      BY DEF Columns
    <3>4. QED
      BY <3>1, <3>2, <3>3 DEF ViewWithinLedger
  <2>4. /\ pending'[r] = pending[r] + amount
        /\ cache'[r] = RowFor(old + amount)
        /\ old + amount \in Nat
        /\ xpSum' + pending'[r] \in Nat
        /\ old + amount <= xpSum' + pending'[r]
    BY <2>1, <2>3 DEF TypeOK
  <2>5. Within(r)
    BY <2>1, <2>4, RowForMonotone DEF Within, ViewWithinLedger
  <2>6. QED
    BY <2>1, <2>2, <2>5, <1>s, <1>v
<1>4. ASSUME NEW r \in Requests, CommitCompletion(r)
      PROVE  CacheWithinLedger' /\ ViewWithinLedger'
  <2>1. Publish(r) /\ EndTransaction(r) /\ UNCHANGED <<cache, found>>
    BY <1>4 DEF CommitCompletion
  <2>2. \A q \in Requests \ {r} : Within(q)
    BY <2>1, <1>o DEF EndTransaction, TypeOK
  <2>3. pending'[r] = 0 /\ xpSum' \in Nat
    BY <2>1, <1>t DEF EndTransaction, TypeOK
  <2>4. Within(r)
    <3>1. found'[r] <= xpSum'
      BY <2>1, <2>3, <1>g DEF ViewWithinLedger, TypeOK
    <3>2. \A c \in Columns : cache'[r][c] <= RowFor(xpSum')[c]
      BY <2>1, PublishWithin
    <3>3. xpSum' + 0 = xpSum'
      BY <2>3, NothingPending
    <3>4. QED
      BY <2>3, <3>1, <3>2, <3>3 DEF Within
  <2>5. CacheWithinLedger'
    BY <2>1, PublishWithin DEF CacheWithinLedger, LedgerStats
  <2>6. QED
    BY <2>2, <2>4, <2>5, <1>v
<1>5. ASSUME NEW r \in Requests, Evaluate(r)
      PROVE  CacheWithinLedger' /\ ViewWithinLedger'
  <2>1. UNCHANGED <<stats, xpSum, pending>>
    BY <1>5 DEF Evaluate
  <2>2. \A q \in Requests \ {r} : Within(q)
    BY <1>5, <2>1, <1>o DEF Evaluate, Forget, TypeOK
  <2>3. Within(r)
    BY <1>5, <2>1, <1>f, <1>o DEF Evaluate
  <2>4. QED
    BY <2>1, <2>2, <2>3, <1>s, <1>v
<1>6. ASSUME NEW r \in Requests, InsertAwards(r)
      PROVE  CacheWithinLedger' /\ ViewWithinLedger'
  BY <1>6, <1>s, <1>v, <1>o DEF InsertAwards
<1>7. ASSUME NEW r \in Requests, AwardConflict(r) \/ Abort(r)
      PROVE  CacheWithinLedger' /\ ViewWithinLedger'
  <2>1. EndTransaction(r) /\ Forget(r) /\ UNCHANGED database
    BY <1>7 DEF AwardConflict, Abort
  <2>2. \A q \in Requests \ {r} : Within(q)
    BY <2>1, <1>o DEF EndTransaction, Forget, TypeOK
  <2>3. QED
    BY <2>1, <2>2, <1>f, <1>s, <1>v
<1>8. ASSUME NEW r \in Requests, CommitBadges(r)
      PROVE  CacheWithinLedger' /\ ViewWithinLedger'
  <2>1. Publish(r) /\ EndTransaction(r) /\ Forget(r)
    BY <1>8 DEF CommitBadges
  <2>2. \A q \in Requests \ {r} : Within(q)
    BY <2>1, <1>o DEF EndTransaction, Forget, TypeOK
  <2>3. CacheWithinLedger'
    BY <2>1, PublishWithin DEF CacheWithinLedger, LedgerStats
  <2>4. QED
    BY <2>1, <2>2, <2>3, <1>f, <1>v
<1>9. ASSUME NEW r \in Requests, ReadLedgerSum(r)
      PROVE  CacheWithinLedger' /\ ViewWithinLedger'
  <2>1. \A q \in Requests \ {r} : Within(q)
    BY <1>9, <1>o DEF ReadLedgerSum, TotalForUser, TypeOK
  <2>2. Within(r)
    BY <1>9 DEF ReadLedgerSum, TotalForUser, Within, ViewWithinLedger, TypeOK
  <2>3. QED
    BY <1>9, <2>1, <2>2, <1>s, <1>v DEF ReadLedgerSum, TotalForUser
<1>10. ASSUME NEW r \in Requests, CommitRepair(r)
       PROVE  CacheWithinLedger' /\ ViewWithinLedger'
  <2>1. EndTransaction(r) /\ Forget(r) /\ xpSum' = xpSum
    BY <1>10 DEF CommitRepair
  <2>2. \A q \in Requests \ {r} : Within(q)
    BY <2>1, <1>o DEF EndTransaction, Forget, TypeOK
  <2>3. \A c \in Columns : stats'[c] \in {RowFor(found[r])[c], stats[c]}
    BY <1>10 DEF CommitRepair
  <2>4. \A c \in Columns : RowFor(found[r])[c] <= RowFor(xpSum)[c]
    BY RowForMonotone DEF ViewWithinLedger, TypeOK
  <2>5. CacheWithinLedger'
    BY <2>1, <2>3, <2>4 DEF CacheWithinLedger, LedgerStats
  <2>6. QED
    BY <2>1, <2>2, <2>5, <1>f, <1>v
<1>11. CASE UNCHANGED vars
  BY <1>11, <1>s, <1>v, <1>o DEF vars
<1>12. QED
  BY <1>1, <1>2, <1>3, <1>4, <1>5, <1>6, <1>7, <1>8, <1>9, <1>10, <1>11
     DEF Next, Advance

LEMMA WithinInit == Init => CacheWithinLedger /\ ViewWithinLedger
BY NewStatsWithin, RowForType
   DEF Init, CacheWithinLedger, ViewWithinLedger, LedgerStats, NewStats

\* Lost updates can leave user_stats behind the ledger; nothing the requests
\* interleave can ever leave it ahead (progress_service.py, grant_xp and
\* recalculate_stats).
THEOREM CacheNeverAhead == Spec => []CacheWithinLedger
<1>1. Spec => [](TypeOK /\ CacheWithinLedger /\ ViewWithinLedger)
  BY TypeInit, TypeStep, WithinInit, WithinStep, PTL DEF Spec
<1>2. QED
  BY <1>1, PTL

-----------------------------------------------------------------------------
(* Badges *)

\* Which rows and grants a request can have in each phase is kept by every step.
LEMMA PhaseStep == TypeOK /\ RowsFollowPhase /\ [Next]_vars => RowsFollowPhase'
<1> SUFFICES ASSUME TypeOK, RowsFollowPhase, [Next]_vars
             PROVE  RowsFollowPhase'
  OBVIOUS
<1> DEFINE Follows(q) ==
             /\ pc'[q] \notin {"main", "badges"} =>
                  rows'[q] = {} /\ pending'[q] = 0 /\ granting'[q] = None
             /\ pc'[q] = "main" =>
                  rows'[q] \cup {granting'[q]} \subseteq Activities \cup {None}
             /\ pc'[q] = "badges" =>
                  rows'[q] \cup {granting'[q]} \subseteq newly'[q] \cup {None}
             /\ pc'[q] \notin {"award", "badges"} => newly'[q] = {}
             /\ rows'[q] = {} => pending'[q] = 0
<1>v. (\A q \in Requests : Follows(q)) => RowsFollowPhase'
  BY DEF RowsFollowPhase
<1>o. ASSUME NEW q \in Requests, pc'[q] = pc[q], rows'[q] = rows[q],
             pending'[q] = pending[q], granting'[q] = granting[q], newly'[q] = newly[q]
      PROVE  Follows(q)
  BY <1>o DEF RowsFollowPhase
<1> HIDE DEF Follows
<1> USE DEF database, local
<1>e. ASSUME NEW r \in Requests, EndTransaction(r), Forget(r)
      PROVE  RowsFollowPhase'
  <2>1. \A q \in Requests \ {r} : Follows(q)
    BY <1>e, <1>o DEF EndTransaction, Forget, TypeOK
  <2>2. Follows(r)
    BY <1>e DEF EndTransaction, Forget, TypeOK, Follows
  <2>3. QED
    BY <2>1, <2>2, <1>v
<1>1. ASSUME NEW r \in Requests, Authenticate(r)
      PROVE  RowsFollowPhase'
  <2>1. \A q \in Requests \ {r} : Follows(q)
    BY <1>1, <1>o DEF Authenticate, TypeOK
  <2>2. Follows(r)
    BY <1>1 DEF Authenticate, TypeOK, Follows, RowsFollowPhase
  <2>3. QED
    BY <2>1, <2>2, <1>v
<1>2. ASSUME NEW r \in Requests, NEW s \in Sources, FindUnpaid(r, s)
      PROVE  RowsFollowPhase'
  <2>1. \A q \in Requests \ {r} : Follows(q)
    BY <1>2, <1>o DEF FindUnpaid, TypeOK
  <2>2. Follows(r)
    BY <1>2 DEF FindUnpaid, MayGrant, TypeOK, Follows, RowsFollowPhase
  <2>3. QED
    BY <2>1, <2>2, <1>v
<1>3. ASSUME NEW r \in Requests, Grant(r)
      PROVE  RowsFollowPhase'
  <2>1. /\ granting[r] # None
        /\ rows' = [rows EXCEPT ![r] = @ \cup {granting[r]}]
        /\ granting' = [granting EXCEPT ![r] = None]
        /\ pending' = [pending EXCEPT ![r] = @ + Reward[granting[r]]]
        /\ UNCHANGED <<pc, newly>>
    BY <1>3 DEF Grant
  <2>2. \A q \in Requests \ {r} : Follows(q)
    BY <2>1, <1>o DEF TypeOK
  <2>3. Follows(r)
    BY <2>1 DEF TypeOK, Follows, RowsFollowPhase
  <2>4. QED
    BY <2>2, <2>3, <1>v
<1>4. ASSUME NEW r \in Requests, CommitCompletion(r)
      PROVE  RowsFollowPhase'
  <2>1. \A q \in Requests \ {r} : Follows(q)
    BY <1>4, <1>o DEF CommitCompletion, EndTransaction, TypeOK
  <2>2. Follows(r)
    BY <1>4 DEF CommitCompletion, EndTransaction, TypeOK, Follows, RowsFollowPhase
  <2>3. QED
    BY <2>1, <2>2, <1>v
<1>5. ASSUME NEW r \in Requests, Evaluate(r)
      PROVE  RowsFollowPhase'
  <2>1. \A q \in Requests \ {r} : Follows(q)
    BY <1>5, <1>o DEF Evaluate, Forget, TypeOK
  <2>2. Follows(r)
    BY <1>5 DEF Evaluate, Forget, TypeOK, Follows, RowsFollowPhase
  <2>3. QED
    BY <2>1, <2>2, <1>v
<1>6. ASSUME NEW r \in Requests, InsertAwards(r)
      PROVE  RowsFollowPhase'
  <2>1. \A q \in Requests \ {r} : Follows(q)
    BY <1>6, <1>o DEF InsertAwards, TypeOK
  <2>2. Follows(r)
    BY <1>6 DEF InsertAwards, TypeOK, Follows, RowsFollowPhase
  <2>3. QED
    BY <2>1, <2>2, <1>v
<1>7. ASSUME NEW r \in Requests,
             AwardConflict(r) \/ CommitBadges(r) \/ CommitRepair(r) \/ Abort(r)
      PROVE  RowsFollowPhase'
  BY <1>7, <1>e DEF AwardConflict, CommitBadges, CommitRepair, Abort
<1>8. ASSUME NEW r \in Requests, ReadLedgerSum(r)
      PROVE  RowsFollowPhase'
  <2>1. \A q \in Requests \ {r} : Follows(q)
    BY <1>8, <1>o DEF ReadLedgerSum, TotalForUser, TypeOK
  <2>2. Follows(r)
    <3>1. pc'[r] = "repair" /\ UNCHANGED <<rows, pending, granting, newly>>
      BY <1>8 DEF ReadLedgerSum, TotalForUser, TypeOK
    <3>2. rows[r] = {} /\ granting[r] = None /\ newly[r] = {}
      BY <1>8 DEF ReadLedgerSum, TotalForUser, RowsFollowPhase
    <3>3. pending[r] = 0
      BY <1>8 DEF ReadLedgerSum, TotalForUser, RowsFollowPhase
    <3>4. QED
      BY <3>1, <3>2, <3>3 DEF Follows
  <2>3. QED
    BY <2>1, <2>2, <1>v
<1>9. CASE UNCHANGED vars
  BY <1>9, <1>v, <1>o DEF vars
<1>10. QED
  BY <1>1, <1>2, <1>3, <1>4, <1>5, <1>6, <1>7, <1>8, <1>9 DEF Next, Advance

\* The columns of the ledger's row only grow with the ledger.
LEMMA LedgerStatsGrow ==
  ASSUME TypeOK, TypeOK', xpSum <= xpSum', NEW c \in Columns, NEW v \in Nat,
         LedgerStats[c] >= v
  PROVE  LedgerStats'[c] >= v
<1>1. RowFor(xpSum)[c] <= RowFor(xpSum')[c]
  BY RowForMonotone DEF TypeOK
<1>2. RowFor(xpSum)[c] \in Nat /\ RowFor(xpSum')[c] \in Nat
  BY RowForType DEF TypeOK, StatsRow
<1>3. QED
  BY <1>1, <1>2 DEF LedgerStats

\* A badge evaluate picks is deserved by the ledger, because the in-memory row
\* it was compared with is within the ledger.
LEMMA QualifiedDeserved ==
  ASSUME TypeOK, ViewWithinLedger, NEW r \in Requests, pending[r] = 0,
         NEW b \in Qualified(r)
  PROVE  LedgerStats[Criterion[b].metric] >= Criterion[b].value
<1> DEFINE m == Criterion[b].metric
           v == Criterion[b].value
<1>1. b \in Badges /\ cache[r][m] >= v
  BY DEF Qualified
<1>2. m \in Columns /\ v \in Nat
  BY <1>1, CriterionAssumption DEF Columns
<1> HIDE DEF m, v
<1>3. xpSum + pending[r] = xpSum /\ xpSum \in Nat
  BY NothingPending DEF TypeOK
<1>4. cache[r][m] <= RowFor(xpSum)[m]
  BY <1>2, <1>3 DEF ViewWithinLedger
<1>5. cache[r][m] \in Nat /\ RowFor(xpSum)[m] \in Nat
  BY <1>2, <1>3, RowForType DEF TypeOK, StatsRow
<1>6. RowFor(xpSum)[m] >= v
  BY <1>1, <1>2, <1>4, <1>5
<1>7. QED
  BY <1>6 DEF LedgerStats, m, v

\* A deserved badge stays deserved.
LEMMA DeservedStays ==
  ASSUME TypeOK, [Next]_vars, NEW b \in Badges,
         LedgerStats[Criterion[b].metric] >= Criterion[b].value
  PROVE  LedgerStats'[Criterion[b].metric] >= Criterion[b].value
<1>1. Criterion[b].metric \in Columns /\ Criterion[b].value \in Nat
  BY CriterionAssumption DEF Columns
<1>2. TypeOK' /\ xpSum <= xpSum'
  BY TypeStep, SumGrows
<1>3. QED
  BY <1>1, <1>2, LedgerStatsGrow

\* Badges on their way stay deserved and are awarded by one request only.
LEMMA AwardsStep ==
  TypeOK /\ ViewWithinLedger /\ RowsFollowPhase /\ AwardsInProgress /\ [Next]_vars
    => AwardsInProgress'
<1> SUFFICES ASSUME TypeOK, ViewWithinLedger, RowsFollowPhase, AwardsInProgress,
                    [Next]_vars
             PROVE  AwardsInProgress'
  OBVIOUS
<1> DEFINE Deserves(b) == LedgerStats[Criterion[b].metric] >= Criterion[b].value
           NewDeserves(b) == LedgerStats'[Criterion[b].metric] >= Criterion[b].value
<1>d. \A q \in Requests : \A b \in newly[q] : NewDeserves(b)
  BY DeservedStays DEF AwardsInProgress, TypeOK
<1>k. ASSUME \A q \in Requests : newly'[q] = newly[q] \/ newly'[q] = {},
             \A q \in Requests : pc'[q] = "badges" =>
               pc[q] = "badges" /\ newly'[q] \cap awards' = {}
      PROVE  AwardsInProgress'
  <2>1. \A q \in Requests : \A b \in newly'[q] : NewDeserves(b)
    BY <1>d, <1>k
  <2>2. \A r \in Requests : pc'[r] = "badges" =>
          \A q \in Requests \ {r} : pc'[q] = "badges" => newly'[q] \cap newly'[r] = {}
    BY <1>k DEF AwardsInProgress
  <2>3. QED
    BY <1>k, <2>1, <2>2 DEF AwardsInProgress
<1> USE DEF database, local
<1>1. ASSUME NEW r \in Requests, Authenticate(r)
      PROVE  AwardsInProgress'
  BY <1>1, <1>k DEF Authenticate, AwardsInProgress, TypeOK
<1>2. ASSUME NEW r \in Requests, NEW s \in Sources, FindUnpaid(r, s)
      PROVE  AwardsInProgress'
  BY <1>2, <1>k DEF FindUnpaid, AwardsInProgress
<1>3. ASSUME NEW r \in Requests, Grant(r)
      PROVE  AwardsInProgress'
  BY <1>3, <1>k DEF Grant, AwardsInProgress
<1>4. ASSUME NEW r \in Requests, CommitCompletion(r)
      PROVE  AwardsInProgress'
  BY <1>4, <1>k DEF CommitCompletion, AwardsInProgress, TypeOK
<1>5. ASSUME NEW r \in Requests, Evaluate(r)
      PROVE  AwardsInProgress'
  <2>1. CASE Forget(r)
    BY <1>5, <2>1, <1>k DEF Evaluate, Forget, AwardsInProgress, TypeOK
  <2>2. CASE newly' = [newly EXCEPT ![r] = Qualified(r)]
             /\ pc' = [pc EXCEPT ![r] = "award"]
    <3>1. pending[r] = 0
      BY <1>5 DEF Evaluate, RowsFollowPhase
    <3>2. \A b \in Qualified(r) : Deserves(b) /\ b \in Badges
      BY <3>1, QualifiedDeserved DEF Qualified
    <3>3. \A b \in Qualified(r) : NewDeserves(b)
      BY <3>2, DeservedStays
    <3>4. \A q \in Requests : \A b \in newly'[q] : NewDeserves(b)
      BY <1>d, <2>2, <3>3 DEF TypeOK
    <3>5. \A q \in Requests : pc'[q] = "badges" =>
            q # r /\ pc[q] = "badges" /\ newly'[q] = newly[q]
      BY <2>2 DEF TypeOK
    <3>6. awards' = awards
      BY <1>5 DEF Evaluate
    <3>7. QED
      BY <3>4, <3>5, <3>6 DEF AwardsInProgress
  <2>3. QED
    BY <1>5, <2>1, <2>2 DEF Evaluate
<1>6. ASSUME NEW r \in Requests, InsertAwards(r)
      PROVE  AwardsInProgress'
  <2>1. /\ newly' = newly /\ awards' = awards
        /\ \A q \in Requests : pc'[q] = "badges" => q = r \/ pc[q] = "badges"
        /\ newly[r] \cap awards = {}
        /\ \A q \in Requests \ {r} : pc[q] = "badges" => newly[q] \cap newly[r] = {}
    BY <1>6 DEF InsertAwards, TypeOK
  <2>2. QED
    BY <1>d, <2>1 DEF AwardsInProgress
<1>7. ASSUME NEW r \in Requests, AwardConflict(r) \/ Abort(r)
      PROVE  AwardsInProgress'
  BY <1>7, <1>k DEF AwardConflict, Abort, Forget, AwardsInProgress, TypeOK
<1>8. ASSUME NEW r \in Requests, CommitBadges(r)
      PROVE  AwardsInProgress'
  <2>1. /\ awards' = awards \cup newly[r] /\ pc[r] = "badges"
        /\ pc' = [pc EXCEPT ![r] = "idle"]
        /\ newly' = [newly EXCEPT ![r] = {}]
    BY <1>8 DEF CommitBadges, Forget
  <2>2. \A q \in Requests : pc'[q] = "badges" =>
          pc[q] = "badges" /\ newly'[q] \cap awards' = {}
    BY <2>1 DEF AwardsInProgress, TypeOK
  <2>3. QED
    BY <2>1, <2>2, <1>k DEF TypeOK
<1>9. ASSUME NEW r \in Requests, ReadLedgerSum(r)
      PROVE  AwardsInProgress'
  BY <1>9, <1>k DEF ReadLedgerSum, TotalForUser, AwardsInProgress, TypeOK
<1>10. ASSUME NEW r \in Requests, CommitRepair(r)
       PROVE  AwardsInProgress'
  BY <1>10, <1>k DEF CommitRepair, Forget, AwardsInProgress, TypeOK
<1>11. CASE UNCHANGED vars
  BY <1>11, <1>k DEF vars, AwardsInProgress
<1>12. QED
  BY <1>1, <1>2, <1>3, <1>4, <1>5, <1>6, <1>7, <1>8, <1>9, <1>10, <1>11
     DEF Next, Advance

\* Awards and their payments change together, in CommitBadges only.
LEMMA BadgeStep == LedgerInv /\ [Next]_vars => BadgePaidOnce' /\ BadgeDeserved'
<1> SUFFICES ASSUME LedgerInv, [Next]_vars
             PROVE  BadgePaidOnce' /\ BadgeDeserved'
  OBVIOUS
<1> USE DEF LedgerInv
<1>d. \A b \in Badges : LedgerStats[Criterion[b].metric] >= Criterion[b].value
        => LedgerStats'[Criterion[b].metric] >= Criterion[b].value
  BY DeservedStays
<1>1. CASE UNCHANGED <<ledger, awards>>
  BY <1>1, <1>d DEF BadgePaidOnce, BadgeDeserved, TypeOK
<1>2. ASSUME NEW r \in Requests, CommitCompletion(r)
      PROVE  BadgePaidOnce' /\ BadgeDeserved'
  <2>1. rows[r] \subseteq Activities \cup {None}
    BY <1>2 DEF CommitCompletion, RowsFollowPhase
  <2>2. \A b \in Badges : ledger'[b] = ledger[b]
    BY <1>2, <2>1, SourcesAssumption, NoneAssumption
       DEF CommitCompletion, Publish, Sources
  <2>3. awards' = awards
    BY <1>2 DEF CommitCompletion
  <2>4. QED
    BY <2>2, <2>3, <1>d DEF BadgePaidOnce, BadgeDeserved, TypeOK
<1>3. ASSUME NEW r \in Requests, CommitBadges(r)
      PROVE  BadgePaidOnce' /\ BadgeDeserved'
  <2>1. /\ awards' = awards \cup newly[r]
        /\ newly[r] \cap awards = {}
        /\ rows[r] \subseteq newly[r] \cup {None}
        /\ \A b \in newly[r] : Reward[b] > 0 => b \in rows[r] \/ ledger[b] > 0
        /\ newly[r] \subseteq Badges
    BY <1>3 DEF CommitBadges, RowsFollowPhase, AwardsInProgress, TypeOK
  <2>2. \A b \in Badges : /\ ledger[b] \in Nat
                         /\ ledger'[b] = IF b \in rows[r] THEN ledger[b] + 1
                                                          ELSE ledger[b]
    BY <1>3 DEF CommitBadges, Publish, TypeOK, Sources
  <2>3. \A b \in newly[r] : ledger[b] = 0
    BY <2>1, <2>2 DEF BadgePaidOnce
  <2>4. \A b \in Badges : b \in rows[r] => b \in newly[r]
    BY <2>1, NoneAssumption DEF Sources
  <2>5. BadgePaidOnce'
    <3> SUFFICES ASSUME NEW b \in Badges
                 PROVE  /\ ledger'[b] <= 1
                        /\ ledger'[b] = 1 => b \in awards'
                        /\ b \in awards' /\ Reward[b] > 0 => ledger'[b] = 1
      BY DEF BadgePaidOnce
    <3>1. CASE b \in newly[r]
      BY <3>1, <2>1, <2>2, <2>3
    <3>2. CASE b \notin newly[r]
      BY <3>2, <2>1, <2>2, <2>4 DEF BadgePaidOnce
    <3>3. QED
      BY <3>1, <3>2
  <2>6. BadgeDeserved'
    BY <2>1, <1>d DEF BadgeDeserved, AwardsInProgress, TypeOK
  <2>7. QED
    BY <2>5, <2>6
<1>4. QED
  <2>1. \/ UNCHANGED <<ledger, awards>>
        \/ \E r \in Requests : CommitCompletion(r) \/ CommitBadges(r)
    BY DEF Next, Advance, vars, database, Authenticate, FindUnpaid, Grant,
           Evaluate, InsertAwards, AwardConflict, ReadLedgerSum, TotalForUser,
           CommitRepair, Abort
  <2>2. QED
    BY <1>1, <1>2, <1>3, <2>1

\* The inductive invariant of the ledger, under any interleaving.
THEOREM LedgerInvariant == Spec => []LedgerInv
<1>1. Init => LedgerInv
  <2>1. Init => RowsFollowPhase /\ AwardsInProgress /\ BadgePaidOnce /\ BadgeDeserved
    BY SourcesAssumption DEF Init, RowsFollowPhase, AwardsInProgress, BadgePaidOnce,
       BadgeDeserved, Sources
  <2>2. QED
    BY <2>1, TypeInit, WithinInit DEF LedgerInv
<1>2. LedgerInv /\ [Next]_vars => LedgerInv'
  BY TypeStep, WithinStep, PhaseStep, AwardsStep, BadgeStep DEF LedgerInv
<1>3. QED
  BY <1>1, <1>2, PTL DEF Spec

\* A badge is paid once, together with its award, although nothing in the
\* ledger itself is unique (achievement_service.py, evaluate).
THEOREM BadgesPaidOnce == Spec => []BadgePaidOnce
<1>1. LedgerInv => BadgePaidOnce
  BY DEF LedgerInv
<1>2. QED
  BY <1>1, LedgerInvariant, PTL

\* Badges are awarded only for XP the ledger holds, however stale the stats a
\* request decides on.
THEOREM BadgesDeserved == Spec => []BadgeDeserved
<1>1. LedgerInv => BadgeDeserved
  BY DEF LedgerInv
<1>2. QED
  BY <1>1, LedgerInvariant, PTL

\* What a badge on a profile says is true, whatever interleaves or fails.
THEOREM BadgesAreHonest == Spec => []BadgesHonest
BY BadgesPaidOnce, BadgesDeserved, PTL DEF BadgesHonest

-----------------------------------------------------------------------------
(* One request at a time *)

\* Two rows that agree in every column are the same row.
LEMMA RowsEqual ==
  ASSUME NEW row \in StatsRow, NEW other \in StatsRow,
         \A c \in Columns : row[c] = other[c]
  PROVE  row = other
BY DEF StatsRow

\* When the only request in flight commits, the stored row becomes its copy,
\* which is the row of the ledger with its rows; no source is paid again.
LEMMA SerialPublish ==
  ASSUME LedgerInv, SerialInv, NEW r \in Requests, pc[r] # "idle", Publish(r)
  PROVE  /\ stats' = cache[r]
         /\ cache[r] = RowFor(xpSum')
         /\ OncePerSource'
<1> USE DEF LedgerInv
<1>1. \A c \in Columns : stats'[c] = cache[r][c]
  BY DEF Publish, SerialInv
<1>2. stats' \in StatsRow /\ cache[r] \in StatsRow
  BY PublishType DEF TypeOK
<1>3. stats' = cache[r]
  BY <1>1, <1>2, RowsEqual
<1>4. cache[r] = RowFor(xpSum')
  BY DEF Publish, SerialInv
<1>5. \A s \in Sources : s \in rows[r] => s # None /\ ledger[s] = 0
  BY NoneAssumption DEF SerialInv
<1>6. OncePerSource'
  BY <1>5 DEF OncePerSource, SerialInv, Publish, TypeOK
<1>7. QED
  BY <1>3, <1>4, <1>6

\* A learner who waits for each answer never meets the lost update or the
\* double payment.
LEMMA SerialStep ==
  ASSUME ~Overlapping, LedgerInv, SerialInv, [Next]_vars
  PROVE  SerialInv'
<1> USE DEF LedgerInv
<1> DEFINE Knows(q) ==
             pc'[q] # "idle" =>
               /\ cache'[q] = RowFor(xpSum' + pending'[q])
               /\ \A c \in Columns \ written'[q] : cache'[q][c] = stats'[c]
               /\ pc'[q] = "repair" => found'[q] = xpSum'
               /\ \A s \in rows'[q] \cup {granting'[q]} : s # None => ledger'[s] = 0
           Alone(r) == \A q \in Requests : pc'[q] # "idle" => q = r
<1>a. ASSUME NEW r \in Requests, pc[r] # "idle",
             \A q \in Requests \ {r} : pc'[q] = pc[q]
      PROVE  Alone(r)
  BY <1>a DEF SerialInv
<1>v. ASSUME NEW r \in Requests, Alone(r), Knows(r), OncePerSource', CacheIsLedgerSum'
      PROVE  SerialInv'
  BY <1>v DEF SerialInv
<1>u. ASSUME UNCHANGED <<ledger, xpSum, stats>>
      PROVE  OncePerSource' /\ CacheIsLedgerSum'
  BY <1>u DEF SerialInv, OncePerSource, CacheIsLedgerSum, LedgerStats
<1> HIDE DEF Knows, Alone
<1> USE DEF database, local
<1>1. ASSUME NEW r \in Requests, Authenticate(r)
      PROVE  SerialInv'
  <2>1. Alone(r)
    BY <1>1 DEF Authenticate, TypeOK, Alone
  <2>2. /\ cache'[r] = stats /\ pc'[r] = "main" /\ pending'[r] = 0
        /\ rows'[r] = {} /\ granting'[r] = None
        /\ UNCHANGED <<stats, xpSum, ledger>>
    BY <1>1 DEF Authenticate, TypeOK, RowsFollowPhase
  <2>3. xpSum' + 0 = xpSum
    BY <2>2, NothingPending DEF TypeOK
  <2>4. stats = RowFor(xpSum)
    BY DEF SerialInv, CacheIsLedgerSum, LedgerStats
  <2>5. Knows(r)
    BY <2>2, <2>3, <2>4 DEF Knows
  <2>6. QED
    BY <2>1, <2>2, <2>5, <1>u, <1>v
<1>2. ASSUME NEW r \in Requests, NEW s \in Sources, FindUnpaid(r, s)
      PROVE  SerialInv'
  <2>1. pc[r] # "idle" /\ Alone(r)
    BY <1>2, <1>a DEF FindUnpaid, MayGrant
  <2>2. /\ granting'[r] = s /\ ledger[s] = 0
        /\ UNCHANGED <<pc, cache, written, rows, pending, found, ledger, xpSum, stats>>
    BY <1>2 DEF FindUnpaid, TypeOK
  <2>3. Knows(r)
    BY <2>1, <2>2 DEF Knows, SerialInv
  <2>4. QED
    BY <2>1, <2>2, <2>3, <1>u, <1>v
<1>3. ASSUME NEW r \in Requests, Grant(r)
      PROVE  SerialInv'
  <2> DEFINE amount == Reward[granting[r]]
             row    == RowFor(cache[r]["total_xp"] + amount)
  <2>1. /\ granting[r] # None
        /\ written' = [written EXCEPT ![r] = @ \cup Changed(r, row)]
        /\ cache' = [cache EXCEPT ![r] = row]
        /\ pending' = [pending EXCEPT ![r] = @ + amount]
        /\ rows' = [rows EXCEPT ![r] = @ \cup {granting[r]}]
        /\ granting' = [granting EXCEPT ![r] = None]
        /\ UNCHANGED <<pc, ledger, xpSum, stats, found>>
    BY <1>3 DEF Grant
  <2>2. granting[r] \in Sources /\ amount \in Nat
    BY <2>1, RewardAssumption DEF TypeOK
  <2>3. pc[r] \in {"main", "badges"}
    BY <2>1 DEF RowsFollowPhase
  <2>4. Alone(r)
    BY <2>1, <2>3, <1>a
  <2>5. cache[r]["total_xp"] + amount = xpSum' + pending'[r]
    <3>1. cache[r]["total_xp"] = xpSum + pending[r]
      BY <2>3, RowForType DEF SerialInv, TypeOK
    <3>2. QED
      BY <3>1, <2>1, <2>2 DEF TypeOK
  <2>6. \A c \in Columns \ written'[r] : row[c] = stats[c]
    <3>1. \A c \in Columns \ written'[r] : c \notin written[r] /\ row[c] = cache[r][c]
      BY <2>1 DEF Changed, TypeOK
    <3>2. \A c \in Columns \ written[r] : cache[r][c] = stats[c]
      BY <2>3 DEF SerialInv
    <3>3. QED
      BY <3>1, <3>2
  <2>7. \A s \in rows'[r] \cup {granting'[r]} : s # None => ledger'[s] = 0
    BY <2>1, <2>3 DEF SerialInv, TypeOK
  <2>8. Knows(r)
    <3>1. cache'[r] = row
      BY <2>1 DEF TypeOK
    <3>2. row = RowFor(xpSum' + pending'[r])
      BY <2>5
    <3>3. pc'[r] # "repair"
      BY <2>1, <2>3
    <3> HIDE DEF row
    <3>4. QED
      BY <2>1, <2>6, <2>7, <3>1, <3>2, <3>3 DEF Knows
  <2>9. QED
    BY <2>1, <2>4, <2>8, <1>u, <1>v
<1>4. ASSUME NEW r \in Requests, CommitCompletion(r)
      PROVE  SerialInv'
  <2>1. /\ Publish(r) /\ pc[r] # "idle" /\ pc'[r] = "evaluate"
        /\ pending'[r] = 0 /\ rows'[r] = {} /\ granting'[r] = None
        /\ cache' = cache
    BY <1>4 DEF CommitCompletion, EndTransaction, TypeOK
  <2>2. Alone(r)
    BY <1>4, <2>1, <1>a DEF CommitCompletion, TypeOK
  <2>3. stats' = cache[r] /\ cache[r] = RowFor(xpSum') /\ OncePerSource'
    BY <2>1, SerialPublish
  <2>4. xpSum' + 0 = xpSum'
    BY TypeStep, NothingPending DEF TypeOK
  <2>5. Knows(r)
    BY <2>1, <2>3, <2>4 DEF Knows
  <2>6. QED
    BY <2>2, <2>3, <2>5, <1>v DEF CacheIsLedgerSum, LedgerStats
<1>5. ASSUME NEW r \in Requests, Evaluate(r)
      PROVE  SerialInv'
  <2>1. pc[r] = "evaluate" /\ Alone(r)
    BY <1>5, <1>a DEF Evaluate, Forget, TypeOK
  <2>2. /\ UNCHANGED <<ledger, xpSum, stats, written, rows, pending, granting>>
        /\ pc'[r] = "idle" \/ (pc'[r] = "award" /\ cache'[r] = cache[r])
    BY <1>5 DEF Evaluate, Forget, TypeOK
  <2>3. Knows(r)
    BY <2>1, <2>2 DEF Knows, SerialInv
  <2>4. QED
    BY <2>1, <2>2, <2>3, <1>u, <1>v
<1>6. ASSUME NEW r \in Requests, InsertAwards(r)
      PROVE  SerialInv'
  <2>1. /\ pc[r] = "award" /\ pc'[r] = "badges" /\ Alone(r)
        /\ UNCHANGED <<ledger, xpSum, stats, local>>
    BY <1>6, <1>a DEF InsertAwards, TypeOK
  <2>2. Knows(r)
    BY <2>1 DEF Knows, SerialInv
  <2>3. QED
    BY <2>1, <2>2, <1>u, <1>v
<1>7. ASSUME NEW r \in Requests, AwardConflict(r) \/ Abort(r)
      PROVE  SerialInv'
  <2>1. /\ pc[r] # "idle" /\ pc'[r] = "idle" /\ Alone(r)
        /\ UNCHANGED <<ledger, xpSum, stats>>
    BY <1>7, <1>a DEF AwardConflict, Abort, Forget, TypeOK
  <2>2. Knows(r)
    BY <2>1 DEF Knows
  <2>3. QED
    BY <2>1, <2>2, <1>u, <1>v
<1>8. ASSUME NEW r \in Requests, CommitBadges(r)
      PROVE  SerialInv'
  <2>1. Publish(r) /\ pc[r] # "idle" /\ pc'[r] = "idle" /\ Alone(r)
    BY <1>8, <1>a DEF CommitBadges, Forget, TypeOK
  <2>2. stats' = cache[r] /\ cache[r] = RowFor(xpSum') /\ OncePerSource'
    BY <2>1, SerialPublish
  <2>3. Knows(r)
    BY <2>1 DEF Knows
  <2>4. QED
    BY <2>1, <2>2, <2>3, <1>v DEF CacheIsLedgerSum, LedgerStats
<1>9. ASSUME NEW r \in Requests, ReadLedgerSum(r)
      PROVE  SerialInv'
  <2>1. /\ pc[r] = "main" /\ Alone(r) /\ found'[r] = xpSum
        /\ UNCHANGED <<ledger, xpSum, stats, cache, written, rows, pending, granting>>
    BY <1>9, <1>a DEF ReadLedgerSum, TotalForUser, TypeOK
  <2>2. Knows(r)
    BY <2>1 DEF Knows, SerialInv
  <2>3. QED
    BY <2>1, <2>2, <1>u, <1>v
<1>10. ASSUME NEW r \in Requests, CommitRepair(r)
       PROVE  SerialInv'
  <2>1. /\ pc[r] = "repair" /\ pc'[r] = "idle" /\ Alone(r)
        /\ UNCHANGED <<ledger, xpSum>>
        /\ stats' \in [Columns -> Nat]
        /\ \A c \in Columns : stats'[c] \in {RowFor(found[r])[c], stats[c]}
    <3>1. RowFor(found[r]) \in StatsRow
      BY RowForType DEF TypeOK
    <3>2. QED
      BY <1>10, <1>a, <3>1 DEF CommitRepair, Forget, TypeOK, StatsRow
  <2>2. found[r] = xpSum /\ stats = RowFor(xpSum)
    BY <2>1 DEF SerialInv, CacheIsLedgerSum, LedgerStats
  <2>3. stats' = stats
    BY <2>1, <2>2, RowsEqual DEF TypeOK, StatsRow
  <2>4. Knows(r)
    BY <2>1 DEF Knows
  <2>5. QED
    BY <2>1, <2>3, <2>4, <1>u, <1>v
<1>11. CASE UNCHANGED vars
  BY <1>11 DEF vars, SerialInv, OncePerSource, CacheIsLedgerSum, LedgerStats
<1>12. QED
  BY <1>1, <1>2, <1>3, <1>4, <1>5, <1>6, <1>7, <1>8, <1>9, <1>10, <1>11
     DEF Next, Advance

LEMMA SerialInit == Init => SerialInv
BY DEF Init, SerialInv, OncePerSource, CacheIsLedgerSum, LedgerStats, NewStats

\* Both statements of progress_service.py hold for a learner whose requests do
\* not overlap: each source pays once ...
THEOREM SerialPaysOnce ==
  ASSUME ~Overlapping
  PROVE  Spec => []OncePerSource
<1>1. SerialInv => OncePerSource
  BY DEF SerialInv
<1>2. Spec => []SerialInv
  BY LedgerInvariant, SerialInit, SerialStep, PTL DEF Spec
<1>3. QED
  BY <1>1, <1>2, PTL

\* ... and the cached row is always the row of the ledger's sum.
THEOREM SerialCacheIsLedgerSum ==
  ASSUME ~Overlapping
  PROVE  Spec => []CacheIsLedgerSum
<1>1. SerialInv => CacheIsLedgerSum
  BY DEF SerialInv
<1>2. Spec => []SerialInv
  BY LedgerInvariant, SerialInit, SerialStep, PTL DEF Spec
<1>3. QED
  BY <1>1, <1>2, PTL

-----------------------------------------------------------------------------
(* The account that the ledger implements *)

\* b is the way a sum grows, payment by payment, from base.
Grows(b, order, n, base) ==
  b[0] = base /\ \A i \in 1..n : b[i] = b[i - 1] + Reward[order[i]]

\* The rewards of S, paid in some order, come to x.
Tally(S, x) ==
  /\ IsFiniteSet(S) /\ S \subseteq Sources
  /\ \E order \in Account!Orders(S) : \E b \in [0..Cardinality(S) -> Nat] :
       Grows(b, order, Cardinality(S), 0) /\ b[Cardinality(S)] = x

LEMMA CountsAreEqual == \A S : Account!Cardinality(S) = Cardinality(S)
  BY DEF Account!Cardinality, Cardinality

LEMMA OrdersAre ==
  \A S : Account!Orders(S) = {order \in [1..Cardinality(S) -> S] :
                               \A s \in S : \E i \in 1..Cardinality(S) : order[i] = s}
  BY CountsAreEqual DEF Account!Orders

LEMMA TallyEmpty == Tally({}, 0)
<1>1. IsFiniteSet({}) /\ Cardinality({}) = 0
  BY FS_EmptySet
<1> DEFINE order == [i \in 1..0 |-> {}]
           b == [i \in 0..0 |-> 0]
<1>2. order \in Account!Orders({})
  <2>1. order \in [1..0 -> {}]
    <3>1. 1..0 = {}
      OBVIOUS
    <3> QED BY <3>1
  <2>2. PICK n : n = Cardinality({})
    OBVIOUS
  <2>3. order \in [1..n -> {}]
    BY <1>1, <2>1, <2>2
  <2> HIDE DEF order
  <2> QED BY <2>2, <2>3, OrdersAre
<1>3. b \in [0..0 -> Nat] /\ Grows(b, order, 0, 0) /\ b[0] = 0
  BY DEF Grows
<1> HIDE DEF order, b
<1>4. PICK n : n = Cardinality({})
  OBVIOUS
<1>5. /\ b \in [0..n -> Nat] /\ Grows(b, order, n, 0) /\ b[n] = 0
  BY <1>1, <1>3, <1>4
<1> QED BY <1>1, <1>2, <1>4, <1>5 DEF Tally

LEMMA TallyAdds ==
  ASSUME NEW S \in SUBSET Sources, NEW x, Tally(S, x), NEW s \in Sources, s \notin S
  PROVE  Tally(S \cup {s}, x + Reward[s])
<1> DEFINE n == Cardinality(S)
           T == S \cup {s}
<1>1. /\ IsFiniteSet(T) /\ n \in Nat /\ Cardinality(T) = n + 1
  <2>1. IsFiniteSet(S)
    BY DEF Tally
  <2> QED BY <2>1, FS_AddElement, FS_CardinalityType
<1>2. PICK order \in Account!Orders(S), b \in [0..n -> Nat] : Grows(b, order, n, 0) /\ b[n] = x
  BY DEF Tally
<1>3. order \in [1..n -> S] /\ \A y \in S : \E i \in 1..n : order[i] = y
  BY <1>2, OrdersAre
<1>4. Reward[s] \in Nat /\ x \in Nat
  BY <1>1, <1>2, RewardAssumption
<1> HIDE DEF n
<1> DEFINE more == [i \in 1..(n + 1) |-> IF i = n + 1 THEN s ELSE order[i]]
           c == [i \in 0..(n + 1) |-> IF i = n + 1 THEN x + Reward[s] ELSE b[i]]
<1>5. more \in [1..(n + 1) -> T] /\ more[n + 1] = s /\ \A i \in 1..n : more[i] = order[i]
  BY <1>1, <1>3
<1>6. more \in Account!Orders(T)
  <2>1. ASSUME NEW y \in T PROVE \E i \in 1..(n + 1) : more[i] = y
    <3>1. CASE y = s
      BY <1>1, <1>5, <3>1
    <3>2. CASE y \in S
      <4>1. PICK i \in 1..n : order[i] = y
        BY <1>3, <3>2
      <4> QED BY <1>1, <1>5, <4>1
    <3> QED BY <3>1, <3>2
  <2> HIDE DEF more, T
  <2> QED BY <1>1, <1>5, <2>1, OrdersAre
<1>7. c \in [0..(n + 1) -> Nat] /\ c[n + 1] = x + Reward[s] /\ \A i \in 0..n : c[i] = b[i]
  BY <1>1, <1>2, <1>4
<1>8. Grows(c, more, n + 1, 0)
  <2>1. c[0] = 0
    BY <1>1, <1>2, <1>7 DEF Grows
  <2>2. ASSUME NEW i \in 1..(n + 1) PROVE c[i] = c[i - 1] + Reward[more[i]]
    <3>1. CASE i = n + 1
      <4>1. i - 1 = n /\ n \in 0..n
        BY <1>1, <3>1
      <4>2. c[i - 1] = x
        BY <1>2, <1>7, <4>1
      <4> HIDE DEF c, more
      <4> QED BY <1>5, <1>7, <3>1, <4>2
    <3>2. CASE i # n + 1
      <4>1. i \in 1..n /\ i - 1 \in 0..n /\ i \in 0..n
        BY <1>1, <3>2
      <4>2. b[i] = b[i - 1] + Reward[order[i]]
        BY <1>2, <4>1 DEF Grows
      <4> HIDE DEF c, more
      <4> QED BY <1>5, <1>7, <4>1, <4>2
    <3> QED BY <3>1, <3>2
  <2> QED BY <2>1, <2>2 DEF Grows
<1> HIDE DEF c, more, T
<1> QED BY <1>1, <1>6, <1>7, <1>8 DEF Tally, T

\* What is paid in an order that comes to x adds x to the total.
LEMMA TallyIsPaid ==
  ASSUME NEW S, NEW x, Tally(S, x), stats["total_xp"] \in Nat
  PROVE  \E order \in Account!Orders(S) :
           Account!TotalAfter(order, Cardinality(S)) = stats["total_xp"] + x
<1> DEFINE n == Cardinality(S)
           paid == stats["total_xp"]
<1>0. paid \in Nat
  OBVIOUS
<1>1. n \in Nat
  BY FS_CardinalityType DEF Tally
<1>2. PICK order \in Account!Orders(S), b \in [0..n -> Nat] : Grows(b, order, n, 0) /\ b[n] = x
  BY DEF Tally
<1> DEFINE Loop(f) == f = [i \in 0..n |-> IF i = 0 THEN paid ELSE f[i - 1] + Reward[order[i]]]
           sum == CHOOSE f : Loop(f)
           shifted == [i \in 0..n |-> paid + b[i]]
<1>3. Account!TotalAfter(order, n) = sum[n]
  BY DEF Account!TotalAfter
<1> HIDE DEF n, paid
<1>4. Loop(shifted)
  <2>1. ASSUME NEW i \in 0..n, i # 0
        PROVE  shifted[i] = shifted[i - 1] + Reward[order[i]]
    <3>1. i \in 1..n /\ i - 1 \in 0..n
      BY <1>1, <2>1
    <3>2. b[i] = b[i - 1] + Reward[order[i]]
      BY <1>2, <3>1 DEF Grows
    <3>3. b[i] \in Nat /\ b[i - 1] \in Nat /\ Reward[order[i]] \in Nat
      <4>1. order[i] \in Sources
        BY <1>2, <3>1, OrdersAre DEF Tally, n
      <4> QED BY <1>2, <3>1, <4>1, RewardAssumption
    <3>4. shifted[i] = paid + b[i] /\ shifted[i - 1] = paid + b[i - 1]
      BY <3>1
    <3> HIDE DEF shifted
    <3> QED BY <1>0, <3>2, <3>3, <3>4
  <2>2. shifted[0] = paid
    BY <1>0, <1>1, <1>2 DEF Grows
  <2>3. shifted = [i \in 0..n |-> shifted[i]]
    OBVIOUS
  <2> HIDE DEF shifted
  <2>4. \A i \in 0..n : shifted[i] = IF i = 0 THEN paid ELSE shifted[i - 1] + Reward[order[i]]
    BY <2>1, <2>2
  <2> QED BY <2>3, <2>4
<1>5. Loop(sum)
  <2> HIDE DEF Loop, shifted
  <2> QED BY <1>4
<1>6. /\ sum[0] = paid
      /\ \A i \in 1..n : sum[i] = sum[i - 1] + Reward[order[i]]
  <2>1. 0 \in 0..n /\ \A i \in 1..n : i \in 0..n /\ i # 0
    BY <1>1
  <2> HIDE DEF sum
  <2> QED BY <1>5, <2>1
<1> HIDE DEF sum
<1> DEFINE Same == {i \in Nat : i <= n => sum[i] = paid + b[i]}
<1>7. n \in Same
  <2>1. 0 \in Same
    BY <1>0, <1>1, <1>2, <1>6 DEF Grows
  <2>2. ASSUME NEW i \in 0..n, i \in Same PROVE i + 1 \in Same
    <3> SUFFICES ASSUME i + 1 <= n PROVE sum[i + 1] = paid + b[i + 1]
      BY <1>1
    <3>1. i + 1 \in 1..n /\ (i + 1) - 1 = i /\ i <= n
      BY <1>1
    <3>2. sum[i + 1] = sum[i] + Reward[order[i + 1]] /\ b[i + 1] = b[i] + Reward[order[i + 1]]
      BY <1>2, <1>6, <3>1 DEF Grows
    <3>3. sum[i] = paid + b[i]
      BY <2>2, <3>1
    <3>4. b[i] \in Nat /\ Reward[order[i + 1]] \in Nat
      <4>1. order[i + 1] \in Sources
        BY <1>2, <3>1, OrdersAre DEF Tally, n
      <4> QED BY <1>1, <1>2, <4>1, RewardAssumption
    <3> QED BY <1>0, <3>2, <3>3, <3>4
  <2>3. Same \in SUBSET Nat
    OBVIOUS
  <2> HIDE DEF Same
  <2> QED BY <1>1, <2>1, <2>2, <2>3, UpTo
<1>8. sum[n] = paid + x
  BY <1>1, <1>2, <1>7
<1> QED BY <1>2, <1>3, <1>8 DEF n, paid

\* The XP a transaction is about to publish is that of the rows it has inserted.
Tallied ==
  \A r \in Requests : /\ \A S, x : S = rows[r] /\ x = pending[r] => Tally(S, x)
                      /\ granting[r] \notin rows[r]

LEMMA TallyStays == \A S, x : Tally(S, x)' = Tally(S, x)
  BY OrdersAre DEF Tally, Grows

LEMMA TalliedInit == Init => Tallied
  BY TallyEmpty DEF Init, Tallied

LEMMA TalliedStep ==
  ASSUME LedgerInv, Tallied, [Next]_vars
  PROVE  Tallied'
<1> DEFINE Fine(r) == Tally(rows'[r], pending'[r]) /\ granting'[r] \notin rows'[r]
<1> USE DEF LedgerInv
<1>1. ASSUME \A r \in Requests : Fine(r) PROVE Tallied'
  <2> SUFFICES ASSUME NEW r \in Requests
               PROVE  /\ \A S, x : S = rows'[r] /\ x = pending'[r] => Tally(S, x)'
                      /\ granting'[r] \notin rows'[r]
    BY DEF Tallied
  <2>1. Fine(r)
    BY <1>1
  <2> QED BY <2>1, TallyStays
<1>2. ASSUME NEW r \in Requests, rows'[r] = rows[r], pending'[r] = pending[r],
             granting'[r] \in {granting[r], None}
      PROVE  Fine(r)
  BY <1>2, NoneAssumption DEF Tallied, TypeOK
<1>3. ASSUME NEW r \in Requests, rows'[r] = {}, pending'[r] = 0 PROVE Fine(r)
  BY <1>3, TallyEmpty
<1> HIDE DEF Fine
<1>4. CASE UNCHANGED <<rows, pending, granting>>
  BY <1>1, <1>2, <1>4
<1>5. ASSUME NEW r \in Requests, EndTransaction(r) PROVE Tallied'
  <2>1. ASSUME NEW q \in Requests PROVE Fine(q)
    <3>1. CASE q = r
      BY <1>3, <1>5, <3>1 DEF EndTransaction, TypeOK
    <3>2. CASE q # r
      BY <1>2, <1>5, <3>2 DEF EndTransaction, TypeOK
    <3> QED BY <3>1, <3>2
  <2> QED BY <1>1, <2>1
<1>6. ASSUME NEW r \in Requests, NEW s \in Sources, FindUnpaid(r, s) PROVE Tallied'
  <2>1. ASSUME NEW q \in Requests PROVE Fine(q)
    <3>1. rows'[q] = rows[q] /\ pending'[q] = pending[q]
      BY <1>6 DEF FindUnpaid
    <3>2. granting'[q] \notin rows[q]
      BY <1>6 DEF FindUnpaid, TypeOK, Tallied
    <3> QED BY <3>1, <3>2 DEF Tallied, Fine
  <2> QED BY <1>1, <2>1
<1>7. ASSUME NEW r \in Requests, Grant(r) PROVE Tallied'
  <2>1. /\ granting[r] # None
        /\ pending' = [pending EXCEPT ![r] = @ + Reward[granting[r]]]
        /\ rows' = [rows EXCEPT ![r] = @ \cup {granting[r]}]
        /\ granting' = [granting EXCEPT ![r] = None]
    BY <1>7 DEF Grant
  <2>2. granting[r] \in Sources /\ granting[r] \notin rows[r] /\ rows[r] \in SUBSET Sources
    BY <2>1 DEF TypeOK, Tallied
  <2>3. ASSUME NEW q \in Requests PROVE Fine(q)
    <3>1. CASE q = r
      <4>1. Tally(rows[r], pending[r])
        BY DEF Tallied
      <4>2. Tally(rows[r] \cup {granting[r]}, pending[r] + Reward[granting[r]])
        BY <2>2, <4>1, TallyAdds
      <4>3. /\ rows'[r] = rows[r] \cup {granting[r]} /\ granting'[r] = None
            /\ pending'[r] = pending[r] + Reward[granting[r]]
        BY <2>1 DEF TypeOK
      <4>4. None \notin rows'[r]
        BY <2>2, <4>3, NoneAssumption
      <4> QED BY <3>1, <4>2, <4>3, <4>4 DEF Fine
    <3>2. CASE q # r
      BY <1>2, <2>1, <3>2 DEF TypeOK
    <3> QED BY <3>1, <3>2
  <2> QED BY <1>1, <2>3
<1>8. CASE UNCHANGED vars
  BY <1>4, <1>8 DEF vars, local
<1>9. ASSUME NEW r \in Requests,
             Authenticate(r) \/ Evaluate(r) \/ InsertAwards(r) \/ ReadLedgerSum(r)
      PROVE  Tallied'
  BY <1>4, <1>9 DEF Authenticate, Evaluate, InsertAwards, ReadLedgerSum, local
<1>10. ASSUME NEW r \in Requests,
              CommitCompletion(r) \/ AwardConflict(r) \/ CommitBadges(r) \/ CommitRepair(r)
                \/ Abort(r)
       PROVE  Tallied'
  BY <1>5, <1>10 DEF CommitCompletion, AwardConflict, CommitBadges, CommitRepair, Abort
<1> QED BY <1>6, <1>7, <1>8, <1>9, <1>10 DEF Next, Advance

LEMMA LevelsAreEqual == \A x : Account!LevelForXp(x) = LevelForXp(x)
<1>1. \A k : Account!PowThreeHalves(k) = PowThreeHalves(k)
  BY DEF Account!PowThreeHalves, PowThreeHalves, Account!LevelBaseXp, LevelBaseXp,
         Account!Cardinality, Cardinality
<1>2. Account!Levels = Levels /\ Account!MaxLevel = MaxLevel
  BY DEF Account!Levels, Levels, Account!MaxLevel, MaxLevel
<1>3. Account!XpRequiredForLevel = XpRequiredForLevel
  BY <1>1, <1>2 DEF Account!XpRequiredForLevel, XpRequiredForLevel
<1>4. \A x : Account!LoopStops(x) = LoopStops(x)
  BY <1>2, <1>3 DEF Account!LoopStops, LoopStops
<1> QED BY <1>4 DEF Account!LevelForXp, LevelForXp

LEMMA RowColumns ==
  \A x : RowFor(x)["total_xp"] = x /\ RowFor(x)["level"] = LevelForXp(x)
  BY DEF RowFor, Columns

\* The second level has a price.
LEMMA LevelOfNothing == LevelForXp(0) = 1
<1> DEFINE square == LevelBaseXp * LevelBaseXp * 1
           Q == {n \in 1..(10 * LevelBaseXp) : n * n <= square}
           q == Cardinality(Q)
           R == {n \in 1..(1 - 1) : n * n + 2 * q * 1 * n <= (square - q * q) * 1 * 1}
<1>1. 1 \in Q
  BY DEF LevelBaseXp
<1>2. IsFiniteSet(Q) /\ IsFiniteSet(R)
  <2>1. IsFiniteSet(1..(10 * LevelBaseXp)) /\ IsFiniteSet(1..(1 - 1))
    <3>1. 10 * LevelBaseXp \in Int
      BY DEF LevelBaseXp
    <3> QED BY <3>1, FS_Interval
  <2>2. Q \subseteq 1..(10 * LevelBaseXp) /\ R \subseteq 1..(1 - 1)
    OBVIOUS
  <2> QED BY <2>1, <2>2, FS_Subset
<1>3. q \in Nat /\ q # 0 /\ Cardinality(R) \in Nat
  <2> HIDE DEF R
  <2> QED BY <1>1, <1>2, FS_CardinalityType, FS_EmptySet
<1>4. PowThreeHalves(1) = 1 * q + Cardinality(R)
  BY DEF PowThreeHalves
<1>5. XpRequiredForLevel[2] > 0
  <2>1. XpRequiredForLevel[2] = PowThreeHalves(1)
    BY DEF XpRequiredForLevel, Levels, MaxLevel
  <2> HIDE DEF q, R
  <2> QED BY <1>3, <1>4, <2>1
<1>6. 1 \in LoopStops(0)
  BY <1>5 DEF LoopStops, Levels, MaxLevel
<1> QED BY <1>6, LevelForXpFirstStop DEF Levels

\* A commit pays what the transaction has inserted, or nothing.
LEMMA PublishPays ==
  ASSUME LedgerInv, LedgerInv', SerialInv, SerialInv', Tallied,
         NEW r \in Requests, pc[r] # "idle", Publish(r)
  PROVE  [Account!Next]_(Account!vars)
<1>1. /\ stats = RowFor(xpSum) /\ stats' = RowFor(xpSum') /\ xpSum \in Nat
      /\ xpSum' = xpSum + pending[r]
      /\ rows[r] \in SUBSET Sources /\ ledger \in [Sources -> Nat]
      /\ ledger' = [s \in Sources |-> IF s \in rows[r] THEN ledger[s] + 1 ELSE ledger[s]]
  BY DEF SerialInv, CacheIsLedgerSum, LedgerStats, LedgerInv, TypeOK, Publish
<1>2. Paid' = Paid \cup rows[r]
  BY <1>1 DEF Paid
<1>3. CASE rows[r] = {}
  <2>1. pending[r] = 0
    BY <1>3 DEF LedgerInv, RowsFollowPhase
  <2>2. Paid' = Paid /\ stats' = stats
    BY <1>1, <1>2, <1>3, <2>1
  <2> QED BY <2>2 DEF Account!vars
<1>4. CASE rows[r] # {}
  <2>1. rows[r] \cap Paid = {}
    <3>1. \A s \in rows[r] : s # None /\ ledger[s] = 0
      BY <1>1, NoneAssumption DEF SerialInv
    <3> QED BY <3>1 DEF Paid
  <2>2. stats["total_xp"] = xpSum /\ stats'["total_xp"] = xpSum + pending[r]
        /\ stats'["level"] = LevelForXp(xpSum + pending[r])
    BY <1>1, RowColumns
  <2>3. Tally(rows[r], pending[r])
    BY DEF Tallied
  <2>4. \E order \in Account!Orders(rows[r]) :
          stats'["total_xp"] = Account!TotalAfter(order, Cardinality(rows[r]))
    <3>1. PICK order \in Account!Orders(rows[r]) :
            Account!TotalAfter(order, Cardinality(rows[r])) = stats["total_xp"] + pending[r]
      BY <1>1, <2>2, <2>3, TallyIsPaid
    <3> QED BY <2>2, <3>1
  <2>5. stats'["level"] = Account!LevelForXp(stats'["total_xp"])
    BY <2>2, LevelsAreEqual
  <2>6. Account!Pay(rows[r])
    BY <1>2, <1>4, <2>1, <2>4, <2>5, CountsAreEqual DEF Account!Pay
  <2> QED BY <1>1, <2>6 DEF Account!Next
<1> QED BY <1>3, <1>4

LEMMA AccountStep ==
  ASSUME LedgerInv, LedgerInv', SerialInv, SerialInv', Tallied, [Next]_vars
  PROVE  [Account!Next]_(Account!vars)
<1>1. CASE \E r \in Requests : pc[r] # "idle" /\ Publish(r)
  BY <1>1, PublishPays
<1>2. CASE UNCHANGED <<ledger, xpSum>>
  <2>1. stats = RowFor(xpSum) /\ stats' = RowFor(xpSum')
    BY DEF SerialInv, CacheIsLedgerSum, LedgerStats
  <2>2. stats' = stats /\ Paid' = Paid
    BY <1>2, <2>1 DEF Paid
  <2> QED BY <2>2 DEF Account!vars
<1>3. (\E r \in Requests : pc[r] # "idle" /\ Publish(r)) \/ UNCHANGED <<ledger, xpSum>>
  <2>1. CASE UNCHANGED vars
    BY <2>1 DEF vars, database
  <2>2. ASSUME NEW r \in Requests, CommitCompletion(r) \/ CommitBadges(r)
        PROVE  pc[r] # "idle" /\ Publish(r)
    BY <2>2 DEF CommitCompletion, CommitBadges
  <2>3. ASSUME NEW r \in Requests,
               \/ Authenticate(r) \/ (\E s \in Sources : FindUnpaid(r, s)) \/ ReadLedgerSum(r)
               \/ Grant(r) \/ Evaluate(r) \/ InsertAwards(r) \/ AwardConflict(r)
               \/ CommitRepair(r) \/ Abort(r)
        PROVE  UNCHANGED <<ledger, xpSum>>
    BY <2>3 DEF Authenticate, FindUnpaid, ReadLedgerSum, Grant, Evaluate, InsertAwards,
                AwardConflict, CommitRepair, Abort, database
  <2> QED BY <2>1, <2>2, <2>3 DEF Next, Advance
<1> QED BY <1>1, <1>2, <1>3

\* For a learner who waits for each answer the ledger with its cache, and with
\* all the statements and transactions in between, is the account: sources are
\* paid once each, and the total and the level are always those of what was paid.
THEOREM LedgerIsTheAccount ==
  ASSUME ~Overlapping
  PROVE  Spec => LedgerImplementsAccount
<1>1. Init => Account!Init
  <2> SUFFICES ASSUME Init PROVE Account!Init
    OBVIOUS
  <2>1. Paid = {}
    BY DEF Init, Paid
  <2>2. stats["total_xp"] = 0 /\ stats["level"] = LevelForXp(0)
    BY RowColumns DEF Init, NewStats
  <2>3. LevelForXp(0) = 1
    BY LevelOfNothing
  <2> QED BY <2>1, <2>2, <2>3 DEF Account!Init
<1>2. Spec => [](LedgerInv /\ SerialInv /\ Tallied)
  <2>1. Init => SerialInv /\ Tallied
    BY SerialInit, TalliedInit
  <2>2. LedgerInv /\ SerialInv /\ Tallied /\ [Next]_vars => SerialInv' /\ Tallied'
    BY SerialStep, TalliedStep
  <2> QED BY <2>1, <2>2, LedgerInvariant, PTL DEF Spec
<1>3. /\ LedgerInv /\ SerialInv /\ Tallied /\ [Next]_vars
      /\ (LedgerInv /\ SerialInv /\ Tallied)'
      => [Account!Next]_(Account!vars)
  BY AccountStep
<1> QED BY <1>1, <1>2, <1>3, PTL DEF Spec, LedgerImplementsAccount, Account!Spec

-----------------------------------------------------------------------------
(* Streaks *)

\* The days on which a run of the days A that ends with d may begin.
RunDays(A, d) == {first \in A : first <= d /\ (first..d) \subseteq A}

\* The runs of the days A are numbers, none above best, and best is one of them.
NoneAbove(A, best) ==
  \A d \in A : Cardinality(RunDays(A, d)) \in Nat /\ Cardinality(RunDays(A, d)) <= best
OneIs(A, best) == \E d \in A : Cardinality(RunDays(A, d)) = best

LEMMA RunLength ==
  ASSUME NEW A, A \subseteq Int, NEW d \in Int, NEW n \in Nat,
         (d - n + 1)..d \subseteq A, d - n \notin A
  PROVE  Cardinality(RunDays(A, d)) = n
<1>1. ASSUME NEW first \in RunDays(A, d) PROVE first \in (d - n + 1)..d
  <2>1. first \in Int /\ first <= d /\ (first..d) \subseteq A
    BY DEF RunDays
  <2>2. first > d - n
    <3> SUFFICES ASSUME first <= d - n PROVE FALSE
      BY <2>1
    <3>1. d - n \in first..d
      BY <2>1
    <3> QED BY <2>1, <3>1
  <2> QED BY <2>1, <2>2
<1>2. ASSUME NEW first \in (d - n + 1)..d PROVE first \in RunDays(A, d)
  <2>1. first..d \subseteq (d - n + 1)..d
    OBVIOUS
  <2> QED BY <2>1 DEF RunDays
<1>3. RunDays(A, d) = (d - n + 1)..d
  BY <1>1, <1>2
<1>4. Cardinality((d - n + 1)..d) = IF d - n + 1 > d THEN 0 ELSE d - (d - n + 1) + 1
  BY FS_Interval
<1> QED BY <1>3, <1>4

LEMMA RunKept ==
  ASSUME NEW A, A \subseteq Int, NEW t \in Int, NEW d \in A, d < t
  PROVE  RunDays(A \cup {t}, d) = RunDays(A, d)
BY DEF RunDays

LEMMA DayOf ==
  ASSUME NEW a \in Int, NEW b \in Int, a <= b
  PROVE  a \div Slots \in Int /\ b \div Slots \in Int /\ a \div Slots <= b \div Slots
BY SlotsAssumption

\* The stored timestamp is dated as the learner's day, and the run that ends with
\* that day is what is stored.
Dated ==
  /\ lastActivity = Never => activeDays = {} /\ streak = 0 /\ longest = 0
  /\ lastActivity # Never =>
       /\ lastActivity <= clock
       /\ LastActive = (lastActivity + zone) \div Slots
       /\ LastActive \in activeDays /\ \A d \in activeDays : d <= LastActive
       /\ streak # 0
       /\ (LastActive - streak + 1)..LastActive \subseteq activeDays
       /\ LastActive - streak \notin activeDays
       /\ \A d \in activeDays : RunUpTo(d) \in Nat /\ RunUpTo(d) <= longest
       /\ \E d \in activeDays : RunUpTo(d) = longest

StreakInv == StreakTypeOK /\ (~misdated => Dated)

LEMMA RunIs == ASSUME NEW d PROVE RunUpTo(d) = Cardinality(RunDays(activeDays, d))
BY DEF RunUpTo, RunDays

\* One more active day, after a gap or not.
LEMMA NewDay ==
  ASSUME NEW A, A \subseteq Int, NEW t \in Int, \A d \in A : d < t,
         NEW best \in Nat, NEW n \in Nat, NEW best2 \in Nat,
         NoneAbove(A, best), best = 0 \/ OneIs(A, best),
         Cardinality(RunDays(A \cup {t}, t)) = n, n # 0,
         best2 = IF best < n THEN n ELSE best
  PROVE  NoneAbove(A \cup {t}, best2) /\ OneIs(A \cup {t}, best2)
<1>1. \A d \in A : RunDays(A \cup {t}, d) = RunDays(A, d)
  BY RunKept
<1>2. CASE best < n
  BY <1>1, <1>2 DEF NoneAbove, OneIs
<1>3. CASE ~(best < n)
  <2>1. best2 = best /\ best # 0
    BY <1>3
  <2>2. PICK d \in A : Cardinality(RunDays(A, d)) = best
    BY <2>1 DEF OneIs
  <2> QED BY <1>1, <1>3, <2>1, <2>2 DEF NoneAbove, OneIs
<1> QED BY <1>2, <1>3

LEMMA StreakStarts == StreakInit => StreakInv
<1> SUFFICES ASSUME StreakInit PROVE StreakInv
  OBVIOUS
<1>1. StreakTypeOK
  <2>1. 0 \in 0..LastSlot
    BY ClockAssumption
  <2>2. streak \in Nat /\ longest \in Nat /\ clock \in 0..LastSlot
    BY <2>1 DEF StreakInit
  <2>3. activeDays \subseteq Int /\ misdated \in BOOLEAN
    BY DEF StreakInit
  <2>4. zone \in Zones /\ lastActivity \in 0..LastSlot \cup {Never}
    BY DEF StreakInit
  <2> QED BY <2>2, <2>3, <2>4 DEF StreakTypeOK
<1>2. Dated
  BY DEF StreakInit, Dated
<1> QED BY <1>1, <1>2 DEF StreakInv

LEMMA TimeKeeps == ASSUME StreakInv, TimePasses PROVE StreakInv'
<1>1. /\ UNCHANGED <<zone, lastActivity, streak, longest, activeDays, misdated>>
      /\ clock' = clock + 1 /\ clock' \in 0..LastSlot /\ clock \in 0..LastSlot
  BY ClockAssumption DEF TimePasses, StreakInv, StreakTypeOK
<1>2. StreakTypeOK'
  BY <1>1 DEF StreakInv, StreakTypeOK
<1>3. lastActivity # Never /\ lastActivity <= clock => lastActivity <= clock'
  BY <1>1, ClockAssumption DEF StreakInv, StreakTypeOK
<1>4. LastActive = LastActive'
  BY <1>1 DEF LastActive, UtcDate
<1>5. \A d : RunUpTo(d) = RunUpTo(d)'
  BY <1>1 DEF RunUpTo
<1>6. Dated => Dated'
  BY <1>1, <1>3, <1>4, <1>5 DEF Dated
<1> QED BY <1>1, <1>2, <1>6 DEF StreakInv

\* Another ping changes no day: the timestamp moves within it.
LEMMA PingKeepsDated ==
  ASSUME StreakTypeOK, Dated, RecordActivity, LocalToday = UtcDate(clock)
  PROVE  Dated'
<1> DEFINE t == LocalToday
           A == activeDays
<1>1. /\ clock \in 0..LastSlot /\ clock \in Int /\ zone \in Int /\ A \subseteq Int
      /\ streak \in Nat /\ longest \in Nat /\ lastActivity \in (0..LastSlot) \cup {Never}
      /\ Never \notin 0..LastSlot
  BY ClockAssumption, ZonesAssumption, SlotsAssumption DEF StreakTypeOK
<1>2. t = UtcDate(clock) /\ t \in Int
  BY <1>1, DayOf DEF UtcDate
<1>3. /\ lastActivity' = clock /\ activeDays' = A \cup {t} /\ streak' = NextStreak
      /\ longest' = IF longest < NextStreak THEN NextStreak ELSE longest
      /\ clock' = clock /\ zone' = zone
  BY DEF RecordActivity
<1>4. /\ LastActive' = t /\ lastActivity' # Never /\ lastActivity' <= clock'
      /\ LastActive' = (lastActivity' + zone') \div Slots
  BY <1>1, <1>2, <1>3 DEF LastActive, UtcDate, LocalToday
<1>5. lastActivity # Never => LastActive \in Int /\ LastActive <= t
  BY <1>1, <1>2, DayOf DEF LastActive, UtcDate, Dated
<1> HIDE DEF t
<1>6. CASE lastActivity # Never /\ LastActive = t
  <2>1. activeDays' = A /\ streak' = streak /\ streak <= longest
    <3>1. RunUpTo(t) = streak
      BY <1>1, <1>2, <1>6, RunIs, RunLength DEF Dated
    <3> QED BY <1>3, <1>6, <3>1 DEF Dated, NextStreak, t
  <2>2. longest' = longest
    BY <1>1, <1>3, <2>1
  <2>3. \A d : RunUpTo(d)' = RunUpTo(d)
    BY <2>1 DEF RunUpTo
  <2> QED BY <1>1, <1>3, <1>4, <1>6, <2>1, <2>2, <2>3 DEF Dated
<1>7. CASE lastActivity = Never \/ LastActive # t
  <2>1. \A d \in A : d < t
    BY <1>1, <1>2, <1>5, <1>7 DEF Dated
  <2>2. /\ streak' \in Nat /\ streak' # 0
        /\ (t - streak' + 1)..t \subseteq A \cup {t} /\ t - streak' \notin A \cup {t}
    <3>1. CASE lastActivity # Never /\ LastActive = t - 1
      <4>1. streak' = streak + 1
        BY <1>1, <1>2, <1>3, <1>7, <3>1 DEF NextStreak, t
      <4>2. /\ (t - 1 - streak + 1)..(t - 1) \subseteq A /\ t - 1 - streak \notin A
        BY <3>1 DEF Dated
      <4> QED BY <1>1, <1>2, <4>1, <4>2
    <3>2. CASE lastActivity = Never \/ LastActive # t - 1
      <4>1. streak' = 1
        BY <1>3, <1>7, <3>2 DEF NextStreak, t
      <4>2. t - 1 \notin A
        BY <1>1, <1>2, <1>5, <1>7, <3>2 DEF Dated
      <4> QED BY <1>2, <4>1, <4>2
    <3> QED BY <3>1, <3>2
  <2>3. PICK n \in Nat : n = streak'
    BY <2>2
  <2>4. Cardinality(RunDays(A \cup {t}, t)) = n
    BY <1>1, <1>2, <2>2, <2>3, RunLength
  <2>5. PICK best \in Nat : best = longest'
    BY <1>1, <1>3, <2>2
  <2>6. /\ \A d \in A : /\ Cardinality(RunDays(A, d)) \in Nat
                        /\ Cardinality(RunDays(A, d)) <= longest
        /\ longest = 0 \/ \E d \in A : Cardinality(RunDays(A, d)) = longest
    BY RunIs DEF Dated
  <2>7. /\ \A d \in A \cup {t} : /\ Cardinality(RunDays(A \cup {t}, d)) \in Nat
                                 /\ Cardinality(RunDays(A \cup {t}, d)) <= best
        /\ \E d \in A \cup {t} : Cardinality(RunDays(A \cup {t}, d)) = best
    <3>1. PICK old \in Nat, day \in Int, days \in SUBSET Int :
            old = longest /\ days = A /\ day = t
      BY <1>1, <1>2
    <3>2. days \subseteq Int /\ (\A d \in days : d < day) /\ n # 0
      BY <1>1, <2>1, <2>2, <2>3, <3>1
    <3>3. best = IF old < n THEN n ELSE old
      BY <1>3, <2>3, <2>5, <3>1
    <3>4. Cardinality(RunDays(days \cup {day}, day)) = n
      BY <2>4, <3>1
    <3>5. NoneAbove(days, old) /\ (old = 0 \/ OneIs(days, old))
      BY <2>6, <3>1 DEF NoneAbove, OneIs
    <3>6. NoneAbove(days \cup {day}, best) /\ OneIs(days \cup {day}, best)
      BY <3>2, <3>3, <3>4, <3>5, NewDay
    <3> QED BY <3>1, <3>6 DEF NoneAbove, OneIs
  <2>8. \A d : RunUpTo(d)' = Cardinality(RunDays(A \cup {t}, d))
    BY <1>3 DEF RunUpTo, RunDays
  <2> QED BY <1>1, <1>2, <1>3, <1>4, <2>1, <2>2, <2>5, <2>7, <2>8 DEF Dated
<1> QED BY <1>6, <1>7

LEMMA PingKeeps == ASSUME StreakInv, RecordActivity PROVE StreakInv'
<1>1. ~misdated' => ~misdated /\ LocalToday = UtcDate(clock)
  BY DEF RecordActivity
<1>2. ~misdated' => Dated'
  BY <1>1, PingKeepsDated DEF StreakInv
<1>3. NextStreak \in Nat
  BY DEF NextStreak, StreakInv, StreakTypeOK
<1>4. longest' \in Nat /\ streak' \in Nat
  BY <1>3 DEF RecordActivity, StreakInv, StreakTypeOK
<1>5. LocalToday \in Int
  BY DayOf, ZonesAssumption, SlotsAssumption DEF LocalToday, StreakInv, StreakTypeOK
<1>6. StreakTypeOK'
  BY <1>4, <1>5 DEF RecordActivity, StreakInv, StreakTypeOK
<1> QED BY <1>2, <1>6 DEF StreakInv

-----------------------------------------------------------------------------
LEMMA StreakInvariant == StreakSpec => []StreakInv
<1>1. StreakInit => StreakInv
  BY StreakStarts
<1>2. StreakInv /\ [StreakNext]_streakVars => StreakInv'
  <2>1. CASE UNCHANGED streakVars
    BY <2>1 DEF streakVars, StreakInv, StreakTypeOK, Dated, LastActive, UtcDate, RunUpTo
  <2> QED BY <2>1, TimeKeeps, PingKeeps DEF StreakNext
<1> QED BY <1>1, <1>2, PTL DEF StreakSpec

\* In every zone, with days of any length, the stored streak, the one on display
\* and the record are read off the learner's calendar (record_activity,
\* current_streak), whatever the order of pings, gaps and repeats and at whatever
\* hour they are looked at, as long as every activity fell on the UTC day of its
\* own timestamp.
THEOREM StreakIsCalendar == StreakSpec => []StreakFollowsCalendar
<1>1. ASSUME StreakInv PROVE StreakFollowsCalendar
  <2> SUFFICES ASSUME ~misdated
               PROVE  StreakIsRunOfDays /\ ShownStreakIsAlive /\ LongestIsBestRun
    BY DEF StreakFollowsCalendar
  <2>1. /\ clock \in Int /\ zone \in Int /\ activeDays \subseteq Int
        /\ streak \in Nat /\ longest \in Nat /\ lastActivity \in (0..LastSlot) \cup {Never}
        /\ Dated
    BY <1>1, ClockAssumption, ZonesAssumption, SlotsAssumption DEF StreakInv, StreakTypeOK
  <2>2. CASE lastActivity = Never
    BY <2>1, <2>2 DEF Dated, StreakIsRunOfDays, ShownStreakIsAlive, CurrentStreak,
                      LongestIsBestRun
  <2>3. CASE lastActivity # Never
    <3>1. /\ LastActive \in Int /\ LocalToday \in Int /\ LastActive <= LocalToday
      <4>1. /\ lastActivity \in Int /\ lastActivity + zone <= clock + zone
            /\ LastActive = (lastActivity + zone) \div Slots
        BY <2>1, <2>3 DEF Dated
      <4> QED BY <2>1, <4>1, DayOf DEF LocalToday
    <3>2. /\ LastActive \in activeDays /\ \A d \in activeDays : d <= LastActive
      BY <2>1, <2>3 DEF Dated
    <3>3. LatestDay = LastActive
      <4>1. /\ LatestDay \in activeDays /\ \A e \in activeDays : e <= LatestDay
        BY <3>2 DEF LatestDay
      <4> QED BY <2>1, <3>1, <3>2, <4>1
    <3>4. RunUpTo(LastActive) = streak
      BY <2>1, <2>3, <3>1, RunIs, RunLength DEF Dated
    <3>5. StreakIsRunOfDays
      BY <3>3, <3>4 DEF StreakIsRunOfDays
    <3>6. ShownStreakIsAlive
      BY <2>3, <3>1, <3>2, <3>3, <3>4 DEF ShownStreakIsAlive, CurrentStreak
    <3>7. LongestIsBestRun
      BY <2>1, <2>3 DEF Dated, LongestIsBestRun
    <3> QED BY <3>5, <3>6, <3>7
  <2> QED BY <2>1, <2>2, <2>3
<1> QED BY <1>1, StreakInvariant, PTL
=============================================================================
