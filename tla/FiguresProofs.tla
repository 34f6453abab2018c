---------------------------- MODULE FiguresProofs ----------------------------
(***************************************************************************)
(* Replies for any transaction, blocks, schedule of subsidies and bounds;  *)
(* the stored rates for any chart, sources and days, and the prices        *)
(* printed; the fees for any mempools and size of a block; the mempool's   *)
(* count for any number of transactions, blocks and faults; the network    *)
(* card for any times of trust.                                            *)
(***************************************************************************)
EXTENDS Replies, Rates, Fees, Pool, Cards, Sums

-----------------------------------------------------------------------------
(* Figures.                                                                *)

\* An average of numbers, rounded to the nearest, is between the lowest and the highest.
LEMMA FeesOrdered ==
    ASSUME NEW f \in Seq(Nat)
    PROVE  FeeStats(f).low <= FeeStats(f).avg /\ FeeStats(f).avg <= FeeStats(f).high
<1>1. CASE Len(f) = 0
  BY <1>1 DEF FeeStats
<1>2. CASE Len(f) > 0
  <2> DEFINE n == Len(f)
             lo == Min(Range(f))
             hi == Max(Range(f))
             t == Total(f)
             q == (t + (n \div 2)) \div n
  <2>0. DOMAIN f = 1..n /\ n \in Nat \ {0} /\ \A i \in 1..n : f[i] \in Nat
    BY <1>2
  <2>1. Range(f) \subseteq Nat /\ Range(f) # {} /\ \A i \in DOMAIN f : f[i] \in Range(f)
    <3> HIDE DEF n
    <3> QED
      BY <2>0 DEF Range
  <2>2. lo \in Nat /\ \A y \in Range(f) : lo <= y
    BY <2>1, LeastOf
  <2>3. hi \in Nat /\ \A y \in Range(f) : y <= hi
    BY <1>2, <2>1, HighestOf
  <2>4. IsFiniteSet(DOMAIN f) /\ Cardinality(DOMAIN f) = n
    <3> HIDE DEF n
    <3> QED
      BY <2>0, FS_Interval
  <2>5. t = SumOn(f, DOMAIN f)
    BY DEF Total, FoldSeq, FoldFunction, SumOn
  <2>6. t \in Int /\ lo * n <= t /\ t <= hi * n
    <3>1. \A x \in DOMAIN f : f[x] \in Int /\ lo <= f[x] /\ f[x] <= hi
      <4> HIDE DEF lo, hi, n, t
      <4> QED
        BY <2>0, <2>1, <2>2, <2>3
    <3> DEFINE d == DOMAIN f
    <3>2. IsFiniteSet(d) /\ Cardinality(d) = n /\ t = SumOn(f, d)
      BY <2>4, <2>5
    <3>3. lo \in Int /\ hi \in Int /\ \A x \in d : f[x] \in Int /\ lo <= f[x] /\ f[x] <= hi
      BY <2>2, <2>3, <3>1
    <3> HIDE DEF lo, hi, n, t, d
    <3>4. SumOn(f, d) \in Int /\ lo * Cardinality(d) <= SumOn(f, d) /\ SumOn(f, d) <= hi * Cardinality(d)
      BY <3>2, <3>3, SumBounds
    <3> QED
      BY <3>2, <3>4
  <2>7. FeeStats(f) = [low |-> lo, avg |-> q, high |-> hi]
    BY <1>2 DEF FeeStats
  <2>8. n \in Nat \ {0}
    BY <1>2
  <2> HIDE DEF n, lo, hi, t
  <2>9. n \div 2 \in Nat /\ n \div 2 < n
    BY <2>8
  <2> DEFINE a == t + (n \div 2)
  <2>10. a \in Int /\ lo * n <= a /\ a < hi * n + n
    BY <2>2, <2>3, <2>6, <2>8, <2>9
  <2>11. q \in Int /\ n * q <= a /\ a < n * q + n
    BY <2>8, <2>10, Quotient
  <2> HIDE DEF a, q
  <2>12. lo <= q
    <3> SUFFICES ASSUME q + 1 <= lo PROVE FALSE
      BY <2>2, <2>11
    <3>1. (q + 1) * n <= lo * n
      BY <2>2, <2>8, <2>11
    <3> QED
      BY <2>2, <2>8, <2>10, <2>11, <3>1
  <2>13. q <= hi
    <3> SUFFICES ASSUME hi + 1 <= q PROVE FALSE
      BY <2>3, <2>11
    <3>1. (hi + 1) * n <= q * n
      BY <2>3, <2>8, <2>11
    <3> QED
      BY <2>3, <2>8, <2>10, <2>11, <3>1
  <2> QED
    BY <2>7, <2>12, <2>13
<1> QED
  BY <1>1, <1>2

-----------------------------------------------------------------------------
LEMMA PowerOfTwo == ASSUME NEW k \in Nat PROVE 2^k \in Nat \ {0}
<1>1. IsFiniteSet(1..k) /\ Cardinality(1..k) = k
  BY FS_Interval
<1>2. IsFiniteSet(SUBSET (1..k)) /\ Cardinality(SUBSET (1..k)) = 2^k
  BY <1>1, FS_SUBSET
<1>3. SUBSET (1..k) # {}
  OBVIOUS
<1> QED
  BY <1>2, <1>3, FS_CardinalityType, FS_EmptySet

LEMMA EpochOf ==
    ASSUME NEW h \in Nat
    PROVE  /\ h \div EpochLength \in Nat
           /\ EpochLength * (h \div EpochLength) <= h /\ h < EpochLength * (h \div EpochLength) + EpochLength
<1>1. EpochLength \in Nat \ {0}
  BY RepliesConstants
<1> QED
  BY <1>1

LEMMA SubsidyType == ASSUME NEW h \in Nat PROVE Subsidy(h) \in Int
<1>1. h \div EpochLength \in Nat /\ FirstSubsidy \in Nat
  BY EpochOf, RepliesConstants
<1>2. 2^(h \div EpochLength) \in Nat \ {0}
  BY <1>1, PowerOfTwo
<1> DEFINE k == 2^(h \div EpochLength)
<1>3. FirstSubsidy \div k \in Int
  <2> HIDE DEF k
  <2>1. k \in Nat \ {0}
    BY <1>2 DEF k
  <2> QED
    BY <1>1, <2>1
<1> QED
  BY <1>3 DEF Subsidy

\* Within an epoch, and from one to a later one.
LEMMA SameEpoch ==
    ASSUME NEW h \in Nat, NEW e \in Nat, EpochLength * e <= h, h < EpochLength * e + EpochLength
    PROVE  h \div EpochLength = e
<1> DEFINE q == h \div EpochLength
           L == EpochLength
<1>1. L \in Nat \ {0}
  BY RepliesConstants
<1>2. q \in Nat /\ L * q <= h /\ h < L * q + L
  BY EpochOf
<1> HIDE DEF q, L
<1>3. ~(q < e)
  <2> SUFFICES ASSUME q + 1 <= e PROVE FALSE
    BY <1>2
  <2>1. L * (q + 1) <= L * e
    BY <1>1, <1>2
  <2> QED
    BY <1>1, <1>2, <2>1 DEF L
<1>4. ~(e < q)
  <2> SUFFICES ASSUME e + 1 <= q PROVE FALSE
    BY <1>2
  <2>1. L * (e + 1) <= L * q
    BY <1>1, <1>2
  <2> QED
    BY <1>1, <1>2, <2>1 DEF L
<1>5. q = e
  BY <1>2, <1>3, <1>4
<1> QED
  BY <1>5 DEF q

LEMMA LaterEpoch ==
    ASSUME NEW e \in Nat, NEW d \in Nat, e < d
    PROVE  e * EpochLength + EpochLength <= d * EpochLength
<1>1. EpochLength \in Nat \ {0}
  BY RepliesConstants
<1>2. (e + 1) * EpochLength <= d * EpochLength
  BY <1>1
<1> QED
  BY <1>1, <1>2

\* The two sums of the supply, as sums of a function's values.
Subsidies == [h \in Nat |-> Subsidy(h)]
EpochSums(h) == [e \in Nat |-> EpochSum(e, h)]

LEMMA SubsidiesSum ==
    ASSUME NEW S \in SUBSET Nat, IsFiniteSet(S)
    PROVE  MapThenSumSet(Subsidy, S) = SumOn(Subsidies, S)
<1> DEFINE F(it) == [s \in SUBSET S |-> IF s = {} THEN 0 ELSE Subsidy(CHOOSE x \in s : TRUE) + it[s \ {CHOOSE x \in s : TRUE}]]
           G(it) == [s \in SUBSET S |-> IF s = {} THEN 0 ELSE Subsidies[Chosen(s)] + it[s \ {Chosen(s)}]]
           jt == CHOOSE it : it = F(it)
<1>1. ASSUME NEW it PROVE F(it) = G(it)
  <2>1. ASSUME NEW s \in SUBSET S, s # {} PROVE Subsidy(CHOOSE x \in s : TRUE) = Subsidies[Chosen(s)]
    <3>1. Chosen(s) \in Nat
      BY <2>1, ChosenIn
    <3> QED
      BY <3>1 DEF Subsidies, Chosen
  <2> QED
    BY <2>1 DEF Chosen
<1>2. \E it : it = F(it)
  <2>1. PICK i : Adds(i, Subsidies, S)
    BY AddsExists
  <2>2. i = G(i)
    BY <2>1 DEF Adds
  <2>3. i = F(i)
    BY <1>1, <2>2
  <2> HIDE DEF F
  <2> QED
    BY <2>3
<1>3. jt = F(jt)
  BY <1>2
<1>4. Adds(jt, Subsidies, S)
  BY <1>1, <1>3 DEF Adds
<1>5. MapThenSumSet(Subsidy, S) = jt[S]
  BY DEF MapThenSumSet, MapThenFoldSet
<1>6. PICK it : Adds(it, Subsidies, S) /\ SumOn(Subsidies, S) = it[S]
  BY SumIs
<1> HIDE DEF jt
<1> QED
  BY <1>4, <1>5, <1>6, AddsAgree

LEMMA EpochsSum ==
    ASSUME NEW h, NEW S \in SUBSET Nat, IsFiniteSet(S)
    PROVE  MapThenSumSet(LAMBDA e : EpochSum(e, h), S) = SumOn(EpochSums(h), S)
<1> DEFINE F(it) == [s \in SUBSET S |-> IF s = {} THEN 0 ELSE EpochSum(CHOOSE x \in s : TRUE, h) + it[s \ {CHOOSE x \in s : TRUE}]]
           G(it) == [s \in SUBSET S |-> IF s = {} THEN 0 ELSE EpochSums(h)[Chosen(s)] + it[s \ {Chosen(s)}]]
           jt == CHOOSE it : it = F(it)
<1>1. ASSUME NEW it PROVE F(it) = G(it)
  <2>1. ASSUME NEW s \in SUBSET S, s # {} PROVE EpochSum(CHOOSE x \in s : TRUE, h) = EpochSums(h)[Chosen(s)]
    <3>1. Chosen(s) \in Nat
      BY <2>1, ChosenIn
    <3> QED
      BY <3>1 DEF EpochSums, Chosen
  <2> QED
    BY <2>1 DEF Chosen
<1>2. \E it : it = F(it)
  <2>1. PICK i : Adds(i, EpochSums(h), S)
    BY AddsExists
  <2>2. i = G(i)
    BY <2>1 DEF Adds
  <2>3. i = F(i)
    BY <1>1, <2>2
  <2> HIDE DEF F
  <2> QED
    BY <2>3
<1>3. jt = F(jt)
  BY <1>2
<1>4. Adds(jt, EpochSums(h), S)
  BY <1>1, <1>3 DEF Adds
<1>5. MapThenSumSet(LAMBDA e : EpochSum(e, h), S) = jt[S]
  BY DEF MapThenSumSet, MapThenFoldSet
<1>6. PICK it : Adds(it, EpochSums(h), S) /\ SumOn(EpochSums(h), S) = it[S]
  BY SumIs
<1> HIDE DEF jt
<1> QED
  BY <1>4, <1>5, <1>6, AddsAgree

LEMMA EpochSumInt == ASSUME NEW e \in Nat, NEW h \in Int PROVE EpochSum(e, h) \in Int
<1>1. EpochLength \in Nat /\ e * EpochLength \in Nat
  BY RepliesConstants
<1>2. Subsidy(e * EpochLength) \in Int
  BY <1>1, SubsidyType
<1> DEFINE s == e * EpochLength
           end == IF s + EpochLength - 1 > h THEN h ELSE s + EpochLength - 1
           u == Subsidy(s)
<1>3. end - s + 1 \in Int /\ u \in Int
  BY <1>1, <1>2
<1>4. EpochSum(e, h) = (end - s + 1) * u
  BY DEF EpochSum
<1> HIDE DEF end, s, u
<1>5. (end - s + 1) * u \in Int
  BY <1>3
<1> QED
  BY <1>4, <1>5

EpochsUpTo(h) == {e \in 0..(Epochs - 1) : e * EpochLength <= h}

\* Of the epochs before it a block's own changes nothing.
LEMMA EarlierEpochs ==
    ASSUME NEW n \in Nat, NEW k \in Nat, k * EpochLength <= n
    PROVE  SumOn(EpochSums(n), 0..(k - 1)) = SumOn(EpochSums(n - 1), 0..(k - 1))
<1>1. ASSUME NEW e \in 0..(k - 1) PROVE EpochSums(n)[e] = EpochSums(n - 1)[e]
  <2>1. e \in Nat /\ e < k
    OBVIOUS
  <2>2. e * EpochLength + EpochLength <= k * EpochLength
    BY <2>1, LaterEpoch
  <2> DEFINE s == e * EpochLength
             L == EpochLength
             m == k * EpochLength
  <2>3. s \in Nat /\ L \in Nat /\ m \in Nat /\ s + L <= m /\ m <= n
    BY <2>1, <2>2, RepliesConstants
  <2> HIDE DEF s, L, m
  <2>4. ~(s + L - 1 > n) /\ ~(s + L - 1 > n - 1)
    BY <2>3
  <2>5. EpochSum(e, n) = EpochSum(e, n - 1)
    BY <2>4 DEF EpochSum, s, L
  <2> QED
    BY <2>1, <2>5 DEF EpochSums
<1>2. IsFiniteSet(0..(k - 1))
  BY FS_Interval
<1> QED
  BY <1>1, <1>2, SumSame

\* One more block, and its subsidy.
LEMMA SupplyStep ==
    ASSUME NEW n \in Nat
    PROVE  CirculatingSupply(n) = CirculatingSupply(n - 1) + Subsidy(n)
<1> DEFINE k == n \div EpochLength
           L == EpochLength
           s == k * L
<1>1. k \in Nat /\ L \in Nat \ {0} /\ s \in Nat /\ s <= n /\ n < s + L /\ Epochs \in Nat
  <2>1. k \in Nat /\ L * k <= n /\ n < L * k + L
    BY EpochOf
  <2>2. L \in Nat \ {0} /\ Epochs \in Nat
    BY RepliesConstants
  <2> HIDE DEF k, L
  <2>3. L * k = k * L /\ k * L \in Nat
    BY <2>1, <2>2
  <2> QED
    BY <2>1, <2>2, <2>3
<1> HIDE DEF k, L, s
<1>2. \A h \in Int : CirculatingSupply(h) = SumOn(EpochSums(h), EpochsUpTo(h))
  <2> SUFFICES ASSUME NEW h \in Int PROVE CirculatingSupply(h) = SumOn(EpochSums(h), EpochsUpTo(h))
    OBVIOUS
  <2>1. EpochsUpTo(h) \in SUBSET Nat /\ IsFiniteSet(EpochsUpTo(h))
    <3>1. IsFiniteSet(0..(Epochs - 1)) /\ EpochsUpTo(h) \subseteq 0..(Epochs - 1)
      BY <1>1, FS_Interval DEF EpochsUpTo
    <3> QED
      BY <1>1, <3>1, FS_Subset
  <2>2. MapThenSumSet(LAMBDA e : EpochSum(e, h), EpochsUpTo(h)) = SumOn(EpochSums(h), EpochsUpTo(h))
    BY <2>1, EpochsSum
  <2> QED
    BY <2>2 DEF CirculatingSupply, EpochsUpTo
<1>3. \A e \in Nat : (e < k => e * EpochLength <= n - 1) /\ (e > k => ~(e * EpochLength <= n))
  <2> SUFFICES ASSUME NEW e \in Nat
               PROVE  (e < k => e * EpochLength <= n - 1) /\ (e > k => ~(e * EpochLength <= n))
    OBVIOUS
  <2>1. ASSUME e < k PROVE e * EpochLength <= n - 1
    <3>1. e * EpochLength + EpochLength <= s
      BY <1>1, <2>1, LaterEpoch DEF s, L
    <3>2. e * EpochLength \in Nat
      BY <1>1 DEF L
    <3> QED
      BY <1>1, <3>1, <3>2 DEF L
  <2>2. ASSUME e > k PROVE ~(e * EpochLength <= n)
    <3>1. s + EpochLength <= e * EpochLength
      BY <1>1, <2>2, LaterEpoch DEF s, L
    <3>2. e * EpochLength \in Nat
      BY <1>1 DEF L
    <3> QED
      BY <1>1, <3>1, <3>2 DEF L
  <2> QED
    BY <2>1, <2>2
<1>4. \A h \in Int : \A e \in Nat : EpochSums(h)[e] = EpochSum(e, h) /\ EpochSum(e, h) \in Int
  BY EpochSumInt DEF EpochSums
<1>5. n - 1 \in Int /\ n \in Int
  OBVIOUS
<1>6. CASE k >= Epochs
  <2>1. \A e \in 0..(Epochs - 1) : e \in Nat /\ e < k
    BY <1>1, <1>6
  <2>2. EpochsUpTo(n) = 0..(Epochs - 1) /\ EpochsUpTo(n - 1) = 0..(Epochs - 1)
    <3>1. \A e \in 0..(Epochs - 1) : e * EpochLength <= n - 1 /\ e * EpochLength <= n
      <4> SUFFICES ASSUME NEW e \in 0..(Epochs - 1) PROVE e * EpochLength <= n - 1 /\ e * EpochLength <= n
        OBVIOUS
      <4>1. e * EpochLength <= n - 1 /\ e * EpochLength \in Int
        BY <1>1, <1>3, <2>1 DEF L
      <4> QED
        BY <4>1
    <3> QED
      BY <3>1 DEF EpochsUpTo
  <2>3. Epochs * EpochLength <= n
    <3>1. Epochs * L <= k * L
      BY <1>1, <1>6
    <3> QED
      BY <1>1, <3>1 DEF s, L
  <2>4. SumOn(EpochSums(n), 0..(Epochs - 1)) = SumOn(EpochSums(n - 1), 0..(Epochs - 1))
    BY <1>1, <2>3, EarlierEpochs
  <2>5. SumOn(EpochSums(n - 1), 0..(Epochs - 1)) \in Int
    <3>1. IsFiniteSet(0..(Epochs - 1))
      BY <1>1, FS_Interval
    <3>2. \A e \in 0..(Epochs - 1) : EpochSums(n - 1)[e] \in Int
      BY <1>4, <1>5, <2>1
    <3> QED
      BY <3>1, <3>2, SumInt
  <2>6. Subsidy(n) = 0
    BY <1>6 DEF Subsidy, k
  <2> QED
    BY <1>2, <1>5, <2>2, <2>4, <2>5, <2>6
<1>7. CASE k < Epochs
  <2> DEFINE T == 0..(k - 1)
             a == SumOn(EpochSums(n - 1), T)
  <2>1. IsFiniteSet(T) /\ k \notin T /\ T \cup {k} \subseteq Nat
    BY <1>1, FS_Interval
  <2>2. SumOn(EpochSums(n), T) = a
    BY <1>1, EarlierEpochs DEF s, L
  <2>3. a \in Int
    <3>1. \A e \in T : EpochSums(n - 1)[e] \in Int
      BY <1>4, <1>5, <2>1
    <3> QED
      BY <2>1, <3>1, SumInt
  <2>4. EpochsUpTo(n) = T \cup {k}
    <3>1. \A e \in 0..(Epochs - 1) : e * EpochLength <= n <=> e \in T \cup {k}
      <4> SUFFICES ASSUME NEW e \in 0..(Epochs - 1) PROVE e * EpochLength <= n <=> e \in T \cup {k}
        OBVIOUS
      <4>1. e \in Nat /\ e * EpochLength \in Int
        BY <1>1 DEF L
      <4>2. k * EpochLength <= n
        BY <1>1 DEF s, L
      <4>3. CASE e < k
        BY <1>1, <1>3, <4>1, <4>3
      <4>4. CASE e = k
        BY <4>2, <4>4
      <4>5. CASE e > k
        BY <1>1, <1>3, <4>1, <4>5
      <4> QED
        BY <1>1, <4>1, <4>3, <4>4, <4>5
    <3>2. T \cup {k} \subseteq 0..(Epochs - 1)
      BY <1>1, <1>7
    <3> HIDE DEF T
    <3> QED
      BY <3>1, <3>2 DEF EpochsUpTo
  <2>5. SumOn(EpochSums(n), T \cup {k}) = EpochSum(k, n) + a
    <3>1. \A e \in T \cup {k} : EpochSums(n)[e] \in Int
      BY <1>4, <1>5, <2>1
    <3>2. EpochSums(n)[k] = EpochSum(k, n)
      BY <1>1, <1>4, <1>5
    <3> HIDE DEF T, a
    <3> QED
      BY <2>1, <2>2, <3>1, <3>2, SumWith
  <2> DEFINE u == Subsidy(s)
  <2>6. u = Subsidy(n) /\ u \in Int
    <3>1. s \div EpochLength = k
      <4>1. L * k = s
        BY <1>1 DEF s
      <4> QED
        BY <1>1, <4>1, SameEpoch DEF L
    <3> QED
      BY <1>1, <3>1, SubsidyType DEF Subsidy, k
  <2>7. EpochSum(k, n) = (n - s + 1) * u
    <3>1. s + L - 1 > n \/ s + L - 1 = n
      BY <1>1
    <3> QED
      BY <3>1 DEF EpochSum, s, L
  <2>8. CASE s = n
    <3>1. EpochsUpTo(n - 1) = T
      <4>1. \A e \in 0..(Epochs - 1) : e * EpochLength <= n - 1 <=> e \in T
        <5> SUFFICES ASSUME NEW e \in 0..(Epochs - 1) PROVE e * EpochLength <= n - 1 <=> e \in T
          OBVIOUS
        <5>1. e \in Nat /\ e * EpochLength \in Int
          BY <1>1 DEF L
        <5>2. CASE e < k
          BY <1>1, <1>3, <5>1, <5>2
        <5>3. CASE e = k
          <6>1. e * EpochLength = n
            BY <2>8, <5>3 DEF s, L
          <6> QED
            BY <5>3, <6>1
        <5>4. CASE e > k
          <6>1. ~(e * EpochLength <= n)
            BY <1>3, <5>1, <5>4
          <6> QED
            BY <1>1, <5>1, <5>4, <6>1
        <5> QED
          BY <1>1, <5>1, <5>2, <5>3, <5>4
      <4>2. T \subseteq 0..(Epochs - 1)
        BY <1>1, <1>7
      <4> HIDE DEF T
      <4> QED
        BY <4>1, <4>2 DEF EpochsUpTo
    <3>2. EpochSum(k, n) = u
      <4> HIDE DEF u
      <4>1. n - s + 1 = 1
        BY <1>1, <2>8
      <4> QED
        BY <2>6, <2>7, <4>1
    <3>3. CirculatingSupply(n) = u + a
      <4> HIDE DEF a, T, u
      <4> QED
        BY <1>2, <1>5, <2>4, <2>5, <3>2
    <3>4. CirculatingSupply(n - 1) = a
      BY <1>2, <1>5, <3>1
    <3> HIDE DEF a, T, u
    <3> QED
      BY <2>3, <2>6, <3>3, <3>4
  <2>9. CASE s < n
    <3>1. EpochsUpTo(n - 1) = T \cup {k}
      <4>1. \A e \in 0..(Epochs - 1) : e * EpochLength <= n - 1 <=> e \in T \cup {k}
        <5> SUFFICES ASSUME NEW e \in 0..(Epochs - 1) PROVE e * EpochLength <= n - 1 <=> e \in T \cup {k}
          OBVIOUS
        <5>1. e \in Nat /\ e * EpochLength \in Int
          BY <1>1 DEF L
        <5>2. CASE e < k
          BY <1>1, <1>3, <5>1, <5>2
        <5>3. CASE e = k
          <6>1. e * EpochLength = s
            BY <5>3 DEF s, L
          <6> QED
            BY <1>1, <2>9, <5>3, <6>1
        <5>4. CASE e > k
          <6>1. ~(e * EpochLength <= n)
            BY <1>3, <5>1, <5>4
          <6> QED
            BY <1>1, <5>1, <5>4, <6>1
        <5> QED
          BY <1>1, <5>1, <5>2, <5>3, <5>4
      <4>2. T \cup {k} \subseteq 0..(Epochs - 1)
        BY <1>1, <1>7
      <4> HIDE DEF T
      <4> QED
        BY <4>1, <4>2 DEF EpochsUpTo
    <3>2. SumOn(EpochSums(n - 1), T \cup {k}) = EpochSum(k, n - 1) + a
      <4>1. \A e \in T \cup {k} : EpochSums(n - 1)[e] \in Int
        BY <1>4, <1>5, <2>1
      <4>2. EpochSums(n - 1)[k] = EpochSum(k, n - 1)
        BY <1>1, <1>4, <1>5
      <4> HIDE DEF T
      <4> QED
        BY <2>1, <4>1, <4>2, SumWith
    <3>3. EpochSum(k, n - 1) = (n - 1 - s + 1) * u
      <4>1. s + L - 1 > n - 1
        BY <1>1
      <4> QED
        BY <4>1 DEF EpochSum, s, L
    <3> DEFINE d == n - s
    <3>4. EpochSum(k, n) = EpochSum(k, n - 1) + u
      <4>1. n - s + 1 = d + 1 /\ n - 1 - s + 1 = d /\ d \in Int
        BY <1>1
      <4> HIDE DEF d, u
      <4>2. (d + 1) * u = d * u + u
        BY <2>6, <4>1
      <4> QED
        BY <2>7, <3>3, <4>1, <4>2
    <3>5. EpochSum(k, n - 1) \in Int
      BY <1>1, <1>4, <1>5
    <3> DEFINE x == EpochSum(k, n - 1)
    <3>6. /\ CirculatingSupply(n) = x + u + a /\ CirculatingSupply(n - 1) = x + a
          /\ x \in Int /\ u \in Int /\ a \in Int /\ u = Subsidy(n)
      <4> HIDE DEF T, a, u
      <4> QED
        BY <1>2, <1>5, <2>3, <2>4, <2>5, <2>6, <3>1, <3>2, <3>4, <3>5
    <3> HIDE DEF x, u, a
    <3> QED
      BY <3>6
  <2> QED
    BY <1>1, <2>8, <2>9
<1> QED
  BY <1>1, <1>6, <1>7

\* The supply computed epoch by epoch is the sum of the subsidies, block by block.
LEMMA SupplyIsSum ==
    ASSUME NEW h \in Nat
    PROVE  CirculatingSupply(h) = MapThenSumSet(Subsidy, 0..h)
<1> DEFINE N == {n \in Nat : CirculatingSupply(n - 1) = SumOn(Subsidies, 0..(n - 1))}
<1>1. 0 \in N
  <2>1. EpochsUpTo(0 - 1) = {}
    <3>1. \A e \in 0..(Epochs - 1) : ~(e * EpochLength <= 0 - 1)
      <4> SUFFICES ASSUME NEW e \in 0..(Epochs - 1) PROVE e * EpochLength \in Nat
        OBVIOUS
      <4> QED
        BY RepliesConstants
    <3> QED
      BY <3>1 DEF EpochsUpTo
  <2>2. MapThenSumSet(LAMBDA e : EpochSum(e, 0 - 1), EpochsUpTo(0 - 1)) = SumOn(EpochSums(0 - 1), EpochsUpTo(0 - 1))
    BY <2>1, EpochsSum, FS_EmptySet
  <2>3. CirculatingSupply(0 - 1) = 0
    BY <2>1, <2>2, SumEmpty DEF CirculatingSupply, EpochsUpTo
  <2>4. 0..(0 - 1) = {}
    OBVIOUS
  <2> QED
    BY <2>3, <2>4, SumEmpty
<1>2. ASSUME NEW n \in N PROVE n + 1 \in N
  <2>1. n \in Nat /\ (n + 1) - 1 = n
    OBVIOUS
  <2>2. CirculatingSupply(n) = CirculatingSupply(n - 1) + Subsidy(n)
    BY <2>1, SupplyStep
  <2>3. 0..n = (0..(n - 1)) \cup {n} /\ n \notin 0..(n - 1) /\ IsFiniteSet(0..(n - 1)) /\ 0..n \subseteq Nat
    BY <2>1, FS_Interval
  <2>4. \A i \in Nat : Subsidies[i] = Subsidy(i) /\ Subsidies[i] \in Int
    BY SubsidyType DEF Subsidies
  <2>5. SumOn(Subsidies, (0..(n - 1)) \cup {n}) = Subsidies[n] + SumOn(Subsidies, 0..(n - 1))
    <3> DEFINE S == 0..(n - 1)
    <3>1. IsFiniteSet(S) /\ n \notin S /\ \A y \in S \cup {n} : Subsidies[y] \in Int
      BY <2>3, <2>4
    <3> HIDE DEF S
    <3>2. SumOn(Subsidies, S \cup {n}) = Subsidies[n] + SumOn(Subsidies, S)
      BY <3>1, SumWith
    <3> QED
      BY <3>2 DEF S
  <2>6. SumOn(Subsidies, 0..(n - 1)) \in Int
    <3>1. \A y \in 0..(n - 1) : Subsidies[y] \in Int
      BY <2>3, <2>4
    <3> QED
      BY <2>3, <3>1, SumInt
  <2>7. CirculatingSupply(n - 1) = SumOn(Subsidies, 0..(n - 1))
    OBVIOUS
  <2>8. SumOn(Subsidies, 0..n) = Subsidy(n) + SumOn(Subsidies, 0..(n - 1)) /\ Subsidy(n) \in Int
    BY <2>1, <2>3, <2>4, <2>5
  <2>9. CirculatingSupply(n) = SumOn(Subsidies, 0..n)
    <3> HIDE DEF N
    <3> QED
      BY <2>2, <2>6, <2>7, <2>8
  <2> QED
    BY <2>1, <2>9
<1>3. N = Nat
  <2> HIDE DEF N
  <2>1. N \in SUBSET Nat
    BY DEF N
  <2> QED
    BY <1>1, <1>2, <2>1, EveryNumber
<1>4. h + 1 \in N /\ (h + 1) - 1 = h
  <2> HIDE DEF N
  <2> QED
    BY <1>3
<1>5. CirculatingSupply(h) = SumOn(Subsidies, 0..h)
  BY <1>4
<1>6. 0..h \in SUBSET Nat /\ IsFiniteSet(0..h)
  BY FS_Interval
<1> QED
  BY <1>5, <1>6, SubsidiesSum

-----------------------------------------------------------------------------
(* A lookup over the node's calls.                                         *)

BlocksKnown == [height : Nat, fork : Nat, fees : Seq(Nat)]
HashQuestions == [kind : {"hash"}, block : BlocksKnown]
HeightQuestions == [kind : {"height"}, height : Nat]
TxQuestions == [kind : {"tx"}]
BlockQuestions == HashQuestions \cup HeightQuestions
BlockStages == {"classify", "load", "hash", "compute"}
TxStages == {"raw", "prevouts", "header"}

\* Both are by height, and a block is never of a fork to come.
NodeTypes == forks \in Nat /\ unrolled \in BOOLEAN /\ place \in Int
InPlace(s) == s \in Seq(BlocksKnown) /\ \A h \in 1..Len(s) : s[h].height = h /\ s[h].fork <= forks

\* Until a block is disconnected, and after that is told, the rows are the chain's.
RowsOfChain == ~unrolled => Len(rows) <= Len(chain) /\ \A i \in 1..Len(rows) : rows[i] = chain[i]

\* A block that is off the chain is of an earlier fork, and does not return to it.
OnOrBefore(b) == b \in Range(chain) \/ b.fork < forks
AskedOfChain == question \in HashQuestions => OnOrBefore(question.block)

\* What is looked up is what was asked for.
LookupTypes ==
    /\ stage \in BlockStages \cup TxStages \cup {"idle"}
    /\ stage \in BlockStages => question \in BlockQuestions
    /\ stage = "classify" => question \in HashQuestions
    /\ stage \in TxStages => question \in TxQuestions

\* A block that was found at its height, when the table or the node had it from the chain.
FoundOf(b) ==
    /\ b.height = HeightAsked(question)
    /\ question \in HashQuestions /\ question.block \in Range(chain) => b = question.block
ComputedOf == stage = "compute" => local[1] \in BlocksKnown /\ FoundOf(local[1])

SaidOf ==
    \A i \in DOMAIN said :
        /\ said[i].is = "tx" => OfOneTx(said[i])
        /\ said[i].is = "block" =>
            /\ question \in BlockQuestions
            /\ \E b \in BlocksKnown : said[i].figures = Compute(b)
            /\ said[i].figures.block.height = HeightAsked(question)
            /\ ~said[i].stale => FoundOf(said[i].figures.block)

ReplyInv ==
    /\ NodeTypes /\ InPlace(chain) /\ InPlace(rows) /\ RowsOfChain
    /\ AskedOfChain /\ LookupTypes /\ ComputedOf /\ SaidOf

LEMMA ReplyInitOK == RepliesInit => ReplyInv
<1> SUFFICES ASSUME RepliesInit PROVE ReplyInv
  OBVIOUS
<1>1. PICK f \in BlockFees : chain = <<[height |-> 1, fork |-> 0, fees |-> f]>>
  BY DEF RepliesInit
<1>2. f \in Seq(Nat)
  BY RepliesConstants
<1>3. [height |-> 1, fork |-> 0, fees |-> f] \in BlocksKnown
  BY <1>2 DEF BlocksKnown
<1>4. InPlace(chain)
  <2> DEFINE b1 == [height |-> 1, fork |-> 0, fees |-> f]
  <2>1. b1 \in BlocksKnown /\ b1.height = 1 /\ b1.fork = 0 /\ chain = <<b1>> /\ forks = 0
    BY <1>1, <1>3 DEF RepliesInit
  <2> HIDE DEF b1
  <2> QED
    BY <2>1 DEF InPlace
<1>5. InPlace(rows) /\ NodeTypes /\ RowsOfChain
  <2>1. rows = <<>> /\ rows \in Seq(BlocksKnown) /\ Len(rows) = 0 /\ Len(chain) \in Nat
    BY <1>4 DEF RepliesInit, InPlace
  <2>2. NodeTypes
    <3>1. unrolled \in BOOLEAN
      BY Zenon DEF RepliesInit
    <3>2. forks \in Nat /\ place \in Int
      BY DEF RepliesInit, Mempool
    <3> QED
      BY <3>1, <3>2 DEF NodeTypes
  <2> QED
    BY <2>1, <2>2 DEF InPlace, RowsOfChain
<1>6. question \notin HashQuestions
  <2>1. question = <<>>
    BY DEF RepliesInit
  <2>2. ASSUME question \in HashQuestions PROVE FALSE
    <3>1. DOMAIN question = {"kind", "block"}
      BY <2>2 DEF HashQuestions
    <3>2. DOMAIN question = 1..0
      BY <2>1
    <3> QED
      BY <3>1, <3>2
  <2> QED
    BY <2>2
<1>7. AskedOfChain /\ LookupTypes /\ ComputedOf /\ SaidOf
  BY <1>6 DEF RepliesInit, AskedOfChain, LookupTypes, ComputedOf, SaidOf, BlockStages, TxStages
<1> QED
  BY <1>4, <1>5, <1>7 DEF ReplyInv

\* What the lookup has found stays so as the node's chain changes under it.
LEMMA FoundStays ==
    ASSUME ReplyInv, UNCHANGED lookVars, NodeTypes', InPlace(chain)', InPlace(rows)', RowsOfChain',
           \A b \in BlocksKnown : OnOrBefore(b) => OnOrBefore(b)' /\ (b \in Range(chain)' => b \in Range(chain))
    PROVE  ReplyInv'
<1> USE DEF ReplyInv, lookVars
<1>1. AskedOfChain'
  BY DEF AskedOfChain, HashQuestions
<1>2. LookupTypes'
  BY DEF LookupTypes
<1>3. question \in HashQuestions /\ question.block \in Range(chain)' => question.block \in Range(chain)
  BY DEF AskedOfChain, HashQuestions
<1>4. ASSUME NEW b, FoundOf(b) PROVE FoundOf(b)'
  BY <1>3, <1>4 DEF FoundOf, HeightAsked
<1>5. ComputedOf'
  BY <1>4 DEF ComputedOf
<1>6. SaidOf'
  BY <1>4 DEF SaidOf, OfOneTx, HeightAsked
<1> QED
  BY <1>1, <1>2, <1>5, <1>6

LEMMA MineKeeps == ReplyInv /\ Mine1 => ReplyInv'
<1> SUFFICES ASSUME ReplyInv, Mine1 PROVE ReplyInv'
  OBVIOUS
<1>1. PICK f \in BlockFees : chain' = Append(chain, [height |-> Len(chain) + 1, fork |-> forks, fees |-> f])
  BY DEF Mine1
<1> DEFINE b1 == [height |-> Len(chain) + 1, fork |-> forks, fees |-> f]
<1>2. chain \in Seq(BlocksKnown) /\ forks \in Nat /\ forks' = forks /\ rows' = rows /\ unrolled' = unrolled
  BY DEF ReplyInv, InPlace, NodeTypes, Mine1, rowVars1
<1>3. f \in Seq(Nat)
  BY RepliesConstants
<1>4. b1 \in BlocksKnown /\ b1.height = Len(chain) + 1 /\ b1.fork = forks
  BY <1>2, <1>3 DEF BlocksKnown
<1>5. chain' = Append(chain, b1)
  BY <1>1
<1> HIDE DEF b1
<1>6. /\ chain' \in Seq(BlocksKnown) /\ Len(chain') = Len(chain) + 1 /\ Len(chain) \in Nat
      /\ \A h \in 1..Len(chain) : chain'[h] = chain[h]
      /\ chain'[Len(chain) + 1] = b1
  BY <1>2, <1>4, <1>5
<1>7. InPlace(chain)' /\ InPlace(rows)'
  BY <1>2, <1>4, <1>6 DEF ReplyInv, InPlace
<1>8. RowsOfChain'
  BY <1>2, <1>6 DEF ReplyInv, InPlace, RowsOfChain
<1>9. NodeTypes'
  <2>1. place' \in Int
    BY <1>2 DEF ReplyInv, NodeTypes, Mine1, Mempool
  <2> QED
    BY <1>2, <2>1 DEF ReplyInv, NodeTypes
<1>10. ASSUME NEW b \in BlocksKnown, OnOrBefore(b)
       PROVE  OnOrBefore(b)' /\ (b \in Range(chain)' => b \in Range(chain))
  <2>1. b \in Range(chain) => b \in Range(chain)'
    BY <1>2, <1>6 DEF Range
  <2>2. b \in Range(chain)' => b \in Range(chain) \/ b = b1
    BY <1>2, <1>6 DEF Range
  <2>3. b.fork < forks => b # b1
    BY <1>2, <1>4
  <2> QED
    BY <1>2, <1>10, <2>1, <2>2, <2>3 DEF OnOrBefore
<1> QED
  BY <1>7, <1>8, <1>9, <1>10, FoundStays DEF Mine1

LEMMA ReorgKeeps == ReplyInv /\ Reorg1 => ReplyInv'
<1> SUFFICES ASSUME ReplyInv, Reorg1 PROVE ReplyInv'
  OBVIOUS
<1>1. /\ chain \in Seq(BlocksKnown) /\ forks \in Nat /\ forks' = forks + 1 /\ rows' = rows
      /\ rows \in Seq(BlocksKnown) /\ unrolled' = TRUE /\ Len(chain) > 1 /\ chain' = Front(chain)
  BY DEF ReplyInv, InPlace, NodeTypes, Reorg1
<1>2. /\ chain' \in Seq(BlocksKnown) /\ Len(chain') = Len(chain) - 1
      /\ \A h \in 1..(Len(chain) - 1) : chain'[h] = chain[h]
  BY <1>1 DEF Front
<1>3. InPlace(chain)' /\ InPlace(rows)'
  <2>1. ASSUME NEW h \in 1..Len(chain') PROVE chain'[h].height = h /\ chain'[h].fork <= forks'
    <3>1. h \in 1..Len(chain) /\ chain'[h] = chain[h] /\ chain[h] \in BlocksKnown
      BY <1>1, <1>2
    <3>2. chain[h].fork \in Nat /\ chain[h].fork <= forks /\ chain[h].height = h
      BY <3>1 DEF ReplyInv, InPlace, BlocksKnown
    <3> QED
      BY <1>1, <3>1, <3>2
  <2>2. ASSUME NEW h \in 1..Len(rows) PROVE rows[h].height = h /\ rows[h].fork <= forks'
    <3>1. rows[h] \in BlocksKnown /\ rows[h].fork <= forks /\ rows[h].height = h
      BY <1>1 DEF ReplyInv, InPlace
    <3>2. rows[h].fork \in Nat
      BY <3>1 DEF BlocksKnown
    <3> QED
      BY <1>1, <3>1, <3>2
  <2> QED
    BY <1>1, <1>2, <2>1, <2>2 DEF InPlace
<1>4. RowsOfChain'
  BY <1>1 DEF RowsOfChain
<1>5. NodeTypes'
  <2>1. place' \in Int
    BY DEF ReplyInv, NodeTypes, Reorg1, Mempool
  <2> QED
    BY <1>1, <2>1 DEF NodeTypes
<1>6. ASSUME NEW b \in BlocksKnown, OnOrBefore(b)
      PROVE  OnOrBefore(b)' /\ (b \in Range(chain)' => b \in Range(chain))
  <2>1. b \in Range(chain)' => b \in Range(chain)
    <3> SUFFICES ASSUME b \in Range(chain') PROVE b \in Range(chain)
      OBVIOUS
    <3>1. PICK h \in 1..Len(chain') : chain'[h] = b
      BY <1>2 DEF Range
    <3>2. h \in DOMAIN chain /\ chain[h] = b
      BY <1>1, <1>2, <3>1
    <3> QED
      BY <3>2 DEF Range
  <2>2. b.fork <= forks /\ b.fork \in Nat
    <3>1. b.fork \in Nat
      BY DEF BlocksKnown
    <3>2. ASSUME b \in Range(chain) PROVE b.fork <= forks
      <4>1. PICK h \in 1..Len(chain) : chain[h] = b
        BY <1>1, <3>2 DEF Range
      <4> QED
        BY <4>1 DEF ReplyInv, InPlace
    <3> QED
      BY <1>1, <1>6, <3>1, <3>2 DEF OnOrBefore
  <2>3. b.fork < forks'
    BY <1>1, <2>2
  <2> QED
    BY <2>1, <2>3 DEF OnOrBefore
<1> QED
  BY <1>3, <1>4, <1>5, <1>6, FoundStays DEF Reorg1

\* The transaction's place and the table's rows are no part of what was found.
LEMMA SameChain ==
    ASSUME ReplyInv, UNCHANGED lookVars, chain' = chain, forks' = forks, place' \in Int,
           unrolled' \in BOOLEAN, InPlace(rows)', RowsOfChain'
    PROVE  ReplyInv'
<1>1. InPlace(chain)' /\ NodeTypes'
  BY DEF ReplyInv, InPlace, NodeTypes
<1>2. ASSUME NEW b \in BlocksKnown, OnOrBefore(b)
      PROVE  OnOrBefore(b)' /\ (b \in Range(chain)' => b \in Range(chain))
  BY <1>2 DEF OnOrBefore, Range
<1> QED
  BY <1>1, <1>2, FoundStays

LEMMA ReplacedKeeps == ReplyInv /\ Replaced => ReplyInv'
<1> SUFFICES ASSUME ReplyInv, Replaced PROVE ReplyInv'
  OBVIOUS
<1>1. chain' = chain /\ forks' = forks /\ rows' = rows /\ unrolled' = unrolled /\ place' \in Int
  BY DEF Replaced, rowVars1, Nowhere
<1>2. InPlace(rows)' /\ RowsOfChain' /\ unrolled' \in BOOLEAN
  BY <1>1 DEF ReplyInv, InPlace, RowsOfChain, NodeTypes
<1> QED
  BY <1>1, <1>2, SameChain DEF Replaced

LEMMA CollectKeeps == ReplyInv /\ CollectRow => ReplyInv'
<1> SUFFICES ASSUME ReplyInv, CollectRow PROVE ReplyInv'
  OBVIOUS
<1>1. /\ ~unrolled /\ Len(rows) < Len(chain) /\ rows' = Append(rows, chain[Len(rows) + 1])
      /\ chain' = chain /\ forks' = forks /\ place' = place /\ unrolled' = unrolled
  BY DEF CollectRow, nodeVars1
<1>2. /\ rows \in Seq(BlocksKnown) /\ chain \in Seq(BlocksKnown) /\ place \in Int /\ unrolled \in BOOLEAN
      /\ \A h \in 1..Len(chain) : chain[h].height = h /\ chain[h].fork <= forks
      /\ \A i \in 1..Len(rows) : rows[i] = chain[i]
  BY <1>1 DEF ReplyInv, InPlace, NodeTypes, RowsOfChain
<1> DEFINE b1 == chain[Len(rows) + 1]
<1>3. b1 \in BlocksKnown /\ rows' = Append(rows, b1)
  BY <1>1, <1>2
<1> HIDE DEF b1
<1>4. /\ rows' \in Seq(BlocksKnown) /\ Len(rows') = Len(rows) + 1 /\ Len(rows) \in Nat
      /\ \A h \in 1..Len(rows) : rows'[h] = rows[h]
      /\ rows'[Len(rows) + 1] = b1
  BY <1>2, <1>3
<1>5. \A i \in 1..Len(rows') : rows'[i] = chain[i] /\ i \in 1..Len(chain)
  BY <1>1, <1>2, <1>4 DEF b1
<1>6. InPlace(rows)' /\ RowsOfChain'
  BY <1>1, <1>2, <1>4, <1>5 DEF InPlace, RowsOfChain
<1> QED
  BY <1>1, <1>2, <1>6, SameChain DEF CollectRow

LEMMA RollbackKeeps == ReplyInv /\ RollbackRows => ReplyInv'
<1> SUFFICES ASSUME ReplyInv, RollbackRows PROVE ReplyInv'
  OBVIOUS
<1>1. PICK n \in 0..Len(rows) : rows' = SubSeq(rows, 1, n) /\ Cached1(n)
  BY DEF RollbackRows
<1>2. /\ unrolled' = FALSE /\ chain' = chain /\ forks' = forks /\ place' = place
      /\ rows \in Seq(BlocksKnown) /\ place \in Int /\ chain \in Seq(BlocksKnown)
  BY DEF RollbackRows, nodeVars1, ReplyInv, InPlace, NodeTypes
<1>3. rows' \in Seq(BlocksKnown) /\ Len(rows') = n /\ \A i \in 1..n : rows'[i] = rows[i]
  BY <1>1, <1>2
<1>4. InPlace(rows)' /\ RowsOfChain'
  BY <1>1, <1>2, <1>3 DEF ReplyInv, InPlace, RowsOfChain, Cached1
<1> QED
  BY <1>2, <1>4, SameChain DEF RollbackRows
-----------------------------------------------------------------------------
\* A step of the lookup, which changes neither the node nor the table.
LEMMA LookupStep ==
    ASSUME ReplyInv, UNCHANGED <<nodeVars1, rowVars1>>, AskedOfChain', LookupTypes', ComputedOf', SaidOf'
    PROVE  ReplyInv'
BY DEF ReplyInv, nodeVars1, rowVars1, NodeTypes, InPlace, RowsOfChain

LEMMA SameQuestion ==
    ASSUME ReplyInv, Stays, LookupTypes', ComputedOf', SaidOf'
    PROVE  ReplyInv'
<1>1. AskedOfChain'
  BY DEF ReplyInv, Stays, nodeVars1, AskedOfChain, OnOrBefore
<1> QED
  BY <1>1, LookupStep DEF Stays

LEMMA AskKeeps == ReplyInv /\ (AskTx \/ AskHeight \/ AskHash) => ReplyInv'
<1> SUFFICES ASSUME ReplyInv, AskTx \/ AskHeight \/ AskHash PROVE ReplyInv'
  OBVIOUS
<1>1. UNCHANGED <<nodeVars1, rowVars1>> /\ said' = <<>>
  BY DEF AskTx, AskHeight, AskHash, Ask2
<1>2. CASE AskTx
  <2>1. question' = [kind |-> "tx"] /\ stage' = "raw"
    BY <1>2 DEF AskTx, Ask2
  <2>2. question' \in TxQuestions /\ question' \notin HashQuestions
    BY <2>1 DEF TxQuestions, HashQuestions
  <2> QED
    BY <1>1, <2>1, <2>2, LookupStep
       DEF AskedOfChain, LookupTypes, ComputedOf, SaidOf, BlockStages, TxStages
<1>3. CASE AskHeight
  <2>1. PICK h \in 1..MaxTip : question' = [kind |-> "height", height |-> h] /\ stage' = "load"
    BY <1>3 DEF AskHeight, Ask2
  <2>2. question' \in HeightQuestions /\ question' \notin HashQuestions
    BY <2>1 DEF HeightQuestions, HashQuestions
  <2> QED
    BY <1>1, <2>1, <2>2, LookupStep
       DEF AskedOfChain, LookupTypes, ComputedOf, SaidOf, BlockQuestions, BlockStages, TxStages
<1>4. CASE AskHash
  <2>1. PICK h \in DOMAIN chain : question' = [kind |-> "hash", block |-> chain[h]] /\ stage' = "classify"
    BY <1>4 DEF AskHash, Ask2
  <2>2. chain[h] \in BlocksKnown /\ chain[h] \in Range(chain)
    BY DEF ReplyInv, InPlace, Range
  <2>3. question' \in HashQuestions /\ question'.block = chain[h]
    BY <2>1, <2>2 DEF HashQuestions
  <2>4. AskedOfChain'
    BY <1>1, <2>2, <2>3 DEF AskedOfChain, OnOrBefore, nodeVars1
  <2> QED
    BY <1>1, <2>1, <2>3, <2>4, LookupStep
       DEF LookupTypes, ComputedOf, SaidOf, BlockQuestions, BlockStages, TxStages
<1> QED
  BY <1>2, <1>3, <1>4

LEMMA ClassifyKeeps == ReplyInv /\ Classify => ReplyInv'
<1> SUFFICES ASSUME ReplyInv, Classify PROVE ReplyInv'
  OBVIOUS
<1>1. Stays /\ stage = "classify" /\ stage' \in {"load", "idle"}
  BY DEF Classify, Goes, Fails
<1>2. LookupTypes' /\ ComputedOf'
  BY <1>1 DEF ReplyInv, Stays, LookupTypes, ComputedOf, BlockStages, TxStages
<1>3. SaidOf'
  <2>1. CASE Goes("load")
    BY <1>1, <2>1 DEF ReplyInv, Goes, Stays, nodeVars1, SaidOf, OfOneTx, FoundOf, HeightAsked
  <2>2. CASE Fails("address")
    BY <2>2 DEF Fails, SaidOf
  <2> QED
    BY <2>1, <2>2 DEF Classify
<1> QED
  BY <1>1, <1>2, <1>3, SameQuestion

\* A row's or the node's block of the height is the one that is there.
LEMMA AtItsHeight ==
    ASSUME ReplyInv, stage \in BlockStages, NEW b, b.height = HeightAsked(question),
           HeightAsked(question) \in DOMAIN chain => b = chain[HeightAsked(question)]
    PROVE  FoundOf(b)
<1> SUFFICES ASSUME question \in HashQuestions, question.block \in Range(chain)
             PROVE  b = question.block
  BY DEF FoundOf
<1>1. PICK h \in DOMAIN chain : chain[h] = question.block
  BY DEF Range
<1>2. h = question.block.height
  BY <1>1 DEF ReplyInv, InPlace
<1>3. HeightAsked(question) = h
  BY <1>2 DEF HeightAsked, HashQuestions
<1> QED
  BY <1>1, <1>3

\* The question's height in the state after a step that keeps the question.
LEMMA SaysBlock ==
    ASSUME ReplyInv, Stays, stage \in BlockStages, NEW b \in BlocksKnown, NEW stale,
           b.height = HeightAsked(question), ~stale => FoundOf(b), said' = <<BlockReply(b, stale)>>
    PROVE  SaidOf'
<1>1. question' = question /\ chain' = chain
  BY DEF Stays, nodeVars1
<1>2. /\ said'[1].is = "block" /\ said'[1].figures = Compute(b) /\ Compute(b).block = b
      /\ said'[1].stale = stale
  BY DEF BlockReply, Compute
<1>3. DOMAIN said' = {1}
  OBVIOUS
<1>4. question \in BlockQuestions
  BY DEF ReplyInv, LookupTypes
<1> QED
  BY <1>1, <1>2, <1>3, <1>4 DEF SaidOf, FoundOf, HeightAsked

LEMMA LoadKeeps == ReplyInv /\ LoadRow => ReplyInv'
<1> SUFFICES ASSUME ReplyInv, LoadRow PROVE ReplyInv'
  OBVIOUS
<1> DEFINE h == HeightAsked(question)
<1>1. Stays /\ stage = "load" /\ stage' \in {"hash", "idle"}
  BY DEF LoadRow, Goes, Says
<1>2. LookupTypes' /\ ComputedOf'
  BY <1>1 DEF ReplyInv, Stays, LookupTypes, ComputedOf, BlockStages, TxStages
<1>3. CASE h \in DOMAIN rows
  <2>1. said' = <<BlockReply(rows[h], unrolled)>>
    BY <1>3 DEF LoadRow, Says
  <2>2. rows[h].height = HeightAsked(question) /\ h \in 1..Len(rows) /\ rows[h] \in BlocksKnown
    BY <1>3 DEF ReplyInv, InPlace
  <2>3. ~unrolled => rows[h] = chain[h]
    BY <2>2 DEF ReplyInv, RowsOfChain
  <2>4. stage \in BlockStages
    BY <1>1 DEF BlockStages
  <2>5. ~unrolled => FoundOf(rows[h])
    BY <2>2, <2>3, <2>4, AtItsHeight
  <2>6. SaidOf'
    BY <1>1, <2>1, <2>2, <2>4, <2>5, SaysBlock
  <2> QED
    BY <1>1, <1>2, <2>6, SameQuestion
<1>4. CASE h \notin DOMAIN rows
  <2>1. Goes("hash")
    BY <1>4 DEF LoadRow
  <2>2. SaidOf'
    BY <1>1, <2>1 DEF ReplyInv, Goes, Stays, nodeVars1, SaidOf, OfOneTx, FoundOf, HeightAsked
  <2> QED
    BY <1>1, <1>2, <2>2, SameQuestion
<1> QED
  BY <1>3, <1>4

LEMMA HashKeeps == ReplyInv /\ HashAt => ReplyInv'
<1> SUFFICES ASSUME ReplyInv, HashAt PROVE ReplyInv'
  OBVIOUS
<1> DEFINE h == HeightAsked(question)
<1>1. Stays /\ stage = "hash" /\ stage' \in {"compute", "idle"}
  BY DEF HashAt, Goes, Says, Fails
<1>2. LookupTypes'
  BY <1>1 DEF ReplyInv, Stays, LookupTypes, BlockStages, TxStages
<1>3. CASE h \in DOMAIN chain /\ local' = <<chain[h]>> /\ Goes("compute")
  <2>1. stage \in BlockStages /\ chain[h].height = HeightAsked(question) /\ chain[h] \in BlocksKnown
    BY <1>1, <1>3 DEF BlockStages, ReplyInv, InPlace
  <2>2. FoundOf(chain[h])
    BY <2>1, AtItsHeight
  <2>3. ComputedOf'
    BY <1>1, <1>3, <2>1, <2>2 DEF ComputedOf, FoundOf, HeightAsked, Stays, nodeVars1
  <2>4. SaidOf'
    BY <1>1, <1>3 DEF ReplyInv, Goes, Stays, nodeVars1, SaidOf, OfOneTx, FoundOf, HeightAsked
  <2> QED
    BY <1>1, <1>2, <2>3, <2>4, SameQuestion
<1>4. CASE stage' = "idle" /\ said' = <<[is |-> "unknown"]>>
  <2>1. ComputedOf'
    BY <1>4 DEF ComputedOf
  <2>2. SaidOf'
    BY <1>4 DEF SaidOf
  <2> QED
    BY <1>1, <1>2, <2>1, <2>2, SameQuestion
<1> QED
  BY <1>3, <1>4 DEF HashAt, Says, Fails

LEMMA ComputeKeeps == ReplyInv /\ ComputeBlock => ReplyInv'
<1> SUFFICES ASSUME ReplyInv, ComputeBlock PROVE ReplyInv'
  OBVIOUS
<1>1. Stays /\ stage = "compute" /\ stage' = "idle"
  BY DEF ComputeBlock, Says, Fails
<1>2. LookupTypes' /\ ComputedOf'
  BY <1>1 DEF ReplyInv, LookupTypes, ComputedOf, BlockStages, TxStages
<1>3. SaidOf'
  <2>1. CASE said' = <<BlockReply(local[1], FALSE)>>
    <3>1. FoundOf(local[1]) /\ local[1].height = HeightAsked(question) /\ local[1] \in BlocksKnown
      BY <1>1 DEF ReplyInv, ComputedOf, FoundOf
    <3> QED
      BY <1>1, <2>1, <3>1, SaysBlock DEF BlockStages
  <2>2. CASE said' = <<[is |-> "failed"]>>
    BY <2>2 DEF SaidOf
  <2> QED
    BY <2>1, <2>2 DEF ComputeBlock, Says, Fails
<1> QED
  BY <1>1, <1>2, <1>3, SameQuestion

LEMMA RawKeeps == ReplyInv /\ RawTx => ReplyInv'
<1> SUFFICES ASSUME ReplyInv, RawTx PROVE ReplyInv'
  OBVIOUS
<1>1. Stays /\ stage = "raw" /\ stage' \in {"prevouts", "header", "idle"}
  BY DEF RawTx, Goes, Says, Fails
<1>2. LookupTypes' /\ ComputedOf'
  BY <1>1 DEF ReplyInv, Stays, LookupTypes, ComputedOf, BlockStages, TxStages
<1>3. said' = said \/ said' = <<[is |-> "unknown"]>>
  BY DEF RawTx, Goes, Says, Fails
<1>4. SaidOf'
  <2>1. CASE said' = said
    BY <1>1, <2>1 DEF ReplyInv, Stays, nodeVars1, SaidOf, OfOneTx, FoundOf, HeightAsked
  <2> QED
    BY <1>3, <2>1 DEF SaidOf
<1> QED
  BY <1>1, <1>2, <1>4, SameQuestion

LEMMA FetchKeeps == ReplyInv /\ (\E p \in Parents : FetchParent(p)) => ReplyInv'
<1> SUFFICES ASSUME ReplyInv, NEW p \in Parents, FetchParent(p) PROVE ReplyInv'
  OBVIOUS
<1>1. Stays /\ stage = "prevouts" /\ stage' = stage /\ said' = said
  BY DEF FetchParent
<1>2. LookupTypes' /\ ComputedOf'
  BY <1>1 DEF ReplyInv, Stays, LookupTypes, ComputedOf, BlockStages, TxStages
<1>3. SaidOf'
  BY <1>1 DEF ReplyInv, Stays, nodeVars1, SaidOf, OfOneTx, FoundOf, HeightAsked
<1> QED
  BY <1>1, <1>2, <1>3, SameQuestion

LEMMA SaysTx ==
    ASSUME NEW ins \in {<<>>, Ins}, NEW found \in {0, local.at}, said' = <<TxReply(ins, found)>>
    PROVE  SaidOf'
<1>1. /\ said'[1].is = "tx" /\ said'[1].ins = ins /\ said'[1].at = local.at /\ said'[1].height = found
      /\ said'[1].fee = InputsMinusOutputs(ins)
  BY DEF TxReply
<1>2. DOMAIN said' = {1}
  OBVIOUS
<1> QED
  BY <1>1, <1>2 DEF SaidOf, OfOneTx

LEMMA JoinedKeeps == ReplyInv /\ (Joined \/ Header1) => ReplyInv'
<1> SUFFICES ASSUME ReplyInv, Joined \/ Header1 PROVE ReplyInv'
  OBVIOUS
<1>1. Stays /\ stage \in TxStages /\ stage' = "idle"
  BY DEF Joined, Header1, Says, TxStages
<1>2. LookupTypes' /\ ComputedOf'
  BY <1>1 DEF ReplyInv, LookupTypes, ComputedOf, BlockStages, TxStages
<1>3. SaidOf'
  <2>1. CASE Joined
    BY <2>1, SaysTx DEF Joined, Says, Fetched
  <2>2. CASE Header1
    BY <2>2, SaysTx DEF Header1, Says
  <2> QED
    BY <2>1, <2>2
<1> QED
  BY <1>1, <1>2, <1>3, SameQuestion

LEMMA RepliesStutter == ReplyInv /\ UNCHANGED repliesVars => ReplyInv'
<1> SUFFICES ASSUME ReplyInv, UNCHANGED repliesVars PROVE ReplyInv'
  OBVIOUS
<1>1. UNCHANGED <<nodeVars1, rowVars1, lookVars>>
  BY DEF repliesVars
<1>2. Stays
  BY <1>1 DEF Stays, lookVars
<1>3. LookupTypes' /\ ComputedOf' /\ SaidOf'
  BY <1>1 DEF ReplyInv, lookVars, nodeVars1, LookupTypes, ComputedOf, SaidOf, OfOneTx, FoundOf, HeightAsked
<1> QED
  BY <1>2, <1>3, SameQuestion

LEMMA ReplyInvariant == RepliesSpec => []ReplyInv
<1>1. ReplyInv /\ [RepliesNext]_repliesVars => ReplyInv'
  BY MineKeeps, ReorgKeeps, ReplacedKeeps, CollectKeeps, RollbackKeeps, AskKeeps, ClassifyKeeps, LoadKeeps,
     HashKeeps, ComputeKeeps, RawKeeps, FetchKeeps, JoinedKeeps, RepliesStutter DEF RepliesNext
<1> QED
  BY <1>1, ReplyInitOK, PTL DEF RepliesSpec

LEMMA ReplySound == ReplyInv => RepliesSound
<1> SUFFICES ASSUME ReplyInv PROVE RepliesSound
  OBVIOUS
<1>1. ASSUME NEW i \in DOMAIN said, said[i].is = "block" PROVE OfThatBlock(said[i]) /\ FeesInOrder(said[i])
  <2>1. /\ question \in BlockQuestions /\ said[i].figures.block.height = HeightAsked(question)
        /\ ~said[i].stale => FoundOf(said[i].figures.block)
    BY <1>1 DEF ReplyInv, SaidOf
  <2>2. question.kind = "hash" => question \in HashQuestions
    BY <2>1 DEF BlockQuestions, HeightQuestions
  <2>3. PICK b \in BlocksKnown : said[i].figures = Compute(b)
    BY <1>1 DEF ReplyInv, SaidOf
  <2>4. said[i].figures.fees = FeeStats(b.fees) /\ b.fees \in Seq(Nat)
    BY <2>3 DEF Compute, BlocksKnown
  <2>5. FeesInOrder(said[i])
    BY <2>4, FeesOrdered DEF FeesInOrder
  <2> QED
    BY <2>1, <2>2, <2>5 DEF OfThatBlock, FoundOf
<1>2. Len(chain) \in Nat
  BY DEF ReplyInv, InPlace
<1>3. \A i \in DOMAIN said : said[i].is = "tx" => OfOneTx(said[i])
  BY DEF ReplyInv, SaidOf
<1> QED
  BY <1>1, <1>2, <1>3, SupplyIsSum DEF RepliesSound, ReplyOfOne

\* For any inputs, blocks, schedule of subsidies and numbers of reorgs, lookups and errors:
\* while the node's chain and mempool change and rows are collected and rolled back between
\* a lookup's calls, what it says of a transaction has all of its inputs, in their order and
\* with their fee, or none, and what it says of a block is of the height that was asked for
\* and, unless a reorg was still to be told, of that very block if it is on the chain; the
\* average fee is between the lowest and the highest, and the supply, which is added up epoch
\* by epoch, is the sum of the subsidies, block by block.
THEOREM RepliesAreSound == RepliesSpec => []RepliesSound
BY ReplyInvariant, ReplySound, PTL
-----------------------------------------------------------------------------
(* The stored rates, and what is read of them.                              *)

Served == {r.x : r \in Usable}

\* A sample is of a day that has come and above nothing; a live one is the average of its
\* answers; the history is in whole, or what there is of its days is live; a snapshot is
\* of a process that stored a rate before it.
RatesInv ==
    /\ day \in FirstDay..LastDay
    /\ samples = [s \in DOMAIN samples |-> samples[s]] /\ DOMAIN samples \subseteq 0..LastDay
    /\ \A s \in DOMAIN samples : samples[s] \in Nat \ {0}
    /\ answers \in Seq(Quotes)
    /\ DOMAIN quotes \subseteq (FirstDay..LastDay) \cap DOMAIN samples
    /\ \A t \in DOMAIN quotes : quotes[t] \in Seq(Quotes) /\ quotes[t] # <<>> /\ samples[t] = Average(quotes[t])
    /\ LastMarket = NoRate \/ LastMarket \in Nat \ {0}
    /\ updater = "market" \/ LastMarket > 0 => samples # <<>>
    /\ Served \subseteq DOMAIN samples \/ Served \cap DOMAIN samples \subseteq DOMAIN quotes

LEMMA ServedType == Served \subseteq 0..LastDay /\ \A r \in Usable : r.y \in Nat \ {0}
BY RatesType DEF Served, Usable

LEMMA WiderSeq == ASSUME NEW A, NEW B, A \subseteq B, NEW s \in Seq(A) PROVE s \in Seq(B)
OBVIOUS

\* An average is between the lowest and the highest.
LEMMA AverageBetween ==
    ASSUME NEW a \in Seq(Quotes), a # <<>>
    PROVE  /\ Average(a) \in Nat \ {0}
           /\ Min(ToSet(a)) <= Average(a) /\ Average(a) <= Max(ToSet(a))
<1> DEFINE n == Len(a)
           lo == Min(ToSet(a))
           hi == Max(ToSet(a))
           t == SumOn(a, DOMAIN a)
<1>1. Quotes \subseteq Nat \ {0} /\ n \in Nat \ {0} /\ DOMAIN a = 1..n /\ \A i \in 1..n : a[i] \in Quotes
  BY RatesType
<1>2. a \in Seq(Nat) /\ ToSet(a) = Range(a) /\ ToSet(a) \subseteq Nat \ {0} /\ ToSet(a) # {}
      /\ \A i \in DOMAIN a : a[i] \in ToSet(a)
  <2>1. a \in Seq(Nat \ {0}) /\ a \in Seq(Nat)
    BY <1>1, WiderSeq
  <2>2. 1 \in DOMAIN a /\ \A i \in DOMAIN a : a[i] \in Nat \ {0}
    <3> DEFINE B == Nat \ {0}
    <3>1. a \in Seq(B) /\ n \in Nat \ {0} /\ DOMAIN a = 1..n
      BY <1>1, <2>1
    <3> HIDE DEF B, n
    <3>2. \A i \in DOMAIN a : a[i] \in B
      BY <3>1
    <3>3. 1 \in DOMAIN a
      BY <3>1
    <3> QED
      BY <3>2, <3>3 DEF B
  <2> HIDE DEF n
  <2> QED
    BY <2>1, <2>2 DEF ToSet, Range
<1>3. lo \in Nat \ {0} /\ \A y \in ToSet(a) : lo <= y
  <2>1. ToSet(a) \in SUBSET Nat
    BY <1>2
  <2> QED
    BY <1>2, <2>1, LeastOf
<1>4. hi \in Nat /\ \A y \in ToSet(a) : y <= hi
  BY <1>1, <1>2, HighestOf
<1>5. IsFiniteSet(DOMAIN a) /\ Cardinality(DOMAIN a) = n
  <2> HIDE DEF n
  <2> QED
    BY <1>1, FS_Interval
<1>6. t \in Int /\ lo * n <= t /\ t <= hi * n
  <2> DEFINE d == DOMAIN a
  <2>1. \A x \in d : a[x] \in Int /\ lo <= a[x] /\ a[x] <= hi
    <3> HIDE DEF lo, hi, n, t
    <3> QED
      BY <1>1, <1>2, <1>3, <1>4
  <2>2. IsFiniteSet(d) /\ Cardinality(d) = n /\ lo \in Int /\ hi \in Int /\ t = SumOn(a, d)
    BY <1>3, <1>4, <1>5
  <2> HIDE DEF lo, hi, n, t, d
  <2>3. SumOn(a, d) \in Int /\ lo * Cardinality(d) <= SumOn(a, d) /\ SumOn(a, d) <= hi * Cardinality(d)
    BY <2>1, <2>2, SumBounds
  <2> QED
    BY <2>2, <2>3
<1> DEFINE b == 2 * t + n
           m == 2 * n
           q == b \div m
<1>7. Average(a) = q
  BY DEF Average, FoldSeq, FoldFunction, SumOn
<1>8. n \in Nat \ {0}
  BY <1>1
<1> HIDE DEF n, lo, hi, t
<1>9. m \in Nat \ {0} /\ b \in Int /\ lo * m <= b /\ b < hi * m + m
  <2>1. lo * m = 2 * (lo * n) /\ hi * m = 2 * (hi * n)
    BY <1>3, <1>4, <1>8
  <2> QED
    BY <1>3, <1>4, <1>6, <1>8, <2>1
<1> HIDE DEF b, m
<1>10. q \in Int /\ m * q <= b /\ b < m * q + m
  BY <1>9, Quotient
<1> HIDE DEF q
<1>11. lo <= q
  <2> SUFFICES ASSUME q + 1 <= lo PROVE FALSE
    BY <1>3, <1>10
  <2>1. (q + 1) * m <= lo * m
    BY <1>3, <1>9, <1>10
  <2> QED
    BY <1>3, <1>9, <1>10, <2>1
<1>12. q <= hi
  <2> SUFFICES ASSUME hi + 1 <= q PROVE FALSE
    BY <1>4, <1>10
  <2>1. (hi + 1) * m <= q * m
    BY <1>4, <1>9, <1>10
  <2> QED
    BY <1>4, <1>9, <1>10, <2>1
<1> QED
  BY <1>3, <1>7, <1>10, <1>11, <1>12 DEF lo, hi

-----------------------------------------------------------------------------
LEMMA RatesInitOK == RatesInit => RatesInv
<1> SUFFICES ASSUME RatesInit PROVE RatesInv
  OBVIOUS
<1>1. DOMAIN samples = {} /\ DOMAIN quotes = {} /\ samples = [s \in DOMAIN samples |-> samples[s]]
  BY DEF RatesInit
<1>2. answers \in Seq(Quotes) /\ LastMarket = NoRate /\ ~(LastMarket > 0) /\ updater # "market"
  BY DEF RatesInit, NoRate
<1>3. day \in FirstDay..LastDay
  BY RatesType DEF RatesInit
<1> QED
  BY <1>1, <1>2, <1>3 DEF RatesInv

LEMMA StoreKeeps == RatesInv /\ StoreHistory => RatesInv'
<1> SUFFICES ASSUME RatesInv, StoreHistory PROVE RatesInv'
  OBVIOUS
<1>1. UNCHANGED <<LastMarket, day, answers>> /\ updater' = "update" /\ Served' = Served
  BY DEF StoreHistory, clockVars, Served, Usable
<1>2. CASE UNCHANGED <<samples, quotes>>
  BY <1>1, <1>2 DEF RatesInv
<1>3. CASE /\ samples' = [t \in DOMAIN samples \cup Served |->
                         IF \E r \in Usable : r.x = t THEN (CHOOSE r \in Usable : r.x = t).y ELSE samples[t]]
           /\ quotes' = [t \in DOMAIN quotes \ Served |-> quotes[t]]
  <2>1. DOMAIN samples' = DOMAIN samples \cup Served /\ samples' = [s \in DOMAIN samples' |-> samples'[s]]
    BY <1>3
  <2>2. Served \subseteq 0..LastDay
    BY ServedType
  <2>3. ASSUME NEW s \in DOMAIN samples' PROVE samples'[s] \in Nat \ {0}
    <3>1. CASE \E r \in Usable : r.x = s
      <4>1. (CHOOSE r \in Usable : r.x = s) \in Usable
        BY <3>1
      <4>2. samples'[s] = (CHOOSE r \in Usable : r.x = s).y
        BY <1>3, <2>1, <3>1
      <4> QED
        BY <4>1, <4>2, ServedType
    <3>2. CASE ~ \E r \in Usable : r.x = s
      <4>1. s \in DOMAIN samples /\ samples'[s] = samples[s]
        BY <1>3, <2>1, <3>2 DEF Served
      <4> QED
        BY <4>1 DEF RatesInv
    <3> QED
      BY <3>1, <3>2
  <2>4. ASSUME NEW t \in DOMAIN quotes'
        PROVE  /\ t \in DOMAIN quotes /\ quotes'[t] = quotes[t]
               /\ t \in DOMAIN samples' /\ samples'[t] = samples[t]
    <3>1. t \in DOMAIN samples /\ t \notin Served /\ t \in DOMAIN quotes /\ quotes'[t] = quotes[t]
      BY <1>3 DEF RatesInv
    <3> QED
      BY <1>3, <2>1, <3>1 DEF Served
  <2>5. samples # <<>> => samples' # <<>>
    <3>1. samples # <<>> => DOMAIN samples # {}
      <4> SUFFICES ASSUME DOMAIN samples = {} PROVE samples = <<>>
        OBVIOUS
      <4> QED
        BY DEF RatesInv
    <3>2. DOMAIN samples # {} => samples' # <<>>
      BY <2>1
    <3> QED
      BY <3>1, <3>2
  <2>6. Served' \subseteq DOMAIN samples'
    BY <1>1, <2>1
  <2>7. DOMAIN samples' \subseteq 0..LastDay
    BY <2>1, <2>2 DEF RatesInv
  <2>8. DOMAIN quotes' \subseteq (FirstDay..LastDay) \cap DOMAIN samples'
    BY <1>1, <2>4 DEF RatesInv
  <2>9. \A t \in DOMAIN quotes' : quotes'[t] \in Seq(Quotes) /\ quotes'[t] # <<>> /\ samples'[t] = Average(quotes'[t])
    BY <1>1, <2>4 DEF RatesInv
  <2>10. day' \in FirstDay..LastDay /\ answers' \in Seq(Quotes) /\ (LastMarket' = NoRate \/ LastMarket' \in Nat \ {0})
    BY <1>1 DEF RatesInv
  <2>11. updater' = "market" \/ LastMarket' > 0 => samples' # <<>>
    BY <1>1, <2>5 DEF RatesInv
  <2> QED
    BY <2>1, <2>3, <2>6, <2>7, <2>8, <2>9, <2>10, <2>11 DEF RatesInv
<1> QED
  BY <1>2, <1>3 DEF StoreHistory, Served

LEMMA AddKeeps == RatesInv /\ Add => RatesInv'
<1> SUFFICES ASSUME RatesInv, Add PROVE RatesInv'
  OBVIOUS
<1>1. UNCHANGED <<LastMarket, day, answers>>
  BY DEF Add, clockVars
<1>2. CASE updater' = "wait" /\ UNCHANGED <<samples, quotes>>
  BY <1>1, <1>2 DEF RatesInv
<1>3. CASE /\ answers # <<>> /\ updater' = "market"
           /\ samples' = [t \in DOMAIN samples \cup {day} |-> IF t = day THEN Average(answers) ELSE samples[t]]
           /\ quotes' = [t \in DOMAIN quotes \cup {day} |-> IF t = day THEN answers ELSE quotes[t]]
  <2>1. /\ DOMAIN samples' = DOMAIN samples \cup {day} /\ samples' = [s \in DOMAIN samples' |-> samples'[s]]
        /\ samples'[day] = Average(answers) /\ \A s \in DOMAIN samples : s # day => samples'[s] = samples[s]
    BY <1>3
  <2>2. /\ DOMAIN quotes' = DOMAIN quotes \cup {day}
        /\ quotes'[day] = answers /\ \A t \in DOMAIN quotes : t # day => quotes'[t] = quotes[t]
    BY <1>3
  <2>3. day \in FirstDay..LastDay /\ day \in 0..LastDay
    BY RatesType DEF RatesInv
  <2>4. answers \in Seq(Quotes) /\ Average(answers) \in Nat \ {0}
    BY <1>3, AverageBetween DEF RatesInv
  <2>5. \A s \in DOMAIN samples' : samples'[s] \in Nat \ {0}
    BY <2>1, <2>4 DEF RatesInv
  <2>6. DOMAIN samples' \subseteq 0..LastDay /\ DOMAIN quotes' \subseteq (FirstDay..LastDay) \cap DOMAIN samples'
    BY <2>1, <2>2, <2>3 DEF RatesInv
  <2>7. ASSUME NEW t \in DOMAIN quotes'
        PROVE  quotes'[t] \in Seq(Quotes) /\ quotes'[t] # <<>> /\ samples'[t] = Average(quotes'[t])
    <3>1. CASE t = day
      BY <1>3, <2>1, <2>2, <2>4, <3>1
    <3>2. CASE t # day
      <4>1. t \in DOMAIN quotes /\ t \in DOMAIN samples
        BY <2>2, <3>2 DEF RatesInv
      <4> QED
        BY <2>1, <2>2, <3>2, <4>1 DEF RatesInv
    <3> QED
      BY <3>1, <3>2
  <2>8. Served' = Served
    BY DEF Served, Usable
  <2>9. samples' # <<>>
    BY <2>1
  <2>10. day' \in FirstDay..LastDay /\ answers' \in Seq(Quotes) /\ (LastMarket' = NoRate \/ LastMarket' \in Nat \ {0})
    BY <1>1 DEF RatesInv
  <2>11. (Served \subseteq DOMAIN samples \/ Served \cap DOMAIN samples \subseteq DOMAIN quotes)'
    BY <2>1, <2>2, <2>8 DEF RatesInv
  <2> QED
    BY <2>1, <2>5, <2>6, <2>7, <2>9, <2>10, <2>11 DEF RatesInv
<1> QED
  BY <1>2, <1>3 DEF Add

LEMMA RatesStep == RatesInv /\ [RatesNext]_ratesVars => RatesInv'
<1> SUFFICES ASSUME RatesInv, [RatesNext]_ratesVars PROVE RatesInv'
  OBVIOUS
<1>1. Served' = Served
  BY DEF Served, Usable
<1>2. CASE UNCHANGED ratesVars
  BY <1>1, <1>2 DEF RatesInv, ratesVars
<1>3. CASE Backfill \/ Download \/ StartUpdate \/ TakeTick
  <2>1. UNCHANGED <<samples, LastMarket, day, quotes>> /\ (answers' = answers \/ answers' = <<>>) /\ updater' # "market"
    BY <1>3 DEF Backfill, Download, StartUpdate, TakeTick, clockVars
  <2>2. answers' \in Seq(Quotes)
    <3>1. answers \in Seq(Quotes) /\ <<>> \in Seq(Quotes)
      BY DEF RatesInv
    <3>2. answers' = answers \/ answers' = <<>>
      BY <2>1
    <3> QED
      BY <3>1, <3>2, Zenon
  <2> QED
    BY <1>1, <2>1, <2>2 DEF RatesInv
<1>4. CASE Poll
  <2>1. UNCHANGED <<samples, LastMarket, day, quotes, updater>> /\ (answers' = answers \/ \E q \in Quotes : answers' = Append(answers, q))
    BY <1>4 DEF Poll, clockVars
  <2>2. answers \in Seq(Quotes)
    BY DEF RatesInv
  <2>3. \A q \in Quotes : Append(answers, q) \in Seq(Quotes)
    BY <2>2
  <2>4. answers' \in Seq(Quotes)
    <3>1. CASE answers' = answers
      BY <2>2, <3>1
    <3>2. CASE \E q \in Quotes : answers' = Append(answers, q)
      <4>1. PICK q \in Quotes : answers' = Append(answers, q)
        BY <3>2
      <4>2. Append(answers, q) \in Seq(Quotes)
        BY <2>3
      <4> QED
        BY <4>1, <4>2
    <3> QED
      BY <2>1, <3>1, <3>2
  <2> QED
    BY <1>1, <2>1, <2>4 DEF RatesInv
<1>5. CASE UpdateMarket
  <2>1. UNCHANGED <<samples, day, quotes, answers>> /\ updater = "market" /\ updater' = "wait"
    BY <1>5 DEF UpdateMarket, clockVars
  <2>2. LastMarket' = NoRate \/ LastMarket' \in Nat \ {0}
    BY <1>5, RatesType DEF UpdateMarket, RatesInv
  <2> QED
    BY <1>1, <2>1, <2>2 DEF RatesInv
<1>6. CASE TimePasses
  <2>1. UNCHANGED <<samples, LastMarket, quotes, answers, updater>> /\ day < LastDay /\ day' = day + 1
    BY <1>6 DEF TimePasses
  <2>2. day' \in FirstDay..LastDay
    BY <2>1, RatesType DEF RatesInv
  <2> QED
    BY <1>1, <2>1, <2>2 DEF RatesInv
<1>7. CASE RatesRestart
  <2>1. UNCHANGED <<samples, LastMarket, quotes>> /\ answers' = <<>> /\ updater' = "backfill" /\ day < LastDay /\ day' = day + 1
    BY <1>7 DEF RatesRestart
  <2>2. day' \in FirstDay..LastDay /\ answers' \in Seq(Quotes)
    BY <2>1, RatesType DEF RatesInv
  <2> QED
    BY <1>1, <2>1, <2>2 DEF RatesInv
<1> QED
  BY <1>2, <1>3, <1>4, <1>5, <1>6, <1>7, StoreKeeps, AddKeeps DEF RatesNext, UpdaterStep

LEMMA RatesInvariant == RatesSpec => []RatesInv
BY RatesInitOK, RatesStep, PTL DEF RatesSpec

-----------------------------------------------------------------------------
(* The sample nearest a time.                                              *)

\* The last at or before it, and the first after it.
LEMMA LastBefore ==
    ASSUME RatesInv, NEW t \in Int, NEW u \in DOMAIN samples, u <= t
    PROVE  \E b \in RowsBefore(t) : b \in DOMAIN samples /\ u <= b /\ b <= t
<1> DEFINE D == {s \in DOMAIN samples : s <= t}
           back == {t - s : s \in D}
<1>1. \A s \in D : s \in Int /\ s <= t /\ t - s \in Nat
  BY RatesType DEF RatesInv
<1>2. back \in SUBSET Nat /\ back # {}
  <2>1. u \in D
    OBVIOUS
  <2> QED
    BY <1>1, <2>1
<1>3. Min(back) \in back /\ \A y \in back : Min(back) <= y
  BY <1>2, LeastOf
<1>4. PICK b \in D : Min(back) = t - b
  BY <1>3
<1>5. \A s \in D : s <= b
  <2> SUFFICES ASSUME NEW s \in D PROVE s <= b
    OBVIOUS
  <2>1. t - b <= t - s
    BY <1>3, <1>4
  <2> QED
    BY <1>1, <2>1
<1> QED
  BY <1>4, <1>5 DEF RowsBefore

LEMMA FirstAfter ==
    ASSUME RatesInv, NEW t \in Int, NEW u \in DOMAIN samples, u > t
    PROVE  \E b \in RowsAround(t) : b \in DOMAIN samples /\ t < b /\ b <= u
<1> DEFINE D == {s \in DOMAIN samples : s > t}
<1>1. D \in SUBSET Nat /\ u \in D
  BY RatesType DEF RatesInv
<1>2. Min(D) \in D /\ \A y \in D : Min(D) <= y
  BY <1>1, LeastOf
<1> DEFINE b == Min(D)
<1>3. b \in DOMAIN samples /\ b > t /\ \A s \in DOMAIN samples : s > t => b <= s
  BY <1>2
<1> HIDE DEF b, D
<1>4. t < b
  BY <1>3 DEF RatesInv
<1> QED
  BY <1>3, <1>4 DEF RowsAround

Nearer(s, u, t) == Apart(s, t) < Apart(u, t) \/ (Apart(s, t) = Apart(u, t) /\ s <= u)
NearOf(t) == {s \in RowsAround(t) : \A u \in RowsAround(t) : Nearer(s, u, t)}

\* There is one nearest of the two, once there is any sample, and it is the nearest of all.
LEMMA NearestOne ==
    ASSUME RatesInv, NEW t \in Int
    PROVE  /\ NearOf(t) \subseteq DOMAIN samples
           /\ \A s, u \in NearOf(t) : s = u
           /\ \A s \in NearOf(t) : \A u \in DOMAIN samples : Apart(s, t) <= Apart(u, t)
           /\ DOMAIN samples # {} => NearOf(t) # {}
<1>1. RowsAround(t) \subseteq DOMAIN samples /\ DOMAIN samples \subseteq Int
  BY RatesType DEF RowsAround, RowsBefore, RatesInv
<1>2. NearOf(t) \subseteq DOMAIN samples
  BY <1>1 DEF NearOf
<1>3. ASSUME NEW s \in NearOf(t), NEW u \in NearOf(t) PROVE s = u
  <2>1. s \in Int /\ u \in Int /\ Nearer(s, u, t) /\ Nearer(u, s, t)
    BY <1>1 DEF NearOf
  <2> QED
    BY <2>1 DEF Nearer, Apart
<1>4. ASSUME NEW u \in DOMAIN samples
      PROVE  \E b \in RowsAround(t) : Apart(b, t) <= Apart(u, t)
  <2>1. CASE u <= t
    <3>1. PICK b \in RowsBefore(t) : b \in DOMAIN samples /\ u <= b /\ b <= t
      BY <2>1, LastBefore
    <3>2. b \in RowsAround(t) /\ Apart(b, t) <= Apart(u, t)
      BY <1>1, <2>1, <3>1 DEF RowsAround, Apart
    <3> QED
      BY <3>2
  <2>2. CASE u > t
    <3>1. PICK b \in RowsAround(t) : b \in DOMAIN samples /\ t < b /\ b <= u
      BY <2>2, FirstAfter
    <3>2. Apart(b, t) <= Apart(u, t)
      BY <1>1, <2>2, <3>1 DEF Apart
    <3> QED
      BY <3>2
  <2> QED
    BY <2>1, <2>2, <1>1
<1>5. ASSUME NEW s \in NearOf(t), NEW u \in DOMAIN samples PROVE Apart(s, t) <= Apart(u, t)
  <2>1. PICK b \in RowsAround(t) : Apart(b, t) <= Apart(u, t)
    BY <1>4
  <2>2. Nearer(s, b, t)
    BY DEF NearOf
  <2>3. s \in Int /\ b \in Int /\ u \in Int
    BY <1>1, <1>2
  <2> QED
    BY <2>1, <2>2, <2>3 DEF Nearer, Apart
<1>6. ASSUME NEW d \in DOMAIN samples PROVE NearOf(t) # {}
  <2>1. PICK b \in RowsAround(t) : TRUE
    BY <1>4
  <2>2. \A x, y \in RowsAround(t) : (x <= t /\ y <= t) \/ (x > t /\ y > t) => x = y
    <3> SUFFICES ASSUME NEW x \in RowsAround(t), NEW y \in RowsAround(t), (x <= t /\ y <= t) \/ (x > t /\ y > t)
                 PROVE  x = y
      OBVIOUS
    <3>1. x \in Int /\ y \in Int /\ x \in DOMAIN samples /\ y \in DOMAIN samples
      BY <1>1
    <3>2. x <= y /\ y <= x
      BY <3>1 DEF RowsAround, RowsBefore
    <3> QED
      BY <3>1, <3>2
  <2>3. CASE b \in NearOf(t)
    BY <2>3
  <2>4. CASE b \notin NearOf(t)
    <3>1. PICK c \in RowsAround(t) : ~Nearer(b, c, t)
      BY <2>4 DEF NearOf
    <3>2. b \in Int /\ c \in Int
      BY <1>1
    <3>3. Nearer(c, b, t) /\ b # c
      BY <3>1, <3>2 DEF Nearer, Apart
    <3>4. ASSUME NEW e \in RowsAround(t) PROVE Nearer(c, e, t)
      <4>1. e \in Int /\ (e = b \/ e = c)
        BY <1>1, <2>2, <3>2, <3>3
      <4>2. Nearer(c, c, t)
        BY <3>2 DEF Nearer, Apart
      <4> QED
        BY <3>3, <4>1, <4>2
    <3>5. c \in NearOf(t)
      BY <3>4 DEF NearOf
    <3> QED
      BY <3>5
  <2> QED
    BY <2>3, <2>4
<1> QED
  BY <1>2, <1>3, <1>5, <1>6

LEMMA RateAt ==
    ASSUME RatesInv, NEW t \in Int
    PROVE  LET near == {s \in DOMAIN samples : Apart(s, t) <= Tolerance}
           IN  /\ At(t) = NoRate <=> near = {}
               /\ near # {} => \E s \in near : At(t) = samples[s] /\ \A u \in DOMAIN samples : Apart(s, t) <= Apart(u, t)
               /\ At(t) \in Int /\ (At(t) = NoRate \/ At(t) > 0)
<1> DEFINE near == {s \in DOMAIN samples : Apart(s, t) <= Tolerance}
<1>1. At(t) = IF \E s \in NearOf(t) : Apart(s, t) <= Tolerance THEN samples[CHOOSE s \in NearOf(t) : TRUE] ELSE NoRate
  BY DEF At, NearOf, Nearer
<1>2. DOMAIN samples \subseteq Int /\ Tolerance \in Int /\ \A s \in DOMAIN samples : Apart(s, t) \in Int
  BY RatesType DEF RatesInv, Apart
<1>3. CASE near = {}
  <2>1. ~ \E s \in NearOf(t) : Apart(s, t) <= Tolerance
    BY <1>3, NearestOne
  <2>2. At(t) = NoRate
    BY <1>1, <2>1
  <2> QED
    BY <1>3, <2>2 DEF NoRate
<1>4. CASE near # {}
  <2>1. PICK n \in DOMAIN samples : Apart(n, t) <= Tolerance
    BY <1>4
  <2>2. NearOf(t) # {}
    BY <2>1, NearestOne
  <2> DEFINE c == CHOOSE s \in NearOf(t) : TRUE
  <2>3. c \in NearOf(t)
    BY <2>2
  <2> HIDE DEF c
  <2>4. c \in DOMAIN samples /\ \A u \in DOMAIN samples : Apart(c, t) <= Apart(u, t)
    BY <2>3, NearestOne
  <2>5. Apart(c, t) <= Tolerance
    BY <1>2, <2>1, <2>4
  <2>6. At(t) = samples[c]
    BY <1>1, <2>3, <2>5 DEF c
  <2>7. samples[c] \in Nat \ {0}
    BY <2>4 DEF RatesInv
  <2> QED
    BY <2>4, <2>5, <2>6, <2>7 DEF NoRate
<1> QED
  BY <1>3, <1>4

\* There is a last rate exactly when there is a sample.
LEMMA LastRateOf ==
    ASSUME RatesInv
    PROVE  (LastRate = NoRate <=> samples = <<>>) /\ (samples # <<>> <=> DOMAIN samples # {})
<1>1. DOMAIN samples = {} => samples = <<>>
  BY DEF RatesInv
<1>2. samples # <<>> => LastRate \in Nat \ {0}
  <2> SUFFICES ASSUME samples # <<>> PROVE LastRate \in Nat \ {0}
    OBVIOUS
  <2>0. DOMAIN samples # {} /\ DOMAIN samples \subseteq 0..LastDay /\ LastDay \in Int
    <3>1. DOMAIN samples # {}
      BY <1>1
    <3>2. DOMAIN samples \subseteq 0..LastDay
      BY DEF RatesInv
    <3> QED
      BY <3>1, <3>2, RatesType
  <2>1. PICK d \in DOMAIN samples : d <= LastDay /\ LastDay \in Int /\ d \in Int
    BY <2>0
  <2>2. PICK b \in RowsBefore(LastDay) : b \in DOMAIN samples
    BY <2>1, LastBefore
  <2>3. \A u \in DOMAIN samples : b >= u
    BY <2>2, RatesType DEF RowsBefore, RatesInv
  <2>4. Max(DOMAIN samples) \in DOMAIN samples
    BY <2>2, <2>3 DEF Max
  <2> QED
    BY <2>4 DEF LastRate, Newest, RatesInv
<1>3. samples = <<>> => LastRate = NoRate
  BY DEF LastRate
<1>4. NoRate \notin Nat
  BY DEF NoRate
<1>5. samples = <<>> => DOMAIN samples = {}
  OBVIOUS
<1> QED
  BY <1>1, <1>2, <1>3, <1>4, <1>5

\* Whatever the chart serves, the sources answer and fails: the rate of a time is that of
\* the sample nearest it, and there is one as soon as there is any; the history is in
\* whole or none of it is, but for live samples of its days, a live sample is between the lowest and the highest of its
\* answers, and /market and the card agree on whether there is a price and on the changes.
THEOREM RatesAreNearest == RatesSpec => [](NearestRate /\ RatesOfAnswers)
<1>1. RatesInv => NearestRate
  <2> SUFFICES ASSUME RatesInv, NEW t \in 0..LastDay
               PROVE  LET near == {s \in DOMAIN samples : Apart(s, t) <= Tolerance}
                      IN  /\ At(t) = NoRate <=> near = {}
                          /\ near # {} => \E s \in near : At(t) = samples[s] /\ \A u \in DOMAIN samples : Apart(s, t) <= Apart(u, t)
                          /\ UsdRate(t, FALSE) = NoRate <=> samples = <<>>
    BY DEF NearestRate
  <2>1. t \in Int
    OBVIOUS
  <2>2. UsdRate(t, FALSE) = NoRate <=> samples = <<>>
    <3>1. CASE At(t) = NoRate
      BY <3>1, LastRateOf DEF UsdRate
    <3>2. CASE At(t) # NoRate
      <4>1. UsdRate(t, FALSE) = At(t)
        BY <3>2 DEF UsdRate
      <4>2. \E s \in DOMAIN samples : TRUE
        BY <2>1, <3>2, RateAt
      <4> QED
        BY <3>2, <4>1, <4>2, LastRateOf
    <3> QED
      BY <3>1, <3>2
  <2> QED
    BY <2>1, <2>2, RateAt
<1>2. RatesInv => RatesOfAnswers
  <2> SUFFICES ASSUME RatesInv PROVE RatesOfAnswers
    OBVIOUS
  <2>1. LET old == {r.x : r \in Usable} IN old \subseteq DOMAIN samples \/ old \cap DOMAIN samples \subseteq DOMAIN quotes
    BY DEF RatesInv, Served
  <2>2. ASSUME NEW t \in DOMAIN quotes
        PROVE  Min(ToSet(quotes[t])) <= samples[t] /\ samples[t] <= Max(ToSet(quotes[t]))
    BY AverageBetween DEF RatesInv
  <2>3. MarketCmd.price # NoRate <=> AppMarket.ok
    <3>1. MarketCmd.price = Quoted /\ AppMarket.ok = (LastRate # NoRate)
      BY DEF MarketCmd, AppMarket
    <3>2. CASE LastMarket > 0
      <4>1. samples # <<>> /\ Quoted = LastMarket /\ LastMarket # NoRate
        BY <3>2 DEF RatesInv, Quoted, NoRate
      <4> QED
        BY <3>1, <4>1, LastRateOf
    <3>3. CASE ~(LastMarket > 0)
      BY <3>1, <3>3 DEF Quoted
    <3> QED
      BY <3>2, <3>3
  <2>4. MarketCmd.changes = Periods \ AppMarket.dashes
    <3>1. \A p \in Periods : At(day - p) \in Int
      <4> SUFFICES ASSUME NEW p \in Periods PROVE At(day - p) \in Int
        OBVIOUS
      <4>1. day - p \in Int
        BY RatesType DEF RatesInv
      <4> QED
        BY <4>1, RateAt
    <3>2. \A p \in Periods : At(day - p) > 0 <=> ~(At(day - p) <= 0)
      BY <3>1
    <3> QED
      BY <3>2 DEF MarketCmd, AppMarket
  <2> QED
    BY <2>1, <2>2, <2>3, <2>4 DEF RatesOfAnswers
<1> QED
  BY <1>1, <1>2, RatesInvariant, PTL

-----------------------------------------------------------------------------
(* The mempool's count, from the frames under way.                         *)

\* A frame stands for a transaction that entered, the coinbase or a hash, and one of the
\* mempool has at most one under way; the counts are numbers.
Numbered ==
    /\ entered \in Nat /\ inPool \subseteq 1..entered
    /\ frame \in Seq(-1..entered)
    /\ \A i, j \in DOMAIN frame : frame[i] = frame[j] /\ frame[i] \in inPool => i = j
    /\ txCount \in Nat /\ info \in Nat
    /\ burst \in BOOLEAN /\ wake \in BOOLEAN
    /\ refresher \in {"wait", "burst", "ask", "set"}

\* A block is still to wake the refresher, or has, and it has not asked since.
Due == wake \/ refresher = "burst" \/ \E i \in DOMAIN frame : frame[i] = HashBlock

\* A block's frames are followed by its hash, and so is the burst they start.
FramesThenHash ==
    /\ "port" \notin off /\ burst => Due
    /\ "port" \notin off =>
           \A i \in DOMAIN frame :
               \/ frame[i] \in inPool \cup {HashBlock}
               \/ "dropped" \in off /\ frame[i] # CoinbaseFrame
               \/ \E j \in DOMAIN frame : i < j /\ frame[j] = HashBlock

Uncounted == {t \in inPool : \E i \in DOMAIN frame : frame[i] = t}

\* What the count, or the answer to be set, lacks is what is under way.
Counted ==
    off = {} /\ ~Due =>
        /\ statsOK /\ refresher = "wait" => txCount + Cardinality(Uncounted) = Cardinality(inPool)
        /\ refresher = "set" => info + Cardinality(Uncounted) = Cardinality(inPool)

PoolInv == Numbered /\ FramesThenHash /\ Counted

LEMMA PoolInitOK == PoolInit => PoolInv
<1> SUFFICES ASSUME PoolInit PROVE PoolInv
  OBVIOUS
<1>1. frame = <<>> /\ frame \in Seq(-1..entered) /\ DOMAIN frame = {}
  BY DEF PoolInit
<1>2. Numbered
  BY <1>1 DEF PoolInit, Numbered
<1> QED
  BY <1>1, <1>2 DEF PoolInit, PoolInv, FramesThenHash, Counted

\* The mempool is finite, and so is what of it is under way.
LEMMA PoolFinite ==
    ASSUME Numbered
    PROVE  IsFiniteSet(inPool) /\ IsFiniteSet(Uncounted) /\ Cardinality(inPool) \in Nat /\ Cardinality(Uncounted) \in Nat
<1>1. IsFiniteSet(1..entered)
  BY FS_Interval DEF Numbered
<1>2. IsFiniteSet(inPool)
  BY <1>1, FS_Subset DEF Numbered
<1>3. IsFiniteSet(Uncounted)
  BY <1>2, FS_Subset DEF Uncounted
<1> QED
  BY <1>2, <1>3, FS_CardinalityType

\* A transaction that was mined or dropped is of the mempool no more, and its frames
\* stand for nothing in it.
LEMMA ListedOnce ==
    ASSUME NEW S, IsFiniteSet(S)
    PROVE  SetToSeq(S) \in Seq(S)
<1> DEFINE n == Cardinality(S)
<1>1. n \in Nat
  BY FS_CardinalityType
<1>2. PICK g : ExistsBijection(1..n, S) /\ g \in Bijection(1..n, S)
  BY FS_CardinalityType DEF ExistsBijection
<1>3. g \in [1..n -> S] /\ IsInjective(g)
  BY <1>2 DEF Bijection, Injection, IsInjective
<1>4. SetToSeq(S) \in [1..n -> S]
  BY <1>3 DEF SetToSeq
<1> QED
  BY <1>1, <1>4

LEMMA EnterKeeps == PoolInv /\ EnterPool => PoolInv'
<1> SUFFICES ASSUME PoolInv, EnterPool PROVE PoolInv'
  OBVIOUS
<1> DEFINE n == Len(frame)
<1>1. entered \in Nat /\ entered' = entered + 1 /\ inPool' = inPool \cup {entered + 1}
  BY DEF PoolInv, Numbered, EnterPool
<1>2. frame \in Seq(-1..entered) /\ frame \in Seq(-1..entered')
  BY <1>1 DEF PoolInv, Numbered
<1>3. /\ frame' \in Seq(-1..entered') /\ DOMAIN frame' = 1..(n + 1) /\ DOMAIN frame = 1..n /\ n \in Nat
      /\ frame'[n + 1] = entered + 1 /\ \A i \in 1..n : frame'[i] = frame[i] /\ frame[i] \in -1..entered
  BY <1>1, <1>2 DEF EnterPool
<1>4. \A i, j \in DOMAIN frame' : frame'[i] = frame'[j] /\ frame'[i] \in inPool' => i = j
  <2> SUFFICES ASSUME NEW i \in DOMAIN frame', NEW j \in DOMAIN frame', frame'[i] = frame'[j], frame'[i] \in inPool'
               PROVE  i = j
    OBVIOUS
  <2>1. i \in 1..(n + 1) /\ j \in 1..(n + 1)
    BY <1>3
  <2>2. CASE i = n + 1 \/ j = n + 1
    BY <2>1, <2>2, <1>1, <1>3
  <2>3. CASE i \in 1..n /\ j \in 1..n
    <3>1. frame[i] = frame[j] /\ frame[i] \in inPool \cup {entered + 1} /\ frame[i] \in -1..entered
      BY <2>3, <1>1, <1>3
    <3>2. frame[i] \in inPool
      BY <3>1, <1>1
    <3> QED
      BY <2>3, <3>1, <3>2, <1>3 DEF PoolInv, Numbered
  <2> QED
    BY <2>1, <2>2, <2>3, <1>3
<1>5. Numbered'
  BY <1>1, <1>3, <1>4 DEF PoolInv, Numbered, EnterPool, countVars, refreshVars
<1>6. Due' <=> Due
  BY <1>1, <1>3 DEF Due, EnterPool, refreshVars, HashBlock
<1>7. FramesThenHash'
  <2>1. ("port" \notin off /\ burst => Due)'
    BY <1>6 DEF PoolInv, FramesThenHash, EnterPool, countVars
  <2>2. ASSUME "port" \notin off, NEW i \in DOMAIN frame', ~("dropped" \in off /\ frame'[i] # CoinbaseFrame)
        PROVE  frame'[i] \in inPool' \cup {HashBlock} \/ \E j \in DOMAIN frame' : i < j /\ frame'[j] = HashBlock
    <3>1. CASE i = n + 1
      BY <3>1, <1>1, <1>3
    <3>2. CASE i \in 1..n
      <4>1. frame[i] \in inPool \cup {HashBlock} \/ \E j \in 1..n : i < j /\ frame[j] = HashBlock
        BY <2>2, <3>2, <1>3 DEF PoolInv, FramesThenHash
      <4> QED
        BY <4>1, <3>2, <1>1, <1>3
    <3> QED
      BY <3>1, <3>2, <1>3
  <2>3. off' = off
    BY DEF EnterPool
  <2> QED
    BY <2>1, <2>2, <2>3 DEF FramesThenHash
<1>8. Uncounted' = Uncounted \cup {entered + 1} /\ entered + 1 \notin Uncounted /\ entered + 1 \notin inPool
  <2>1. entered + 1 \notin inPool
    BY <1>1 DEF PoolInv, Numbered
  <2>2. entered + 1 \in Uncounted'
    BY <1>1, <1>3 DEF Uncounted
  <2>3. ASSUME NEW t \in inPool PROVE t \in Uncounted' <=> t \in Uncounted
    <3>1. t # entered + 1
      BY <2>1
    <3> QED
      BY <3>1, <1>1, <1>3 DEF Uncounted
  <2>4. Uncounted \subseteq inPool /\ Uncounted' \subseteq inPool'
    BY DEF Uncounted
  <2> QED
    BY <2>1, <2>2, <2>3, <2>4, <1>1
<1>9. Cardinality(Uncounted') = Cardinality(Uncounted) + 1 /\ Cardinality(inPool') = Cardinality(inPool) + 1
  BY <1>1, <1>8, PoolFinite, FS_AddElement DEF PoolInv
<1>10. Counted'
  <2>1. SUFFICES ASSUME off' = {}, ~Due'
                 PROVE  /\ (statsOK /\ refresher = "wait" => txCount + Cardinality(Uncounted) = Cardinality(inPool))'
                        /\ (refresher = "set" => info + Cardinality(Uncounted) = Cardinality(inPool))'
    BY DEF Counted
  <2>2. off = {} /\ ~Due
    BY <2>1, <1>6 DEF EnterPool
  <2>3. Counted /\ txCount \in Nat /\ info \in Nat /\ Cardinality(inPool) \in Nat /\ Cardinality(Uncounted) \in Nat
    BY PoolFinite DEF PoolInv, Numbered
  <2> QED
    BY <2>2, <2>3, <1>9 DEF Counted, EnterPool, countVars, refreshVars
<1> QED
  BY <1>5, <1>7, <1>10 DEF PoolInv

\* Frames that stand for nothing in the mempool are put after those under way.
LEMMA Appended ==
    ASSUME Numbered, entered' \in Nat, entered <= entered', NEW added \in Seq(-1..entered'),
           inPool' \subseteq inPool, \A i \in DOMAIN added : added[i] \notin inPool',
           frame' = frame \o added, UNCHANGED <<countVars, refreshVars>>
    PROVE  Numbered'
<1> DEFINE n == Len(frame)
<1>1. frame \in Seq(-1..entered) /\ entered \in Nat /\ n \in Nat /\ Len(added) \in Nat
  BY DEF Numbered
<1>2. frame \in Seq(-1..entered')
  BY <1>1
<1>3. /\ frame' \in Seq(-1..entered') /\ DOMAIN frame' = 1..(n + Len(added)) /\ DOMAIN frame = 1..n
      /\ \A i \in 1..n : frame'[i] = frame[i]
      /\ \A i \in 1..(n + Len(added)) : i > n => i - n \in DOMAIN added /\ frame'[i] = added[i - n]
  BY <1>1, <1>2
<1>4. \A i, j \in DOMAIN frame' : frame'[i] = frame'[j] /\ frame'[i] \in inPool' => i = j
  <2> SUFFICES ASSUME NEW i \in DOMAIN frame', NEW j \in DOMAIN frame', frame'[i] = frame'[j], frame'[i] \in inPool'
               PROVE  i = j
    OBVIOUS
  <2>1. i \in 1..n /\ j \in 1..n
    BY <1>1, <1>3
  <2> QED
    BY <2>1, <1>3 DEF Numbered
<1>5. inPool' \subseteq 1..entered'
  BY <1>1 DEF Numbered
<1> QED
  BY <1>3, <1>4, <1>5 DEF Numbered, countVars, refreshVars

LEMMA OutsideSeq ==
    ASSUME NEW A, NEW B, NEW s \in Seq(A \ B)
    PROVE  s \in Seq(A) /\ \A i \in DOMAIN s : s[i] \notin B
<1>1. \A i \in DOMAIN s : s[i] \in A \ B
  OBVIOUS
<1> QED
  BY <1>1

LEMMA MineTxsKeeps == PoolInv /\ MineTxs => PoolInv'
<1> SUFFICES ASSUME PoolInv, MineTxs PROVE PoolInv'
  OBVIOUS
<1>1. PICK S \in SUBSET inPool, unseen \in {{}, {entered + 1}} :
         /\ entered' = entered + Cardinality(unseen) /\ inPool' = inPool \ S
         /\ LET txs == <<CoinbaseFrame>> \o SetToSeq(S \cup unseen)
            IN  \/ frame' = frame \o Append(txs, HashBlock) /\ UNCHANGED <<poolFaults, off>>
                \/ frame' = frame \o <<HashBlock>> \o txs /\ off' = off \cup {"port"}
  BY DEF MineTxs
<1> DEFINE listed == SetToSeq(S \cup unseen)
           txs == <<CoinbaseFrame>> \o listed
           n == Len(frame)
<1>2. entered \in Nat /\ inPool \subseteq 1..entered /\ frame \in Seq(-1..entered)
  BY DEF PoolInv, Numbered
<1>3. IsFiniteSet(unseen) /\ Cardinality(unseen) \in Nat /\ (unseen = {} \/ (unseen = {entered + 1} /\ Cardinality(unseen) = 1))
  <2>1. unseen = {} \/ unseen = {entered + 1}
    OBVIOUS
  <2>2. IsFiniteSet({}) /\ Cardinality({}) = 0 /\ IsFiniteSet({entered + 1}) /\ Cardinality({entered + 1}) = 1
    BY FS_EmptySet, FS_Singleton
  <2>3. CASE unseen = {}
    BY <2>2, <2>3
  <2>4. CASE unseen = {entered + 1}
    BY <2>2, <2>4
  <2> QED
    BY <2>1, <2>3, <2>4
<1>4. entered' \in Nat /\ entered <= entered' /\ S \cup unseen \subseteq 1..entered'
  <2>1. entered' \in Nat /\ entered <= entered' /\ (unseen = {} \/ (unseen = {entered + 1} /\ entered' = entered + 1))
    BY <1>1, <1>2, <1>3
  <2>2. \A t \in S : t \in 1..entered'
    BY <2>1, <1>2
  <2>3. \A t \in unseen : t \in 1..entered'
    BY <2>1, <1>2
  <2> QED
    BY <2>1, <2>2, <2>3
<1>5. S \cup unseen \subseteq (1..entered') \ inPool'
  BY <1>1, <1>2, <1>4
<1>6. IsFiniteSet(S \cup unseen)
  BY <1>3, PoolFinite, FS_Subset, FS_Union DEF PoolInv
<1>7. listed \in Seq(S \cup unseen)
  BY <1>6, ListedOnce
<1>8. listed \in Seq((1..entered') \ inPool') /\ 0 \notin inPool' /\ -1 \notin inPool'
  BY <1>1, <1>2, <1>5, <1>7
<1> HIDE DEF listed
<1>9. txs \in Seq((-1..entered') \ inPool') /\ HashBlock \in (-1..entered') \ inPool'
  BY <1>4, <1>8 DEF CoinbaseFrame, HashBlock
<1> HIDE DEF txs
<1>10. CASE frame' = frame \o Append(txs, HashBlock) /\ UNCHANGED <<poolFaults, off>>
  <2> DEFINE added == Append(txs, HashBlock)
  <2>1. added \in Seq((-1..entered') \ inPool')
    BY <1>9
  <2>2. added \in Seq(-1..entered') /\ \A i \in DOMAIN added : added[i] \notin inPool'
    BY <2>1, OutsideSeq
  <2>3. Len(txs) \in Nat /\ Len(added) = Len(txs) + 1 /\ added[Len(added)] = HashBlock
    BY <1>9
  <2> HIDE DEF added
  <2>4. Numbered'
    BY <1>1, <1>4, <1>10, <2>2, Appended DEF MineTxs, PoolInv, added
  <2>5. frame' \in Seq(-1..entered') /\ DOMAIN frame' = 1..(n + Len(added)) /\ n \in Nat
    BY <1>2, <1>10, <2>2, <2>4 DEF added, Numbered
  <2>6. frame'[n + Len(added)] = HashBlock
    BY <1>2, <1>10, <2>2, <2>3 DEF added
  <2>7. n + Len(added) \in DOMAIN frame' /\ \A i \in DOMAIN frame' : i < n + Len(added) \/ frame'[i] = HashBlock
    BY <2>3, <2>5, <2>6
  <2>8. Due'
    BY <2>6, <2>7 DEF Due
  <2>9. FramesThenHash'
    BY <2>6, <2>7, <2>8 DEF FramesThenHash
  <2> QED
    BY <2>4, <2>8, <2>9 DEF PoolInv, Counted
<1>11. CASE frame' = frame \o <<HashBlock>> \o txs /\ off' = off \cup {"port"}
  <2> DEFINE added == <<HashBlock>> \o txs
  <2>1. added \in Seq((-1..entered') \ inPool') /\ frame' = frame \o added
    BY <1>2, <1>9, <1>11
  <2>2. added \in Seq(-1..entered') /\ \A i \in DOMAIN added : added[i] \notin inPool'
    BY <2>1, OutsideSeq
  <2> HIDE DEF added
  <2>3. Numbered'
    BY <1>1, <1>4, <2>1, <2>2, Appended DEF MineTxs, PoolInv
  <2>4. "port" \in off' /\ off' # {}
    BY <1>11
  <2> QED
    BY <2>3, <2>4 DEF PoolInv, FramesThenHash, Counted
<1> QED
  BY <1>1, <1>10, <1>11 DEF listed, txs

LEMMA DropKeeps == PoolInv /\ DropTx => PoolInv'
<1> SUFFICES ASSUME PoolInv, DropTx PROVE PoolInv'
  OBVIOUS
<1>1. inPool' \subseteq inPool /\ off' = off \cup {"dropped"}
  BY DEF DropTx
<1>2. Numbered'
  BY <1>1 DEF PoolInv, Numbered, DropTx, countVars, refreshVars
<1>3. Due' <=> Due
  BY DEF Due, DropTx, refreshVars
<1>4. FramesThenHash'
  <2>1. \A t \in inPool : t # CoinbaseFrame
    BY DEF PoolInv, Numbered, CoinbaseFrame
  <2>2. "dropped" \in off' /\ ("port" \notin off' => "port" \notin off) /\ frame' = frame /\ burst' = burst
    BY <1>1 DEF DropTx, countVars
  <2> QED
    BY <2>1, <2>2, <1>3 DEF PoolInv, FramesThenHash
<1> QED
  BY <1>1, <1>2, <1>4 DEF PoolInv, Counted

\* Of a count and nothing, the count is the higher.
LEMMA NotBelow == ASSUME NEW n \in Int PROVE Max({0, n}) \in Nat /\ (n \in Nat => Max({0, n}) = n)
<1> DEFINE m == IF n >= 0 THEN n ELSE 0
<1>1. m \in {0, n} /\ \A y \in {0, n} : m >= y
  OBVIOUS
<1>2. Max({0, n}) \in {0, n} /\ \A y \in {0, n} : Max({0, n}) >= y
  BY <1>1 DEF Max
<1> QED
  BY <1>2

LEMMA RecordKeeps == PoolInv /\ RecordFrame => PoolInv'
<1> SUFFICES ASSUME PoolInv, RecordFrame PROVE PoolInv'
  OBVIOUS
<1> DEFINE t == Head(frame)
           n == Len(frame)
<1>1. /\ frame \in Seq(-1..entered) /\ frame # <<>> /\ frame' = Tail(frame) /\ txCount \in Nat /\ entered \in Nat
      /\ burst \in BOOLEAN
  BY DEF PoolInv, Numbered, RecordFrame
<1>2. /\ n \in Nat \ {0} /\ DOMAIN frame = 1..n /\ t = frame[1] /\ t \in -1..entered
      /\ DOMAIN frame' = 1..(n - 1) /\ frame' \in Seq(-1..entered)
      /\ \A i \in 1..(n - 1) : frame'[i] = frame[i + 1]
  BY <1>1
<1>3. /\ UNCHANGED <<entered, inPool, statsOK, refresher, info>>
      /\ IF t = HashBlock THEN wake' = TRUE /\ UNCHANGED <<countVars, off>>
         ELSE /\ burst' = (burst \/ t = CoinbaseFrame)
              /\ txCount' = Max({0, txCount + Sign(t)})
              /\ off' = (IF Sign(t) = 1 /\ refresher = "set" THEN off \cup {"raced"} ELSE off)
              /\ UNCHANGED wake
  BY DEF RecordFrame
<1> HIDE DEF t
<1>4. Sign(t) \in {-1, 0, 1}
  BY DEF Sign
<1>5. txCount' \in Nat /\ (Sign(t) \in {0, 1} /\ t # HashBlock => txCount' = txCount + Sign(t))
  <2>1. CASE t = HashBlock
    BY <2>1, <1>1, <1>3 DEF countVars
  <2>2. CASE t # HashBlock
    <3>1. txCount' = Max({0, txCount + Sign(t)}) /\ txCount + Sign(t) \in Int
      BY <1>1, <1>3, <1>4, <2>2
    <3> QED
      BY <3>1, <1>1, <1>4, NotBelow
  <2> QED
    BY <2>1, <2>2
<1>6. \A i, j \in DOMAIN frame' : frame'[i] = frame'[j] /\ frame'[i] \in inPool' => i = j
  <2> SUFFICES ASSUME NEW i \in DOMAIN frame', NEW j \in DOMAIN frame', frame'[i] = frame'[j], frame'[i] \in inPool'
               PROVE  i = j
    OBVIOUS
  <2>1. i \in Int /\ j \in Int /\ i + 1 \in DOMAIN frame /\ j + 1 \in DOMAIN frame /\ frame[i + 1] = frame[j + 1] /\ frame[i + 1] \in inPool
    BY <1>2, <1>3
  <2>2. i + 1 = j + 1
    BY <2>1 DEF PoolInv, Numbered
  <2> QED
    BY <2>1, <2>2
<1>7. Numbered'
  <2>1. burst' \in BOOLEAN /\ wake' \in BOOLEAN
    BY <1>3 DEF PoolInv, Numbered, countVars
  <2> QED
    BY <1>2, <1>3, <1>5, <1>6, <2>1 DEF PoolInv, Numbered
<1>8. Due => Due'
  <2>1. CASE wake \/ refresher = "burst" \/ t = HashBlock
    BY <2>1, <1>3 DEF Due
  <2>2. CASE t # HashBlock /\ \E i \in DOMAIN frame : frame[i] = HashBlock
    <3>1. PICK i \in 1..n : frame[i] = HashBlock
      BY <2>2, <1>2
    <3>2. i # 1
      BY <2>2, <3>1, <1>2
    <3>3. i - 1 \in 1..(n - 1) /\ frame'[i - 1] = frame[i]
      BY <3>1, <3>2, <1>2
    <3> QED
      BY <3>1, <3>3, <1>2 DEF Due
  <2> QED
    BY <2>1, <2>2 DEF Due
<1>9. off \subseteq off' /\ ("port" \in off' <=> "port" \in off) /\ ("dropped" \in off' <=> "dropped" \in off)
  BY <1>3
<1>10. ASSUME "port" \notin off, ~("dropped" \in off /\ t # CoinbaseFrame)
       PROVE  t \in inPool \cup {HashBlock} \/ Due'
  <2>1. CASE \E j \in DOMAIN frame : 1 < j /\ frame[j] = HashBlock
    BY <2>1, <1>8 DEF Due
  <2> QED
    BY <2>1, <1>2, <1>10 DEF PoolInv, FramesThenHash
<1>11. FramesThenHash'
  <2>1. ASSUME "port" \notin off', burst' PROVE Due'
    <3>1. CASE burst
      BY <2>1, <3>1, <1>8, <1>9 DEF PoolInv, FramesThenHash
    <3>2. CASE ~burst
      <4>1. t = CoinbaseFrame /\ t # HashBlock
        BY <2>1, <3>2, <1>3 DEF countVars
      <4>2. t \notin inPool \cup {HashBlock}
        BY <4>1 DEF PoolInv, Numbered, CoinbaseFrame
      <4> QED
        BY <2>1, <4>1, <4>2, <1>9, <1>10
    <3> QED
      BY <3>1, <3>2, <1>1
  <2>2. ASSUME "port" \notin off', NEW i \in DOMAIN frame', ~("dropped" \in off' /\ frame'[i] # CoinbaseFrame)
        PROVE  frame'[i] \in inPool' \cup {HashBlock} \/ \E j \in DOMAIN frame' : i < j /\ frame'[j] = HashBlock
    <3>1. i \in 1..(n - 1) /\ i + 1 \in 1..n /\ frame'[i] = frame[i + 1]
      BY <1>2
    <3>2. frame[i + 1] \in inPool \cup {HashBlock} \/ \E j \in 1..n : i + 1 < j /\ frame[j] = HashBlock
      BY <2>2, <3>1, <1>2, <1>9 DEF PoolInv, FramesThenHash
    <3>3. ASSUME NEW j \in 1..n, i + 1 < j, frame[j] = HashBlock
          PROVE  j - 1 \in DOMAIN frame' /\ i < j - 1 /\ frame'[j - 1] = HashBlock
      BY <3>1, <3>3, <1>2
    <3> QED
      BY <3>1, <3>2, <3>3, <1>3
  <2> QED
    BY <2>1, <2>2 DEF FramesThenHash
<1>12. Counted'
  <2>1. SUFFICES ASSUME off' = {}, ~Due'
                 PROVE  /\ (statsOK /\ refresher = "wait" => txCount + Cardinality(Uncounted) = Cardinality(inPool))'
                        /\ (refresher = "set" => info + Cardinality(Uncounted) = Cardinality(inPool))'
    BY DEF Counted
  <2>2. off = {} /\ ~Due /\ t # HashBlock /\ t \in inPool
    <3>1. t # HashBlock
      BY <2>1, <1>3 DEF Due
    <3> QED
      BY <3>1, <2>1, <1>8, <1>9, <1>10
  <2>3. ~burst /\ Sign(t) = 1 /\ txCount' = txCount + 1 /\ refresher # "set"
    <3>1. ~burst
      BY <2>2 DEF PoolInv, FramesThenHash
    <3>2. t # CoinbaseFrame
      BY <2>2 DEF PoolInv, Numbered, CoinbaseFrame
    <3>3. Sign(t) = 1
      BY <3>1, <3>2 DEF Sign
    <3> QED
      BY <3>1, <3>3, <2>1, <2>2, <1>3, <1>5
  <2>4. Uncounted' = Uncounted \ {t} /\ t \in Uncounted
    <3>1. t \in Uncounted
      BY <2>2, <1>2 DEF Uncounted
    <3>2. t \notin Uncounted'
      <4>1. SUFFICES ASSUME NEW i \in DOMAIN frame', frame'[i] = t PROVE FALSE
        BY DEF Uncounted
      <4>2. i + 1 \in DOMAIN frame /\ 1 \in DOMAIN frame /\ frame[i + 1] = frame[1] /\ frame[i + 1] \in inPool /\ i + 1 # 1
        BY <4>1, <2>2, <1>2
      <4> QED
        BY <4>2 DEF PoolInv, Numbered
    <3>3. ASSUME NEW u \in inPool, u # t PROVE u \in Uncounted' <=> u \in Uncounted
      <4>1. ASSUME NEW i \in DOMAIN frame', frame'[i] = u PROVE i + 1 \in DOMAIN frame /\ frame[i + 1] = u
        BY <4>1, <1>2
      <4>2. ASSUME NEW i \in DOMAIN frame, frame[i] = u PROVE i - 1 \in DOMAIN frame' /\ frame'[i - 1] = u
        <5>1. i # 1
          BY <3>3, <4>2, <1>2
        <5> QED
          BY <5>1, <4>2, <1>2
      <4> QED
        BY <4>1, <4>2, <1>3 DEF Uncounted
    <3>4. Uncounted \subseteq inPool /\ Uncounted' \subseteq inPool
      BY <1>3 DEF Uncounted
    <3> QED
      BY <3>1, <3>2, <3>3, <3>4
  <2>5. Cardinality(Uncounted') = Cardinality(Uncounted) - 1
    BY <2>4, PoolFinite, FS_RemoveElement DEF PoolInv
  <2>6. Cardinality(Uncounted) \in Nat /\ Cardinality(inPool) \in Nat
    BY PoolFinite DEF PoolInv
  <2> QED
    BY <2>2, <2>3, <2>5, <2>6, <1>1, <1>3 DEF PoolInv, Counted
<1> QED
  BY <1>7, <1>11, <1>12 DEF PoolInv

LEMMA AskKeepsCount == PoolInv /\ AskInfo => PoolInv'
<1> SUFFICES ASSUME PoolInv, AskInfo PROVE PoolInv'
  OBVIOUS
<1>1. refresher = "ask" /\ UNCHANGED <<entered, inPool, frame, txCount, burst, statsOK, wake>>
  BY DEF AskInfo, feedVars, countVars
<1>2. Due' => Due
  BY <1>1 DEF Due, AskInfo
<1>3. Due => Due'
  BY <1>1 DEF Due
<1>4. Uncounted' = Uncounted
  BY <1>1 DEF Uncounted
<1>5. CASE /\ refresher' = "set" /\ info' = Cardinality(inPool)
           /\ off' = (IF \E i \in DOMAIN frame : frame[i] \in inPool THEN {"raced"} ELSE {})
                          \cup (off \cap (IF frame # <<>> THEN {"port", "dropped"} ELSE IF burst THEN {"port"} ELSE {}))
  <2>1. Numbered'
    BY <1>1, <1>5, PoolFinite DEF PoolInv, Numbered
  <2>2. FramesThenHash'
    <3>1. ASSUME "port" \notin off', burst' PROVE Due'
      <4>1. "port" \notin off
        BY <3>1, <1>1, <1>5
      <4> QED
        BY <4>1, <3>1, <1>1, <1>3 DEF PoolInv, FramesThenHash
    <3>2. ASSUME "port" \notin off', NEW i \in DOMAIN frame, ~("dropped" \in off' /\ frame[i] # CoinbaseFrame)
          PROVE  frame[i] \in inPool \cup {HashBlock} \/ \E j \in DOMAIN frame : i < j /\ frame[j] = HashBlock
      <4>1. frame # <<>>
        BY <3>2
      <4>2. "port" \notin off /\ ~("dropped" \in off /\ frame[i] # CoinbaseFrame)
        BY <4>1, <3>2, <1>5
      <4> QED
        BY <4>2 DEF PoolInv, FramesThenHash
    <3> QED
      BY <3>1, <3>2, <1>1 DEF FramesThenHash
  <2>3. Counted'
    <3>1. SUFFICES ASSUME off' = {} PROVE info' + Cardinality(Uncounted') = Cardinality(inPool')
      BY <1>5 DEF Counted
    <3>2. Uncounted = {}
      BY <3>1, <1>5 DEF Uncounted
    <3>3. Cardinality(Uncounted') = 0
      BY <3>2, <1>4, FS_EmptySet
    <3>4. Cardinality(inPool) \in Nat /\ inPool' = inPool
      BY <1>1, PoolFinite DEF PoolInv
    <3> QED
      BY <3>3, <3>4, <1>5
  <2> QED
    BY <2>1, <2>2, <2>3 DEF PoolInv
<1>6. CASE refresher' = "wait" /\ off' = off \cup {"failed"} /\ UNCHANGED info
  <2>1. Numbered'
    BY <1>1, <1>6 DEF PoolInv, Numbered
  <2>2. FramesThenHash'
    <3>1. "port" \notin off' => "port" \notin off
      BY <1>6
    <3>2. "dropped" \in off => "dropped" \in off'
      BY <1>6
    <3> QED
      BY <3>1, <3>2, <1>1, <1>3 DEF PoolInv, FramesThenHash
  <2>3. off' # {}
    BY <1>6
  <2> QED
    BY <2>1, <2>2, <2>3 DEF PoolInv, Counted
<1> QED
  BY <1>5, <1>6 DEF AskInfo

\* The steps that leave the mempool, the frames and what moved the count away alone.
LEMMA RefreshKeeps == PoolInv /\ (BurstOver \/ TickRefresh \/ TakeWake \/ WaitBurst \/ SetCount) => PoolInv'
<1> SUFFICES ASSUME PoolInv, BurstOver \/ TickRefresh \/ TakeWake \/ WaitBurst \/ SetCount PROVE PoolInv'
  OBVIOUS
<1>1. UNCHANGED <<entered, inPool, frame, info, off>>
  BY DEF BurstOver, TickRefresh, TakeWake, WaitBurst, SetCount, feedVars, countVars, refreshVars
<1>2. Uncounted' = Uncounted
  BY <1>1 DEF Uncounted
<1>3. Numbered'
  BY <1>1 DEF BurstOver, TickRefresh, TakeWake, WaitBurst, SetCount, PoolInv, Numbered, countVars, refreshVars, feedVars
<1>4. CASE BurstOver
  <2>1. burst' = FALSE /\ UNCHANGED <<txCount, statsOK, wake, refresher>>
    BY <1>4 DEF BurstOver, refreshVars
  <2>2. Due' <=> Due
    BY <1>1, <2>1 DEF Due
  <2>3. FramesThenHash' /\ Counted'
    BY <1>1, <1>2, <2>1, <2>2 DEF PoolInv, FramesThenHash, Counted
  <2> QED
    BY <1>3, <2>3 DEF PoolInv
<1>5. CASE TickRefresh
  <2>1. refresher = "wait" /\ refresher' = "ask" /\ UNCHANGED <<txCount, burst, statsOK, wake>>
    BY <1>5 DEF TickRefresh, countVars
  <2>2. Due' <=> Due
    BY <1>1, <2>1 DEF Due
  <2>3. FramesThenHash' /\ Counted'
    BY <1>1, <1>2, <2>1, <2>2 DEF PoolInv, FramesThenHash, Counted
  <2> QED
    BY <1>3, <2>3 DEF PoolInv
<1>6. CASE TakeWake
  <2>1. refresher' = "burst" /\ UNCHANGED burst
    BY <1>6 DEF TakeWake, countVars
  <2>2. Due'
    BY <2>1 DEF Due
  <2>3. FramesThenHash' /\ Counted'
    BY <1>1, <2>1, <2>2 DEF PoolInv, FramesThenHash, Counted
  <2> QED
    BY <1>3, <2>3 DEF PoolInv
<1>7. CASE WaitBurst
  <2>1. refresher' = "ask" /\ ~burst /\ UNCHANGED burst
    BY <1>7 DEF WaitBurst, WaitedOut, countVars
  <2>2. FramesThenHash' /\ Counted'
    BY <1>1, <2>1 DEF PoolInv, FramesThenHash, Counted
  <2> QED
    BY <1>3, <2>2 DEF PoolInv
<1>8. CASE SetCount
  <2>1. refresher = "set" /\ refresher' = "wait" /\ txCount' = info /\ UNCHANGED <<burst, wake>>
    BY <1>8 DEF SetCount
  <2>2. Due' <=> Due
    BY <1>1, <2>1 DEF Due
  <2>3. FramesThenHash' /\ Counted'
    BY <1>1, <1>2, <2>1, <2>2 DEF PoolInv, FramesThenHash, Counted
  <2> QED
    BY <1>3, <2>3 DEF PoolInv
<1> QED
  BY <1>4, <1>5, <1>6, <1>7, <1>8

\* The total and the flow move nothing the count depends on, and neither does a stutter.
LEMMA PoolRest == PoolInv /\ (Summer \/ FlowArrival \/ FlowTime \/ UNCHANGED poolVars) => PoolInv'
<1> SUFFICES ASSUME PoolInv, Summer \/ FlowArrival \/ FlowTime \/ UNCHANGED poolVars PROVE PoolInv'
  OBVIOUS
<1>1. UNCHANGED <<entered, inPool, frame, txCount, burst, statsOK, wake, refresher, info, off>>
  BY DEF Summer, AskTotals, SetSummary, TickSummary, FlowArrival, FlowTime, poolVars, feedVars, countVars, refreshVars
<1>2. Uncounted' = Uncounted /\ (Due' <=> Due)
  BY <1>1 DEF Uncounted, Due
<1> QED
  BY <1>1, <1>2 DEF PoolInv, Numbered, FramesThenHash, Counted

LEMMA PoolInvariant == PoolSpec => []PoolInv
<1>1. PoolInv /\ [PoolNext]_poolVars => PoolInv'
  BY EnterKeeps, MineTxsKeeps, DropKeeps, RecordKeeps, AskKeepsCount, RefreshKeeps, PoolRest DEF PoolNext, Refresher
<1> QED
  BY <1>1, PoolInitOK, PTL DEF PoolSpec

\* Once a block's burst is over and the refresh it called for done, the count is the
\* node's.
THEOREM CountIsNodes == PoolSpec => []CountOfNode
<1>1. PoolInv => CountOfNode
  <2> SUFFICES ASSUME PoolInv, statsOK, frame = <<>>, ~burst, ~wake, refresher = "wait", off = {}
               PROVE  txCount = Cardinality(inPool)
    BY DEF CountOfNode
  <2>1. DOMAIN frame = {}
    OBVIOUS
  <2>2. ~Due /\ Uncounted = {}
    BY <2>1 DEF Due, Uncounted
  <2>3. Cardinality(Uncounted) = 0 /\ Cardinality(inPool) \in Nat /\ txCount \in Nat
    BY <2>2, FS_EmptySet, PoolFinite DEF PoolInv, Numbered
  <2> QED
    BY <2>2, <2>3 DEF PoolInv, Counted
<1> QED
  BY <1>1, PoolInvariant, PTL

-----------------------------------------------------------------------------
(* The flow rate.                                                          *)

\* The arrivals kept are the last of all there were, and those dropped are too old.
FlowInv ==
    /\ flowNow \in Nat /\ every \in Seq(Nat) /\ arrivals \in Seq(Nat)
    /\ \E k \in 0..Len(every) :
           /\ Len(arrivals) = Len(every) - k
           /\ \A i \in 1..Len(arrivals) : arrivals[i] = every[i + k]
           /\ \A i \in 1..k : flowNow - every[i] > 2 * FlowWindow

\* What Record drops is the arrivals before the first that is not too old.
LEMMA PrunedFront ==
    ASSUME flowNow \in Nat, arrivals \in Seq(Nat)
    PROVE  \E n \in 0..Len(arrivals) : Pruned = SubSeq(arrivals, n + 1, Len(arrivals)) /\ \A i \in 1..n : TooOld(i)
<1> DEFINE len == Len(arrivals)
           Front1(n) == (\A i \in 1..n : TooOld(i)) /\ (n < len => ~TooOld(n + 1))
           fresh == {i \in 1..len : ~TooOld(i)}
<1>1. len \in Nat
  OBVIOUS
<1>2. \E n \in 0..len : Front1(n)
  <2>1. CASE fresh = {}
    <3>1. len \in 0..len /\ Front1(len)
      BY <1>1, <2>1
    <3> QED
      BY <3>1
  <2>2. CASE fresh # {}
    <3>1. fresh \in SUBSET Nat
      OBVIOUS
    <3>2. Min(fresh) \in fresh /\ \A y \in fresh : Min(fresh) <= y
      BY <2>2, <3>1, LeastOf
    <3> DEFINE m == Min(fresh)
    <3>3. m \in 1..len /\ ~TooOld(m) /\ \A i \in 1..len : ~TooOld(i) => m <= i
      BY <3>2
    <3> HIDE DEF m, fresh
    <3>4. m - 1 \in 0..len /\ (m - 1) + 1 = m /\ \A i \in 1..(m - 1) : TooOld(i)
      BY <1>1, <3>3
    <3>5. Front1(m - 1)
      BY <3>3, <3>4
    <3> QED
      BY <3>4, <3>5
  <2> QED
    BY <2>1, <2>2
<1> DEFINE n == CHOOSE n \in 0..len : Front1(n)
<1>3. n \in 0..len /\ Front1(n)
  BY <1>2
<1>4. Pruned = SubSeq(arrivals, n + 1, len)
  BY DEF Pruned
<1> HIDE DEF n
<1> QED
  BY <1>3, <1>4

LEMMA FlowInitOK == PoolInit => FlowInv
<1> SUFFICES ASSUME PoolInit PROVE FlowInv
  OBVIOUS
<1>1. flowNow = 0 /\ every = <<>> /\ arrivals = <<>>
  BY DEF PoolInit
<1>2. Len(every) = 0 /\ Len(arrivals) = 0 /\ 0 \in 0..Len(every)
  BY <1>1
<1> QED
  BY <1>1, <1>2 DEF FlowInv

LEMMA ArrivalKeeps == FlowInv /\ FlowArrival => FlowInv'
<1> SUFFICES ASSUME FlowInv, FlowArrival PROVE FlowInv'
  OBVIOUS
<1>1. /\ flowNow \in Nat /\ every \in Seq(Nat) /\ arrivals \in Seq(Nat) /\ flowNow' = flowNow
      /\ arrivals' = Append(Pruned, flowNow) /\ every' = Append(every, flowNow)
  BY DEF FlowInv, FlowArrival
<1>2. PICK k \in 0..Len(every) :
         /\ Len(arrivals) = Len(every) - k
         /\ \A i \in 1..Len(arrivals) : arrivals[i] = every[i + k]
         /\ \A i \in 1..k : flowNow - every[i] > 2 * FlowWindow
  BY DEF FlowInv
<1>3. PICK n \in 0..Len(arrivals) : Pruned = SubSeq(arrivals, n + 1, Len(arrivals)) /\ \A i \in 1..n : TooOld(i)
  BY <1>1, PrunedFront
<1> DEFINE a == Len(arrivals)
           e == Len(every)
<1>4. /\ Pruned \in Seq(Nat) /\ Len(Pruned) = a - n /\ \A i \in 1..(a - n) : Pruned[i] = arrivals[i + n]
      /\ a \in Nat /\ e \in Nat
  BY <1>1, <1>3
<1>5. /\ arrivals' \in Seq(Nat) /\ Len(arrivals') = (a - n) + 1 /\ arrivals'[(a - n) + 1] = flowNow
      /\ \A i \in 1..(a - n) : arrivals'[i] = arrivals[i + n]
  <2> DEFINE m == Len(Pruned)
  <2>1. m = a - n /\ m \in Nat
    BY <1>4
  <2>2. /\ arrivals' \in Seq(Nat) /\ Len(arrivals') = m + 1 /\ arrivals'[m + 1] = flowNow
        /\ \A i \in 1..m : arrivals'[i] = Pruned[i]
    BY <1>1, <1>4
  <2> HIDE DEF m, a, e
  <2> QED
    BY <1>4, <2>1, <2>2
<1>6. /\ every' \in Seq(Nat) /\ Len(every') = e + 1 /\ every'[e + 1] = flowNow
      /\ \A i \in 1..e : every'[i] = every[i]
  BY <1>1
<1>7. a = e - k /\ k \in 0..e /\ n \in 0..a
  BY <1>2, <1>3
<1>8. \A i \in 1..a : arrivals[i] = every[i + k]
  BY <1>2
<1>9. \A i \in 1..n : flowNow - arrivals[i] > 2 * FlowWindow
  BY <1>3 DEF TooOld
<1> HIDE DEF a, e
<1>10. k + n \in 0..Len(every') /\ Len(arrivals') = Len(every') - (k + n)
  BY <1>4, <1>5, <1>6, <1>7
<1>11. ASSUME NEW i \in 1..Len(arrivals') PROVE arrivals'[i] = every'[i + (k + n)]
  <2>1. CASE i = (a - n) + 1
    <3>1. i + (k + n) = e + 1
      BY <1>4, <1>7, <2>1
    <3> QED
      BY <1>5, <1>6, <2>1, <3>1
  <2>2. CASE i # (a - n) + 1
    <3>1. i \in 1..(a - n) /\ i + n \in 1..a /\ i + (k + n) \in 1..e /\ (i + n) + k = i + (k + n)
      BY <1>4, <1>5, <1>7, <2>2
    <3>2. arrivals'[i] = arrivals[i + n] /\ arrivals[i + n] = every[(i + n) + k]
      BY <1>5, <1>8, <3>1
    <3> QED
      BY <1>6, <3>1, <3>2
  <2> QED
    BY <2>1, <2>2
<1>12. ASSUME NEW i \in 1..(k + n) PROVE flowNow' - every'[i] > 2 * FlowWindow
  <2>0. i \in Int /\ 1 <= i /\ i <= k + n /\ k + n <= e
    BY <1>4, <1>7
  <2>1. i \in 1..e /\ every'[i] = every[i]
    <3>1. i \in 1..e
      BY <1>4, <2>0
    <3> QED
      BY <1>6, <3>1
  <2>2. CASE i \in 1..k
    BY <1>1, <1>2, <2>1, <2>2
  <2>3. CASE i \notin 1..k
    <3>1. i - k \in 1..n /\ i - k \in 1..a /\ (i - k) + k = i
      BY <1>4, <1>7, <2>3
    <3>2. arrivals[i - k] = every[(i - k) + k]
      BY <1>8, <3>1
    <3>3. arrivals[i - k] = every[i]
      BY <3>1, <3>2
    <3> QED
      BY <1>1, <1>9, <2>1, <3>1, <3>3
  <2> QED
    BY <2>2, <2>3
<1> QED
  BY <1>1, <1>5, <1>6, <1>10, <1>11, <1>12 DEF FlowInv

LEMMA FlowStep == FlowInv /\ [PoolNext]_poolVars => FlowInv'
<1> SUFFICES ASSUME FlowInv, [PoolNext]_poolVars PROVE FlowInv'
  OBVIOUS
<1>1. CASE FlowArrival
  BY <1>1, ArrivalKeeps
<1>2. CASE FlowTime
  <2>1. flowNow' = flowNow + 1 /\ UNCHANGED <<arrivals, every>>
    BY <1>2 DEF FlowTime
  <2>2. PICK k \in 0..Len(every) :
           /\ Len(arrivals) = Len(every) - k
           /\ \A i \in 1..Len(arrivals) : arrivals[i] = every[i + k]
           /\ \A i \in 1..k : flowNow - every[i] > 2 * FlowWindow
    BY DEF FlowInv
  <2>3. flowNow \in Nat /\ every \in Seq(Nat) /\ arrivals \in Seq(Nat) /\ 2 * FlowWindow \in Int
    BY PoolType DEF FlowInv
  <2>4. ASSUME NEW i \in 1..k PROVE flowNow' - every'[i] > 2 * FlowWindow
    <3> DEFINE w == 2 * FlowWindow
               x == every[i]
    <3>1. i \in 1..Len(every) /\ x \in Nat /\ flowNow - x > w /\ w \in Int /\ every'[i] = x
      BY <2>1, <2>2, <2>3
    <3> HIDE DEF w, x
    <3>2. (flowNow + 1) - x > w
      BY <2>3, <3>1
    <3> QED
      BY <2>1, <3>1, <3>2 DEF w
  <2>5. flowNow' \in Nat
    BY <2>1, <2>3
  <2> QED
    BY <2>1, <2>2, <2>3, <2>4, <2>5 DEF FlowInv
<1>3. CASE UNCHANGED flowVars
  BY <1>3 DEF FlowInv, flowVars
<1>4. [PoolNext]_poolVars => FlowArrival \/ FlowTime \/ UNCHANGED flowVars
  BY DEF PoolNext, poolVars, EnterPool, MineTxs, DropTx, RecordFrame, BurstOver, Refresher, Summer,
         TickRefresh, TakeWake, WaitBurst, AskInfo, SetCount, AskTotals, SetSummary, TickSummary
<1> QED
  BY <1>1, <1>2, <1>3, <1>4

\* As many positions, each so much further on.
LEMMA Shifted ==
    ASSUME NEW A \in SUBSET Int, IsFiniteSet(A), NEW k \in Int
    PROVE  Cardinality({i + k : i \in A}) = Cardinality(A)
<1> DEFINE B == {i + k : i \in A}
           f == [i \in A |-> i + k]
<1>1. f \in Bijection(A, B)
  <2>1. f \in [A -> B] /\ \A i, j \in A : f[i] = f[j] => i = j
    <3>1. \A i \in A : i \in Int /\ f[i] = i + k
      OBVIOUS
    <3>2. f \in [A -> B]
      OBVIOUS
    <3> HIDE DEF f, B
    <3>3. \A i, j \in Int : i + k = j + k => i = j
      OBVIOUS
    <3> QED
      BY <3>1, <3>2, <3>3
  <2>2. \A b \in B : \E i \in A : f[i] = b
    OBVIOUS
  <2> QED
    BY <2>1, <2>2 DEF Bijection, Injection, Surjection, IsInjective
<1>2. ExistsBijection(A, B)
  BY <1>1 DEF ExistsBijection
<1> QED
  BY <1>2, FS_Bijection

\* The rate and its change, in windows of any length, are those of all the arrivals there
\* ever were.
THEOREM FlowIsOfAll == PoolSpec => []FlowOfArrivals
<1>1. FlowInv => FlowOfArrivals
  <2> SUFFICES ASSUME FlowInv PROVE FlowAt(arrivals) = FlowAt(every)
    BY DEF FlowOfArrivals
  <2>1. flowNow \in Nat /\ every \in Seq(Nat) /\ arrivals \in Seq(Nat) /\ FlowWindow \in Nat \ {0}
    BY PoolType DEF FlowInv
  <2>2. PICK k \in 0..Len(every) :
           /\ Len(arrivals) = Len(every) - k
           /\ \A i \in 1..Len(arrivals) : arrivals[i] = every[i + k]
           /\ \A i \in 1..k : flowNow - every[i] > 2 * FlowWindow
    BY DEF FlowInv
  <2> DEFINE Recent(i, s) == flowNow - s[i] <= FlowWindow
             Before1(i, s) == FlowWindow < flowNow - s[i] /\ flowNow - s[i] <= 2 * FlowWindow
             a == Len(arrivals)
             e == Len(every)
  <2>3. a \in Nat /\ e \in Nat /\ a = e - k /\ k \in 0..e /\ DOMAIN arrivals = 1..a /\ DOMAIN every = 1..e
    BY <2>1, <2>2
  <2>4. ASSUME NEW i \in 1..e, Recent(i, every) \/ Before1(i, every)
        PROVE  i - k \in 1..a
    <3>1. ~(i \in 1..k)
      <4>1. every[i] \in Nat
        BY <2>1, <2>3
      <4> QED
        BY <2>1, <2>2, <2>4, <4>1
    <3> HIDE DEF Recent, Before1, a, e
    <3> QED
      BY <2>3, <3>1
  <2>5. ASSUME NEW i \in 1..a PROVE i + k \in 1..e /\ arrivals[i] = every[i + k]
    BY <2>2, <2>3
  <2>6. {i \in 1..e : Recent(i, every)} = {i + k : i \in {j \in 1..a : Recent(j, arrivals)}}
    <3>1. ASSUME NEW i \in 1..e, Recent(i, every)
          PROVE  i - k \in 1..a /\ Recent(i - k, arrivals) /\ i = (i - k) + k
      <4>1. i - k \in 1..a /\ i = (i - k) + k
        BY <2>3, <2>4, <3>1
      <4>2. arrivals[i - k] = every[i]
        BY <2>5, <4>1
      <4> QED
        BY <3>1, <4>1, <4>2
    <3>2. ASSUME NEW j \in 1..a, Recent(j, arrivals) PROVE j + k \in 1..e /\ Recent(j + k, every)
      BY <2>5, <3>2
    <3> HIDE DEF Recent, a, e
    <3> QED
      BY <3>1, <3>2
  <2>7. {i \in 1..e : Before1(i, every)} = {i + k : i \in {j \in 1..a : Before1(j, arrivals)}}
    <3>1. ASSUME NEW i \in 1..e, Before1(i, every)
          PROVE  i - k \in 1..a /\ Before1(i - k, arrivals) /\ i = (i - k) + k
      <4>1. i - k \in 1..a /\ i = (i - k) + k
        BY <2>3, <2>4, <3>1
      <4>2. arrivals[i - k] = every[i]
        BY <2>5, <4>1
      <4> QED
        BY <3>1, <4>1, <4>2
    <3>2. ASSUME NEW j \in 1..a, Before1(j, arrivals) PROVE j + k \in 1..e /\ Before1(j + k, every)
      BY <2>5, <3>2
    <3> HIDE DEF Before1, a, e
    <3> QED
      BY <3>1, <3>2
  <2>8. IsFiniteSet(1..a) /\ k \in Int
    BY <2>3, FS_Interval
  <2>9. Cardinality({i \in 1..e : Recent(i, every)}) = Cardinality({j \in 1..a : Recent(j, arrivals)})
    <3> DEFINE S == {j \in 1..a : Recent(j, arrivals)}
    <3>1. S \in SUBSET Int /\ IsFiniteSet(S)
      BY <2>8, FS_Subset
    <3> HIDE DEF S
    <3>2. Cardinality({i + k : i \in S}) = Cardinality(S)
      BY <2>8, <3>1, Shifted
    <3> QED
      BY <2>6, <3>2 DEF S
  <2>10. Cardinality({i \in 1..e : Before1(i, every)}) = Cardinality({j \in 1..a : Before1(j, arrivals)})
    <3> DEFINE S == {j \in 1..a : Before1(j, arrivals)}
    <3>1. S \in SUBSET Int /\ IsFiniteSet(S)
      BY <2>8, FS_Subset
    <3> HIDE DEF S
    <3>2. Cardinality({i + k : i \in S}) = Cardinality(S)
      BY <2>8, <3>1, Shifted
    <3> QED
      BY <2>7, <3>2 DEF S
  <2> QED
    BY <2>3, <2>9, <2>10 DEF FlowAt
<1> QED
  BY <1>1, FlowInitOK, FlowStep, PTL DEF PoolSpec

-----------------------------------------------------------------------------
(* A price's digits.                                                        *)

Group == 0..999
Digits == Seq(Group)
Shift(b, g) == 1000 * b + g
Read(it, s, n) == it = [d \in SUBSET (1..n) |-> IF d = {} THEN 0 ELSE Shift(it[d \ {Max(d)}], s[Max(d)])]

\* The value of groups is what a reading of them comes to, group by group.
LEMMA ValueReads ==
    ASSUME NEW s \in Digits
    PROVE  \E v \in [0..Len(s) -> Nat] :
               /\ v[0] = 0 /\ Value(s) = v[Len(s)]
               /\ \A k \in 1..Len(s) : v[k] = Shift(v[k - 1], s[k])
<1> DEFINE n == Len(s)
           H == [i \in 1..n |-> [b \in Nat |-> Shift(b, s[i])]]
           it == CHOOSE it : it = [d \in SUBSET (1..n) |-> IF d = {} THEN 0 ELSE Shift(it[d \ {Max(d)}], s[Max(d)])]
<1>1. n \in Nat /\ DOMAIN s = 1..n /\ \A i \in 1..n : s[i] \in Group
  BY DEF Digits
<1>0. \A b \in Nat, g \in Group : Shift(b, g) \in Nat
  BY DEF Shift, Group
<1>2. H \in [1..n -> [Nat -> Nat]]
  <2>1. \A i \in 1..n : \A b \in Nat : Shift(b, s[i]) \in Nat
    <3> HIDE DEF n
    <3> QED
      BY <1>0, <1>1
  <2> HIDE DEF n
  <2> QED
    BY <2>1
<1>3. PICK a \in [SUBSET (1..n) -> Nat] : Along(a, H, 0, n)
  <2> HIDE DEF n, H
  <2> QED
    BY <1>1, <1>2, AlongExists
<1>4. ASSUME NEW d \in SUBSET (1..n), d # {}
      PROVE  H[Max(d)][a[d \ {Max(d)}]] = Shift(a[d \ {Max(d)}], s[Max(d)])
  <2>1. Max(d) \in d
    <3>1. d \in SUBSET Nat /\ IsFiniteSet(d)
      <4> HIDE DEF n
      <4>1. IsFiniteSet(1..n) /\ \A x \in 1..n : x \in Nat
        BY <1>1, FS_Interval
      <4> QED
        BY <4>1, FS_Subset
    <3> QED
      BY <1>4, <3>1, HighestIn
  <2>2. Max(d) \in 1..n /\ d \ {Max(d)} \in SUBSET (1..n)
    BY <2>1
  <2>3. a[d \ {Max(d)}] \in Nat
    BY <2>2
  <2> HIDE DEF n
  <2> QED
    BY <2>2, <2>3
<1>5. Read(a, s, n)
  <2> HIDE DEF n, H
  <2> QED
    BY <1>3, <1>4 DEF Along, Read
<1>6. Read(it, s, n)
  <2>1. \E b : Read(b, s, n)
    BY <1>5
  <2> HIDE DEF n, H
  <2> QED
    BY <2>1 DEF Read
<1>7. Value(s) = it[1..n]
  BY <1>1 DEF Value, FoldLeft, MapThenFoldSet, Shift
<1> HIDE DEF it, n
<1>8. \A d \in SUBSET (1..n) : it[d] = IF d = {} THEN 0 ELSE Shift(it[d \ {Max(d)}], s[Max(d)])
  <2> DEFINE r == [d \in SUBSET (1..n) |-> IF d = {} THEN 0 ELSE Shift(it[d \ {Max(d)}], s[Max(d)])]
  <2>1. it = r
    BY <1>6 DEF Read
  <2>2. \A d \in SUBSET (1..n) : r[d] = IF d = {} THEN 0 ELSE Shift(it[d \ {Max(d)}], s[Max(d)])
    OBVIOUS
  <2> HIDE DEF r
  <2> QED
    BY <2>1, <2>2
<1>9. it[1..0] = 0
  <2>1. 1..0 = {} /\ 1..0 \in SUBSET (1..n)
    OBVIOUS
  <2> QED
    BY <1>8, <2>1
<1>10. ASSUME NEW k \in 1..n PROVE it[1..k] = Shift(it[1..(k - 1)], s[k])
  <2>1. 1..k \in SUBSET (1..n) /\ 1..k # {} /\ (1..k) \ {k} = 1..(k - 1) /\ Max(1..k) = k
    BY <1>1, UpToIs
  <2> QED
    BY <1>8, <2>1
<1> DEFINE v == [k \in 0..n |-> it[1..k]]
           N == {k \in Nat : k <= n => v[k] \in Nat}
<1>11. N = Nat
  <2>1. 0 \in N
    BY <1>1, <1>9
  <2>2. ASSUME NEW k \in N PROVE k + 1 \in N
    <3>1. k \in Nat /\ k + 1 \in Nat
      OBVIOUS
    <3> SUFFICES ASSUME k + 1 <= n PROVE v[k + 1] \in Nat
      BY <3>1
    <3>2. k \in 0..n /\ k + 1 \in 1..n /\ k + 1 \in 0..n /\ (k + 1) - 1 = k
      BY <1>1, <3>1
    <3>3. v[k + 1] = Shift(it[1..k], s[k + 1])
      BY <1>10, <3>2
    <3>4. it[1..k] \in Nat
      BY <3>1, <3>2
    <3>5. s[k + 1] \in Group
      BY <1>1, <3>2
    <3> QED
      BY <1>0, <3>3, <3>4, <3>5
  <2> HIDE DEF N
  <2>3. N \in SUBSET Nat
    BY DEF N
  <2> QED
    BY <2>1, <2>2, <2>3, EveryNumber
<1>12. v \in [0..n -> Nat]
  <2>1. \A k \in 0..n : v[k] \in Nat
    <3> SUFFICES ASSUME NEW k \in 0..n PROVE v[k] \in Nat
      OBVIOUS
    <3>0. k \in Nat /\ k <= n
      BY <1>1
    <3> HIDE DEF v
    <3>1. k \in N
      BY <1>11, <3>0, Zenon
    <3> QED
      BY <3>1
  <2> QED
    BY <2>1
<1>13. v[0] = 0 /\ Value(s) = v[n] /\ \A k \in 1..n : v[k] = Shift(v[k - 1], s[k])
  BY <1>1, <1>7, <1>9, <1>10
<1> HIDE DEF v
<1> QED
  BY <1>12, <1>13 DEF n

\* Of one group the value is that group, and with one more a thousand times as much and
\* that group.
LEMMA ValueIs ==
    /\ \A g \in Group : Value(<<g>>) = g
    /\ \A s \in Digits, g \in Group : Value(Append(s, g)) = 1000 * Value(s) + g
<1>1. ASSUME NEW g \in Group PROVE Value(<<g>>) = g
  <2>1. <<g>> \in Digits /\ Len(<<g>>) = 1 /\ <<g>>[1] = g
    BY DEF Digits
  <2>a. \E v \in [0..Len(<<g>>) -> Nat] :
            v[0] = 0 /\ Value(<<g>>) = v[Len(<<g>>)] /\ \A k \in 1..Len(<<g>>) : v[k] = Shift(v[k - 1], <<g>>[k])
    BY <2>1, ValueReads
  <2>2. PICK v \in [0..1 -> Nat] : v[0] = 0 /\ Value(<<g>>) = v[1] /\ \A k \in 1..1 : v[k] = Shift(v[k - 1], <<g>>[k])
    BY <2>1, <2>a
  <2>3. v[1] = Shift(v[0], g)
    <3>1. 1 \in 1..1 /\ 1 - 1 = 0
      OBVIOUS
    <3> QED
      BY <2>1, <2>2, <3>1
  <2> QED
    BY <2>2, <2>3 DEF Shift, Group
<1>2. ASSUME NEW s \in Digits, NEW g \in Group PROVE Value(Append(s, g)) = 1000 * Value(s) + g
  <2> DEFINE n == Len(s)
             c == Append(s, g)
  <2>1. n \in Nat /\ c \in Digits /\ Len(c) = n + 1 /\ c[n + 1] = g /\ \A i \in 1..n : c[i] = s[i]
    BY DEF Digits
  <2>2. PICK v \in [0..n -> Nat] : v[0] = 0 /\ Value(s) = v[n] /\ \A k \in 1..n : v[k] = Shift(v[k - 1], s[k])
    BY ValueReads
  <2> HIDE DEF c, n
  <2>b. \E u \in [0..Len(c) -> Nat] :
            u[0] = 0 /\ Value(c) = u[Len(c)] /\ \A k \in 1..Len(c) : u[k] = Shift(u[k - 1], c[k])
    BY <2>1, ValueReads
  <2>3. PICK u \in [0..(n + 1) -> Nat] :
            u[0] = 0 /\ Value(c) = u[n + 1] /\ \A k \in 1..(n + 1) : u[k] = Shift(u[k - 1], c[k])
    BY <2>1, <2>b
  <2> DEFINE N == {k \in Nat : k <= n => u[k] = v[k]}
  <2>4. N = Nat
    <3>1. 0 \in N
      BY <2>2, <2>3
    <3>2. ASSUME NEW k \in N PROVE k + 1 \in N
      <4>1. k \in Nat /\ k + 1 \in Nat
        OBVIOUS
      <4> SUFFICES ASSUME k + 1 <= n PROVE u[k + 1] = v[k + 1]
        BY <4>1
      <4>2. k + 1 \in 1..n /\ k + 1 \in 1..(n + 1) /\ (k + 1) - 1 = k /\ k <= n
        BY <2>1, <4>1
      <4>3. u[k + 1] = Shift(u[k], c[k + 1]) /\ v[k + 1] = Shift(v[k], s[k + 1]) /\ c[k + 1] = s[k + 1]
        BY <2>1, <2>2, <2>3, <4>2
      <4>4. u[k] = v[k]
        BY <4>2
      <4> QED
        BY <4>3, <4>4
    <3> HIDE DEF N
    <3>3. N \in SUBSET Nat
      BY DEF N
    <3> QED
      BY <3>1, <3>2, <3>3, EveryNumber
  <2>5. u[n] = v[n]
    BY <2>1, <2>4
  <2>6. u[n + 1] = Shift(u[n], g)
    <3>1. n + 1 \in 1..(n + 1) /\ (n + 1) - 1 = n
      BY <2>1
    <3> QED
      BY <2>1, <2>3, <3>1
  <2> QED
    BY <2>2, <2>3, <2>5, <2>6 DEF c, Shift
<1> QED
  BY <1>1, <1>2

\* How a number is grouped by the groups of those before it.
Grouped(f, k) == IF k < 1000 THEN <<k>> ELSE Append(f[k \div 1000], k % 1000)
Groups(f, n) == f = [k \in 0..n |-> Grouped(f, k)]

LEMMA Thousands ==
    ASSUME NEW k \in Nat, k >= 1000
    PROVE  /\ k \div 1000 \in Nat /\ k \div 1000 < k /\ k % 1000 \in Group /\ 1000 * (k \div 1000) + (k % 1000) = k
BY DEF Group

LEMMA GroupsExist == ASSUME NEW n \in Nat PROVE \E f : Groups(f, n)
<1> DEFINE N == {m \in Nat : \E f : Groups(f, m)}
<1>1. 0 \in N
  <2> DEFINE f == [k \in 0..0 |-> <<0>>]
  <2>1. \A k \in 0..0 : k = 0 /\ Grouped(f, k) = <<0>>
    BY DEF Grouped
  <2>2. Groups(f, 0)
    BY <2>1 DEF Groups
  <2> HIDE DEF f
  <2> QED
    BY <2>2
<1>2. ASSUME NEW m \in N PROVE m + 1 \in N
  <2>0. m \in Nat /\ m + 1 \in Nat /\ \E f : Groups(f, m)
    OBVIOUS
  <2> HIDE DEF N
  <2>1. PICK f : Groups(f, m)
    BY <2>0
  <2> DEFINE g == [k \in 0..(m + 1) |-> IF k = m + 1 THEN Grouped(f, m + 1) ELSE Grouped(f, k)]
             r == [k \in 0..(m + 1) |-> Grouped(g, k)]
  <2>2. \A k \in 0..m : f[k] = Grouped(f, k)
    <3> DEFINE q == [k \in 0..m |-> Grouped(f, k)]
    <3>1. f = q
      BY <2>1 DEF Groups
    <3>2. \A k \in 0..m : q[k] = Grouped(f, k)
      OBVIOUS
    <3> HIDE DEF q
    <3> QED
      BY <3>1, <3>2
  <2>3. \A k \in 0..(m + 1) : Grouped(g, k) = Grouped(f, k)
    <3> SUFFICES ASSUME NEW k \in 0..(m + 1) PROVE Grouped(g, k) = Grouped(f, k)
      OBVIOUS
    <3>1. CASE k < 1000
      BY <3>1 DEF Grouped
    <3>2. CASE k >= 1000
      <4>1. k \in Nat /\ k <= m + 1
        BY <2>0
      <4>2. k \div 1000 \in Nat /\ k \div 1000 < k
        BY <3>2, <4>1, Thousands
      <4>3. k \div 1000 \in 0..m /\ k \div 1000 \in 0..(m + 1) /\ k \div 1000 # m + 1
        <5> DEFINE q == k \div 1000
        <5> HIDE DEF q
        <5>1. q \in Nat /\ q < k
          BY <4>2 DEF q
        <5>2. q \in 0..m /\ q \in 0..(m + 1) /\ q # m + 1
          BY <2>0, <4>1, <5>1
        <5> QED
          BY <5>2 DEF q
      <4>4. g[k \div 1000] = f[k \div 1000]
        BY <2>2, <4>3
      <4>5. ~(k < 1000)
        BY <3>2, <4>1
      <4> HIDE DEF g
      <4>6. Grouped(g, k) = Append(g[k \div 1000], k % 1000) /\ Grouped(f, k) = Append(f[k \div 1000], k % 1000)
        BY <4>5, ZenonT(40) DEF Grouped
      <4> QED
        BY <4>4, <4>6
    <3>3. k < 1000 \/ k >= 1000
      BY <2>0
    <3> HIDE DEF g
    <3> QED
      BY <3>1, <3>2, <3>3
  <2>4. \A k \in 0..(m + 1) : g[k] = r[k]
    <3>1. \A k \in 0..(m + 1) : g[k] = Grouped(f, k)
      BY <2>0
    <3>2. \A k \in 0..(m + 1) : r[k] = Grouped(g, k)
      BY Zenon
    <3> HIDE DEF g, r
    <3> QED
      BY <2>3, <3>1, <3>2
  <2>5. g = r
    <3>1. DOMAIN g = 0..(m + 1) /\ g = [k \in DOMAIN g |-> g[k]]
      OBVIOUS
    <3>2. DOMAIN r = 0..(m + 1) /\ r = [k \in DOMAIN r |-> r[k]]
      OBVIOUS
    <3> HIDE DEF g, r
    <3> QED
      BY <2>4, <3>1, <3>2
  <2>6. Groups(g, m + 1)
    BY <2>5 DEF Groups, r
  <2> HIDE DEF g, r
  <2> QED
    BY <2>0, <2>6 DEF N
<1>3. N = Nat
  <2> HIDE DEF N
  <2>1. N \in SUBSET Nat
    BY DEF N
  <2> QED
    BY <1>1, <1>2, <2>1, EveryNumber
<1>4. n \in N
  BY <1>3
<1> QED
  BY <1>4

\* A number's groups are of three digits and are its digits.
LEMMA CommaIs == ASSUME NEW n \in Nat PROVE Comma(n) \in Digits /\ Value(Comma(n)) = n
<1> DEFINE f == CHOOSE f : f = [k \in 0..n |-> IF k < 1000 THEN <<k>> ELSE Append(f[k \div 1000], k % 1000)]
           r == [k \in 0..n |-> Grouped(f, k)]
<1>1. Comma(n) = f[n]
  BY Zenon DEF Comma
<1>2. f = r
  <2>1. \E g : Groups(g, n)
    BY GroupsExist
  <2>2. \E g : g = [k \in 0..n |-> IF k < 1000 THEN <<k>> ELSE Append(g[k \div 1000], k % 1000)]
    BY <2>1 DEF Groups, Grouped
  <2>3. f = [k \in 0..n |-> IF k < 1000 THEN <<k>> ELSE Append(f[k \div 1000], k % 1000)]
    BY <2>2
  <2> HIDE DEF f
  <2> QED
    BY <2>3 DEF Grouped
<1> HIDE DEF f
<1>3. \A k \in 0..n : f[k] = Grouped(f, k)
  <2>1. \A k \in 0..n : r[k] = Grouped(f, k)
    OBVIOUS
  <2> HIDE DEF r
  <2> QED
    BY <1>2, <2>1
<1> DEFINE N == {m \in Nat : \A k \in 0..m : k <= n => f[k] \in Digits /\ Value(f[k]) = k}
<1>4. ASSUME NEW m \in Nat, m <= n, \A k \in Nat : k < m => f[k] \in Digits /\ Value(f[k]) = k
      PROVE  f[m] \in Digits /\ Value(f[m]) = m
  <2>0. f[m] = Grouped(f, m)
    BY <1>3, <1>4
  <2>1. CASE m < 1000
    <3>1. m \in Group /\ f[m] = <<m>>
      BY <2>0, <2>1 DEF Grouped, Group
    <3> QED
      BY <3>1, ValueIs DEF Digits
  <2>2. CASE m >= 1000
    <3> DEFINE q == m \div 1000
               l == m % 1000
    <3>1. q \in Nat /\ q < m /\ l \in Group /\ 1000 * q + l = m
      BY <2>2, Thousands
    <3>2. f[m] = Append(f[q], l)
      <4>1. ~(m < 1000)
        BY <2>2
      <4> QED
        BY <2>0, <4>1, Zenon DEF Grouped
    <3> HIDE DEF q, l
    <3>3. f[q] \in Digits /\ Value(f[q]) = q
      BY <1>4, <3>1
    <3>4. Append(f[q], l) \in Digits
      BY <3>1, <3>3 DEF Digits
    <3>5. Value(Append(f[q], l)) = 1000 * q + l
      BY <3>1, <3>3, ValueIs
    <3> QED
      BY <3>1, <3>2, <3>4, <3>5
  <2> QED
    BY <2>1, <2>2
<1>5. N = Nat
  <2>1. 0 \in N
    <3>1. \A k \in 0..0 : k = 0
      OBVIOUS
    <3>2. f[0] \in Digits /\ Value(f[0]) = 0
      BY <1>4
    <3> QED
      BY <3>1, <3>2
  <2>2. ASSUME NEW m \in N PROVE m + 1 \in N
    <3>1. m \in Nat /\ m + 1 \in Nat /\ \A k \in 0..m : k <= n => f[k] \in Digits /\ Value(f[k]) = k
      OBVIOUS
    <3> SUFFICES ASSUME NEW k \in 0..(m + 1), k <= n PROVE f[k] \in Digits /\ Value(f[k]) = k
      BY <3>1
    <3> HIDE DEF N
    <3>2. CASE k <= m
      BY <3>1, <3>2
    <3>3. CASE k = m + 1
      <4>1. \A j \in Nat : j < k => f[j] \in Digits /\ Value(f[j]) = j
        <5> SUFFICES ASSUME NEW j \in Nat, j < k PROVE f[j] \in Digits /\ Value(f[j]) = j
          OBVIOUS
        <5>1. j \in 0..m /\ j <= n
          BY <3>1, <3>3
        <5> QED
          BY <3>1, <5>1
      <4>2. k \in Nat
        BY <3>1
      <4> QED
        BY <1>4, <4>1, <4>2
    <3> QED
      BY <3>1, <3>2, <3>3
  <2> HIDE DEF N
  <2>3. N \in SUBSET Nat
    BY DEF N
  <2> QED
    BY <2>1, <2>2, <2>3, EveryNumber
<1>6. n \in N
  BY <1>5
<1>7. n \in 0..n
  OBVIOUS
<1> HIDE <1>5
<1> QED
  BY <1>1, <1>6, <1>7

\* An amount is printed to its nearest cent, in groups of digits that are its own,
\* whatever the amount (rates.go Price, comma).
THEOREM PricesPrinted == \A m \in Nat : Printed(m)
<1> SUFFICES ASSUME NEW m \in Nat PROVE Printed(m)
  OBVIOUS
<1> DEFINE p == Price(-m)
<1>1. Apart(-m, 0) = m
  BY DEF Apart
<1>2. /\ p.whole \in Nat /\ p.cents \in 0..99 /\ 100 * p.whole + p.cents = (m + 5) \div 10 /\ p.minus = (m > 0)
  BY <1>1 DEF Price
<1> HIDE DEF p
<1>3. Comma(p.whole) \in Digits /\ Value(Comma(p.whole)) = p.whole
  BY <1>2, CommaIs
<1>4. \A g \in ToSet(Comma(p.whole)) : g \in 0..999
  <2> DEFINE c == Comma(p.whole)
  <2> HIDE DEF c
  <2>1. c \in Seq(Group)
    BY <1>3 DEF Digits, c
  <2>2. \A g \in ToSet(c) : g \in Group
    BY <2>1 DEF ToSet
  <2> QED
    BY <2>2 DEF c, Group
<1> QED
  BY <1>2, <1>3, <1>4 DEF Printed, p

-----------------------------------------------------------------------------
(* The fees.                                                               *)

\* What is packed: a transaction has a number, a weight and a whole rate.
FeeTx == [id : Nat, weight : Nat \ {0}, rate : Nat]
TxOfEntry(e) == [id |-> e.id, weight |-> WeightOf(e), rate |-> EffectiveRate(e)]
Heavier(es) == {TxOfEntry(e) : e \in {x \in es : WeightOf(x) > 0}}

\* What may be answered, and nothing before the first answer.
Answers(es) ==
    /\ IsFiniteSet(es) /\ \A d, e \in es : d.id = e.id => d = e
    /\ \A e \in es : {e.id, e.weight, e.vsize, e.base, e.ancestor, e.ancestorSize} \subseteq Nat

LEMMA EntryIs ==
    ASSUME NEW es, Answers(es), NEW e \in es
    PROVE  WeightOf(e) \in Nat /\ EffectiveRate(e) \in Nat /\ e.id \in Nat
<1>1. e.id \in Nat /\ e.weight \in Nat /\ e.vsize \in Nat /\ e.base \in Nat /\ e.ancestor \in Nat /\ e.ancestorSize \in Nat
  BY DEF Answers
<1>2. \A a, b \in Nat : b > 0 => a \div b \in Nat
  OBVIOUS
<1>3. EffectiveRate(e) \in Nat
  BY <1>1, <1>2 DEF EffectiveRate
<1>4. WeightOf(e) \in Nat
  BY <1>1 DEF WeightOf
<1> QED
  BY <1>1, <1>3, <1>4

LEMMA HeavierAre ==
    ASSUME NEW es, Answers(es)
    PROVE  /\ Heavier(es) \subseteq FeeTx /\ IsFiniteSet(Heavier(es))
           /\ \A t \in Heavier(es) : \E e \in es : t.rate = EffectiveRate(e)
           /\ \A t, u \in Heavier(es) : t.id = u.id => t = u
<1> DEFINE S == {x \in es : WeightOf(x) > 0}
           g == [e \in S |-> TxOfEntry(e)]
<1>1. IsFiniteSet(S) /\ S \subseteq es
  <2>1. IsFiniteSet(es)
    BY DEF Answers
  <2> QED
    BY <2>1, FS_Subset
<1>2. IsFiniteSet({g[x] : x \in S})
  <2> HIDE DEF S, g
  <2> QED
    BY <1>1, ImageFinite
<1>3. Heavier(es) = {g[x] : x \in S}
  BY DEF Heavier
<1>4. \A e \in S : TxOfEntry(e) \in FeeTx
  BY EntryIs DEF TxOfEntry, FeeTx
<1>5. \A t \in Heavier(es) : \E e \in es : t = TxOfEntry(e) /\ t.rate = EffectiveRate(e) /\ t.id = e.id
  BY DEF Heavier, TxOfEntry
<1>6. \A t, u \in Heavier(es) : t.id = u.id => t = u
  BY <1>5 DEF Answers
<1>7. Heavier(es) \subseteq FeeTx
  BY <1>4 DEF Heavier
<1> QED
  BY <1>2, <1>3, <1>5, <1>6, <1>7

\* Before(t, u): t is packed before u.
Before(t, u) == \/ t.rate > u.rate
                \/ t.rate = u.rate /\ t.weight < u.weight
                \/ t.rate = u.rate /\ t.weight = u.weight /\ t.id < u.id

LEMMA SortedIs ==
    ASSUME NEW es, Answers(es)
    PROVE  /\ Sorted(es) \in Seq(Heavier(es)) /\ Heavier(es) \subseteq FeeTx
           /\ \A i, j \in DOMAIN Sorted(es) : i < j => Sorted(es)[j].rate <= Sorted(es)[i].rate
<1> DEFINE S == Heavier(es)
           n == Cardinality(S)
           R == {p \in S \X S : Before(p[1], p[2])}
           Orders(s) == \A i, j \in DOMAIN s : i < j => Before(s[i], s[j])
<1>1. S \subseteq FeeTx /\ IsFiniteSet(S) /\ n \in Nat
  BY HeavierAre, FS_CardinalityType
<1>2. \A t \in S : t.rate \in Int /\ t.weight \in Int /\ t.id \in Int
  BY <1>1 DEF FeeTx
<1>3. \A t, u \in S : t.id = u.id => t = u
  BY HeavierAre
<1>4. \A t, u \in S : <<t, u>> \in R <=> Before(t, u)
  OBVIOUS
<1> HIDE DEF S
<1>5. \A t \in S : <<t, t>> \notin R
  BY <1>2, <1>4 DEF Before
<1>6. \A t, u \in S : t # u => <<t, u>> \in R \/ <<u, t>> \in R
  BY <1>2, <1>3, <1>4 DEF Before
<1>7. \A t, u, v \in S : <<t, u>> \in R /\ <<u, v>> \in R => <<t, v>> \in R
  BY <1>2, <1>4 DEF Before
<1>8. PICK s \in [1..Cardinality(S) -> S] : \A i, j \in 1..Cardinality(S) : i < j => s[i] # s[j] /\ <<s[i], s[j]>> \in R
  <2> HIDE DEF R
  <2> QED
    BY <1>1, <1>5, <1>6, <1>7, ListedInOrder
<1>9. s \in SetToSeqs(S) /\ Orders(s)
  <2>0. DOMAIN s = 1..n /\ \A i \in 1..n : s[i] \in S
    OBVIOUS
  <2>1. \A i, j \in 1..n : i # j => s[i] # s[j]
    <3> HIDE DEF n, R
    <3>1. \A i, j \in 1..n : i # j => i < j \/ j < i
      BY <1>1
    <3> QED
      BY <1>8, <3>1 DEF n
  <2>2. s \in SetToSeqs(S)
    BY <2>1 DEF SetToSeqs
  <2>3. \A i, j \in 1..n : i < j => Before(s[i], s[j])
    <3> HIDE DEF n, R
    <3> QED
      BY <1>4, <1>8, <2>0 DEF n
  <2> HIDE DEF n
  <2> QED
    BY <2>0, <2>2, <2>3
<1>10. Sorted(es) = CHOOSE x \in SetToSeqs(S) : Orders(x)
  BY DEF Sorted, S, Heavier, TxOfEntry, Before
<1> DEFINE q == CHOOSE x \in SetToSeqs(S) : Orders(x)
<1>11. q \in SetToSeqs(S) /\ Orders(q)
  <2>1. \E x \in SetToSeqs(S) : Orders(x)
    BY <1>9
  <2> HIDE DEF Orders
  <2> QED
    BY <2>1
<1> HIDE DEF q
<1>12. q \in [1..n -> S]
  BY <1>11 DEF SetToSeqs
<1>13. q \in Seq(S) /\ DOMAIN q = 1..n
  <2> HIDE DEF n
  <2> QED
    BY <1>1, <1>12
<1>14. \A i, j \in DOMAIN q : i < j => q[j].rate <= q[i].rate
  <2>1. \A i \in DOMAIN q : q[i] \in S
    BY <1>12
  <2>2. \A i, j \in DOMAIN q : i < j => Before(q[i], q[j])
    BY <1>11
  <2> HIDE DEF n
  <2> QED
    BY <1>2, <2>1, <2>2 DEF Before
<1>15. Sorted(es) = q
  BY <1>10 DEF q
<1> QED
  BY <1>1, <1>13, <1>14, <1>15 DEF S

LEMMA WeightIs ==
    /\ Weight(<<>>) = 0
    /\ \A txs \in Seq(FeeTx) : Weight(txs) \in Nat
    /\ \A txs \in Seq(FeeTx), t \in FeeTx : Weight(Append(txs, t)) = Weight(txs) + t.weight
<1> DEFINE w(txs) == [i \in DOMAIN txs |-> txs[i].weight]
<1>0. \A txs : Weight(txs) = SumOn(w(txs), DOMAIN txs)
  BY DEF Weight, SumFunction, SumFunctionOnSet, SumOn
<1>1. Weight(<<>>) = 0
  <2>1. DOMAIN <<>> = {}
    OBVIOUS
  <2> HIDE DEF w
  <2> QED
    BY <1>0, <2>1, SumEmpty
<1>2. ASSUME NEW txs \in Seq(FeeTx)
      PROVE  /\ Len(txs) \in Nat /\ DOMAIN txs = 1..Len(txs) /\ IsFiniteSet(DOMAIN txs)
             /\ Cardinality(DOMAIN txs) = Len(txs) /\ \A i \in DOMAIN txs : w(txs)[i] = txs[i].weight /\ w(txs)[i] \in Nat
  <2>1. Len(txs) \in Nat /\ DOMAIN txs = 1..Len(txs) /\ \A i \in DOMAIN txs : txs[i] \in FeeTx
    OBVIOUS
  <2>2. IsFiniteSet(DOMAIN txs) /\ Cardinality(DOMAIN txs) = Len(txs)
    BY <2>1, FS_Interval
  <2>3. \A i \in DOMAIN txs : w(txs)[i] = txs[i].weight /\ w(txs)[i] \in Nat
    BY <2>1 DEF FeeTx
  <2> QED
    BY <2>1, <2>2, <2>3
<1>3. ASSUME NEW txs \in Seq(FeeTx) PROVE Weight(txs) \in Nat
  <2> DEFINE d == DOMAIN txs
             f == w(txs)
  <2>1. IsFiniteSet(d) /\ Len(txs) \in Nat /\ Cardinality(d) = Len(txs) /\ \A i \in d : f[i] \in Int /\ f[i] \in Nat
    BY <1>2
  <2>2. Weight(txs) = SumOn(f, d)
    BY <1>0
  <2> HIDE DEF d, f
  <2>3. SumOn(f, d) \in Nat
    BY <2>1, SumNat
  <2> QED
    BY <2>2, <2>3
<1>4. ASSUME NEW txs \in Seq(FeeTx), NEW t \in FeeTx PROVE Weight(Append(txs, t)) = Weight(txs) + t.weight
  <2> DEFINE n == Len(txs)
             d == DOMAIN txs
             up == Append(txs, t)
             f == w(txs)
             g == w(up)
  <2>1. up \in Seq(FeeTx) /\ Len(up) = n + 1 /\ (\A i \in 1..n : up[i] = txs[i]) /\ up[n + 1] = t
    BY AppendProperties
  <2>2. n \in Nat /\ d = 1..n /\ IsFiniteSet(d) /\ \A i \in d : f[i] = txs[i].weight
    BY <1>2
  <2>3. DOMAIN up = 1..(n + 1) /\ \A i \in DOMAIN up : g[i] = up[i].weight /\ g[i] \in Nat
    <3> HIDE DEF w, up
    <3> QED
      BY <1>2, <2>1
  <2> HIDE DEF n, d, up, f, g, w
  <2>4. DOMAIN up = d \cup {n + 1} /\ n + 1 \notin d
    BY <2>2, <2>3
  <2>5. SumOn(g, d \cup {n + 1}) = g[n + 1] + SumOn(g, d)
    <3>1. \A y \in d \cup {n + 1} : g[y] \in Int
      <4>1. \A y \in DOMAIN up : g[y] \in Nat
        BY <2>3
      <4>2. \A y \in DOMAIN up : g[y] \in Int
        BY <4>1
      <4> QED
        BY <2>4, <4>2, Zenon
    <3> QED
      BY <2>2, <2>4, <3>1, SumWith
  <2>6. SumOn(g, d) = SumOn(f, d)
    <3>1. \A x \in d : g[x] = f[x]
      BY <2>1, <2>2, <2>3, <2>4
    <3> QED
      BY <2>2, <3>1, SumSame
  <2>7. g[n + 1] = t.weight
    BY <2>1, <2>3, <2>4
  <2>8. Weight(up) = SumOn(g, DOMAIN up) /\ Weight(txs) = SumOn(f, d)
    BY <1>0 DEF f, g, d
  <2>9. Weight(txs) \in Nat /\ t.weight \in Nat
    BY <1>3 DEF FeeTx
  <2>10. \A a, b \in Nat : a + b = b + a
    OBVIOUS
  <2>11. Weight(up) = t.weight + Weight(txs)
    BY <2>4, <2>5, <2>6, <2>7, <2>8
  <2> QED
    BY <2>9, <2>10, <2>11 DEF up
<1> QED
  BY <1>1, <1>3, <1>4

LEMMA BoundsAre == /\ LeftBound \in Int /\ RightBound \in Int
                   /\ \A x, y \in Int : /\ Larger(x, y) \in Int /\ Larger(x, y) >= x /\ Larger(x, y) >= y
                                        /\ (Larger(x, y) = x \/ Larger(x, y) = y)
                                        /\ Smaller(x, y) \in Int /\ Smaller(x, y) <= x /\ Smaller(x, y) <= y
                                        /\ (Smaller(x, y) = x \/ Smaller(x, y) = y)
<1>1. BlockWeight \div 2 \in Int /\ (BlockWeight + 799) \div 800 \in Int /\ BlockWeight \in Int
  <2>1. BlockWeight \in Int /\ BlockWeight + 799 \in Int
    BY FeesType
  <2>2. \A a \in Int : a \div 2 \in Int /\ a \div 800 \in Int
    OBVIOUS
  <2> QED
    BY <2>1, <2>2
<1>2. LeftBound \in Int /\ RightBound \in Int
  BY <1>1 DEF LeftBound, RightBound
<1>3. \A x, y \in Int : /\ Larger(x, y) \in Int /\ Larger(x, y) >= x /\ Larger(x, y) >= y
                        /\ (Larger(x, y) = x \/ Larger(x, y) = y)
                        /\ Smaller(x, y) \in Int /\ Smaller(x, y) <= x /\ Smaller(x, y) <= y
                        /\ (Smaller(x, y) = x \/ Smaller(x, y) = y)
  BY DEF Larger, Smaller
<1> QED
  BY <1>2, <1>3

\* A factor no lower gives a product no lower.
LEMMA TimesOrdered ==
  ASSUME NEW a \in Nat, NEW b \in Nat, NEW c \in Nat, NEW x \in Nat, a <= b, b <= c
  PROVE  a * x <= b * x /\ b * x <= c * x /\ b * x \in Nat
<1>1. \A p, q \in Nat : p <= q => p * x <= q * x
  <2> SUFFICES ASSUME NEW p \in Nat, NEW q \in Nat, p <= q PROVE p * x <= q * x
    OBVIOUS
  <2>1. q - p \in Nat
    OBVIOUS
  <2>2. \A d \in Nat : d * x \in Nat
    OBVIOUS
  <2>3. (q - p) * x \in Nat
    BY <2>1, <2>2
  <2>4. (q - p) * x = q * x - p * x /\ p * x \in Nat /\ q * x \in Nat
    OBVIOUS
  <2> QED
    BY <2>3, <2>4
<1>2. b * x \in Nat
  OBVIOUS
<1> QED
  BY <1>1, <1>2

\* A median is a rate between the lowest and the highest of its block, or zero.
LEMMA MedianIs ==
    ASSUME NEW txs \in Seq(FeeTx), NEW lo \in Nat, NEW hi \in Nat,
           \A i \in DOMAIN txs : lo <= txs[i].rate /\ txs[i].rate <= hi
    PROVE  LET m == MedianFeeOf(txs)
           IN  /\ m = <<m[1], m[2]>> /\ m[1] \in Nat /\ m[2] \in Nat \ {0}
               /\ m = <<0, 1>> \/ (lo * m[2] <= m[1] /\ m[1] <= hi * m[2])
<1> DEFINE n == Len(txs)
           up == Reverse(txs)
           from(i) == BlockWeight - Weight(txs) + Weight(SubSeq(up, 1, i - 1))
           w(i) == Larger(0, Smaller(from(i) + up[i].weight, RightBound) - Larger(from(i), LeftBound))
           v == [i \in DOMAIN up |-> up[i].rate * w(i)]
           u == [i \in DOMAIN up |-> w(i)]
           fee == SumFunction(v)
           sampled == SumFunction(u)
<1>1. n \in Nat /\ up \in Seq(FeeTx) /\ DOMAIN up = 1..n /\ Len(up) = n /\ DOMAIN txs = 1..n
  <2>1. n \in Nat /\ DOMAIN txs = 1..n /\ \A i \in 1..n : n - i + 1 \in 1..n
    OBVIOUS
  <2>2. \A i \in 1..n : txs[(n - i) + 1] \in FeeTx
    BY <2>1
  <2>3. up = [i \in 1..n |-> txs[(n - i) + 1]]
    BY DEF Reverse
  <2>4. up \in [1..n -> FeeTx]
    BY <2>2, <2>3
  <2> HIDE DEF up, n
  <2>5. up \in Seq(FeeTx) /\ Len(up) = n
    BY <2>1, <2>4
  <2> QED
    BY <2>1, <2>4, <2>5
<1>2. \A i \in 1..n : up[i] \in FeeTx /\ lo <= up[i].rate /\ up[i].rate <= hi
  <2>1. \A i \in 1..n : n - i + 1 \in 1..n /\ up[i] = txs[(n - i) + 1]
    BY DEF Reverse
  <2>2. \A i \in 1..n : txs[i] \in FeeTx /\ lo <= txs[i].rate /\ txs[i].rate <= hi
    BY <1>1
  <2> HIDE DEF up, n
  <2> QED
    BY <2>1, <2>2
<1>3. ASSUME NEW i \in 1..n PROVE w(i) \in Nat
  <2> HIDE DEF n, up
  <2>1. SubSeq(up, 1, i - 1) \in Seq(FeeTx)
    <3>1. \A j \in 1..(i - 1) : up[j] \in FeeTx
      BY <1>1, <1>2
    <3> QED
      BY <1>1, <3>1, SubSeqProperties
  <2>2. from(i) \in Int
    <3>1. Weight(SubSeq(up, 1, i - 1)) \in Nat /\ Weight(txs) \in Nat
      BY <2>1, WeightIs
    <3> QED
      BY <3>1, FeesType
  <2> HIDE DEF from
  <2>3. from(i) + up[i].weight \in Int
    <3>1. up[i].weight \in Int
      BY <1>2 DEF FeeTx
    <3> QED
      BY <2>2, <3>1
  <2> DEFINE a == Smaller(from(i) + up[i].weight, RightBound)
             b == Larger(from(i), LeftBound)
  <2>4. a \in Int /\ b \in Int
    BY <2>2, <2>3, BoundsAre
  <2> HIDE DEF a, b
  <2>5. Larger(0, a - b) \in Int /\ Larger(0, a - b) >= 0
    <3>1. a - b \in Int
      BY <2>4
    <3>2. \A y \in Int : Larger(0, y) \in Int /\ Larger(0, y) >= 0
      BY DEF Larger
    <3> QED
      BY <3>1, <3>2
  <2> QED
    BY <2>5 DEF a, b
<1> HIDE DEF from
<1>4. \A i \in 1..n : /\ u[i] \in Nat /\ v[i] \in Nat /\ u[i] = w(i)
                      /\ lo * u[i] <= v[i] /\ v[i] <= hi * u[i]
  <2> SUFFICES ASSUME NEW i \in 1..n
               PROVE  /\ u[i] \in Nat /\ v[i] \in Nat /\ u[i] = w(i)
                      /\ lo * u[i] <= v[i] /\ v[i] <= hi * u[i]
    OBVIOUS
  <2>1. u[i] = w(i) /\ v[i] = up[i].rate * w(i)
    <3> HIDE DEF w, up, n
    <3> QED
      BY <1>1
  <2>2. w(i) \in Nat
    BY <1>3
  <2>3. up[i].rate \in Nat /\ lo <= up[i].rate /\ up[i].rate <= hi
    <3> HIDE DEF w, up, n
    <3> QED
      BY <1>2 DEF FeeTx
  <2> HIDE DEF w, up, n, u, v
  <2>4. lo * w(i) <= up[i].rate * w(i) /\ up[i].rate * w(i) <= hi * w(i) /\ up[i].rate * w(i) \in Nat
    BY <2>2, <2>3, TimesOrdered
  <2> QED
    BY <2>1, <2>2, <2>4
<1> DEFINE d == 1..n
<1>5. fee = SumOn(v, d) /\ sampled = SumOn(u, d)
  <2>1. DOMAIN u = d /\ DOMAIN v = d
    <3> HIDE DEF w, up, n
    <3> QED
      BY <1>1
  <2> HIDE DEF w, up, n, u, v
  <2> QED
    BY <2>1 DEF SumFunction, SumFunctionOnSet, SumOn
<1>6. IsFiniteSet(d)
  <2> HIDE DEF n
  <2> QED
    BY <1>1, FS_Interval
<1>7. MedianFeeOf(txs) = IF Len(txs) <= 1 \/ sampled = 0 THEN <<0, 1>> ELSE <<fee, sampled>>
  BY DEF MedianFeeOf, from
<1> HIDE DEF w, up, n, u, v, fee, sampled, d
<1>8. sampled \in Nat /\ fee \in Nat /\ lo * sampled <= fee /\ fee <= hi * sampled
  <2>1. \A i \in d : u[i] \in Nat /\ v[i] \in Nat /\ u[i] \in Int /\ v[i] \in Int /\ lo * u[i] <= v[i] /\ v[i] <= hi * u[i]
    BY <1>4 DEF d
  <2>2. lo \in Int /\ hi \in Int
    OBVIOUS
  <2>3. lo * SumOn(u, d) <= SumOn(v, d) /\ SumOn(v, d) <= hi * SumOn(u, d)
    BY <1>6, <2>1, <2>2, SumScaled
  <2>4. SumOn(u, d) \in Nat /\ SumOn(v, d) \in Nat
    BY <1>6, <2>1, SumNat
  <2> QED
    BY <1>5, <2>3, <2>4
<1> DEFINE m == MedianFeeOf(txs)
<1>9. CASE Len(txs) <= 1 \/ sampled = 0
  <2>1. m = <<0, 1>>
    BY <1>7, <1>9
  <2> HIDE DEF m
  <2>2. m[1] = 0 /\ m[2] = 1
    BY <2>1
  <2> QED
    BY <2>1, <2>2 DEF m
<1>10. CASE ~(Len(txs) <= 1 \/ sampled = 0)
  <2>1. m = <<fee, sampled>> /\ sampled # 0
    BY <1>7, <1>10
  <2> HIDE DEF m
  <2>2. m[1] = fee /\ m[2] = sampled
    BY <2>1
  <2> QED
    BY <1>8, <2>1, <2>2 DEF m
<1> QED
  BY <1>9, <1>10

\* The blocks that are being filled: there always is one.
Filling == Seq(Seq(FeeTx)) \ {<<>>}

LEMMA PutIs ==
    ASSUME NEW b \in Filling, NEW t \in FeeTx
    PROVE  LET n == Len(b)
               c == Put(b, t)
           IN  /\ n \in Nat \ {0} /\ b[n] \in Seq(FeeTx) /\ c \in Filling
               /\ \/ /\ n # BlocksAhead /\ Weight(b[n]) + t.weight > BlockWeight /\ b[n] # <<>>
                     /\ Len(c) = n + 1 /\ (\A i \in 1..n : c[i] = b[i]) /\ c[n + 1] = <<t>>
                  \/ /\ n = BlocksAhead \/ Weight(b[n]) + t.weight <= BlockWeight \/ b[n] = <<>>
                     /\ Len(c) = n /\ (\A i \in 1..(n - 1) : c[i] = b[i]) /\ c[n] = Append(b[n], t)
<1> DEFINE n == Len(b)
           c == Put(b, t)
           B == Seq(FeeTx)
<1>1. b \in Seq(B) /\ n \in Nat \ {0} /\ n \in 1..n /\ b[n] \in B
  <2>1. b \in Seq(B) /\ b # <<>>
    BY DEF Filling
  <2> HIDE DEF B
  <2>2. n \in Nat \ {0}
    BY <2>1, EmptySeq
  <2>3. n \in 1..n
    BY <2>2
  <2>4. b[n] \in B
    BY <2>1, <2>3, ElementOfSeq
  <2> QED
    BY <2>1, <2>2, <2>3, <2>4
<1> HIDE DEF n
<1>2. /\ Front(b) \in Seq(B) /\ Len(Front(b)) = n - 1 /\ (\A i \in 1..(n - 1) : Front(b)[i] = b[i]) /\ Last(b) = b[n]
  <2> HIDE DEF B
  <2>1. \A i \in 1..(n - 1) : b[i] \in B
    <3>1. \A i \in 1..(n - 1) : i \in 1..Len(b)
      BY <1>1 DEF n
    <3> QED
      BY <1>1, <3>1, ElementOfSeq
  <2>2. n - 1 \in Int /\ 1 \in Int
    BY <1>1
  <2>3. Front(b) = SubSeq(b, 1, n - 1)
    BY DEF Front, n
  <2>4. /\ SubSeq(b, 1, n - 1) \in Seq(B)
        /\ Len(SubSeq(b, 1, n - 1)) = IF 1 <= n - 1 THEN (n - 1) - 1 + 1 ELSE 0
        /\ \A i \in 1..((n - 1) - 1 + 1) : SubSeq(b, 1, n - 1)[i] = b[1 + i - 1]
    BY <2>1, <2>2, SubSeqProperties
  <2>5. (n - 1) - 1 + 1 = n - 1 /\ (IF 1 <= n - 1 THEN (n - 1) - 1 + 1 ELSE 0) = n - 1 /\ \A i \in 1..(n - 1) : 1 + i - 1 = i
    BY <1>1
  <2>6. Last(b) = b[n]
    BY DEF Last, n
  <2> QED
    BY <2>3, <2>4, <2>5, <2>6
<1> DEFINE closes == n # BlocksAhead /\ Weight(b[n]) + t.weight > BlockWeight /\ b[n] # <<>>
<1>3. Closes(Front(b), Last(b), t) <=> closes
  <2>1. BlocksAhead \in Int
    BY FeesType
  <2>2. n - 1 # BlocksAhead - 1 <=> n # BlocksAhead
    BY <1>1, <2>1
  <2> QED
    BY <1>2, <2>2 DEF Closes
<1>4. <<t>> \in B /\ Append(b[n], t) \in B
  BY <1>1, AppendProperties
<1> HIDE DEF B
<1>5. CASE closes
  <2>1. c = Append(b, <<t>>)
    BY <1>3, <1>5 DEF Put
  <2>2. /\ c \in Seq(B) /\ c # <<>> /\ Len(c) = n + 1 /\ (\A i \in 1..n : c[i] = b[i]) /\ c[n + 1] = <<t>>
    BY <1>1, <1>4, <2>1, AppendProperties DEF n
  <2> HIDE DEF c
  <2>3. c \in Filling
    BY <2>2 DEF Filling, B
  <2> QED
    BY <1>1, <1>5, <2>2, <2>3 DEF n, c, B
<1>6. CASE ~closes
  <2>1. c = Append(Front(b), Append(b[n], t))
    BY <1>2, <1>3, <1>6 DEF Put
  <2> DEFINE f == Front(b)
             x == Append(b[n], t)
  <2>2. /\ c \in Seq(B) /\ c # <<>> /\ Len(c) = Len(f) + 1 /\ (\A i \in 1..Len(f) : c[i] = f[i]) /\ c[Len(f) + 1] = x
    BY <1>2, <1>4, <2>1, AppendProperties
  <2>3. Len(f) = n - 1 /\ (n - 1) + 1 = n /\ \A i \in 1..(n - 1) : f[i] = b[i]
    BY <1>1, <1>2
  <2> HIDE DEF c, f, x
  <2>4. Len(c) = n /\ (\A i \in 1..(n - 1) : c[i] = b[i]) /\ c[n] = x
    BY <2>2, <2>3
  <2>5. c \in Filling
    BY <2>2 DEF Filling, B
  <2>6. Weight(b[n]) + t.weight > BlockWeight \/ Weight(b[n]) + t.weight <= BlockWeight
    <3>1. Weight(b[n]) \in Int /\ t.weight \in Int
      BY <1>1, WeightIs DEF FeeTx, B
    <3> QED
      BY <3>1, FeesType
  <2> QED
    BY <1>1, <1>6, <2>4, <2>5, <2>6 DEF n, c, x, B
<1> QED
  BY <1>5, <1>6

LEMMA PackFolds ==
    ASSUME NEW txs \in Seq(FeeTx), txs # <<>>
    PROVE  \E it : /\ it[1..0] = <<<<>>>>
                   /\ \A k \in 1..Len(txs) : it[1..k] = Put(it[1..(k - 1)], txs[k])
                   /\ Packed(txs) = it[1..Len(txs)]
<1> DEFINE n == Len(txs)
           base == <<<<>>>>
           H == [i \in 1..n |-> [b \in Filling |-> Put(b, txs[i])]]
           Folds(it) == it = [s \in SUBSET (1..n) |-> IF s = {} THEN base ELSE Put(it[s \ {Max(s)}], txs[Max(s)])]
           it == CHOOSE it : it = [s \in SUBSET (1..n) |-> IF s = {} THEN base ELSE Put(it[s \ {Max(s)}], txs[Max(s)])]
<1>1. n \in Nat /\ DOMAIN txs = 1..n /\ \A i \in 1..n : txs[i] \in FeeTx
  OBVIOUS
<1>2. base \in Filling
  BY DEF Filling
<1>3. H \in [1..n -> [Filling -> Filling]]
  <2>1. \A i \in 1..n : \A b \in Filling : Put(b, txs[i]) \in Filling
    BY <1>1, PutIs
  <2> HIDE DEF n
  <2> QED
    BY <2>1
<1>4. PICK a \in [SUBSET (1..n) -> Filling] : Along(a, H, base, n)
  <2> HIDE DEF n, H, base
  <2> QED
    BY <1>1, <1>2, <1>3, AlongExists
<1>5. ASSUME NEW s \in SUBSET (1..n), s # {}
      PROVE  H[Max(s)][a[s \ {Max(s)}]] = Put(a[s \ {Max(s)}], txs[Max(s)])
  <2>1. Max(s) \in s
    <3>1. s \in SUBSET Nat /\ IsFiniteSet(s)
      <4> HIDE DEF n
      <4>1. IsFiniteSet(1..n) /\ \A x \in 1..n : x \in Nat
        BY <1>1, FS_Interval
      <4> QED
        BY <4>1, FS_Subset
    <3> QED
      BY <1>5, <3>1, HighestIn
  <2>2. Max(s) \in 1..n /\ s \ {Max(s)} \in SUBSET (1..n)
    BY <2>1
  <2>3. a[s \ {Max(s)}] \in Filling
    BY <2>2
  <2> HIDE DEF n
  <2> QED
    BY <2>2, <2>3
<1> HIDE DEF base
<1>6. Folds(a)
  <2> HIDE DEF n, H
  <2> QED
    BY <1>4, <1>5 DEF Along
<1>7. Folds(it)
  <2>1. \E b : Folds(b)
    BY <1>6
  <2> HIDE DEF n, H
  <2> QED
    BY <2>1
<1>8. Packed(txs) = it[1..n]
  BY <1>1 DEF Packed, FoldLeft, MapThenFoldSet, base
<1> HIDE DEF it
<1>9. \A s \in SUBSET (1..n) : it[s] = IF s = {} THEN base ELSE Put(it[s \ {Max(s)}], txs[Max(s)])
  <2> DEFINE r == [s \in SUBSET (1..n) |-> IF s = {} THEN base ELSE Put(it[s \ {Max(s)}], txs[Max(s)])]
  <2>1. it = r
    BY <1>7
  <2>2. \A s \in SUBSET (1..n) : r[s] = IF s = {} THEN base ELSE Put(it[s \ {Max(s)}], txs[Max(s)])
    OBVIOUS
  <2> HIDE DEF r
  <2> QED
    BY <2>1, <2>2
<1>10. it[1..0] = base
  <2>1. 1..0 = {} /\ 1..0 \in SUBSET (1..n)
    OBVIOUS
  <2> QED
    BY <1>9, <2>1
<1>11. ASSUME NEW k \in 1..n PROVE it[1..k] = Put(it[1..(k - 1)], txs[k])
  <2> HIDE DEF n
  <2>1. 1..k \in SUBSET (1..n) /\ 1..k # {} /\ (1..k) \ {k} = 1..(k - 1) /\ Max(1..k) = k
    BY <1>1, UpToIs
  <2> QED
    BY <1>9, <2>1
<1> QED
  BY <1>8, <1>10, <1>11 DEF base

LEMMA FlattenPut ==
    ASSUME NEW b \in Filling, NEW t \in FeeTx
    PROVE  FlattenSeq(b) \in Seq(FeeTx) /\ FlattenSeq(Put(b, t)) = FlattenSeq(b) \o <<t>>
<1> DEFINE n == Len(b)
           c == Put(b, t)
           m == n - 1
<1>1. /\ n \in Nat \ {0} /\ b[n] \in Seq(FeeTx) /\ c \in Filling
      /\ \/ Len(c) = n + 1 /\ (\A i \in 1..n : c[i] = b[i]) /\ c[n + 1] = <<t>>
         \/ Len(c) = n /\ (\A i \in 1..(n - 1) : c[i] = b[i]) /\ c[n] = Append(b[n], t)
  BY PutIs
<1>2. b \in Seq(Seq(FeeTx)) /\ c \in Seq(Seq(FeeTx))
  BY <1>1 DEF Filling
<1>3. Len(b) = m + 1 /\ m \in Nat /\ n \in Nat /\ n > 0
  BY <1>1
<1>4. <<t>> \in Seq(FeeTx) /\ Append(b[n], t) = b[n] \o <<t>>
  BY <1>1, AppendIsConcat
<1> HIDE DEF c, m
<1>5. FlattenSeq(b) \in Seq(FeeTx) /\ (m = 0 => FlattenSeq(b) = b[1])
  BY <1>2, <1>3, FlattenSteps
<1>6. CASE Len(c) = n + 1 /\ (\A i \in 1..n : c[i] = b[i]) /\ c[n + 1] = <<t>>
  <2>1. \A i \in 1..n : b[i] = c[i]
    BY <1>6
  <2>2. n > 0 /\ Len(b) >= n /\ Len(b) = n
    BY <1>3
  <2>3. FlattenSeq(c) = FlattenSeq(b) \o c[n + 1]
    <3> HIDE DEF n
    <3>1. \A d \in Seq(Seq(FeeTx)) : n > 0 /\ Len(d) >= n /\ (\A i \in 1..n : d[i] = c[i])
                 => (Len(d) = n => FlattenSeq(c) = FlattenSeq(d) \o c[n + 1])
      BY <1>2, <1>3, <1>6, FlattenSteps
    <3> QED
      BY <1>2, <2>1, <2>2, <3>1
  <2> QED
    BY <1>5, <1>6, <2>3 DEF c
<1>7. CASE Len(c) = n /\ (\A i \in 1..(n - 1) : c[i] = b[i]) /\ c[n] = Append(b[n], t)
  <2>1. CASE m = 0
    <3>1. n = 1 /\ Len(c) = m + 1
      BY <1>3, <1>7, <2>1 DEF m
    <3>2. FlattenSeq(c) = c[1]
      BY <1>2, <1>3, <2>1, <3>1, FlattenSteps
    <3> QED
      BY <1>4, <1>5, <1>7, <2>1, <3>1, <3>2 DEF c
  <2>2. CASE m # 0
    <3>1. m > 0 /\ Len(c) = m + 1 /\ Len(c) >= m /\ m + 1 = n /\ \A i \in 1..m : c[i] = b[i]
      BY <1>3, <1>7, <2>2 DEF m
    <3>2. \E s \in Seq(FeeTx) : FlattenSeq(b) = s \o b[m + 1] /\ FlattenSeq(c) = s \o c[m + 1]
      <4> HIDE DEF n
      <4>1. \A d \in Seq(Seq(FeeTx)) : m > 0 /\ Len(d) >= m /\ (\A i \in 1..m : d[i] = b[i])
                   => (Len(d) = m + 1 => \E s \in Seq(FeeTx) : /\ FlattenSeq(b) = s \o b[m + 1]
                                                               /\ FlattenSeq(d) = s \o d[m + 1])
        BY <1>2, <1>3, FlattenSteps
      <4> QED
        BY <1>2, <3>1, <4>1
    <3>3. PICK s \in Seq(FeeTx) : FlattenSeq(b) = s \o b[n] /\ FlattenSeq(c) = s \o c[n]
      BY <3>1, <3>2
    <3>4. (s \o b[n]) \o <<t>> = s \o (b[n] \o <<t>>)
      <4>1. b[n] \in Seq(FeeTx) /\ <<t>> \in Seq(FeeTx)
        BY <1>1, <1>4
      <4>2. \A x, y, z \in Seq(FeeTx) : (x \o y) \o z = x \o (y \o z)
        BY ConcatAssociative
      <4> HIDE DEF n
      <4> QED
        BY <4>1, <4>2, Zenon
    <3> QED
      BY <1>4, <1>5, <1>7, <3>3, <3>4 DEF c
  <2> QED
    BY <2>1, <2>2
<1> QED
  BY <1>1, <1>6, <1>7

\* What is being filled after the first k: blocks of transactions of T, each with the highest
\* rate first and none below the k-th's in the last; none closed too early or too late.
Descending(s) == \A j, l \in 1..Len(s) : j < l => s[l].rate <= s[j].rate
Closed(b) ==
    /\ Len(b) <= BlocksAhead
    /\ \A i \in 1..(Len(b) - 1) : /\ Weight(b[i]) <= BlockWeight \/ Len(b[i]) = 1
                                  /\ Weight(b[i]) + b[i + 1][1].weight > BlockWeight
    /\ Weight(b[Len(b)]) <= BlockWeight \/ Len(b[Len(b)]) <= 1 \/ Len(b) = BlocksAhead
Packs(b, T, txs, k) ==
    /\ b \in Filling
    /\ \A i \in 1..Len(b) : b[i] \in Seq(T) /\ Descending(b[i]) /\ (k > 0 => b[i] # <<>>)
    /\ k > 0 => \A j \in 1..Len(b[Len(b)]) : txs[k].rate <= b[Len(b)][j].rate
    /\ k = 0 => b = <<<<>>>>
    /\ Closed(b)
    /\ FlattenSeq(b) = SubSeq(txs, 1, k)

LEMMA PackStep ==
    ASSUME NEW T \in SUBSET FeeTx, NEW txs \in Seq(T), Descending(txs), NEW k \in Nat, k + 1 <= Len(txs),
           NEW b, Packs(b, T, txs, k)
    PROVE  Packs(Put(b, txs[k + 1]), T, txs, k + 1)
<1> DEFINE n == Len(b)
           t == txs[k + 1]
           c == Put(b, t)
           h == k + 1
<1>1. Len(txs) \in Nat /\ h \in 1..Len(txs) /\ t \in T /\ t \in FeeTx /\ h > 0 /\ h # 0 /\ h \in Nat
      /\ (k > 0 => k \in 1..Len(txs) /\ k < h) /\ txs \in Seq(FeeTx)
  <2>1. Len(txs) \in Nat /\ h \in 1..Len(txs) /\ h > 0 /\ h # 0 /\ h \in Nat /\ (k > 0 => k \in 1..Len(txs) /\ k < h)
    OBVIOUS
  <2>2. t \in T
    BY <2>1, ElementOfSeq
  <2>3. txs \in Seq(FeeTx)
    BY SeqMonotonic
  <2> QED
    BY <2>1, <2>2, <2>3
<1>2. b \in Filling /\ \A i \in 1..n : b[i] \in Seq(T) /\ Descending(b[i]) /\ (k > 0 => b[i] # <<>>)
  BY DEF Packs
<1> DEFINE closes == /\ n # BlocksAhead /\ Weight(b[n]) + t.weight > BlockWeight /\ b[n] # <<>>
                     /\ Len(c) = n + 1 /\ (\A i \in 1..n : c[i] = b[i]) /\ c[n + 1] = <<t>>
           grows == /\ n = BlocksAhead \/ Weight(b[n]) + t.weight <= BlockWeight \/ b[n] = <<>>
                    /\ Len(c) = n /\ (\A i \in 1..(n - 1) : c[i] = b[i]) /\ c[n] = Append(b[n], t)
<1>3. n \in Nat \ {0} /\ n \in 1..n /\ b[n] \in Seq(FeeTx) /\ c \in Filling /\ (closes \/ grows)
  <2>1. n \in Nat \ {0} /\ b[n] \in Seq(FeeTx) /\ c \in Filling /\ (closes \/ grows)
    BY <1>1, <1>2, PutIs
  <2>2. n \in 1..n
    BY <2>1
  <2> QED
    BY <2>1, <2>2
<1> HIDE DEF c, t, h
<1>4. b[n] \in Seq(T) /\ Descending(b[n]) /\ (k > 0 => b[n] # <<>>)
  BY <1>2, <1>3
<1>5. k > 0 => \A j \in 1..Len(b[n]) : t.rate <= b[n][j].rate
  <2> SUFFICES ASSUME k > 0, NEW j \in 1..Len(b[n]) PROVE t.rate <= b[n][j].rate
    OBVIOUS
  <2>1. txs[k].rate <= b[n][j].rate
    BY DEF Packs
  <2>2. txs[h].rate <= txs[k].rate
    BY <1>1 DEF Descending
  <2>3. txs[h] \in FeeTx /\ txs[k] \in FeeTx /\ b[n][j] \in FeeTx
    BY <1>1, <1>3, ElementOfSeq
  <2>4. txs[h].rate \in Int /\ txs[k].rate \in Int /\ b[n][j].rate \in Int
    <3>1. \A x \in FeeTx : x.rate \in Int
      BY DEF FeeTx
    <3> QED
      BY <2>3, <3>1, Zenon
  <2>5. t = txs[h]
    BY DEF t, h
  <2> QED
    BY <2>1, <2>2, <2>4, <2>5
<1>6. k = 0 => n = 1 /\ b[1] = <<>>
  BY DEF Packs
<1>a. k = 0 => Len(b[n]) = 0
  <2> SUFFICES ASSUME k = 0 PROVE Len(b[n]) = 0
    OBVIOUS
  <2>1. b[n] = <<>>
    BY <1>6, Zenon
  <2>2. Len(<<>>) = 0
    OBVIOUS
  <2> QED
    BY <2>1, <2>2, Zenon
<1>7. Closed(b)
  BY DEF Packs
<1> DEFINE g == Append(b[n], t)
<1>8. /\ g \in Seq(T) /\ Len(g) = Len(b[n]) + 1 /\ Len(b[n]) \in Nat /\ g # <<>>
      /\ (\A j \in 1..Len(b[n]) : g[j] = b[n][j]) /\ g[Len(b[n]) + 1] = t
  BY <1>1, <1>4, AppendProperties
<1>9. <<t>> \in Seq(T) /\ Len(<<t>>) = 1 /\ <<t>>[1] = t /\ <<t>> # <<>>
  BY <1>1
<1>10. Weight(g) = Weight(b[n]) + t.weight /\ Weight(b[n]) \in Nat /\ t.weight \in Nat /\ BlockWeight \in Int /\ BlocksAhead \in Int
  <2>1. Weight(g) = Weight(b[n]) + t.weight /\ Weight(b[n]) \in Nat
    BY <1>1, <1>3, WeightIs
  <2>2. t.weight \in Nat
    BY <1>1 DEF FeeTx
  <2> QED
    BY <2>1, <2>2, FeesType
<1>11. t.rate \in Int
  BY <1>1 DEF FeeTx
<1> HIDE DEF g
\* No rate after a lower one in what grows.
<1>12. Descending(g)
  <2> SUFFICES ASSUME NEW j \in 1..Len(g), NEW l \in 1..Len(g), j < l PROVE g[l].rate <= g[j].rate
    BY DEF Descending
  <2>1. CASE l # Len(g)
    <3>1. l \in 1..Len(b[n]) /\ j \in 1..Len(b[n])
      BY <1>8, <2>1
    <3>2. b[n][l].rate <= b[n][j].rate
      BY <1>4, <3>1 DEF Descending
    <3> QED
      BY <1>8, <3>1, <3>2
  <2>2. CASE l = Len(g)
    <3>1. j \in 1..Len(b[n]) /\ g[l] = t
      BY <1>8, <2>2
    <3>2. k > 0
      <4>1. k = 0 => Len(b[n]) = 0
        BY <1>a
      <4>2. Len(b[n]) # 0
        BY <1>8, <3>1
      <4> QED
        BY <4>1, <4>2
    <3> QED
      BY <1>5, <1>8, <3>1, <3>2
  <2> QED
    BY <2>1, <2>2
<1>13. Descending(<<t>>)
  BY <1>9 DEF Descending
<1>14. \A i \in 1..Len(c) : c[i] \in Seq(T) /\ Descending(c[i]) /\ c[i] # <<>>
  <2>1. CASE closes
    <3>0. k # 0 /\ k > 0
      BY <1>3, <1>6, <2>1
    <3> SUFFICES ASSUME NEW i \in 1..(n + 1) PROVE c[i] \in Seq(T) /\ Descending(c[i]) /\ c[i] # <<>>
      BY <2>1
    <3>1. CASE i = n + 1
      BY <1>9, <1>13, <2>1, <3>1
    <3>2. CASE i # n + 1
      <4>1. i \in 1..n
        BY <1>3, <3>2
      <4> QED
        BY <1>2, <2>1, <3>0, <4>1
    <3> QED
      BY <3>1, <3>2
  <2>2. CASE grows
    <3> SUFFICES ASSUME NEW i \in 1..n PROVE c[i] \in Seq(T) /\ Descending(c[i]) /\ c[i] # <<>>
      BY <2>2
    <3>1. CASE i = n
      BY <1>8, <1>12, <2>2, <3>1 DEF g
    <3>2. CASE i # n
      <4>1. i \in 1..(n - 1) /\ i \in 1..n /\ n # 1
        BY <1>3, <3>2
      <4>2. k > 0
        BY <1>6, <4>1
      <4> QED
        BY <1>2, <2>2, <4>1, <4>2
    <3> QED
      BY <3>1, <3>2
  <2> QED
    BY <1>3, <2>1, <2>2
<1>15. \A j \in 1..Len(c[Len(c)]) : t.rate <= c[Len(c)][j].rate
  <2>1. CASE closes
    <3>1. c[Len(c)] = <<t>>
      BY <2>1
    <3> QED
      BY <1>9, <1>11, <3>1
  <2>2. CASE grows
    <3>1. c[Len(c)] = g
      BY <2>2 DEF g
    <3> SUFFICES ASSUME NEW j \in 1..Len(g) PROVE t.rate <= g[j].rate
      BY <3>1
    <3>2. CASE j = Len(g)
      BY <1>8, <1>11, <3>2
    <3>3. CASE j # Len(g)
      <4>1. j \in 1..Len(b[n])
        BY <1>8, <3>3
      <4>2. k > 0
        <5>1. k = 0 => Len(b[n]) = 0
          BY <1>a
        <5>2. Len(b[n]) # 0
          BY <1>8, <4>1
        <5> QED
          BY <5>1, <5>2
      <4> QED
        BY <1>5, <1>8, <4>1, <4>2
    <3> QED
      BY <3>2, <3>3
  <2> QED
    BY <1>3, <2>1, <2>2
<1>16. Closed(c)
  <2>1. CASE closes
    <3>1. Len(c) = n + 1 /\ c[Len(c)] = <<t>> /\ c[n + 1] = <<t>> /\ c[n] = b[n]
      BY <1>3, <2>1
    <3>2. n <= BlocksAhead /\ n # BlocksAhead
      BY <1>7, <2>1 DEF Closed
    <3>3. Len(c) <= BlocksAhead
      BY <1>3, <1>10, <3>1, <3>2
    <3>4. ASSUME NEW i \in 1..(Len(c) - 1)
          PROVE  /\ Weight(c[i]) <= BlockWeight \/ Len(c[i]) = 1
                 /\ Weight(c[i]) + c[i + 1][1].weight > BlockWeight
      <4>1. i \in 1..n /\ c[i] = b[i]
        BY <1>3, <2>1, <3>1
      <4>2. CASE i = n
        <5>1. Weight(b[n]) <= BlockWeight \/ Len(b[n]) <= 1
          BY <1>7, <3>2 DEF Closed
        <5>2. Len(b[n]) # 0
          BY <1>4, <2>1, EmptySeq
        <5>a. Len(b[n]) <= 1 => Len(b[n]) = 1
          <6>1. Len(b[n]) \in Nat
            BY <1>8
          <6>2. \A x \in Nat : x # 0 /\ x <= 1 => x = 1
            OBVIOUS
          <6> QED
            BY <5>2, <6>1, <6>2, Zenon
        <5>3. Weight(c[i]) <= BlockWeight \/ Len(c[i]) = 1
          BY <4>1, <4>2, <5>1, <5>a, Zenon
        <5>4. c[i + 1][1] = t /\ Weight(b[n]) + t.weight > BlockWeight
          BY <1>9, <2>1, <4>2
        <5> QED
          BY <4>1, <4>2, <5>3, <5>4
      <4>3. CASE i # n
        <5>1. i \in 1..(n - 1) /\ i + 1 \in 1..n
          BY <1>3, <4>1, <4>3
        <5>2. c[i + 1] = b[i + 1]
          BY <2>1, <5>1
        <5> QED
          BY <1>7, <4>1, <5>1, <5>2 DEF Closed
      <4> QED
        BY <4>2, <4>3
    <3>5. Len(c[Len(c)]) <= 1
      BY <1>9, <3>1
    <3> QED
      BY <3>3, <3>4, <3>5 DEF Closed
  <2>2. CASE grows
    <3>1. Len(c) = n /\ c[Len(c)] = g /\ c[n] = g
      BY <2>2 DEF g
    <3>2. n <= BlocksAhead
      BY <1>7 DEF Closed
    <3>3. ASSUME NEW i \in 1..(n - 1)
          PROVE  /\ Weight(c[i]) <= BlockWeight \/ Len(c[i]) = 1
                 /\ Weight(c[i]) + c[i + 1][1].weight > BlockWeight
      <4>0. i \in 1..n /\ i + 1 \in 1..n /\ n # 1
        BY <1>3
      <4>1. c[i] = b[i]
        BY <2>2
      <4>2. c[i + 1][1] = b[i + 1][1]
        <5>1. CASE i + 1 = n
          <6>1. b[n] # <<>>
            BY <1>4, <1>6, <4>0
          <6>2. 1 \in 1..Len(b[n])
            BY <1>4, <1>8, <6>1, EmptySeq
          <6> QED
            BY <1>8, <3>1, <5>1, <6>2
        <5>2. CASE i + 1 # n
          <6>1. i + 1 \in 1..(n - 1)
            BY <1>3, <4>0, <5>2
          <6> QED
            BY <2>2, <6>1
        <5> QED
          BY <5>1, <5>2
      <4>3. /\ Weight(b[i]) <= BlockWeight \/ Len(b[i]) = 1
            /\ Weight(b[i]) + b[i + 1][1].weight > BlockWeight
        BY <1>7 DEF Closed
      <4> QED
        BY <4>1, <4>2, <4>3
    <3>4. Weight(g) <= BlockWeight \/ Len(g) <= 1 \/ n = BlocksAhead
      <4>1. CASE n = BlocksAhead
        BY <4>1
      <4>2. CASE Weight(b[n]) + t.weight <= BlockWeight
        BY <1>10, <4>2
      <4>3. CASE b[n] = <<>>
        <5>1. Len(b[n]) = 0
          BY <4>3
        <5> QED
          BY <1>8, <5>1
      <4> QED
        BY <2>2, <4>1, <4>2, <4>3
    <3> QED
      BY <3>1, <3>2, <3>3, <3>4 DEF Closed
  <2> QED
    BY <1>3, <2>1, <2>2
<1>17. FlattenSeq(c) = SubSeq(txs, 1, h)
  <2>1. FlattenSeq(c) = FlattenSeq(b) \o <<t>>
    BY <1>1, <1>2, FlattenPut DEF c
  <2>2. FlattenSeq(b) = SubSeq(txs, 1, k)
    BY DEF Packs
  <2>3. SubSeq(txs, 1, h) = SubSeq(txs, 1, h - 1) \o <<txs[h]>>
    <3>1. 1 \in 1..Len(txs) /\ h \in 1..Len(txs)
      BY <1>1
    <3> QED
      BY <3>1, SubSeqRecursiveSecond
  <2>4. h - 1 = k /\ t = txs[h]
    BY DEF h, t
  <2> QED
    BY <2>1, <2>2, <2>3, <2>4
<1>18. Packs(c, T, txs, h)
  <2>1. t = txs[h]
    BY DEF t, h
  <2> QED
    BY <1>1, <1>3, <1>14, <1>15, <1>16, <1>17, <2>1 DEF Packs
<1> QED
  BY <1>18 DEF c, t, h

LEMMA PackedIs ==
    ASSUME NEW T \in SUBSET FeeTx, NEW txs \in Seq(T), Descending(txs), txs # <<>>
    PROVE  Packs(Packed(txs), T, txs, Len(txs))
<1> DEFINE n == Len(txs)
<1>0. n \in Nat
  OBVIOUS
<1>a. txs \in Seq(FeeTx)
  BY SeqMonotonic
<1>1. PICK it : /\ it[1..0] = <<<<>>>>
                /\ \A k \in 1..n : it[1..k] = Put(it[1..(k - 1)], txs[k])
                /\ Packed(txs) = it[1..n]
  BY <1>a, PackFolds
<1> DEFINE N == {k \in Nat : k <= n => Packs(it[1..k], T, txs, k)}
<1>2. 0 \in N
  <2> DEFINE b == <<<<>>>>
  <2>1. b \in Filling /\ Len(b) = 1 /\ b[1] = <<>> /\ b \in Seq(Seq(FeeTx))
    BY DEF Filling
  <2>2. \A i \in 1..Len(b) : b[i] \in Seq(T) /\ Descending(b[i])
    <3>1. Descending(<<>>)
      BY DEF Descending
    <3>2. <<>> \in Seq(T)
      BY EmptySeq
    <3> HIDE DEF b
    <3>3. \A i \in 1..Len(b) : b[i] = <<>>
      <4>1. \A i \in 1..1 : i = 1
        OBVIOUS
      <4> QED
        BY <2>1, <4>1, Zenon
    <3> QED
      BY <3>1, <3>2, <3>3, Zenon
  <2>3. Closed(b)
    <3>1. BlocksAhead >= 1
      BY FeesType
    <3> QED
      BY <2>1, <3>1 DEF Closed
  <2>4. FlattenSeq(b) = SubSeq(txs, 1, 0)
    <3>1. FlattenSeq(b) = b[1]
      <4>1. Len(b) = 0 + 1 /\ 0 \in Nat
        BY <2>1
      <4> HIDE DEF b
      <4> QED
        BY <2>1, <4>1, FlattenSteps
    <3>2. SubSeq(txs, 1, 0) = <<>>
      BY SubSeqEmpty
    <3> QED
      BY <2>1, <3>1, <3>2
  <2> HIDE DEF b
  <2>5. Packs(b, T, txs, 0)
    <3>1. ~(0 > 0)
      OBVIOUS
    <3> QED
      BY <2>1, <2>2, <2>3, <2>4, <3>1 DEF Packs, b
  <2> QED
    BY <1>1, <2>5 DEF b
<1>3. ASSUME NEW k \in N PROVE k + 1 \in N
  <2>0. k \in Nat /\ k + 1 \in Nat
    OBVIOUS
  <2> SUFFICES ASSUME k + 1 <= n PROVE Packs(it[1..(k + 1)], T, txs, k + 1)
    BY <2>0
  <2>1. Packs(it[1..k], T, txs, k)
    BY <1>0, <2>0
  <2> HIDE DEF N
  <2>2. Packs(Put(it[1..k], txs[k + 1]), T, txs, k + 1)
    BY <2>0, <2>1, PackStep
  <2>3. k + 1 \in 1..n /\ (k + 1) - 1 = k
    BY <1>0, <2>0
  <2>4. it[1..(k + 1)] = Put(it[1..k], txs[k + 1])
    <3> HIDE DEF n
    <3> QED
      BY <1>1, <2>3
  <2> QED
    BY <2>2, <2>4
<1>4. N = Nat
  <2> HIDE DEF N
  <2>1. N \in SUBSET Nat
    BY DEF N
  <2> QED
    BY <1>2, <1>3, <2>1, EveryNumber
<1>5. n \in N /\ n <= n
  BY <1>0, <1>4
<1> QED
  BY <1>1, <1>5

\* A block of the projection: its weight, and its median, a fraction.
BlockType == [weight : Nat, median : Nat \X (Nat \ {0})]

LEMMA ProjectedIs ==
    ASSUME NEW T \in SUBSET FeeTx, NEW txs \in Seq(T), Descending(txs), NEW hi \in Nat, \A t \in T : t.rate <= hi
    PROVE  /\ Projected(txs) \in Seq(BlockType)
           /\ \A i \in 1..Len(Projected(txs)) : Projected(txs)[i].median[1] <= hi * Projected(txs)[i].median[2]
<1> DEFINE b == Packed(txs)
           p == Projected(txs)
           n == Len(b)
<1>1. n \in Nat /\ DOMAIN b = 1..n /\ \A i \in 1..n : b[i] \in Seq(T)
  <2>1. CASE txs = <<>>
    <3>1. b = <<>>
      BY <2>1 DEF Packed
    <3> HIDE DEF b
    <3> QED
      BY <3>1
  <2>2. CASE txs # <<>>
    <3>1. b \in Filling /\ \A i \in 1..n : b[i] \in Seq(T)
      BY <2>2, PackedIs DEF Packs
    <3> HIDE DEF b
    <3> QED
      BY <3>1 DEF Filling
  <2> QED
    BY <2>1, <2>2
<1>2. p = [i \in 1..n |-> [weight |-> Weight(b[i]), median |-> MedianFeeOf(b[i])]]
  BY <1>1 DEF Projected
<1> HIDE DEF b, n, p
<1>3. ASSUME NEW i \in 1..n
      PROVE  p[i] \in BlockType /\ p[i].median[1] <= hi * p[i].median[2]
  <2> DEFINE m == MedianFeeOf(b[i])
  <2>1. b[i] \in Seq(T) /\ b[i] \in Seq(FeeTx)
    BY <1>1, SeqMonotonic
  <2>2. \A j \in DOMAIN b[i] : 0 <= b[i][j].rate /\ b[i][j].rate <= hi
    <3> SUFFICES ASSUME NEW j \in DOMAIN b[i] PROVE 0 <= b[i][j].rate /\ b[i][j].rate <= hi
      OBVIOUS
    <3>1. b[i][j] \in T
      BY <2>1
    <3>2. \A t \in FeeTx : t.rate \in Nat
      BY DEF FeeTx
    <3>3. b[i][j].rate \in Nat /\ b[i][j].rate <= hi
      BY <3>1, <3>2
    <3> QED
      BY <3>3
  <2>3. /\ m = <<m[1], m[2]>> /\ m[1] \in Nat /\ m[2] \in Nat \ {0}
        /\ m = <<0, 1>> \/ (0 * m[2] <= m[1] /\ m[1] <= hi * m[2])
    BY <2>1, <2>2, MedianIs
  <2>4. Weight(b[i]) \in Nat
    BY <2>1, WeightIs
  <2>5. p[i] = [weight |-> Weight(b[i]), median |-> m]
    BY <1>2
  <2> HIDE DEF m
  <2>6. m \in Nat \X (Nat \ {0})
    BY <2>3
  <2>7. p[i].median = m
    BY <2>5
  <2>8. p[i] \in BlockType
    BY <2>4, <2>5, <2>6 DEF BlockType
  <2>9. m[1] <= hi * m[2]
    <3>1. CASE m = <<0, 1>>
      <4>1. m[1] = 0 /\ m[2] = 1
        BY <3>1
      <4> QED
        BY <4>1
    <3> QED
      BY <2>3, <3>1
  <2> QED
    BY <2>7, <2>8, <2>9
<1>4. p \in Seq(BlockType) /\ Len(p) = n
  <2>1. p \in [1..n -> BlockType]
    <3>1. DOMAIN p = 1..n /\ p = [i \in DOMAIN p |-> p[i]]
      BY <1>2
    <3> QED
      BY <1>3, <3>1
  <2> QED
    BY <1>1, <2>1
<1> QED
  BY <1>3, <1>4 DEF p

\* A fraction that is not above a whole number is not above it rounded, up or to the nearest.
LEMMA RoundedIs ==
    ASSUME NEW n \in Int, NEW d \in Nat \ {0}, NEW hi \in Int, n <= hi * d
    PROVE  /\ RoundUp(n, d) \in Int /\ RoundUp(n, d) <= hi
           /\ Round(n, d) \in Int /\ Round(n, d) <= hi
<1>1. \A q \in Int, e \in Nat \ {0} : e * q < e * (hi + 1) => q <= hi
  <2> SUFFICES ASSUME NEW q \in Int, NEW e \in Nat \ {0}, q >= hi + 1 PROVE e * (hi + 1) <= e * q
    OBVIOUS
  <2>1. e * (q - (hi + 1)) >= 0
    <3>1. \A a, b \in Nat : a * b >= 0
      OBVIOUS
    <3>2. q - (hi + 1) \in Nat /\ e \in Nat
      OBVIOUS
    <3> QED
      BY <3>1, <3>2
  <2>2. e * (q - (hi + 1)) = e * q - e * (hi + 1)
    OBVIOUS
  <2>3. e * q \in Int /\ e * (hi + 1) \in Int
    OBVIOUS
  <2> QED
    BY <2>1, <2>2, <2>3
<1>2. hi * d \in Int /\ d * (hi + 1) = hi * d + d
  OBVIOUS
<1>3. RoundUp(n, d) \in Int /\ RoundUp(n, d) <= hi
  <2> DEFINE a == n + d - 1
             q == a \div d
  <2>1. a \in Int
    OBVIOUS
  <2>2. q \in Int /\ d * q <= a
    <3> HIDE DEF a
    <3> QED
      BY <2>1, Quotient
  <2>3. d * q < d * (hi + 1)
    <3>1. a < hi * d + d
      BY <1>2
    <3>2. d * q \in Int
      <4> HIDE DEF q
      <4> QED
        BY <2>2
    <3> HIDE DEF a, q
    <3> QED
      BY <1>2, <2>1, <2>2, <3>1, <3>2
  <2> HIDE DEF q
  <2>4. q <= hi
    BY <1>1, <2>2, <2>3
  <2> QED
    BY <2>2, <2>4 DEF q, RoundUp
<1>4. Round(n, d) \in Int /\ Round(n, d) <= hi
  <2> DEFINE a == 2 * n + d
             e == 2 * d
             q == a \div e
  <2>1. a \in Int /\ e \in Nat \ {0}
    OBVIOUS
  <2>2. q \in Int /\ e * q <= a
    <3> HIDE DEF a, e
    <3> QED
      BY <2>1, Quotient
  <2>3. e * q < e * (hi + 1)
    <3>1. e * (hi + 1) = 2 * (hi * d) + e
      OBVIOUS
    <3>2. a < 2 * (hi * d) + e
      BY <1>2
    <3>3. e * q \in Int /\ 2 * (hi * d) + e \in Int
      <4>1. e * q \in Int
        <5> HIDE DEF q, e
        <5> QED
          BY <2>1, <2>2
      <4> QED
        BY <1>2, <4>1
    <3> HIDE DEF a, e, q
    <3> QED
      BY <2>1, <2>2, <3>1, <3>2, <3>3
  <2> HIDE DEF q, e
  <2>4. q <= hi
    BY <1>1, <2>1, <2>2, <2>3
  <2> QED
    BY <2>2, <2>4 DEF q, e, Round
<1> QED
  BY <1>3, <1>4

\* A tier is the least there is to pay, or no more than the highest rate of a block.
LEMMA TierIs ==
    ASSUME NEW blocks \in Seq(BlockType), NEW hi \in Nat,
           \A i \in 1..Len(blocks) : blocks[i].median[1] <= hi * blocks[i].median[2],
           NEW i \in Nat \ {0}, NEW min \in Nat \ {0}, NEW previous \in Nat, previous <= min \/ previous <= hi
    PROVE  /\ Tier(blocks, i, previous, min) \in Int /\ Tier(blocks, i, previous, min) >= min
           /\ Tier(blocks, i, previous, min) = min \/ Tier(blocks, i, previous, min) <= hi
<1> DEFINE b == blocks[i]
           m1 == b.median[1]
           m2 == b.median[2]
           n == IF previous > 0 THEN m1 + previous * m2 ELSE m1
           d == IF previous > 0 THEN 2 * m2 ELSE m2
           x == 2 * b.weight - BlockWeight
           small == i > Len(blocks) \/ 2 * b.weight <= BlockWeight \/ m1 < min * m2
           last == 20 * b.weight <= 19 * BlockWeight /\ i = Len(blocks)
           tier == Tier(blocks, i, previous, min)
<1>0. tier = IF small THEN min
             ELSE IF last THEN Larger(Round(n * x, d * BlockWeight), min) ELSE Larger(RoundUp(n, d), min)
  BY DEF Tier
<1>1. CASE small
  <2> HIDE DEF small, tier
  <2>1. tier = min
    BY <1>0, <1>1
  <2> QED
    BY <2>1 DEF tier
<1>2. CASE ~small
  <2>1. i \in 1..Len(blocks)
    BY <1>2
  <2>2. b \in BlockType
    BY <2>1, ElementOfSeq
  <2>3. m1 \in Nat /\ m2 \in Nat \ {0} /\ b.weight \in Nat
    BY <2>2 DEF BlockType
  <2>4. m1 <= hi * m2
    BY <2>1
  <2>b. BlockWeight \in Nat \ {0}
    BY FeesType
  <2>5. min * m2 <= m1 /\ x > 0 /\ x \in Int
    <3> HIDE DEF b
    <3>1. min * m2 \in Int
      <4> HIDE DEF m2
      <4> QED
        BY <2>3
    <3> HIDE DEF m1, m2
    <3> QED
      BY <1>2, <2>3, <2>b, <3>1
  <2>w. last => x <= BlockWeight
    <3> HIDE DEF b
    <3> QED
      BY <2>3, <2>b
  <2> HIDE DEF b, m1, m2, x
  <2>6. min <= hi
    <3> SUFFICES ASSUME hi < min PROVE FALSE
      OBVIOUS
    <3>1. \A k, l \in Nat, y \in Nat \ {0} : k < l => k * y < l * y /\ k * y \in Nat /\ l * y \in Nat
      OBVIOUS
    <3>2. hi * m2 < min * m2 /\ hi * m2 \in Nat /\ min * m2 \in Nat
      BY <2>3, <3>1
    <3> QED
      BY <2>3, <2>4, <2>5, <3>2
  <2>7. previous <= hi
    BY <2>6
  <2>8. n \in Nat /\ d \in Nat \ {0} /\ n <= hi * d
    <3>1. CASE previous > 0
      <4>1. n = m1 + previous * m2 /\ d = 2 * m2
        BY <3>1
      <4>2. \A k, l \in Nat, y \in Nat \ {0} : k <= l => k * y <= l * y /\ k * y \in Nat /\ l * y \in Nat
        OBVIOUS
      <4>3. previous * m2 <= hi * m2 /\ previous * m2 \in Nat /\ hi * m2 \in Nat
        BY <2>3, <2>7, <4>2
      <4>4. hi * (2 * m2) = hi * m2 + hi * m2
        BY <2>3
      <4> HIDE DEF n, d
      <4> QED
        BY <2>3, <2>4, <4>1, <4>3, <4>4
    <3>2. CASE ~(previous > 0)
      <4>1. n = m1 /\ d = m2
        BY <3>2
      <4> HIDE DEF n, d
      <4> QED
        BY <2>3, <2>4, <4>1
    <3> QED
      BY <3>1, <3>2
  <2> HIDE DEF n, d, last
  <2>9. RoundUp(n, d) \in Int /\ RoundUp(n, d) <= hi
    BY <2>8, RoundedIs
  <2>10. ASSUME last PROVE Round(n * x, d * BlockWeight) \in Int /\ Round(n * x, d * BlockWeight) <= hi
    <3>1. \A k, l \in Nat : k <= l => \A y, z \in Nat : y <= z => k * y <= l * z
      <4>1. \A k, l, y, z \in Nat : k <= l /\ y <= z => k * y <= l * y /\ l * y <= l * z
        OBVIOUS
      <4>2. \A k, l \in Nat : k * l \in Nat
        OBVIOUS
      <4>3. \A a, c, e \in Nat : a <= c /\ c <= e => a <= e
        OBVIOUS
      <4> SUFFICES ASSUME NEW k \in Nat, NEW l \in Nat, k <= l, NEW y \in Nat, NEW z \in Nat, y <= z PROVE k * y <= l * z
        OBVIOUS
      <4>4. k * y \in Nat /\ l * y \in Nat /\ l * z \in Nat
        BY <4>2
      <4>5. k * y <= l * y /\ l * y <= l * z
        BY <4>1
      <4> QED
        BY <4>3, <4>4, <4>5
    <3>2. x \in Nat /\ x <= BlockWeight /\ hi * d \in Nat
      BY <2>5, <2>8, <2>10, <2>w
    <3>3. n * x <= (hi * d) * BlockWeight
      BY <2>8, <2>b, <3>1, <3>2
    <3>4. (hi * d) * BlockWeight = hi * (d * BlockWeight)
      BY <2>8, <2>b
    <3>5. n * x \in Int /\ d * BlockWeight \in Nat \ {0}
      <4>1. \A k, l \in Nat \ {0} : k * l \in Nat \ {0}
        OBVIOUS
      <4>2. d * BlockWeight \in Nat \ {0}
        BY <2>8, <2>b, <4>1
      <4>3. n * x \in Int
        BY <2>8, <3>2
      <4> QED
        BY <4>2, <4>3
    <3> DEFINE u == n * x
               v == d * BlockWeight
    <3>6. u \in Int /\ v \in Nat \ {0} /\ u <= hi * v
      BY <3>3, <3>4, <3>5
    <3> HIDE DEF u, v
    <3>7. Round(u, v) \in Int /\ Round(u, v) <= hi
      BY <3>6, RoundedIs
    <3> QED
      BY <3>7 DEF u, v
  <2> DEFINE y == IF last THEN Round(n * x, d * BlockWeight) ELSE RoundUp(n, d)
  <2>11. y \in Int /\ y <= hi
    BY <2>9, <2>10
  <2>12. tier = Larger(y, min)
    <3> HIDE DEF tier, small
    <3> QED
      BY <1>0, <1>2
  <2> HIDE DEF y, tier
  <2>13. tier \in Int /\ tier >= min /\ (tier = y \/ tier = min)
    BY <2>11, <2>12, BoundsAre
  <2> QED
    BY <2>11, <2>13 DEF tier
<1> QED
  BY <1>1, <1>2

LEMMA RecommendedIs ==
    ASSUME NEW blocks \in Seq(BlockType), NEW hi \in Nat,
           \A i \in 1..Len(blocks) : blocks[i].median[1] <= hi * blocks[i].median[2],
           NEW purge \in Nat
    PROVE  LET c == Recommended(blocks, purge)
           IN  /\ c.fastest \in Int /\ c.halfHour \in Int /\ c.hour \in Int /\ c.economy \in Int /\ c.minimum \in Int
               /\ c.fastest >= c.halfHour /\ c.halfHour >= c.hour /\ c.hour >= c.economy /\ c.economy >= c.minimum
               /\ c.minimum >= 1 /\ 1000 * c.minimum >= purge
               /\ c.fastest > c.minimum => c.fastest <= hi
<1> DEFINE up == RoundUp(purge, 1000)
           min == Larger(up, 1)
           Fair(t) == t \in Int /\ t >= min /\ (t = min \/ t <= hi)
           first == Tier(blocks, 1, 0, min)
           second == Tier(blocks, 2, first, min)
           third == Tier(blocks, 3, second, min)
           low == Smaller(2 * min, third)
           economy == Larger(min, low)
           h == Larger(third, economy)
           m == Larger(second, h)
           f == Larger(first, m)
           c == Recommended(blocks, purge)
<1>1. up \in Int /\ 1000 * up >= purge
  <2>1. up \in Int /\ 1000 * up > purge + 1000 - 1 - 1000
    BY DEF RoundUp
  <2> HIDE DEF up
  <2> QED
    BY <2>1
<1> HIDE DEF up
<1>2. min \in Nat \ {0} /\ min >= 1 /\ 1000 * min >= purge
  <2>1. min \in Int /\ min >= up /\ min >= 1
    BY <1>1 DEF Larger
  <2> HIDE DEF min
  <2> QED
    BY <1>1, <2>1
<1> HIDE DEF min
<1>3. Fair(first)
  <2>1. 0 <= min /\ 0 \in Nat /\ 1 \in Nat \ {0}
    BY <1>2
  <2> QED
    BY <1>2, <2>1, TierIs
<1> HIDE DEF first
<1>4. Fair(second)
  <2>1. first \in Nat /\ (first <= min \/ first <= hi) /\ 2 \in Nat \ {0}
    BY <1>2, <1>3
  <2> QED
    BY <1>2, <2>1, TierIs
<1> HIDE DEF second
<1>5. Fair(third)
  <2>1. second \in Nat /\ (second <= min \/ second <= hi) /\ 3 \in Nat \ {0}
    BY <1>2, <1>4
  <2> QED
    BY <1>2, <2>1, TierIs
<1> HIDE DEF third
<1>6. \A x, y \in Int : Fair(x) /\ Fair(y) => Fair(Larger(x, y)) /\ Larger(x, y) >= x /\ Larger(x, y) >= y
  BY <1>2, BoundsAre DEF Larger
<1>7. Fair(economy)
  <2>1. low \in Int /\ low <= third
    <3>1. 2 * min \in Int /\ third \in Int
      BY <1>2, <1>5
    <3> QED
      BY <3>1, BoundsAre
  <2> HIDE DEF low
  <2>2. economy \in Int /\ economy >= min /\ (economy = min \/ economy = low)
    <3>1. min \in Int
      BY <1>2
    <3>2. \A x, y \in Int : Larger(x, y) \in Int /\ Larger(x, y) >= x /\ (Larger(x, y) = x \/ Larger(x, y) = y)
      BY BoundsAre
    <3> QED
      BY <2>1, <3>1, <3>2
  <2> HIDE DEF economy
  <2> QED
    BY <1>2, <1>5, <2>1, <2>2
<1> HIDE DEF economy
<1>8. Fair(h) /\ h >= economy
  BY <1>5, <1>6, <1>7
<1> HIDE DEF h
<1>9. Fair(m) /\ m >= h
  BY <1>4, <1>6, <1>8
<1> HIDE DEF m
<1>10. Fair(f) /\ f >= m
  BY <1>3, <1>6, <1>9
<1>11. c = [fastest |-> f, halfHour |-> m, hour |-> h, economy |-> economy, minimum |-> min]
  BY DEF Recommended, Ordered, f, m, h, economy, third, second, first, min, up
<1> HIDE DEF c, f
<1>12. c.fastest = f /\ c.halfHour = m /\ c.hour = h /\ c.economy = economy /\ c.minimum = min
  BY <1>11
<1>13. f > min => f <= hi
  BY <1>2, <1>10
<1>14. f \in Int /\ m \in Int /\ h \in Int /\ economy \in Int /\ min \in Int /\ economy >= min
  BY <1>2, <1>7, <1>8, <1>9, <1>10
<1> QED
  BY <1>2, <1>8, <1>9, <1>10, <1>12, <1>13, <1>14 DEF c

\* The fees are of what was last answered, whenever there are any.
FeesInv ==
    /\ Answers(entries) /\ minFee \in Nat /\ cachedFeesOK \in BOOLEAN
    /\ cachedFeesOK => cachedFees = Recommended(Projected(Sorted(entries)), minFee)

LEMMA AnswersAre == Answers({}) /\ \A es \in Mempools : Answers(es)
<1>1. Answers({})
  BY FS_EmptySet DEF Answers
<1>2. \A es \in Mempools : Answers(es)
  BY MempoolsAre DEF Answers
<1> QED
  BY <1>1, <1>2

LEMMA FeesInvariant == FeesSpec => []FeesInv
<1>1. FeesInit => FeesInv
  <2> SUFFICES ASSUME FeesInit PROVE FeesInv
    OBVIOUS
  <2>1. entries = {} /\ minFee = 0 /\ cachedFeesOK = FALSE
    BY DEF FeesInit
  <2>2. Answers(entries)
    BY <2>1, AnswersAre, Zenon
  <2>3. minFee \in Nat
    BY <2>1
  <2>4. cachedFeesOK \in BOOLEAN /\ ~cachedFeesOK
    BY <2>1, Zenon
  <2> QED
    BY <2>2, <2>3, <2>4 DEF FeesInv
<1>2. FeesInv /\ [FeesNext]_feesVars => FeesInv'
  <2> SUFFICES ASSUME FeesInv, [FeesNext]_feesVars PROVE FeesInv'
    OBVIOUS
  <2>1. CASE RefreshFees
    <3>1. PICK es \in Mempools, f \in MinFees \cup {0} :
              /\ entries' = es /\ minFee' = f /\ cachedFeesOK' = TRUE
              /\ cachedFees' = Recommended(Projected(Sorted(es)), f)
      BY <2>1 DEF RefreshFees
    <3>2. Answers(es) /\ f \in Nat
      BY AnswersAre, FeesType
    <3>3. Answers(entries)' /\ minFee' \in Nat /\ cachedFeesOK' \in BOOLEAN
      BY <3>1, <3>2 DEF Answers
    <3> QED
      BY <3>1, <3>3 DEF FeesInv
  <2>2. CASE UNCHANGED feesVars
    BY <2>2 DEF FeesInv, feesVars, Answers
  <2> QED
    BY <2>1, <2>2 DEF FeesNext, RefreshFails
<1> QED
  BY <1>1, <1>2, PTL DEF FeesSpec

\* What is packed of an answer: in the order of the rates, and none above the first.
LEMMA SortedFalls ==
    ASSUME NEW es, Answers(es)
    PROVE  /\ Sorted(es) \in Seq(FeeTx) /\ Descending(Sorted(es))
           /\ \A i \in 1..Len(Sorted(es)) : \E e \in es : Sorted(es)[i].rate = EffectiveRate(e)
<1> DEFINE s == Sorted(es)
<1>1. s \in Seq(Heavier(es)) /\ Heavier(es) \subseteq FeeTx /\ \A i, j \in DOMAIN s : i < j => s[j].rate <= s[i].rate
  BY SortedIs
<1> HIDE DEF s
<1>2. s \in Seq(FeeTx) /\ DOMAIN s = 1..Len(s)
  BY <1>1, SeqMonotonic
<1>3. Descending(s)
  BY <1>1, <1>2 DEF Descending
<1>4. \A i \in 1..Len(s) : s[i] \in Heavier(es)
  BY <1>1, ElementOfSeq
<1> QED
  BY <1>2, <1>3, <1>4, HeavierAre DEF s

\* For any size of a block, number of blocks and mempools: a faster recommendation never
\* costs less than a slower one, none is below what the node relays, and none is above
\* the minimum and above what every transaction pays (fees.go calculateRecommendedFee).
THEOREM FeesAreOrdered == FeesSpec => []FeesNeverInvert
<1>1. FeesInv => FeesNeverInvert
  <2> SUFFICES ASSUME FeesInv, cachedFeesOK
               PROVE  LET c == cachedFees
                          paid == {EffectiveRate(e) : e \in entries}
                      IN  /\ c.fastest >= c.halfHour /\ c.halfHour >= c.hour /\ c.hour >= c.economy /\ c.economy >= c.minimum
                          /\ c.minimum >= 1 /\ 1000 * c.minimum >= minFee
                          /\ c.fastest > c.minimum => \E r \in paid : r >= c.fastest
                          /\ \A r \in 0..c.fastest : /\ ConfEstimate(r) = "fast" => ConfEstimate(r + 1) = "fast"
                                                     /\ ConfEstimate(r) = "med" => ConfEstimate(r + 1) # "slow"
    BY DEF FeesNeverInvert
  <2> DEFINE c == cachedFees
             s == Sorted(entries)
             hi == IF s = <<>> THEN 0 ELSE s[1].rate
             T == {t \in FeeTx : t.rate <= hi}
             p == Projected(s)
  <2>1. s \in Seq(FeeTx) /\ Descending(s) /\ \A i \in 1..Len(s) : \E e \in entries : s[i].rate = EffectiveRate(e)
    BY SortedFalls DEF FeesInv
  <2> HIDE DEF s
  <2>2. \A t \in FeeTx : t.rate \in Nat
    BY DEF FeeTx
  <2>3. \A i \in 1..Len(s) : s[i] \in FeeTx /\ 1 \in 1..Len(s) /\ s # <<>> /\ (1 < i \/ 1 = i)
    BY <2>1
  <2>4. hi \in Nat /\ (s # <<>> => 1 \in 1..Len(s))
    <3>1. CASE s = <<>>
      BY <3>1
    <3>2. CASE s # <<>>
      <4>1. 1 \in 1..Len(s)
        BY <2>1, <3>2, EmptySeq
      <4> QED
        BY <2>2, <2>3, <3>2, <4>1
    <3> QED
      BY <3>1, <3>2
  <2>5. \A i \in 1..Len(s) : s[i].rate <= hi
    <3> SUFFICES ASSUME NEW i \in 1..Len(s) PROVE s[i].rate <= hi
      OBVIOUS
    <3>1. hi = s[1].rate
      BY <2>3
    <3>2. CASE i = 1
      BY <2>4, <3>1, <3>2
    <3>3. CASE 1 < i
      BY <2>1, <2>3, <3>1, <3>3 DEF Descending
    <3> QED
      BY <2>3, <3>2, <3>3
  <2>6. s \in Seq(T) /\ T \in SUBSET FeeTx /\ \A t \in T : t.rate <= hi
    <3>1. \A i \in 1..Len(s) : s[i] \in T
      BY <2>3, <2>5
    <3> HIDE DEF T
    <3>2. s \in [1..Len(s) -> T] /\ Len(s) \in Nat
      BY <2>1, <3>1
    <3>3. s \in Seq(T)
      BY <3>2
    <3> QED
      BY <3>3 DEF T
  <2> HIDE DEF T, hi
  <2>7. p \in Seq(BlockType) /\ \A i \in 1..Len(p) : p[i].median[1] <= hi * p[i].median[2]
    BY <2>1, <2>4, <2>6, ProjectedIs
  <2> HIDE DEF p
  <2>8. c = Recommended(p, minFee) /\ minFee \in Nat
    BY DEF FeesInv, p, s
  <2>9. /\ c.fastest \in Int /\ c.halfHour \in Int /\ c.hour \in Int /\ c.economy \in Int /\ c.minimum \in Int
        /\ c.fastest >= c.halfHour /\ c.halfHour >= c.hour /\ c.hour >= c.economy /\ c.economy >= c.minimum
        /\ c.minimum >= 1 /\ 1000 * c.minimum >= minFee
        /\ c.fastest > c.minimum => c.fastest <= hi
    BY <2>4, <2>7, <2>8, RecommendedIs, SMTT(40)
  <2>10. ASSUME c.fastest > c.minimum PROVE \E r \in {EffectiveRate(e) : e \in entries} : r >= c.fastest
    <3>1. c.fastest <= hi /\ hi # 0
      BY <2>4, <2>9, <2>10
    <3>2. s # <<>> /\ hi = s[1].rate
      BY <3>1 DEF hi
    <3>3. \E e \in entries : hi = EffectiveRate(e)
      BY <2>1, <2>4, <3>2
    <3> QED
      BY <2>4, <2>9, <3>1, <3>3
  <2>11. ASSUME NEW r \in 0..c.fastest
         PROVE  /\ ConfEstimate(r) = "fast" => ConfEstimate(r + 1) = "fast"
                /\ ConfEstimate(r) = "med" => ConfEstimate(r + 1) # "slow"
    <3> DEFINE Told(x) == IF x >= c.fastest THEN "fast" ELSE IF x >= c.hour THEN "med" ELSE "slow"
    <3>1. \A x : ConfEstimate(x) = Told(x)
      BY DEF ConfEstimate
    <3>2. r \in Int /\ r + 1 \in Int /\ (\A x \in Int : r >= x => r + 1 >= x)
      BY <2>9
    <3>3. (r >= c.fastest => r + 1 >= c.fastest) /\ (r >= c.hour => r + 1 >= c.hour)
      BY <2>9, <3>2
    <3> HIDE DEF c
    <3>4. "fast" # "med" /\ "med" # "slow" /\ "fast" # "slow"
      OBVIOUS
    <3>5. (Told(r) = "fast" => r >= c.fastest) /\ (Told(r) = "med" => r >= c.hour)
      BY <3>4
    <3>6. (r + 1 >= c.fastest => Told(r + 1) = "fast") /\ (r + 1 >= c.hour => Told(r + 1) # "slow")
      BY <3>4
    <3> QED
      BY <3>1, <3>3, <3>5, <3>6
  <2> QED
    BY <2>9, <2>10, <2>11
<1> QED
  BY <1>1, FeesInvariant, PTL

\* For the same: the projected blocks are the mempool in the order of its rates, closed
\* only when the next transaction does not fit, and a block's median lies between the
\* lowest and the highest rate in it (fees.go buildProjectedBlocks, medianFeeOf).
THEOREM BlocksAreOfMempool == FeesSpec => []BlocksOfMempool
<1>1. FeesInv => BlocksOfMempool
  <2> SUFFICES ASSUME FeesInv PROVE BlocksOfMempool
    OBVIOUS
  <2> DEFINE s == Sorted(entries)
             b == Packed(s)
             n == Len(b)
  <2>1. s \in Seq(FeeTx) /\ Descending(s)
    BY SortedFalls DEF FeesInv
  <2> HIDE DEF s
  <2>2. CASE s = <<>>
    <3>1. b = <<>>
      BY <2>2 DEF Packed
    <3>2. FlattenSeq(b) = s /\ Len(b) <= BlocksAhead /\ DOMAIN b = {} /\ 1..(Len(b) - 1) = {}
      <4>1. Len(<<>>) = 0 /\ DOMAIN <<>> = {} /\ 1..(0 - 1) = {}
        OBVIOUS
      <4>2. FlattenSeq(<<>>) = <<>>
        BY <4>1 DEF FlattenSeq
      <4> HIDE DEF b
      <4> QED
        BY <2>2, <3>1, <4>1, <4>2, FeesType
    <3> HIDE DEF b
    <3> QED
      BY <3>2 DEF BlocksOfMempool, b, s
  <2>3. CASE s # <<>>
    <3>1. Packs(b, FeeTx, s, Len(s)) /\ Len(s) > 0
      <4>1. Len(s) > 0
        BY <2>1, <2>3, EmptySeq
      <4> QED
        BY <2>1, <2>3, <4>1, PackedIs
    <3> HIDE DEF b
    <3>2. /\ b \in Filling /\ Closed(b) /\ FlattenSeq(b) = SubSeq(s, 1, Len(s))
          /\ \A i \in 1..Len(b) : b[i] \in Seq(FeeTx) /\ Descending(b[i]) /\ b[i] # <<>>
      BY <3>1 DEF Packs
    <3>3. FlattenSeq(b) = s
      BY <2>1, <3>2, SubSeqFull
    <3>4. b \in Seq(Seq(FeeTx)) /\ Len(b) \in Nat /\ DOMAIN b = 1..Len(b)
      BY <3>2 DEF Filling
    <3>5. \A i \in 1..Len(b) : Head(b[i]) = b[i][1]
      BY <3>2
    <3>6. Len(b) <= BlocksAhead /\ \A i \in 1..(Len(b) - 1) :
              /\ Weight(b[i]) <= BlockWeight \/ Len(b[i]) = 1
              /\ Weight(b[i]) + Head(b[i + 1]).weight > BlockWeight
      <4>1. \A i \in 1..(Len(b) - 1) : i + 1 \in 1..Len(b)
        BY <3>4
      <4> QED
        BY <3>2, <3>5, <4>1 DEF Closed
    <3>7. ASSUME NEW i \in DOMAIN b
          PROVE  LET m == MedianFeeOf(b[i])
                 IN  m = <<0, 1>> \/ (Last(b[i]).rate * m[2] <= m[1] /\ m[1] <= Head(b[i]).rate * m[2])
      <4> DEFINE x == b[i]
      <4>1. x \in Seq(FeeTx) /\ Descending(x) /\ x # <<>> /\ Head(x) = x[1] /\ Last(x) = x[Len(x)]
        BY <3>2, <3>4, <3>5 DEF Last
      <4> HIDE DEF x
      <4>2. Len(x) \in Nat \ {0} /\ DOMAIN x = 1..Len(x) /\ \A j \in 1..Len(x) : x[j] \in FeeTx
        BY <4>1, EmptySeq, ElementOfSeq
      <4>3. 1 \in 1..Len(x) /\ Len(x) \in 1..Len(x)
        BY <4>2
      <4>4. \A t \in FeeTx : t.rate \in Nat
        BY DEF FeeTx
      <4> DEFINE lo == x[Len(x)].rate
                 hi == x[1].rate
      <4>5. lo \in Nat /\ hi \in Nat /\ \A j \in 1..Len(x) : x[j].rate \in Nat
        BY <4>2, <4>3, <4>4
      <4>6. \A j \in DOMAIN x : lo <= x[j].rate /\ x[j].rate <= hi
        <5> SUFFICES ASSUME NEW j \in 1..Len(x) PROVE lo <= x[j].rate /\ x[j].rate <= hi
          BY <4>2
        <5>1. (j = 1 \/ 1 < j) /\ (j = Len(x) \/ j < Len(x))
          <6>1. \A k \in Nat : \A l \in 1..k : (l = 1 \/ 1 < l) /\ (l = k \/ l < k)
            OBVIOUS
          <6> QED
            BY <4>2, <6>1
        <5>2. x[j].rate <= hi
          BY <4>1, <4>3, <4>5, <5>1 DEF Descending
        <5>3. lo <= x[j].rate
          BY <4>1, <4>3, <4>5, <5>1 DEF Descending
        <5> QED
          BY <5>2, <5>3
      <4> HIDE DEF lo, hi
      <4>7. MedianFeeOf(x) = <<0, 1>> \/ (lo * MedianFeeOf(x)[2] <= MedianFeeOf(x)[1] /\ MedianFeeOf(x)[1] <= hi * MedianFeeOf(x)[2])
        BY <4>1, <4>5, <4>6, MedianIs
      <4> QED
        BY <4>1, <4>7 DEF x, lo, hi
    <3> QED
      BY <3>3, <3>6, <3>7 DEF BlocksOfMempool, b, s
  <2> QED
    BY <2>2, <2>3
<1> QED
  BY <1>1, FeesInvariant, PTL

-----------------------------------------------------------------------------
(* The Blockchain card: a figure is as old as its source, and btcnodes.io's *)
(* is preferred only while it is not older than the one that is shown.     *)

CountedBy == {t \in Int : t >= NoFigure /\ t <= cardTime}

CardsInv ==
    /\ cardTime \in Nat /\ cardFaults \in Nat
    /\ apiSeen \in CountedBy /\ card.nodes \in CountedBy /\ card.txs \in CountedBy
    /\ card.funded = TRUE => fundedKnown = TRUE
    /\ apiSeen # NoFigure /\ cardTime - apiSeen <= NodesMaxAge => card.nodes <= apiSeen

\* What FiguresNeverOlder says of a step.
NotOlder == /\ card'.nodes >= card.nodes /\ card'.txs >= card.txs
            /\ card.ok => card'.ok
            /\ card.funded => card'.funded

LEMMA CardsInitOK == CardsInit => CardsInv /\ FundedIsShown
BY DEF CardsInit, CardsInv, FundedIsShown, CountedBy, NoFigure

LEMMA ResolveIs ==
    ASSUME CardsInv, NEW answered \in BOOLEAN, NEW scanned \in BOOLEAN
    PROVE  LET r == Resolve(answered, scanned) IN
           /\ r.seen \in CountedBy /\ r.nodes \in CountedBy /\ r.nodes >= card.nodes
           /\ r.seen # NoFigure /\ cardTime - r.seen <= NodesMaxAge => r.nodes <= r.seen
<1> DEFINE seen == IF cardTime >= apiNext /\ answered THEN cardTime ELSE apiSeen
<1>1. seen \in CountedBy /\ (seen # NoFigure /\ cardTime - seen <= NodesMaxAge => card.nodes <= seen)
  BY DEF CardsInv, CountedBy, NoFigure
<1> HIDE DEF seen
<1>2. /\ OrScan(seen, scanned) \in CountedBy /\ OrScan(seen, scanned) >= card.nodes
      /\ seen # NoFigure /\ cardTime - seen <= NodesMaxAge => OrScan(seen, scanned) <= seen
  BY <1>1 DEF OrScan, CardsInv, CountedBy, NoFigure
<1>3. Resolve(answered, scanned).seen = seen /\ Resolve(answered, scanned).nodes = OrScan(seen, scanned)
  BY DEF Resolve, seen
<1> QED
  BY <1>1, <1>2, <1>3

LEMMA RefreshOK ==
    ASSUME CardsInv, FundedIsShown, NEW withNodes \in BOOLEAN, RefreshNetwork(withNodes),
           UNCHANGED <<cardTime, fundedKnown>>
    PROVE  /\ CardsInv' /\ (card' = card \/ NotOlder)
           /\ cardFaults' = 0 => cardFaults = 0 /\ card'.funded = fundedKnown
<1>1. PICK failing \in SUBSET {"chain", "stats", "api", "scan"} :
        /\ cardFaults' = cardFaults + (IF failing = {} THEN 0 ELSE 1)
        /\ IF "chain" \in failing THEN UNCHANGED <<apiSeen, apiNext, card>>
           ELSE LET r == Resolve("api" \notin failing, "scan" \notin failing)
                IN  /\ IF withNodes THEN apiNext' = r.next /\ apiSeen' = r.seen ELSE UNCHANGED <<apiNext, apiSeen>>
                    /\ card' = [ok |-> TRUE, nodes |-> IF withNodes THEN r.nodes ELSE card.nodes,
                                txs |-> IF "stats" \in failing THEN card.txs ELSE cardTime, funded |-> fundedKnown]
  BY Zenon DEF RefreshNetwork
<1>2. cardFaults' \in Nat /\ (cardFaults' = 0 => cardFaults = 0 /\ failing = {})
  BY <1>1 DEF CardsInv
<1>3. CASE "chain" \in failing
  <2>1. UNCHANGED <<apiSeen, apiNext, card>> /\ failing # {}
    BY <1>1, <1>3
  <2>2. CardsInv'
    BY <1>2, <2>1 DEF CardsInv, CountedBy
  <2> QED
    BY <1>2, <2>1, <2>2
<1>4. CASE "chain" \notin failing
  <2> DEFINE r == Resolve("api" \notin failing, "scan" \notin failing)
  <2>1. /\ r.seen \in CountedBy /\ r.nodes \in CountedBy /\ r.nodes >= card.nodes
        /\ r.seen # NoFigure /\ cardTime - r.seen <= NodesMaxAge => r.nodes <= r.seen
    BY ResolveIs
  <2>2. /\ IF withNodes THEN apiSeen' = r.seen ELSE apiSeen' = apiSeen
        /\ card' = [ok |-> TRUE, nodes |-> IF withNodes THEN r.nodes ELSE card.nodes,
                    txs |-> IF "stats" \in failing THEN card.txs ELSE cardTime, funded |-> fundedKnown]
    BY <1>1, <1>4, Zenon
  <2> HIDE DEF r
  <2>3. /\ card'.ok = TRUE /\ card'.funded = fundedKnown
        /\ card'.nodes = IF withNodes THEN r.nodes ELSE card.nodes
        /\ card'.txs = IF "stats" \in failing THEN card.txs ELSE cardTime
    BY <2>2, Zenon
  <2>4. /\ apiSeen' \in CountedBy /\ card'.nodes \in CountedBy /\ card'.txs \in CountedBy
        /\ apiSeen' # NoFigure /\ cardTime - apiSeen' <= NodesMaxAge => card'.nodes <= apiSeen'
        /\ card'.nodes >= card.nodes /\ card'.txs >= card.txs
    BY <2>1, <2>2, <2>3 DEF CardsInv, CountedBy, NoFigure
  <2>5. card.funded => card'.funded
    <3>1. card.funded = TRUE => fundedKnown = TRUE
      BY DEF CardsInv
    <3> QED
      BY <2>3, <3>1, Zenon
  <2>6. NotOlder
    BY <2>3, <2>4, <2>5, Zenon DEF NotOlder
  <2>7. CardsInv'
    <3>1. cardTime' = cardTime /\ fundedKnown' = fundedKnown /\ cardTime \in Nat
      BY DEF CardsInv
    <3>2. CountedBy' = CountedBy
      BY <3>1 DEF CountedBy
    <3> QED
      BY <1>2, <2>3, <2>4, <3>1, <3>2, Zenon DEF CardsInv
  <2> QED
    BY <1>2, <2>3, <2>6, <2>7, Zenon
<1> QED
  BY <1>3, <1>4

LEMMA CardsStep ==
    CardsInv /\ FundedIsShown /\ [CardsNext]_networkVars => CardsInv' /\ FundedIsShown' /\ (card' = card \/ NotOlder)
<1> SUFFICES ASSUME CardsInv, FundedIsShown, [CardsNext]_networkVars
             PROVE  CardsInv' /\ FundedIsShown' /\ (card' = card \/ NotOlder)
  OBVIOUS
<1>1. CASE CardTicks
  <2>1. cardTime' = cardTime + 1 /\ UNCHANGED <<fundedSignal, fundedKnown, apiSeen, card, cardFaults>>
    BY <1>1 DEF CardTicks
  <2> QED
    BY <2>1, CardsType DEF CardsInv, CountedBy, FundedIsShown, NoFigure
<1>2. CASE SendBlock \/ UNCHANGED networkVars
  <2>1. UNCHANGED <<cardTime, fundedSignal, fundedKnown, apiSeen, card, cardFaults>>
    BY <1>2 DEF SendBlock, networkVars
  <2> QED
    BY <2>1 DEF CardsInv, CountedBy, FundedIsShown
<1>3. CASE SendFunded
  <2>1. /\ fundedKnown' = TRUE /\ fundedSignal' = TRUE
        /\ UNCHANGED <<cardTime, apiSeen, card, cardFaults>>
    BY <1>3 DEF SendFunded, Sent
  <2> QED
    BY <2>1 DEF CardsInv, CountedBy, FundedIsShown
<1>4. CASE RefreshTick \/ RefreshBlock
  <2>1. PICK withNodes \in BOOLEAN : RefreshNetwork(withNodes)
    BY <1>4 DEF RefreshTick, RefreshBlock
  <2>2. UNCHANGED <<cardTime, fundedKnown, fundedSignal>>
    BY <1>4 DEF RefreshTick, RefreshBlock
  <2>3. /\ CardsInv' /\ (card' = card \/ NotOlder)
        /\ cardFaults' = 0 => cardFaults = 0 /\ card'.funded = fundedKnown
    BY <2>1, <2>2, RefreshOK
  <2>4. FundedIsShown'
    BY <2>2, <2>3, Zenon DEF FundedIsShown
  <2> QED
    BY <2>3, <2>4
<1>5. CASE RefreshFunded
  <2>1. RefreshNetwork(FALSE) /\ UNCHANGED <<cardTime, fundedKnown>>
    BY <1>5 DEF RefreshFunded
  <2>2. /\ CardsInv' /\ (card' = card \/ NotOlder)
        /\ cardFaults' = 0 => cardFaults = 0 /\ card'.funded = fundedKnown
    BY <2>1, RefreshOK
  <2>3. FundedIsShown'
    BY <2>1, <2>2, Zenon DEF FundedIsShown
  <2> QED
    BY <2>2, <2>3
<1> QED
  BY <1>1, <1>2, <1>3, <1>4, <1>5 DEF CardsNext

\* No refresh of the Blockchain card shows an older figure than the one it replaces, or
\* takes one off, for any times of trust and whatever fails (main.go startNetworkStats).
THEOREM NeverOlder == CardsSpec => FiguresNeverOlder
<1>1. CardsInv /\ FundedIsShown /\ [CardsNext]_networkVars =>
        [/\ card'.nodes >= card.nodes /\ card'.txs >= card.txs
         /\ card.ok => card'.ok
         /\ card.funded => card'.funded]_card
  BY CardsStep, Zenon DEF NotOlder
<1> QED
  BY <1>1, CardsInitOK, CardsStep, PTL DEF CardsSpec, FiguresNeverOlder

\* Once the addresses are counted and nothing has failed, the card that waits for no
\* refresh shows their count: the signal is never lost (main.go startNetworkStats).
THEOREM FundedShown == CardsSpec => []FundedIsShown
BY CardsInitOK, CardsStep, PTL DEF CardsSpec

=============================================================================
