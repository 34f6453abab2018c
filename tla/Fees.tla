-------------------------------- MODULE Fees --------------------------------
(***************************************************************************)
(* The fee recommendations: the mempool packed into the blocks a miner     *)
(* would build, each block's median fee, and the tiers made of them;       *)
(* refreshFees keeps the last ones for /fees, the Mini App's card and the  *)
(* confirmation estimates.  Weights are whole, BlockWeight standing for    *)
(* 4,000,000, and an effective rate is a whole number of sat/vB; a median  *)
(* is a fraction <<n, d>>.                                                 *)
(***************************************************************************)
EXTENDS Integers, FiniteSets, Sequences, FiniteSetsExt, SequencesExt

CONSTANTS
    BlockWeight,             \* blockWeightUnits
    BlocksAhead,             \* projectedBlocksAmount
    Mempools,                \* what getrawmempool may answer: sets of [id, weight, vsize, base, ancestor, ancestorSize]
    MinFees                  \* what getmempoolinfo may answer: thousandths of a sat/vB

ASSUME FeesType == BlockWeight \in Nat \ {0} /\ BlocksAhead \in Nat \ {0} /\ MinFees \subseteq Nat
\* An answer is a map, its entries known by their transactions, of amounts that are not negative.
ASSUME MempoolsAre ==
    \A es \in Mempools :
        /\ IsFiniteSet(es) /\ \A d, e \in es : d.id = e.id => d = e
        /\ \A e \in es : {e.id, e.weight, e.vsize, e.base, e.ancestor, e.ancestorSize} \subseteq Nat

VARIABLES
    cachedFees, cachedFeesOK, cachedFeesCount,
    entries, minFee          \* what the recommendations were last made of
feesVars == <<cachedFees, cachedFeesOK, cachedFeesCount, entries, minFee>>

\* effectiveRate: of the package of its unconfirmed ancestors, or its own.
EffectiveRate(e) ==
    IF e.ancestorSize > 0 /\ e.ancestor > 0 THEN e.ancestor \div e.ancestorSize
    ELSE IF e.vsize > 0 THEN e.base \div e.vsize ELSE 0
WeightOf(e) == IF e.weight > 0 THEN e.weight ELSE 4 * e.vsize

\* Those with any weight, the highest rate first, the lighter first of two that pay the
\* same; what sort leaves open does not show in a rate.
Sorted(es) ==
    LET tx(e) == [id |-> e.id, weight |-> WeightOf(e), rate |-> EffectiveRate(e)]
        before(t, u) == \/ t.rate > u.rate
                        \/ t.rate = u.rate /\ t.weight < u.weight
                        \/ t.rate = u.rate /\ t.weight = u.weight /\ t.id < u.id
    IN  CHOOSE s \in SetToSeqs({tx(e) : e \in {x \in es : WeightOf(x) > 0}}) :
            \A i, j \in DOMAIN s : i < j => before(s[i], s[j])
Weight(txs) == SumFunction([i \in DOMAIN txs |-> txs[i].weight])

\* buildProjectedBlocks: a block is closed when the next transaction does not fit it,
\* the last takes all that remains.
\* Mutant: the last is closed too.
ClosesAny(blocks, current, t) == Weight(current) + t.weight > BlockWeight /\ current # <<>>
Closes(blocks, current, t) == Len(blocks) # BlocksAhead - 1 /\ Weight(current) + t.weight > BlockWeight /\ current # <<>>
Put(b, t) == IF Closes(Front(b), Last(b), t) THEN Append(b, <<t>>) ELSE Append(Front(b), Append(Last(b), t))
Packed(txs) == IF txs = <<>> THEN <<>> ELSE FoldLeft(Put, <<<<>>>>, txs)

\* medianFeeOf: the average rate of the band in the middle of a block, the space left in
\* it being its cheapest part.
LeftBound == BlockWeight \div 2 - (BlockWeight + 799) \div 800
RightBound == BlockWeight - LeftBound
Larger(x, y) == IF x > y THEN x ELSE y
Smaller(x, y) == IF x < y THEN x ELSE y
MedianFeeOf(txs) ==
    LET up == Reverse(txs)
        from(i) == BlockWeight - Weight(txs) + Weight(SubSeq(up, 1, i - 1))
        w(i) == Larger(0, Smaller(from(i) + up[i].weight, RightBound) - Larger(from(i), LeftBound))
        fee == SumFunction([i \in DOMAIN up |-> up[i].rate * w(i)])
        sampled == SumFunction([i \in DOMAIN up |-> w(i)])
    IN  IF Len(txs) <= 1 \/ sampled = 0 THEN <<0, 1>> ELSE <<fee, sampled>>

Projected(txs) == LET b == Packed(txs) IN [i \in DOMAIN b |-> [weight |-> Weight(b[i]), median |-> MedianFeeOf(b[i])]]

RoundUp(n, d) == (n + d - 1) \div d
Round(n, d) == (2 * n + d) \div (2 * d)

\* optimizeMedianFee: a block less than half full asks for no more than the minimum; the
\* last one, up to 95% full, for less in proportion.
Tier(blocks, i, previous, min) ==
    LET b == blocks[i]
        n == IF previous > 0 THEN b.median[1] + previous * b.median[2] ELSE b.median[1]
        d == IF previous > 0 THEN 2 * b.median[2] ELSE b.median[2]
    IN  IF i > Len(blocks) \/ 2 * b.weight <= BlockWeight \/ b.median[1] < min * b.median[2] THEN min
        ELSE IF 20 * b.weight <= 19 * BlockWeight /\ i = Len(blocks)
        THEN Larger(Round(n * (2 * b.weight - BlockWeight), d * BlockWeight), min)
        ELSE Larger(RoundUp(n, d), min)

\* calculateRecommendedFee.  Mutant: the tiers as they come.
Unordered(fast, half, hour, economy, min) ==
    [fastest |-> fast, halfHour |-> half, hour |-> hour, economy |-> economy, minimum |-> min]
Ordered(fast, half, hour, economy, min) ==
    LET h == Larger(hour, economy)
        m == Larger(half, h)
    IN  [fastest |-> Larger(fast, m), halfHour |-> m, hour |-> h, economy |-> economy, minimum |-> min]
Recommended(blocks, purge) ==
    LET min == Larger(RoundUp(purge, 1000), 1)
        first == Tier(blocks, 1, 0, min)
        second == Tier(blocks, 2, first, min)
        third == Tier(blocks, 3, second, min)
    IN  Ordered(first, second, third, Larger(min, Smaller(2 * min, third)), min)

-----------------------------------------------------------------------------
NoFees == [fastest |-> 0, halfHour |-> 0, hour |-> 0, economy |-> 0, minimum |-> 0]
FeesInit == /\ cachedFees = NoFees /\ cachedFeesOK = FALSE /\ cachedFeesCount = 0
            /\ entries = {} /\ minFee = 0

\* refreshFees: with no minimum when the second call fails; kept as they are when the
\* first does.
RefreshFees ==
    \E es \in Mempools, f \in MinFees \cup {0} :
        /\ entries' = es /\ minFee' = f /\ cachedFeesOK' = TRUE /\ cachedFeesCount' = Cardinality(es)
        /\ cachedFees' = Recommended(Projected(Sorted(es)), f)
RefreshFails == UNCHANGED feesVars
FeesNext == RefreshFees \/ RefreshFails
FeesSpec == FeesInit /\ [][FeesNext]_feesVars

\* confEstimate: a rate against the tiers.
ConfEstimate(rate) == IF ~cachedFeesOK THEN "fast" ELSE IF rate >= cachedFees.fastest THEN "fast"
                      ELSE IF rate >= cachedFees.hour THEN "med" ELSE "slow"

-----------------------------------------------------------------------------
\* Every transaction of the mempool is in one of the projected blocks, which are as many
\* as are looked ahead and of a block's weight but for the last and for what is alone;
\* a block pays no less than the one after it, and its median is a rate it could pay.
BlocksOfMempool ==
    LET txs == Sorted(entries)
        b == Packed(txs)
    IN  /\ FlattenSeq(b) = txs /\ Len(b) <= BlocksAhead
        /\ \A i \in 1..Len(b) - 1 :
               /\ Weight(b[i]) <= BlockWeight \/ Len(b[i]) = 1
               /\ Weight(b[i]) + Head(b[i + 1]).weight > BlockWeight
        /\ \A i \in DOMAIN b : LET m == MedianFeeOf(b[i])
                               IN  m = <<0, 1>> \/ (Last(b[i]).rate * m[2] <= m[1] /\ m[1] <= Head(b[i]).rate * m[2])

\* The recommendations never invert: a faster one never costs less, none is below what
\* the node relays, and none is above it and above what every transaction pays.
FeesNeverInvert ==
    cachedFeesOK =>
        LET c == cachedFees
            paid == {EffectiveRate(e) : e \in entries}
        IN  /\ c.fastest >= c.halfHour /\ c.halfHour >= c.hour /\ c.hour >= c.economy /\ c.economy >= c.minimum
            /\ c.minimum >= 1 /\ 1000 * c.minimum >= minFee
            /\ c.fastest > c.minimum => \E r \in paid : r >= c.fastest
            /\ \A r \in 0..c.fastest : /\ ConfEstimate(r) = "fast" => ConfEstimate(r + 1) = "fast"
                                       /\ ConfEstimate(r) = "med" => ConfEstimate(r + 1) # "slow"
=============================================================================
