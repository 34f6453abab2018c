------------------------------ MODULE Replies -------------------------------
(***************************************************************************)
(* One lookup -- /info, a tapped id, a details page -- of a transaction or *)
(* a block, call by call, while the node's chain and mempool change, the   *)
(* collector caches blocks and a reorg rolls them back.                    *)
(*                                                                         *)
(* There is one transaction to ask for.  Left out: its wording and prices, *)
(* a coinbase, addresses (History), and a catch-up that meets a rollback   *)
(* (BlockCache).                                                           *)
(***************************************************************************)
EXTENDS Integers, Sequences, SequencesExt, FiniteSetsExt, Functions

CONSTANTS
    Ins, OutSum,           \* its inputs: each the parent it spends, an address, satoshis; its outputs' sum
    BlockFees,             \* what a block's transactions may have paid
    EpochLength, Epochs, FirstSubsidy,  \* 210000, 64 and 50 coins
    MaxTip, MaxForks, MaxLookups, MaxCallErrors \* bounds

ASSUME RepliesConstants ==
    /\ Ins # <<>> /\ EpochLength > 0 /\ {EpochLength, Epochs, FirstSubsidy, OutSum} \subseteq Nat
    /\ \A f \in BlockFees : f \in Seq(Nat)

Parents == {Ins[i].parent : i \in DOMAIN Ins}
Nowhere == -1
Mempool == 0

VARIABLES
    chain, forks,       \* the blocks above genesis; how many were disconnected
    place,              \* where the transaction is: Nowhere, the Mempool or its block's height
    rows, unrolled,     \* the blocks table, and whether a disconnection is still to be told
    question, stage,    \* the lookup, and its next call
    asked1, local,      \* its parents' calls; what it has learnt
    said, lookups, callErrors
nodeVars1 == <<chain, forks, place>>
rowVars1 == <<rows, unrolled>>
lookVars == <<question, stage, asked1, local, said, lookups, callErrors>>
repliesVars == <<nodeVars1, rowVars1, lookVars>>

-----------------------------------------------------------------------------
(* Figures.                                                                *)

Total(s) == FoldSeq(+, 0, s)

\* The schedule, and its sum epoch by epoch.
Subsidy(h) == IF h \div EpochLength >= Epochs THEN 0 ELSE FirstSubsidy \div 2^(h \div EpochLength)
EpochSum(e, h) ==
    LET start == e * EpochLength
        end == IF start + EpochLength - 1 > h THEN h ELSE start + EpochLength - 1
    IN  (end - start + 1) * Subsidy(start)
CirculatingSupply(h) == MapThenSumSet(LAMBDA e : EpochSum(e, h), {e \in 0..(Epochs - 1) : e * EpochLength <= h})

\* The coinbase's fee is not among them; an average is rounded to the nearest.
FeeStats(fees) ==
    LET n == Len(fees) IN
    IF n = 0 THEN [low |-> 0, avg |-> 0, high |-> 0]
    ELSE [low |-> Min(Range(fees)), avg |-> (Total(fees) + (n \div 2)) \div n, high |-> Max(Range(fees))]

Compute(b) == [block |-> b, reward |-> Subsidy(b.height), fees |-> FeeStats(b.fees)]

InputsMinusOutputs(ins) ==
    LET fee == Total([i \in DOMAIN ins |-> ins[i].sat]) - OutSum IN IF fee > 0 THEN fee ELSE 0

\* txInputs: a block's transaction comes with its prevouts; fetchInputs: the mempool's are
\* the outputs of the parents that were fetched, in the inputs' order, and one that failed
\* leaves none.  Mutant: what was fetched is shown.
FetchedAnyway(got) == SelectSeq(Ins, LAMBDA in : \E i \in DOMAIN got : got[i] = in.parent)
Fetched(got) == IF Range(got) = Parents THEN Ins ELSE <<>>

-----------------------------------------------------------------------------
(* The node and the collector.                                             *)

RepliesInit ==
    /\ \E f \in BlockFees : chain = <<[height |-> 1, fork |-> 0, fees |-> f]>>
    /\ forks = 0 /\ place = Mempool /\ rows = <<>> /\ unrolled = FALSE
    /\ question = <<>> /\ stage = "idle" /\ asked1 = {} /\ local = <<>> /\ said = <<>>
    /\ lookups = 0 /\ callErrors = 0

Mine1 ==
    /\ Len(chain) < MaxTip
    /\ \E f \in BlockFees : chain' = Append(chain, [height |-> Len(chain) + 1, fork |-> forks, fees |-> f])
    /\ place' \in IF place = Mempool THEN {Mempool, Len(chain) + 1} ELSE {place}
    /\ UNCHANGED <<forks, rowVars1, lookVars>>

\* The tip is disconnected: its transaction is in the mempool again, and its header stays.
Reorg1 ==
    /\ Len(chain) > 1 /\ forks < MaxForks /\ forks' = forks + 1 /\ chain' = Front(chain)
    /\ place' = (IF place = Len(chain) THEN Mempool ELSE place)
    /\ unrolled' = TRUE /\ UNCHANGED <<rows, lookVars>>

\* With one of its parents.
Replaced == place = Mempool /\ place' = Nowhere /\ UNCHANGED <<chain, forks, rowVars1, lookVars>>

CollectRow ==
    /\ ~unrolled /\ Len(rows) < Len(chain) /\ rows' = Append(rows, chain[Len(rows) + 1])
    /\ UNCHANGED <<nodeVars1, unrolled, lookVars>>

\* A disconnected block's row goes, and every row above it.
Cached1(n) == n <= Len(chain) /\ \A i \in 1..n : rows[i] = chain[i]
RollbackRows ==
    /\ unrolled /\ unrolled' = FALSE
    /\ \E n \in 0..Len(rows) :
        /\ rows' = SubSeq(rows, 1, n) /\ Cached1(n)
        /\ n < Len(rows) => ~Cached1(n + 1)
    /\ UNCHANGED <<nodeVars1, lookVars>>

-----------------------------------------------------------------------------
(* The lookup.                                                             *)

Ask2(q, first) ==
    /\ stage = "idle" /\ lookups < MaxLookups /\ lookups' = lookups + 1
    /\ question' = q /\ stage' = first /\ said' = <<>>
    /\ UNCHANGED <<nodeVars1, rowVars1, asked1, local, callErrors>>

\* A transaction, a height, or a hash that a block of the chain has now.
AskTx == Ask2([kind |-> "tx"], "raw")
AskHeight == \E h \in 1..MaxTip : Ask2([kind |-> "height", height |-> h], "load")
AskHash == \E h \in DOMAIN chain : Ask2([kind |-> "hash", block |-> chain[h]], "classify")

\* A call fails when the node does, or when the lookup's time is up.
CallFails == callErrors < MaxCallErrors /\ callErrors' = callErrors + 1
Goes(to) == stage' = to /\ UNCHANGED <<said, callErrors>>
Says(reply) == stage' = "idle" /\ said' = <<reply>> /\ UNCHANGED callErrors
Fails(why) == CallFails /\ stage' = "idle" /\ said' = <<[is |-> why]>>
Stays == UNCHANGED <<nodeVars1, rowVars1, question, lookups>>
HeightAsked(q) == IF q.kind = "hash" THEN q.block.height ELSE q.height

\* GetBlockHeader tells a block's hash; without an answer it is looked up as an address.
Classify ==
    /\ stage = "classify" /\ UNCHANGED <<asked1, local>> /\ Stays
    /\ Goes("load") \/ Fails("address")

BlockReply(b, stale) == [is |-> "block", figures |-> Compute(b), stale |-> stale]

\* The cached record, or else one that is computed and not stored.
LoadRow ==
    LET h == HeightAsked(question) IN
    /\ stage = "load" /\ UNCHANGED <<asked1, local>> /\ Stays
    /\ IF h \in DOMAIN rows THEN Says(BlockReply(rows[h], unrolled)) ELSE Goes("hash")
HashAt ==
    LET h == HeightAsked(question) IN
    /\ stage = "hash" /\ UNCHANGED asked1 /\ Stays
    /\ \/ h \in DOMAIN chain /\ local' = <<chain[h]>> /\ Goes("compute")
       \/ UNCHANGED local /\ h \notin DOMAIN chain /\ Says([is |-> "unknown"])
       \/ UNCHANGED local /\ Fails("unknown")
ComputeBlock ==
    /\ stage = "compute" /\ local' = <<>> /\ UNCHANGED asked1 /\ Stays
    /\ Says(BlockReply(local[1], FALSE)) \/ Fails("failed")

\* The transaction as the node then has it; the parents are asked for at once.
RawTx ==
    /\ stage = "raw" /\ Stays
    /\ \/ /\ place # Nowhere /\ local' = [at |-> place, got |-> <<>>]
          /\ IF place = Mempool THEN asked1' = Parents /\ Goes("prevouts")
             ELSE UNCHANGED asked1 /\ Goes("header")
       \/ UNCHANGED <<asked1, local>> /\ place = Nowhere /\ Says([is |-> "unknown"])
       \/ UNCHANGED <<asked1, local>> /\ Fails("unknown")

\* A parent goes only with its child.
FetchParent(p) ==
    /\ stage = "prevouts" /\ p \in asked1 /\ asked1' = asked1 \ {p} /\ UNCHANGED <<said, stage>> /\ Stays
    /\ \/ local' = [local EXCEPT !.got = Append(@, p)] /\ UNCHANGED callErrors
       \/ place = Nowhere /\ UNCHANGED <<local, callErrors>>
       \/ UNCHANGED local /\ CallFails

TxReply(ins, height) ==
    [is |-> "tx", ins |-> ins, fee |-> InputsMinusOutputs(ins), at |-> local.at, height |-> height]

Joined ==
    /\ stage = "prevouts" /\ asked1 = {} /\ local' = <<>> /\ UNCHANGED asked1 /\ Stays
    /\ Says(TxReply(Fetched(local.got), 0))

\* The height of the block it said it was in; "block #0" without an answer.
Header1 ==
    /\ stage = "header" /\ local' = <<>> /\ UNCHANGED asked1 /\ Stays
    /\ \/ Says(TxReply(Ins, local.at))
       \/ CallFails /\ stage' = "idle" /\ said' = <<TxReply(Ins, 0)>>

RepliesNext ==
    \/ Mine1 \/ Reorg1 \/ Replaced \/ CollectRow \/ RollbackRows
    \/ AskTx \/ AskHeight \/ AskHash \/ Classify \/ LoadRow \/ HashAt \/ ComputeBlock
    \/ RawTx \/ (\E p \in Parents : FetchParent(p)) \/ Joined \/ Header1

RepliesSpec == RepliesInit /\ [][RepliesNext]_repliesVars

-----------------------------------------------------------------------------
(* Properties.                                                             *)

\* The fee and the inputs are those of every input, in their order, or left out.
OfOneTx(reply) ==
    /\ reply.ins \in {<<>>, Ins} /\ reply.height \in {0, reply.at}
    /\ reply.ins = Ins => reply.fee = InputsMinusOutputs(Ins)

OfThatBlock(reply) ==
    /\ reply.figures.block.height = HeightAsked(question)
    /\ question.kind = "hash" /\ ~reply.stale /\ question.block \in Range(chain)
         => reply.figures.block = question.block

FeesInOrder(reply) ==
    LET fees == reply.figures.fees IN fees.low <= fees.avg /\ fees.avg <= fees.high

\* Whatever a lookup's calls meet, its reply is of one transaction's inputs, all of them, or
\* of the block that was asked for, unless a reorg that is not told yet has left its row in
\* the table.
ReplyOfOne ==
    \A i \in DOMAIN said :
        /\ said[i].is = "tx" => OfOneTx(said[i])
        /\ said[i].is = "block" => OfThatBlock(said[i])

\* And its figures are those of a block: the average fee is between the lowest and the
\* highest, and the supply shown with the tip is the sum of its subsidies.
RepliesSound ==
    /\ ReplyOfOne
    /\ \A i \in DOMAIN said : said[i].is = "block" => FeesInOrder(said[i])
    /\ CirculatingSupply(Len(chain)) = MapThenSumSet(Subsidy, 0..Len(chain))
=============================================================================
