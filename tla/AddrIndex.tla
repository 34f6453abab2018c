----------------------------- MODULE AddrIndex ------------------------------
(***************************************************************************)
(* The address index: every appearance of a script in the chain, packed by *)
(* the first bytes of its hash and a range of blocks, and the two lookups  *)
(* that read it back.  Prefix is the eight bytes that are kept of a        *)
(* script's hash, <<its shard, the rest>>: two scripts may share them.     *)
(***************************************************************************)
EXTENDS ScanChain, TLC

CONSTANTS
    Prefix, NoScript,        \* Prefix[s]; NoScript is the empty script
    RangeBlocks, IndexChunk, \* rangeBlocks, chunkSize
    MaxLookup                \* bound: the transactions a lookup asks for

ASSUME IndexType == RangeBlocks \in Nat \ {0} /\ IndexChunk \in Nat \ {0}

VARIABLES
    index, indexPlace,       \* addrindex, a run with no row being empty, and its row of cursors: -1 for none
    indexStep, nextBlock, lastOfIndex, indexTo, touches,  \* Update's from..to, tip and chunk
    indexFaults

indexVars == <<index, indexPlace, indexStep, nextBlock, lastOfIndex, indexTo, touches, indexFaults>>

RangeOf(h) == h \div RangeBlocks
Ranges == 0..RangeOf(ChainTop)

\* indexBlock: the block's touches of a prefix, one a transaction, in order.
TouchesOf(x, h) ==
    LET named(tx) == x \in {Prefix[p.script] : p \in {q \in ToSet(tx.outs \o tx.ins) : q.script # NoScript}}
        txs == SelectSeq([i \in DOMAIN BlockOf(h).txs |-> i], LAMBDA i : named(BlockOf(h).txs[i]))
    IN  [j \in DOMAIN txs |-> [height |-> h, tx |-> txs[j] - 1]]
PrefixSet == {Prefix[s] : s \in DOMAIN Prefix \ {NoScript}}
Keys == {x[1] : x \in PrefixSet} \X Ranges

Encode(x, t) == [rem |-> x[2], off |-> t.height % RangeBlocks, tx |-> t.tx]

-----------------------------------------------------------------------------
IndexInit == /\ index = [k \in Keys |-> <<>>] /\ indexPlace = -1 /\ indexStep = "idle" /\ nextBlock = 0
             /\ lastOfIndex = -1 /\ indexTo = -1 /\ touches = <<>> /\ indexFaults = 0

\* The end of the chunk that begins at from.
ChunkOfIndex(from, tip) ==
    /\ touches' = <<>> /\ nextBlock' = from /\ indexTo' = Min({from + IndexChunk - 1, tip})
    /\ indexStep' = (IF from > tip THEN "idle" ELSE "read")

IndexUpdate(tip) ==
    /\ indexStep = "idle" /\ tip > indexPlace
    /\ lastOfIndex' = tip /\ ChunkOfIndex(indexPlace + 1, tip)
    /\ UNCHANGED <<index, indexPlace, indexFaults>>

IndexBlock ==
    /\ indexStep = "read" /\ nextBlock <= indexTo
    /\ LET found == {x \in PrefixSet : TouchesOf(x, nextBlock) # <<>>}
       IN  touches' = [x \in DOMAIN touches \cup found |->
               (IF x \in DOMAIN touches THEN touches[x] ELSE <<>>) \o TouchesOf(x, nextBlock)]
    /\ nextBlock' = nextBlock + 1
    /\ UNCHANGED <<index, indexPlace, indexStep, lastOfIndex, indexTo, indexFaults>>

\* merge: the prefixes in the order a map is ranged over, each touch appended to the run
\* of its shard and range, and the cursor moved, in one transaction.
MergeTouches ==
    /\ indexStep = "read" /\ nextBlock > indexTo
    /\ \E order \in SetToSeqs(DOMAIN touches) :
           LET run(i, r) == FlattenSeq([o \in DOMAIN order |->
                   LET mine == SelectSeq(touches[order[o]], LAMBDA t : order[o][1] = i /\ RangeOf(t.height) = r)
                   IN  [j \in DOMAIN mine |-> Encode(order[o], mine[j])]])
           IN  index' = [k \in Keys |-> index[k] \o run(k[1], k[2])]
    /\ indexPlace' = indexTo /\ ChunkOfIndex(indexTo + 1, lastOfIndex)
    /\ UNCHANGED <<lastOfIndex, indexFaults>>

\* A block that cannot be read, a failed transaction or the end of the process.
IndexFails ==
    /\ indexStep = "read" /\ indexFaults < MaxScanFaults /\ indexFaults' = indexFaults + 1
    /\ indexStep' = "idle" /\ touches' = <<>>
    /\ UNCHANGED <<index, indexPlace, nextBlock, lastOfIndex, indexTo>>

-----------------------------------------------------------------------------
\* The entries of a script in one run of its shard.
Matching(s, r) ==
    LET mine == SelectSeq(index[<<Prefix[s][1], r>>], LAMBDA e : e.rem = Prefix[s][2])
    IN  [j \in DOMAIN mine |-> [height |-> r * RangeBlocks + mine[j].off, tx |-> mine[j].tx]]

\* Lookup: a shard's ranges in order, up to limit touches.
Lookup(s, limit) ==
    LET all == FlattenSeq([r \in 1..Cardinality(Ranges) |-> Matching(s, r - 1)])
    IN  [touches |-> SubSeq(all, 1, Min({limit, Len(all)})), capped |-> Len(all) > limit]

\* LookupFrom: the ranges from the one that holds height down, each back to front, the
\* touches above height passed over; a height of 0 is no bound.
\* Mutant: the run is read as it is stored.
NewestAsStored(s, r) == Matching(s, r)
NewestIn(s, r) == Reverse(Matching(s, r))
LookupFrom(s, height, n) ==
    LET top == IF height > 0 THEN RangeOf(height) ELSE RangeOf(ChainTop)
        all == FlattenSeq([r \in 1..top + 1 |->
                   SelectSeq(NewestIn(s, top + 1 - r), LAMBDA t : height = 0 \/ t.height <= height)])
    IN  [touches |-> SubSeq(all, 1, Min({n, Len(all)})), capped |-> Len(all) > n]

\* What is indexed of a script is every transaction that names it up to the cursor, once:
\* Lookup tells the oldest, LookupFrom the newest at or below any height, in order, and
\* each whether there are more.
TouchesOfChain ==
    \A s \in DOMAIN Prefix \ {NoScript} :
        LET all == {[height |-> p[1], tx |-> p[2] - 1] : p \in
                {q \in TxsIn(0, indexPlace) : \E y \in ToSet(TxOf(q).outs \o TxOf(q).ins) : Prefix[y.script] = Prefix[s]}}
            older(t, u) == t.height < u.height \/ (t.height = u.height /\ t.tx < u.tx)
            sorted == SetToSortSeq(all, older)
        IN  \A n \in 1..MaxLookup :
                /\ Lookup(s, n) = [touches |-> SubSeq(sorted, 1, Min({n, Len(sorted)})), capped |-> Len(sorted) > n]
                /\ \A h \in 0..ChainTop :
                       LET want == Reverse(SelectSeq(sorted, LAMBDA t : h = 0 \/ t.height <= h))
                       IN  LookupFrom(s, h, n) = [touches |-> SubSeq(want, 1, Min({n, Len(want)})), capped |-> Len(want) > n]
=============================================================================
