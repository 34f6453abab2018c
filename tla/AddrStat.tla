------------------------------ MODULE AddrStat ------------------------------
(***************************************************************************)
(* The addrstat table: what each funded address was paid and spent, its    *)
(* transactions, fees and dates.  Update hands a chunk of heights to       *)
(* Workers goroutines, merges what they gathered, by blocks or by          *)
(* addresses, and carries on; a failed call, or the end of the process, at *)
(* any step leaves the pass to be taken up from its cursor.                *)
(***************************************************************************)
EXTENDS ScanChain

CONSTANTS
    ChunkSize, FlushKeys,    \* chunkSize, flushKeys
    Workers                  \* workers: the goroutines of collect

ASSUME StatType == ChunkSize \in Nat \ {0} /\ FlushKeys \in Nat \ {0}

VARIABLES
    statRows, statPlace,     \* addrstat, and its row of cursors: -1 for none
    rowids,                  \* the rowid of each row, which orders equal values
    statStep,                \* "idle", or in "collect"
    lastOfPass, lastOfChunk, \* tip, to
    nextHeight, stopping, failed, deltas,  \* collect: next, stop, failure, deltas
    worker, height,          \* where each goroutine is, and its block's height
    since,                   \* for the properties: where each address was last found empty
    statFaults

statVars == <<statRows, statPlace, rowids, statStep, lastOfPass, lastOfChunk, nextHeight,
              stopping, failed, deltas, worker, height, since, statFaults>>
table == <<statRows, statPlace, rowids, since>>

Blank == [recv |-> 0, sent |-> 0, fees |-> 0, txs |-> 0, first |-> 0, last |-> 0]
Balance(s) == s.recv - s.sent
StatOf(m, a) == IF a \in DOMAIN m THEN m[a] ELSE Blank

\* touch: the dates, as a minimum and a maximum.
Earlier(t, u) == IF t > 0 /\ (u = 0 \/ t < u) THEN t ELSE u
Latest(t, u) == IF t > u THEN t ELSE u

\* apply: one transaction, for one address it names, which touch counts once.
ApplyTx(s, tx, a, when) ==
    [recv |-> s.recv + Amount(tx.outs, To(tx.outs, a)), sent |-> s.sent + Amount(tx.ins, To(tx.ins, a)),
     fees |-> s.fees + (IF To(tx.ins, a) # {} /\ Fee(tx) > 0 THEN Fee(tx) ELSE 0), txs |-> s.txs + 1,
     first |-> Earlier(when, s.first), last |-> Latest(when, s.last)]
Named(tx) == {Payee[p.script] : p \in ToSet(tx.outs \o tx.ins)} \ {NoPayee}
AddTx(f, tx, when) == [a \in DOMAIN f \cup Named(tx) |->
                          IF a \in Named(tx) THEN ApplyTx(StatOf(f, a), tx, a, when) ELSE f[a]]
Apply(m, b) == FoldLeft(LAMBDA f, tx : AddTx(f, tx, b.time), m, b.txs)

-----------------------------------------------------------------------------
StatInit ==
    /\ statRows = <<>> /\ statPlace = -1 /\ rowids = <<>> /\ since = [a \in Payees |-> -1]
    /\ statStep = "idle" /\ lastOfPass = 0 /\ lastOfChunk = 0 /\ nextHeight = 0
    /\ stopping = FALSE /\ failed = FALSE /\ deltas = <<>>
    /\ worker = [w \in Workers |-> "done"] /\ height = [w \in Workers |-> 0] /\ statFaults = 0

\* collect begins: blocks from up to the end of the chunk.
Collecting(from) ==
    /\ nextHeight' = from /\ stopping' = FALSE /\ failed' = FALSE /\ deltas' = <<>>
    /\ worker' = [w \in Workers |-> "take"] /\ statStep' = "collect" /\ UNCHANGED height

ChunkEnd(from, tip) == Min({from + ChunkSize - 1, tip})

\* Update, with the tip its caller fetched.
StatUpdate(tip) ==
    /\ statStep = "idle" /\ tip > statPlace
    /\ lastOfPass' = tip /\ lastOfChunk' = ChunkEnd(statPlace + 1, tip)
    /\ Collecting(statPlace + 1) /\ UNCHANGED <<table, statFaults>>

Working == statStep = "collect"
Pass == <<table, statStep, lastOfPass, lastOfChunk>>

\* A goroutine takes the next height off the shared counter, unless told to stop.
TakeHeight(w) ==
    /\ Working /\ worker[w] = "take"
    /\ IF stopping THEN nextHeight' = nextHeight /\ height' = height
       ELSE nextHeight' = nextHeight + 1 /\ height' = [height EXCEPT ![w] = nextHeight]
    /\ worker' = [worker EXCEPT ![w] = IF stopping \/ nextHeight > lastOfChunk THEN "done" ELSE "read"]
    /\ UNCHANGED <<Pass, stopping, failed, deltas, statFaults>>

\* BlockAt answered: applied under the lock, which tells whether the chunk is full.
ReadBlock(w) ==
    /\ Working /\ worker[w] = "read"
    /\ deltas' = Apply(deltas, BlockOf(height[w]))
    /\ worker' = [worker EXCEPT ![w] = IF Cardinality(DOMAIN deltas') >= FlushKeys THEN "full" ELSE "take"]
    /\ UNCHANGED <<Pass, nextHeight, stopping, failed, height, statFaults>>

\* BlockAt failed, of itself or because another's failure cancelled it.
ReadFails(w) ==
    /\ Working /\ worker[w] = "read"
    /\ \/ statFaults < MaxScanFaults /\ statFaults' = statFaults + 1
       \/ failed /\ stopping /\ UNCHANGED statFaults
    /\ failed' = TRUE /\ worker' = [worker EXCEPT ![w] = "failed"]
    /\ UNCHANGED <<Pass, nextHeight, stopping, deltas, height>>

TellStop(w) ==
    /\ Working /\ worker[w] \in {"full", "failed"} /\ stopping' = TRUE
    /\ worker' = [worker EXCEPT ![w] = IF @ = "full" THEN "take" ELSE "done"]
    /\ UNCHANGED <<Pass, nextHeight, failed, deltas, height, statFaults>>

\* The last height handed out, which every block up to has been merged with.
\* Mutant: the counter itself, which is one further.
ReachedNext == Min({nextHeight, lastOfChunk})
Reached == Min({nextHeight - 1, lastOfChunk})

\* flush's upsert: the sums added, the dates kept; an address with no row gets one.
Upserted(a) ==
    LET row == StatOf(statRows, a)
        d == deltas[a]
    IN  [recv |-> row.recv + d.recv, sent |-> row.sent + d.sent, fees |-> row.fees + d.fees,
         txs |-> row.txs + d.txs, first |-> Earlier(d.first, row.first), last |-> Latest(row.last, d.last)]

\* The rowids once flush has written an address: with a balance of zero it loses its row,
\* and a new row comes after all others.
RowidsAfter(ids, a, emptied) ==
    IF a \in emptied THEN [b \in DOMAIN ids \ {a} |-> ids[b]]
    ELSE IF a \in DOMAIN ids THEN ids
    ELSE [b \in DOMAIN ids \cup {a} |-> IF b = a THEN Max({0} \cup {ids[c] : c \in DOMAIN ids}) + 1 ELSE ids[b]]

\* flush: one transaction with the cursor, address by address in the order a map is
\* ranged over.
Flush ==
    LET known == DOMAIN statRows
        kept == {a \in DOMAIN deltas : Balance(Upserted(a)) # 0}
        emptied == DOMAIN deltas \ kept
    IN  /\ statRows' = [a \in (known \ emptied) \cup kept |->
                            IF a \in kept THEN Upserted(a) ELSE statRows[a]]
        /\ \E order \in SetToSeqs(DOMAIN deltas) :
               rowids' = FoldLeft(LAMBDA ids, a : RowidsAfter(ids, a, emptied), rowids, order)
        /\ statPlace' = Reached
        /\ since' = [a \in Payees |-> IF a \in emptied THEN Reached ELSE since[a]]

Merge ==
    /\ Working /\ \A w \in Workers : worker[w] = "done"
    /\ ~failed /\ Flush
    /\ IF Reached < lastOfPass
       THEN /\ Collecting(Reached + 1)
            /\ lastOfChunk' = (IF Reached < lastOfChunk THEN lastOfChunk ELSE ChunkEnd(Reached + 1, lastOfPass))
       ELSE /\ statStep' = "idle"
            /\ UNCHANGED <<lastOfChunk, nextHeight, stopping, failed, deltas, worker, height>>
    /\ UNCHANGED <<lastOfPass, statFaults>>

\* The pass returns the failure of a block; or the flush fails, or the process ends.
Abandon ==
    /\ Working
    /\ \/ failed /\ (\A w \in Workers : worker[w] = "done") /\ UNCHANGED statFaults
       \/ statFaults < MaxScanFaults /\ statFaults' = statFaults + 1
    /\ statStep' = "idle" /\ worker' = [w \in Workers |-> "done"]
    /\ UNCHANGED <<table, lastOfPass, lastOfChunk, nextHeight, stopping, failed, deltas, height>>

-----------------------------------------------------------------------------
StatNext ==
    \/ (\E t \in 0..ChainTop : StatUpdate(t)) \/ Merge \/ Abandon
    \/ \E w \in Workers : TakeHeight(w) \/ ReadBlock(w) \/ ReadFails(w) \/ TellStop(w)
StatSpec == StatInit /\ [][StatNext]_statVars

\* A record is what the blocks say of the address since it was last found empty, and an
\* address has one exactly while it holds coins as of the cursor: no block is merged
\* twice or passed over, whatever order the goroutines read them in and wherever a pass
\* stops.
StatsOfChain ==
    /\ DOMAIN statRows = {a \in Payees : Holds(a, statPlace) > 0}
    /\ \A a \in DOMAIN statRows : statRows[a] = Whole(a, since[a] + 1, statPlace)
=============================================================================
