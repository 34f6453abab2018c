------------------------------ MODULE AddrBal -------------------------------
(***************************************************************************)
(* The addrbal table: what each funded address holds, packed by shard.     *)
(* scan's producer queues a slot for each height, in order, and starts its *)
(* fetch once fewer than Fetchers run; scan takes the slots in that order  *)
(* and merges what has piled up.  A scan that returns cancels the producer *)
(* and the fetches, which end on their own; the goroutines of one scan     *)
(* share nothing with those of the next, and the model starts the next     *)
(* once they have ended.                                                   *)
(***************************************************************************)
EXTENDS ScanChain

CONSTANTS
    BalChunk, BalFlushKeys,  \* chunkSize, flushKeys
    Fetchers,                \* fetchers
    Confirmations            \* confirmations

ASSUME BalType == BalChunk \in Nat \ {0} /\ BalFlushKeys \in Nat \ {0} /\ Fetchers \in Nat \ {0} /\ Confirmations \in Nat
\* Eight bytes of a hash tell the chain's addresses apart.
ASSUME SlotsApart == \A a, b \in Payees : Slot[a] = Slot[b] => a = b

VARIABLES
    shards, balPlace,        \* addrbal, and its row of cursors: -1 for none
    count, loaded, caughtUp,
    balStep,                 \* where scan is
    target, lastOfScan,      \* target, to
    slots, fetch,            \* the channel of slots, and what is in each height's
    producer, toQueue,       \* the producer, and its next height
    gathered, holding,       \* scan's deltas, and the slot it waits for
    change,                  \* flush's result, until it is counted
    expired,                 \* the pass's six hours are over
    balFaults

scanning == <<slots, fetch, producer, toQueue>>
stored == <<shards, balPlace, count, loaded, caughtUp>>
balVars == <<stored, balStep, target, lastOfScan, scanning, gathered, holding, change, expired, balFaults>>

ChangeOf(f, k) == IF k \in DOMAIN f THEN f[k] ELSE 0
ShardNow(i) == IF i \in DOMAIN shards THEN shards[i] ELSE <<>>

\* Balances: every output pays its script, every spent prevout takes back out of it.
Balances(b) ==
    LET outs == FlattenSeq([i \in DOMAIN b.txs |-> b.txs[i].outs])
        ins == FlattenSeq([i \in DOMAIN b.txs |-> b.txs[i].ins])
    IN  outs \o [i \in DOMAIN ins |-> [ins[i] EXCEPT !.sat = -@]]

\* moves, added to a map of changes; a script of no address has no key.
AddMove(m, p) == IF Payee[p.script] = NoPayee \/ p.sat = 0 THEN m
                 ELSE LET k == Slot[Payee[p.script]] IN [x \in DOMAIN m \cup {k} |-> ChangeOf(m, x) + (IF x = k THEN p.sat ELSE 0)]
Moved(m, b) == FoldLeft(AddMove, m, Balances(b))

\* merge: the entries of a shard and its sorted changes, walked together; s is where the
\* loop is, and a turn takes an entry, a change, or one of each.
MergeStep(s, data, keys, m) ==
    LET rem == keys[s.k][2]
        same == s.i <= Len(data) /\ data[s.i].rem = rem
        bal == m[keys[s.k]] + (IF same THEN data[s.i].bal ELSE 0)
    IN  IF s.k > Len(keys) \/ (s.i <= Len(data) /\ data[s.i].rem < rem)
        THEN IF s.i > Len(data) THEN s ELSE [i |-> s.i + 1, k |-> s.k, out |-> Append(s.out, data[s.i]), change |-> s.change]
        ELSE [i |-> IF same THEN s.i + 1 ELSE s.i, k |-> s.k + 1,
              out |-> IF bal = 0 THEN s.out ELSE Append(s.out, [rem |-> rem, bal |-> bal]),
              change |-> s.change + (IF ~same THEN 1 ELSE IF bal = 0 THEN -1 ELSE 0)]
MergeShard(data, keys, m) ==
    FoldLeft(LAMBDA s, n : MergeStep(s, data, keys, m), [i |-> 1, k |-> 1, out |-> <<>>, change |-> 0],
             [n \in 1..Len(data) + Len(keys) |-> n])

\* The addresses of a shard whose changes do not net to zero, in order.
\* Mutant: those that do are merged too.
InOrder(S) == CHOOSE s \in SetToSeqs(S) : \A i, j \in DOMAIN s : i < j => s[i][2] < s[j][2]
AllKeysIn(m, i) == InOrder({k \in DOMAIN m : k[1] = i})
KeysIn(m, i) == InOrder({k \in DOMAIN m : k[1] = i /\ m[k] # 0})

-----------------------------------------------------------------------------
BalInit ==
    /\ shards = <<>> /\ balPlace = -1 /\ count = 0 /\ loaded = FALSE /\ caughtUp = FALSE
    /\ balStep = "idle" /\ target = -1 /\ lastOfScan = -1 /\ slots = <<>> /\ fetch = <<>>
    /\ producer = "ended" /\ toQueue = 0 /\ gathered = <<>> /\ holding = -1 /\ change = 0
    /\ expired = FALSE /\ balFaults = 0

Entries == SumFunction([i \in DOMAIN shards |-> Len(shards[i])])
Fetching == {h \in DOMAIN fetch : fetch[h] \in {"fetching", "late"}}
Ended == producer = "ended" /\ Fetching = {}

\* The next chunk is scanned, or the pass ends having caught up.
NextScan(from, to) ==
    /\ gathered' = <<>> /\ holding' = -1 /\ slots' = <<>> /\ fetch' = <<>> /\ toQueue' = from
    /\ IF from > to THEN caughtUp' = TRUE /\ balStep' = "idle" /\ producer' = "ended" /\ lastOfScan' = -1
       ELSE /\ caughtUp' = caughtUp /\ balStep' = "range" /\ producer' = "queue"
            /\ lastOfScan' = Min({from + BalChunk - 1, to})

\* Update: the count is loaded by the first pass of the process.
BalUpdate(tip) ==
    /\ balStep = "idle" /\ Ended
    /\ loaded' = TRUE /\ count' = (IF loaded THEN count ELSE Entries)
    /\ target' = tip - Confirmations /\ expired' = FALSE
    /\ NextScan(balPlace + 1, target')
    /\ UNCHANGED <<shards, balPlace, change, balFaults>>

Scanner == <<stored, balStep, target, lastOfScan, gathered, holding, change>>
Cancelled == balStep = "idle"

\* The deadline of the pass, which its scans and their fetches inherit.
Expires ==
    /\ ~Cancelled /\ ~expired /\ balFaults < MaxScanFaults
    /\ expired' = TRUE /\ balFaults' = balFaults + 1
    /\ UNCHANGED <<Scanner, scanning>>

\* The producer queues the slot of the next height, or is told that scan returned or that
\* the time is over; told so, it closes the channel without an error.
QueueSlot ==
    /\ producer = "queue"
    /\ \/ /\ toQueue > lastOfScan /\ producer' = "ended" /\ UNCHANGED <<slots, fetch, toQueue>>
       \/ /\ toQueue <= lastOfScan /\ Len(slots) < Fetchers
          /\ slots' = Append(slots, toQueue) /\ producer' = "acquire"
          /\ fetch' = [h \in DOMAIN fetch \cup {toQueue} |-> IF h = toQueue THEN "waiting" ELSE fetch[h]] /\ UNCHANGED toQueue
       \/ /\ toQueue <= lastOfScan /\ (Cancelled \/ expired) /\ producer' = "ended" /\ UNCHANGED <<slots, fetch, toQueue>>
    /\ UNCHANGED <<Scanner, expired, balFaults>>

\* sem <- struct{}{}, and the fetch is started; once the time is over it cannot succeed.
StartFetch ==
    /\ producer = "acquire" /\ Cardinality(Fetching) < Fetchers
    /\ fetch' = [fetch EXCEPT ![toQueue] = IF expired THEN "late" ELSE "fetching"]
    /\ producer' = "queue" /\ toQueue' = toQueue + 1
    /\ UNCHANGED <<Scanner, slots, expired, balFaults>>

\* A fetch puts its answer into its slot, which has room for it, and gives up its turn.
\* Mutant: a slot without a buffer, which only a reader empties.
CanPutToReader(h) == holding = h
CanPut(h) == TRUE
FetchEnds(h) ==
    /\ h \in Fetching /\ CanPut(h)
    /\ \/ fetch[h] = "fetching" /\ fetch' = [fetch EXCEPT ![h] = "ok"] /\ UNCHANGED balFaults
       \/ /\ fetch' = [fetch EXCEPT ![h] = "failed"]
          /\ IF Cancelled \/ expired THEN UNCHANGED balFaults
             ELSE balFaults < MaxScanFaults /\ balFaults' = balFaults + 1
    /\ UNCHANGED <<Scanner, slots, producer, toQueue, expired>>

\* scan takes the next slot; with none left and the channel closed it returns, and the
\* next chunk follows.
TakeSlot ==
    /\ balStep = "range"
    /\ \/ /\ slots # <<>> /\ holding' = Head(slots) /\ slots' = Tail(slots) /\ balStep' = "wait"
          /\ UNCHANGED <<caughtUp, lastOfScan, fetch, producer, toQueue, gathered>>
       \/ slots = <<>> /\ producer = "ended" /\ NextScan(lastOfScan + 1, target)
    /\ UNCHANGED <<shards, balPlace, count, loaded, target, change, expired, balFaults>>

Full(m) == Cardinality(DOMAIN m) >= BalFlushKeys

\* The slot's answer: a failure ends the pass.
ReadSlot ==
    /\ balStep = "wait" /\ fetch[holding] \in {"ok", "failed"}
    /\ IF fetch[holding] = "failed" THEN balStep' = "idle" /\ UNCHANGED gathered
       ELSE /\ gathered' = Moved(gathered, BlockOf(holding))
            /\ balStep' = (IF Full(gathered') \/ holding = lastOfScan THEN "flush" ELSE "range")
    /\ UNCHANGED <<stored, target, lastOfScan, scanning, holding, change, expired, balFaults>>

\* flush: the shards it touches and the cursor, in one transaction; an emptied shard has
\* no row.
FlushBalances ==
    LET merged == [i \in DOMAIN shards \cup {k[1] : k \in DOMAIN gathered} |->
                      MergeShard(ShardNow(i), KeysIn(gathered, i), gathered)]
    IN  /\ balStep = "flush"
        /\ shards' = [i \in {j \in DOMAIN merged : merged[j].out # <<>>} |-> merged[i].out]
        /\ change' = SumFunction([i \in DOMAIN merged |-> merged[i].change])
        /\ balPlace' = holding /\ balStep' = "count"
        /\ UNCHANGED <<count, loaded, caughtUp, target, lastOfScan, scanning, gathered, holding, expired, balFaults>>

FlushFails ==
    /\ balStep = "flush" /\ balFaults < MaxScanFaults /\ balFaults' = balFaults + 1
    /\ balStep' = "idle"
    /\ UNCHANGED <<stored, target, lastOfScan, scanning, gathered, holding, change, expired>>

AddChange ==
    /\ balStep = "count" /\ count' = count + change /\ change' = 0 /\ gathered' = <<>> /\ balStep' = "range"
    /\ UNCHANGED <<shards, balPlace, loaded, caughtUp, target, lastOfScan, scanning, holding, expired, balFaults>>

\* The process ends, between any two steps.
BalCrash ==
    /\ balFaults < MaxScanFaults /\ balFaults' = balFaults + 1
    /\ count' = 0 /\ loaded' = FALSE /\ caughtUp' = FALSE /\ balStep' = "idle"
    /\ slots' = <<>> /\ fetch' = <<>> /\ producer' = "ended" /\ gathered' = <<>> /\ holding' = -1 /\ change' = 0
    /\ UNCHANGED <<shards, balPlace, target, lastOfScan, toQueue, expired>>

\* A step of a goroutine of the scan: BlockAt returns too, as a cancelled call does, and
\* one that is not has its deadline.
BalStep == QueueSlot \/ StartFetch \/ TakeSlot \/ ReadSlot \/ FlushBalances \/ AddChange \/ \E h \in 0..ChainTop : FetchEnds(h)
BalNext == (\E tip \in 0..ChainTop + Confirmations : BalUpdate(tip)) \/ BalStep \/ Expires \/ FlushFails \/ BalCrash
BalSpec == BalInit /\ [][BalNext]_balVars

-----------------------------------------------------------------------------
\* Each shard holds, in the order merge walks them, the addresses that hold coins as of
\* the cursor with what they hold, and none is empty; the count is the entries' number.
SlotOf(i, e) == <<i, e.rem>>
HoldingsOfChain ==
    /\ \A i \in DOMAIN shards : shards[i] # <<>> /\ \A j \in 1..Len(shards[i]) - 1 : shards[i][j].rem < shards[i][j + 1].rem
    /\ UNION {{<<i, e.rem, e.bal>> : e \in ToSet(shards[i])} : i \in DOMAIN shards} =
           {<<Slot[a][1], Slot[a][2], Holds(a, balPlace)>> : a \in {b \in Payees : Holds(b, balPlace) # 0}}
    /\ loaded => count + change = Entries

\* A scan returns, and every goroutine it started ends: the channel of slots, the
\* semaphore and the reader never all wait for one another, and a scan that returns early
\* leaves no fetch waiting for a reader.
FetchersEnd == (balStep # "idle") ~> (balStep = "idle" /\ Ended)
=============================================================================
