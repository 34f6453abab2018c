-------------------------------- MODULE Pool --------------------------------
(***************************************************************************)
(* The mempool's figures: the count and the total amount, which every      *)
(* rawtx frame moves and a goroutine each replaces with the node's own,    *)
(* and the flow rate of the arrivals (mp/mp.go, main.go).  A transaction   *)
(* is numbered as it enters the mempool, and moves its number of satoshi;  *)
(* sizes move as the count does.                                           *)
(***************************************************************************)
EXTENDS Integers, FiniteSets, Sequences, FiniteSetsExt, SequencesExt

CONSTANTS
    MaxPoolTxs, MaxPoolBlocks,   \* bounds
    MaxPoolFaults,               \* bound: failed calls, evictions and reordered frames
    FlowWindow,                  \* flowWindow
    MaxArrivals, MaxFlowTime     \* bounds: the arrivals of a flow, the clock's end

ASSUME PoolType == FlowWindow \in Nat \ {0}

VARIABLES
    entered, inPool, frame, mined,  \* the node: its mempool, the frames under way, its blocks
    txCount, amount,                  \* mp: count, summaryAmount
    statsOK, summaryOK, burst,      \* statsOK, summaryOK; it is before minedUntil
    wake,                           \* the signal of a block, kept for the refresher
    refresher, info,                \* mp.Start's goroutine, and the answer it holds
    summer, summed,                 \* startMempoolSummary's, and the mempool it sums
    off,                            \* for the properties: what moved the count away from the node's since its last answer
    poolFaults,
    flowNow, arrivals, flowSince, every \* the flow: the clock, mp's arrivals and flowSince, and all there were
feedVars == <<entered, inPool, frame, mined>>
countVars == <<txCount, amount, burst>>
refreshVars == <<statsOK, wake, refresher, info>>
sumVars == <<summaryOK, summer, summed>>
flowVars == <<flowNow, arrivals, flowSince, every>>
poolVars == <<feedVars, countVars, refreshVars, sumVars, off, poolFaults, flowVars>>

HashBlock == -1
CoinbaseFrame == 0
SumOf(S) == SumSet(S)

PoolInit ==
    /\ entered = 0 /\ inPool = {} /\ frame = <<>> /\ mined = 0
    /\ txCount = 0 /\ amount = 0 /\ statsOK = FALSE /\ summaryOK = FALSE /\ burst = FALSE /\ wake = FALSE
    /\ refresher = "ask" /\ info = 0 /\ summer = "ask" /\ summed = {} /\ off = {} /\ poolFaults = 0
    /\ flowNow = 0 /\ arrivals = <<>> /\ flowSince = -1 /\ every = <<>>

-----------------------------------------------------------------------------
(* Bitcoin Core.                                                           *)

EnterPool ==
    /\ entered < MaxPoolTxs /\ entered' = entered + 1
    /\ inPool' = inPool \cup {entered'} /\ frame' = Append(frame, entered')
    /\ UNCHANGED <<mined, countVars, refreshVars, sumVars, off, poolFaults, flowVars>>

\* A block takes some of the mempool, and maybe one that was never in it; its frames,
\* and then its hash, unless they come over another port.
MineTxs ==
    /\ mined < MaxPoolBlocks /\ mined' = mined + 1
    /\ \E S \in SUBSET inPool, unseen \in {{}, {entered + 1}} :
           /\ unseen # {} => entered < MaxPoolTxs
           /\ entered' = entered + Cardinality(unseen) /\ inPool' = inPool \ S
           /\ LET txs == <<CoinbaseFrame>> \o SetToSeq(S \cup unseen)
              IN  \/ frame' = frame \o Append(txs, HashBlock) /\ UNCHANGED <<poolFaults, off>>
                  \/ /\ poolFaults < MaxPoolFaults /\ poolFaults' = poolFaults + 1
                     /\ frame' = frame \o <<HashBlock>> \o txs /\ off' = off \cup {"port"}
    /\ UNCHANGED <<countVars, refreshVars, sumVars, flowVars>>

\* A transaction is replaced or lapses, which no frame says.
DropTx ==
    /\ poolFaults < MaxPoolFaults /\ poolFaults' = poolFaults + 1
    /\ \E t \in inPool : inPool' = inPool \ {t}
    /\ off' = off \cup {"dropped"}
    /\ UNCHANGED <<entered, frame, mined, countVars, refreshVars, sumVars, flowVars>>

-----------------------------------------------------------------------------
(* The reader of the frames, and mp.Record.                                     *)

Sign(t) == IF t = CoinbaseFrame THEN 0 ELSE IF burst THEN -1 ELSE 1
RecordFrame ==
    /\ frame # <<>> /\ frame' = Tail(frame)
    /\ LET t == Head(frame)
       IN  IF t = HashBlock THEN wake' = TRUE /\ UNCHANGED <<countVars, off>>
           ELSE /\ burst' = (burst \/ t = CoinbaseFrame)
                /\ txCount' = Max({0, txCount + Sign(t)}) /\ amount' = Max({0, amount + Sign(t) * t})
                /\ off' = (IF Sign(t) = 1 /\ refresher = "set" THEN off \cup {"raced"} ELSE off)
                /\ UNCHANGED wake
    /\ UNCHANGED <<entered, inPool, mined, statsOK, refresher, info, sumVars, poolFaults, flowVars>>

\* minedWindow is up: it is far longer than the frames of a block take.
BurstOver ==
    /\ burst /\ burst' = FALSE /\ \A i \in DOMAIN frame : frame[i] \in inPool \cup {HashBlock}
    /\ UNCHANGED <<feedVars, txCount, amount, refreshVars, sumVars, off, poolFaults, flowVars>>

-----------------------------------------------------------------------------
(* mp.Start and Refresh.                                                   *)

\* The ticker is up; or a block woke it, and it waits until minedUntil, as it is now.
TickRefresh == /\ refresher = "wait" /\ refresher' = "ask"
               /\ UNCHANGED <<feedVars, countVars, statsOK, wake, info, sumVars, off, poolFaults, flowVars>>
TakeWake ==
    /\ refresher = "wait" /\ wake /\ wake' = FALSE /\ refresher' = "burst"
    /\ UNCHANGED <<feedVars, countVars, statsOK, info, sumVars, off, poolFaults, flowVars>>
\* Mutant: it does not wait.
AtOnce == TRUE
WaitedOut == ~burst
WaitBurst ==
    /\ refresher = "burst" /\ WaitedOut /\ refresher' = "ask"
    /\ UNCHANGED <<feedVars, countVars, statsOK, wake, info, sumVars, off, poolFaults, flowVars>>

\* getmempoolinfo answers, and the answer replaces the count; an arrival whose frame is
\* under way, or comes in between, is counted twice or not at all.  What moved the count
\* before is healed, unless frames of it are under way or a burst waits for its hash.
AskInfo ==
    /\ refresher = "ask"
    /\ \/ /\ refresher' = "set" /\ info' = Cardinality(inPool) /\ UNCHANGED poolFaults
          /\ off' = (IF \E i \in DOMAIN frame : frame[i] \in inPool THEN {"raced"} ELSE {})
                      \cup (off \cap ((IF frame # <<>> THEN {"port", "dropped"} ELSE {})
                                    \cup (IF burst THEN {"port"} ELSE {})))
       \/ /\ poolFaults < MaxPoolFaults /\ poolFaults' = poolFaults + 1
          /\ refresher' = "wait" /\ off' = off \cup {"failed"} /\ UNCHANGED info
    /\ UNCHANGED <<feedVars, countVars, statsOK, wake, sumVars, flowVars>>
SetCount ==
    /\ refresher = "set" /\ refresher' = "wait" /\ txCount' = info /\ statsOK' = TRUE
    /\ UNCHANGED <<feedVars, amount, burst, wake, info, sumVars, off, poolFaults, flowVars>>

-----------------------------------------------------------------------------
(* mempoolTotals and SetSummary.                                           *)

AskTotals ==
    /\ summer = "ask"
    /\ \/ summer' = "sum" /\ summed' = inPool /\ UNCHANGED <<summaryOK, amount, poolFaults>>
       \/ /\ poolFaults < MaxPoolFaults /\ poolFaults' = poolFaults + 1 /\ summer' = "wait"
          /\ summaryOK' = FALSE /\ amount' = 0 /\ UNCHANGED summed
    /\ UNCHANGED <<feedVars, txCount, burst, refreshVars, off, flowVars>>
\* Mutant: frames that moved it are kept.
KeptTotal(s) == IF summaryOK THEN amount ELSE SumOf(s)
TotalOf(s) == SumOf(s)
\* A transaction that left the mempool meanwhile may no longer be read.
SetSummary ==
    /\ summer = "sum" /\ summer' = "wait" /\ summaryOK' = TRUE
    /\ \E gone \in SUBSET (summed \ inPool) : amount' = TotalOf(summed \ gone)
    /\ summed' = {}
    /\ UNCHANGED <<feedVars, txCount, burst, refreshVars, off, poolFaults, flowVars>>
TickSummary == /\ summer = "wait" /\ summer' = "ask"
               /\ UNCHANGED <<feedVars, countVars, refreshVars, summaryOK, summed, off, poolFaults, flowVars>>

\* The two goroutines, which run on while their tickers tick and the node answers.
Refresher == TickRefresh \/ TakeWake \/ WaitBurst \/ AskInfo \/ SetCount
Summer == AskTotals \/ SetSummary \/ TickSummary

-----------------------------------------------------------------------------
(* Flow: Record's arrivals, and the rate read from them.                   *)

\* The arrivals from the first that is not too old.
TooOld(i) == flowNow - arrivals[i] > 2 * FlowWindow
Pruned ==
    LET old == CHOOSE n \in 0..Len(arrivals) :
                   (\A i \in 1..n : TooOld(i)) /\ (n < Len(arrivals) => ~TooOld(n + 1))
    IN  SubSeq(arrivals, old + 1, Len(arrivals))
FlowArrival ==
    /\ Len(every) < MaxArrivals
    /\ arrivals' = Append(Pruned, flowNow) /\ every' = Append(every, flowNow)
    /\ flowSince' = (IF flowSince = -1 THEN flowNow ELSE flowSince)
    /\ UNCHANGED <<feedVars, countVars, refreshVars, sumVars, off, poolFaults, flowNow>>
FlowTime == /\ flowNow < MaxFlowTime /\ flowNow' = flowNow + 1
            /\ UNCHANGED <<feedVars, countVars, refreshVars, sumVars, off, poolFaults, arrivals, flowSince, every>>

\* The arrivals of the last window and of the one before.
FlowAt(a) == [recent |-> Cardinality({i \in DOMAIN a : flowNow - a[i] <= FlowWindow}),
              before |-> Cardinality({i \in DOMAIN a : FlowWindow < flowNow - a[i] /\ flowNow - a[i] <= 2 * FlowWindow}),
              rateOK |-> flowSince # -1 /\ flowNow - flowSince >= FlowWindow,
              changeOK |-> flowSince # -1 /\ flowNow - flowSince >= 2 * FlowWindow]

\* mempoolFields and mempoolCmd: what is said of the mempool, and whether the totals are.
MempoolFields == [ok |-> statsOK, count |-> txCount, total |-> IF summaryOK /\ txCount > 0 THEN <<amount>> ELSE <<>>]
MempoolCmd(size) == [count |-> size, total |-> IF size > 0 /\ summaryOK THEN <<amount>> ELSE <<>>]

PoolNext ==
    \/ EnterPool \/ MineTxs \/ DropTx \/ RecordFrame \/ BurstOver \/ Refresher \/ Summer
    \/ FlowArrival \/ FlowTime

PoolSpec == PoolInit /\ [][PoolNext]_poolVars

-----------------------------------------------------------------------------
\* Once a block's burst is over and the refresh it called for done, the count is the
\* node's: neither the block's transactions, some of which were never counted, nor the
\* arrivals taken for them are left in it.  An arrival that raced a refresh, one the node
\* dropped, a refresh that failed and a hash that overtook its block's frames are healed
\* by a later one.
CountOfNode ==
    statsOK /\ frame = <<>> /\ ~burst /\ ~wake /\ refresher = "wait" /\ off = {} => txCount = Cardinality(inPool)

\* When the mempool comes to rest, the count comes to be its own and stays so; and so
\* does the total.
CountSettles == <>[](MempoolFields.ok /\ MempoolFields.count = Cardinality(inPool))
TotalSettles == <>[](MempoolCmd(Cardinality(inPool)).total = IF inPool = {} THEN <<>> ELSE <<SumOf(inPool)>>)

\* The flow rate and its change are those of all the arrivals, however they were pruned.
FlowOfArrivals == flowSince # -1 => FlowAt(arrivals) = FlowAt(every)
=============================================================================
