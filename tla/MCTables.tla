------------------------------ MODULE MCTables ------------------------------
(* The index scans from the inside, and the pages that read what they keep, for  *)
(* TLC: a behaviour is one of a single part.                                     *)
EXTENDS Rankings, AddrBal, History, Rates, Fees, Pool, Cards

VARIABLE part
tableVars == <<statVars, balVars, indexVars, historyVars>>
priceVars == <<ratesVars, feesVars, poolVars, networkVars>>
vars == <<part, tableVars, priceVars>>

\* Five blocks with a clock that runs back: an address emptied and paid again, paid
\* twice by a transaction and spending with another; one that a second script pays too;
\* and a script of no address.
Pay(s, v) == [script |-> s, sat |-> v]
Tx(i, o) == [ins |-> i, outs |-> o]
Block(t, txs) == [time |-> t, txs |-> txs]
MCChain == <<
  Block(1, <<Tx(<<>>, <<Pay("a", 5), Pay("a", 1)>>)>>),
  Block(4, <<Tx(<<>>, <<Pay("b", 4)>>), Tx(<<Pay("a", 5)>>, <<Pay("b", 3), Pay("r", 1)>>)>>),
  Block(3, <<Tx(<<>>, <<Pay("c", 4)>>), Tx(<<Pay("a", 1), Pay("b", 3)>>, <<Pay("c", 4)>>)>>),
  Block(6, <<Tx(<<>>, <<Pay("a", 4), Pay("none", 0)>>)>>),
  Block(5, <<Tx(<<>>, <<Pay("b", 4)>>), Tx(<<Pay("a", 4)>>, <<Pay("A", 2), Pay("b", 2)>>)>>)>>

MCScripts == {"a", "A", "b", "c", "r", "none"}
AddressesOf == [s \in MCScripts |-> CASE s \in {"a", "A"} -> "a" [] s \in {"b", "c"} -> s [] OTHER -> ""]
NamesOf == [AddressesOf EXCEPT !["A"] = ""]
SlotsOf == [a \in {"a", "b", "c"} |-> CASE a = "a" -> <<0, 5>> [] a = "b" -> <<0, 3>> [] OTHER -> <<1, 0>>]
PrefixesOf == [s \in MCScripts |-> CASE s = "a" -> <<0, 1>> [] s = "b" -> <<0, 2>> [] s = "c" -> <<1, 1>>
                                      [] s = "none" -> <<9, 9>> [] OTHER -> <<1, 2>>]
OwnScripts == [a \in {"a", "b", "c"} |-> a]

\* What the chart, the sources and the node may answer.
MCHistory == <<[x |-> 0, y |-> 300], [x |-> 1, y |-> 0], [x |-> 2, y |-> 310], [x |-> 5, y |-> 305]>>
Shapes == <<[weight |-> 16, vsize |-> 4, base |-> 12, ancestor |-> 0, ancestorSize |-> 0],
            [weight |-> 40, vsize |-> 10, base |-> 20, ancestor |-> 20, ancestorSize |-> 10],
            [weight |-> 60, vsize |-> 15, base |-> 15, ancestor |-> 90, ancestorSize |-> 30],
            [weight |-> 0, vsize |-> 18, base |-> 72, ancestor |-> 0, ancestorSize |-> 0],
            [weight |-> 0, vsize |-> 0, base |-> 5, ancestor |-> 0, ancestorSize |-> 0]>>
Entry(i, s) == [id |-> i, weight |-> s.weight, vsize |-> s.vsize, base |-> s.base,
                ancestor |-> s.ancestor, ancestorSize |-> s.ancestorSize]
MCMempools == UNION {{{Entry(i, Shapes[f[i]]) : i \in 1..n} :
                         f \in {g \in [1..n -> DOMAIN Shapes] : \A i \in 1..n - 1 : g[i] <= g[i + 1]}} : n \in 0..4}

Of(p) == part = p
Only(p, others) == Of(p) /\ UNCHANGED <<part, others>>
InStat == Only("stat", <<balVars, indexVars, historyVars, priceVars>>)
InBal == Only("bal", <<statVars, indexVars, historyVars, priceVars>>)
InIndex == Only("index", <<statVars, balVars, historyVars, priceVars>>)
InHistory == Only("history", <<statVars, balVars, priceVars>>)
InRates == Only("rates", <<tableVars, feesVars, poolVars, networkVars>>)
InFees == Only("fees", <<tableVars, ratesVars, poolVars, networkVars>>)
InPart(p) == Only(p, <<tableVars, ratesVars, feesVars, networkVars>>)
InPool == InPart("pool")
InSums == InPart("sums")
InFeed == InPool \/ InSums
InFlow == InPart("flow")
InCards == Only("cards", <<tableVars, ratesVars, feesVars, poolVars>>)

Init == /\ part \in {"stat", "bal", "index", "history", "rates", "fees", "pool", "sums", "flow", "cards"}
        /\ opened \in IF part = "history" THEN {"a", "b"} ELSE {"a"}
        /\ StatInit /\ BalInit /\ IndexInit /\ HistoryInit /\ RatesInit /\ FeesInit /\ PoolInit /\ CardsInit
        /\ part # "rates" => historyFile = "unset"

Tips == {1, 2, 4}
PageTips == {2, 4}
ASSUME TipsType == Tips \subseteq 0..ChainTop
Next ==
    \/ (InStat /\ \E t \in Tips : StatUpdate(t)) \/ (InStat /\ \E w \in Workers : TakeHeight(w))
    \/ (InStat /\ \E w \in Workers : ReadBlock(w)) \/ (InStat /\ \E w \in Workers : ReadFails(w))
    \/ (InStat /\ \E w \in Workers : TellStop(w)) \/ (InStat /\ Merge) \/ (InStat /\ Abandon)
    \/ (InBal /\ \E t \in Tips : BalUpdate(t + Confirmations)) \/ (InBal /\ QueueSlot) \/ (InBal /\ StartFetch)
    \/ (InBal /\ \E h \in 0..ChainTop : FetchEnds(h)) \/ (InBal /\ TakeSlot) \/ (InBal /\ ReadSlot)
    \/ (InBal /\ FlushBalances) \/ (InBal /\ Expires) \/ (InBal /\ FlushFails) \/ (InBal /\ AddChange) \/ (InBal /\ BalCrash)
    \/ (InIndex /\ \E t \in Tips : IndexUpdate(t)) \/ (InIndex /\ IndexBlock) \/ (InIndex /\ MergeTouches)
    \/ (InIndex /\ IndexFails)
    \/ (InHistory /\ \E t \in PageTips : IndexOn(t)) \/ (InHistory /\ CountOn) \/ (InHistory /\ OpenPage)
    \/ (InHistory /\ Scroll) \/ (InHistory /\ ReadRecord) \/ (InHistory /\ ReadStatCursor)
    \/ (InHistory /\ ReadIndexCursor) \/ (InHistory /\ ReadBatch)
    \/ (InRates /\ Backfill) \/ (InRates /\ Download) \/ (InRates /\ StoreHistory) \/ (InRates /\ StartUpdate)
    \/ (InRates /\ Poll) \/ (InRates /\ Add) \/ (InRates /\ UpdateMarket) \/ (InRates /\ TakeTick)
    \/ (InRates /\ TimePasses) \/ (InRates /\ RatesRestart)
    \/ (InFees /\ RefreshFees) \/ (InFees /\ RefreshFails)
    \/ (InFeed /\ EnterPool) \/ (InFeed /\ MineTxs) \/ (InFeed /\ DropTx) \/ (InFeed /\ RecordFrame) \/ (InFeed /\ BurstOver)
    \/ (InPool /\ TickRefresh) \/ (InPool /\ TakeWake) \/ (InPool /\ WaitBurst) \/ (InPool /\ AskInfo) \/ (InPool /\ SetCount)
    \/ (InSums /\ AskTotals) \/ (InSums /\ SetSummary) \/ (InSums /\ TickSummary)
    \/ (InFlow /\ FlowArrival) \/ (InFlow /\ FlowTime)
    \/ (InCards /\ CardTicks) \/ (InCards /\ SendBlock) \/ (InCards /\ SendFunded)
    \/ (InCards /\ RefreshTick) \/ (InCards /\ RefreshBlock) \/ (InCards /\ RefreshFunded)

Spec == Init /\ [][Next]_vars

\* A scan and the updater of the rates run on, and so do the reader of the frames and
\* the two goroutines of the mempool's figures, which share nothing else and run here
\* one at a time; a condition serves the parts that never run together.
FairSpec ==
    /\ Spec
    /\ WF_vars((InBal /\ BalStep) \/ (InRates /\ UpdaterStep) \/ (InFeed /\ RecordFrame) \/ (InFeed /\ BurstOver))
    /\ WF_vars((InPool /\ Refresher) \/ (InSums /\ Summer))

\* What the scans keep is the chain's, in every state of a scan.
TablesOfChain == /\ Of("stat") => StatsOfChain /\ RankedOnce
                 /\ Of("bal") => HoldingsOfChain
\* So is the index, a live look-up reads it as the statistics would, and a page scrolls
\* through it.
IndexAndPages == /\ Of("index") => TouchesOfChain /\ LiveAgrees
                 /\ Of("history") => HistoryPaged
\* The stored rates and the prices made of them, the fees and the blocks they come from,
\* the mempool's count and flow, and the funded addresses shown.
FiguresOfSources == /\ Of("rates") => NearestRate /\ RatesOfAnswers /\ PricePrinted
                    /\ Of("fees") => BlocksOfMempool /\ FeesNeverInvert
                    /\ Of("pool") => CountOfNode
                    /\ Of("flow") => FlowOfArrivals
                    /\ Of("cards") => FundedIsShown
\* A fetch never waits for good on the reader of its scan, the mempool's figures come to
\* be the node's, and the updater of the rates comes back to its ticker, whichever calls
\* fail.
WorkEnds == /\ Of("bal") => FetchersEnd
            /\ Of("pool") => CountSettles
            /\ Of("sums") => TotalSettles
            /\ Of("rates") /\ updater # "wait" ~> updater = "wait"
=============================================================================
