------------------------------ MODULE History -------------------------------
(***************************************************************************)
(* The transactions of an address, as the Mini App's page scrolls through  *)
(* them: batches of the newest, each a request of its own that says only   *)
(* how many have been shown, over an index and statistics that advance     *)
(* meanwhile.  The scan starts at the block of the address's last activity *)
(* when the statistics are no older than the index, and at its end when    *)
(* they are.                                                               *)
(***************************************************************************)
EXTENDS AddrIndex

CONSTANTS
    ScriptOf,                \* ValidateAddress: the script of each address
    NodeAddress,             \* the address Core names for a script, or NoPayee
    AddrTxBatch, AddrTxLimit \* addrTxBatch, addrTxLimit

ASSUME BatchType == AddrTxBatch \in Nat \ {0}

VARIABLES
    counted,                 \* cursors.AddrStat
    page,                    \* where the request is, or "closed"
    opened,                  \* the address
    record, statCursor,      \* what txStartHeight has read
    start, asked,            \* the height it scans from, and from
    shown, more,             \* the page, and whether another batch is offered
    grew, raced,             \* for the properties: the index or the statistics advanced
                             \* while the page was open, or under a reader of the record;
    behind, lost             \* the blocks table had not the block of the record's time; a
                             \* transaction could not be read
historyVars == <<counted, page, opened, record, statCursor, start, asked, shown, more, grew, raced, behind, lost>>

HistoryInit ==
    /\ counted = -1 /\ page = "closed" /\ opened \in DOMAIN ScriptOf /\ record = 0 /\ statCursor = -1
    /\ start = 0 /\ asked = 0 /\ shown = <<>> /\ more = FALSE
    /\ grew = FALSE /\ raced = FALSE /\ behind = FALSE /\ lost = FALSE

\* The passes of the scans follow each other in one goroutine, and each may fail while
\* those behind it go on: the statistics',
CountOn == /\ indexStep = "idle" /\ counted < ChainTop /\ counted' = counted + 1
           /\ raced' = (raced \/ page = "statCursor")
           /\ UNCHANGED <<indexVars, page, opened, record, statCursor, start, asked, shown, more, grew, behind, lost>>

\* and the index's, under an open page.
IndexOn(tip) == /\ IndexUpdate(tip) \/ IndexBlock \/ MergeTouches \/ IndexFails
                /\ grew' = (grew \/ (indexPlace' > indexPlace /\ page # "closed"))
                /\ UNCHANGED <<counted, page, opened, record, statCursor, start, asked, shown, more, raced, behind, lost>>

OpenPage ==
    /\ page = "closed" /\ page' = "record" /\ asked' = 0
    /\ UNCHANGED <<indexVars, counted, opened, record, statCursor, start, shown, more, grew, raced, behind, lost>>

\* The reader scrolls to the end of what is shown.
Scroll ==
    /\ page = "shown" /\ more /\ page' = "record"
    /\ UNCHANGED <<indexVars, counted, opened, record, statCursor, start, asked, shown, more, grew, raced, behind, lost>>

\* txStartHeight, each of its reads in turn.  The record's Last is of the blocks since
\* some block at which the address held nothing; it has none while it holds nothing.
LastActivity(f) == Max({0} \cup {BlockOf(p[1]).time : p \in With(opened, f + 1, counted)})
ReadRecord ==
    /\ page = "record"
    /\ IF Holds(opened, counted) = 0 THEN record' = 0
       ELSE \E f \in {-1} \cup {h \in 0..counted : Holds(opened, h) = 0} : record' = LastActivity(f)
    /\ page' = (IF record' = 0 THEN "lookup" ELSE "statCursor")
    /\ start' = 0
    /\ UNCHANGED <<indexVars, counted, opened, statCursor, asked, shown, more, grew, raced, behind, lost>>

ReadStatCursor ==
    /\ page = "statCursor" /\ statCursor' = counted /\ page' = "indexCursor"
    /\ UNCHANGED <<indexVars, counted, opened, record, start, asked, shown, more, grew, raced, behind, lost>>

\* blocks.ByTime, over a blocks table that ends at top; zero, the end of the index, when
\* it has no such block.
ByTime(t, top) == Max({0} \cup {h \in 0..top : BlockOf(h).time <= t})
\* The record is trusted when the statistics have kept up with the index.
\* Mutant: it always is.
TrustedAlways(c, i) == TRUE
Trusted(c, i) == c >= i
\* The blocks table may end anywhere, or hold none: its catch-up can fail in a pass that
\* goes on to the index, and a reorg's Rollback takes blocks out of it alone.
ReadIndexCursor ==
    /\ page = "indexCursor" /\ page' = "lookup"
    /\ IF Trusted(statCursor, indexPlace)
       THEN \E top \in -1..ChainTop :
                /\ start' = ByTime(record, top)
                /\ behind' = (behind \/ (start' # 0 /\ start' < ByTime(record, indexPlace)))
       ELSE start' = 0 /\ UNCHANGED behind
    /\ UNCHANGED <<indexVars, counted, opened, record, statCursor, asked, shown, more, grew, raced, lost>>

\* addressTxViews and appAddrTxs: the batch after those already shown, less what could
\* not be read, which the next request then counts as not shown.
Window(ts) == SubSeq(ts, asked + 1, Min({asked + AddrTxBatch, Len(ts)}))
\* resolveTouches: a block or a transaction that cannot be read is left out.
Resolved(ts) == {SelectSeq(ts, LAMBDA t : t \notin out) : out \in SUBSET ToSet(ts)}
ReadBatch ==
    /\ page = "lookup" /\ page' = "shown"
    /\ LET ts == LookupFrom(ScriptOf[opened], start, asked + AddrTxBatch + 1).touches
       IN  \E views \in Resolved(Window(ts)) :
               LET short == views # Window(ts)
               IN  /\ short => indexFaults < MaxScanFaults
                   /\ indexFaults' = indexFaults + (IF short THEN 1 ELSE 0)
                   /\ lost' = (lost \/ short)
                   /\ shown' = shown \o views /\ asked' = asked + Len(views)
                   /\ more' = (Len(ts) > asked + AddrTxBatch)
    /\ UNCHANGED <<index, indexPlace, indexStep, nextBlock, lastOfIndex, indexTo, touches,
                   counted, opened, record, statCursor, start, grew, raced, behind>>

\* The page shows the address's history from its newest transaction down, each once and
\* none left out, to its end when no more is offered.  While the index advances a batch
\* may repeat what the one before it showed, and leaves nothing out.  Let off is the page
\* whose record was merged past while it was read (raced), the one whose record's time
\* was looked up in a blocks table that had not come to the index's blocks of that time
\* (behind), which begins below the newest, and the one that lost a transaction (lost).
All(s) == LET all == {[height |-> p[1], tx |-> p[2] - 1] : p \in
                        {q \in TxsIn(0, indexPlace) : \E y \in ToSet(TxOf(q).outs \o TxOf(q).ins) : y.script = s}}
          IN  SetToSortSeq(all, LAMBDA t, u : t.height > u.height \/ (t.height = u.height /\ t.tx > u.tx))
HistoryPaged ==
    page = "shown" /\ ~lost /\ ~raced /\ ~behind =>
        LET all == All(ScriptOf[opened])
        IN  IF grew
            THEN \A i, j \in DOMAIN shown : \A k \in DOMAIN all :
                     LET at(n) == CHOOSE x \in DOMAIN all : all[x] = shown[n]
                     IN  at(i) <= k /\ k <= at(j) => all[k] \in ToSet(shown)
            ELSE /\ shown = SubSeq(all, 1, Len(shown))
                 /\ ~more => shown = all

-----------------------------------------------------------------------------
\* addressHistory and addressStats: what the transactions a lookup found add up to.
LiveStats(a, ts) ==
    LET mine(ps) == Amount(ps, {i \in DOMAIN ps : NodeAddress[ps[i].script] = a})
        spends(x) == \E i \in DOMAIN x.ins : NodeAddress[x.ins[i].script] = a
        txs == {<<t.height, t.tx + 1>> : t \in ToSet(ts)}
        dates == {BlockOf(p[1]).time : p \in txs} \ {0}
    IN  [recv |-> MapThenSumSet(LAMBDA p : mine(TxOf(p).outs), txs),
         sent |-> MapThenSumSet(LAMBDA p : mine(TxOf(p).ins), txs),
         fees |-> MapThenSumSet(LAMBDA p : Fee(TxOf(p)), {p \in txs : spends(TxOf(p))}),
         txs |-> Len(ts),
         first |-> IF dates = {} THEN 0 ELSE Min(dates), last |-> IF dates = {} THEN 0 ELSE Max(dates)]

\* addrPairs, for an address with no record: its lines, and whether the count is
\* followed by a plus.
LivePairs(a) == LET found == Lookup(ScriptOf[a], AddrTxLimit)
                IN  [lines |-> LiveStats(a, found.touches), plus |-> found.capped]

\* Looked up live, an address that only its own script pays is described as its record
\* would describe it, or marked as described in part.
LiveAgrees ==
    \A a \in DOMAIN ScriptOf :
        LET own == \A p \in With(a, 0, indexPlace) :
                       \A y \in ToSet(TxOf(p).outs \o TxOf(p).ins) : Payee[y.script] = a => y.script = ScriptOf[a]
        IN  own /\ ~LivePairs(a).plus => LivePairs(a).lines = Whole(a, 0, indexPlace)
=============================================================================
