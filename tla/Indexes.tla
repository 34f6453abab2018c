------------------------------ MODULE Indexes ------------------------------
(***************************************************************************)
(* The scans over the chain that one goroutine runs one after the other up *)
(* to one tip (indexes.go): the miner statistics, the address index, the   *)
(* per-address statistics and the address balances.  Each keeps its place  *)
(* in the cursors table and commits a batch of blocks with the place it    *)
(* reached.                                                                *)
(*                                                                         *)
(* A block is the branch it was mined on at its height.  A table is what   *)
(* was added to it: for each height the blocks counted, in order.  How a   *)
(* batch's blocks are read, several at once, is Collect's and Fetch's.     *)
(***************************************************************************)
EXTENDS Integers, FiniteSets, Sequences

CONSTANTS
    Order,         \* the scans in the order of updateIndexes; miners.Update
                   \* returns at once, and is left out, when no tag is known
    ChunkSize,     \* chunkSize
    Confirmations, \* how far addrbal stays behind the tip
    FlakyReads,    \* TRUE: cursors.Get may fail
    NoPlace,       \* a scan without a row in cursors
    StartTop, MaxTop, MaxReorgs, MaxDepth, MaxFaults, MaxCrashes   \* bounds

Scans == {Order[i] : i \in 1..Len(Order)}
Heights == 0..MaxTop
First == [s \in Scans |-> IF s = "miners" THEN 1 ELSE 0]
Early == {"addrstat", "addrbal"}    \* these merge when flushKeys addresses piled up

ASSUME OrderType == /\ Order \in Seq({"miners", "addrindex", "addrstat", "addrbal"}) /\ Len(Order) > 0
                    /\ \A i, j \in 1..Len(Order) : Order[i] = Order[j] => i = j
ASSUME ChunkType == ChunkSize \in Nat \ {0} /\ Confirmations \in Nat
ASSUME BoundsType == /\ StartTop \in Nat /\ MaxTop \in Nat /\ StartTop <= MaxTop /\ MaxReorgs \in Nat
                     /\ MaxDepth \in Nat /\ MaxFaults \in Nat /\ MaxCrashes \in Nat
ASSUME Fresh == NoPlace \notin Nat /\ FlakyReads \in BOOLEAN

VARIABLES
    top, chain, branch,  \* Core: its height, each height's branch, the last branch
    table, place,        \* each scan's table, and its row of cursors
    at, turn,            \* where the goroutine is, and in which scan
    tip,                 \* the one tip of the pass
    curr, to,            \* the next height to count, the end of the chunk
    got,                 \* the blocks read from curr on
    count, loaded, caughtUp,  \* addrbal's variables of these names
    cutShort,            \* only remembers: caughtUp was set by a pass its deadline cut short
    bootTop,             \* the tip when the process started
    faults, crashes

core == <<top, chain, branch>>
db   == <<table, place>>
scan == <<curr, to, got>>
bal  == <<count, loaded, caughtUp, cutShort>>
vars == <<core, db, at, turn, tip, scan, bal, bootTop, faults, crashes>>

Fault == faults < MaxFaults /\ faults' = faults + 1

Here == Order[turn]    \* the scan at work
\* Mutant: one confirmation too few.
TargetNear == IF Here = "addrbal" THEN tip - Confirmations + 1 ELSE tip
Target == IF Here = "addrbal" THEN tip - Confirmations ELSE tip
ChunkEnd(h) == IF h + ChunkSize - 1 <= Target THEN h + ChunkSize - 1 ELSE Target

\* The addresses the balances hold: a block stands for the one it brought.
Funded == Cardinality({h \in Heights : table["addrbal"][h] # <<>>})

Init ==
    /\ top = StartTop /\ chain = [h \in Heights |-> 0] /\ branch = 0
    /\ table = [s \in Scans |-> [h \in Heights |-> <<>>]]
    /\ place = [s \in Scans |-> NoPlace]
    /\ at = "tip" /\ turn = 1 /\ tip = 0
    /\ curr = 0 /\ to = 0 /\ got = <<>>
    /\ count = 0 /\ loaded = FALSE /\ caughtUp = FALSE /\ cutShort = FALSE
    /\ bootTop = StartTop
    /\ faults = 0 /\ crashes = 0

-----------------------------------------------------------------------------
(* updateIndexes.                                                          *)

\* The ticker, or a block's signal.
Wake ==
    /\ at = "idle" /\ at' = "tip"
    /\ UNCHANGED <<core, db, turn, tip, scan, bal, bootTop, faults, crashes>>

\* addrbal counts its rows before it asks for its place.
Enter(i) == turn' = i /\ at' = IF Order[i] = "addrbal" THEN "load" ELSE "place"
Leave == IF turn = Len(Order) THEN at' = "idle" /\ UNCHANGED turn ELSE Enter(turn + 1)

GetTip ==
    /\ at = "tip"
    /\ \/ tip' = top /\ Enter(1) /\ UNCHANGED faults
       \/ Fault /\ at' = "idle" /\ UNCHANGED <<turn, tip>>
    /\ UNCHANGED <<core, db, scan, bal, bootTop, crashes>>

\* An error stops this scan alone: the one behind it still runs.
Fail == Fault /\ Leave

-----------------------------------------------------------------------------
(* One scan's Update.                                                      *)

LoadCount ==
    /\ at = "load"
    /\ \/ /\ at' = "place" /\ loaded' = TRUE
          /\ count' = IF loaded THEN count ELSE Funded
          /\ UNCHANGED <<turn, faults>>
       \/ ~loaded /\ Fail /\ UNCHANGED <<count, loaded>>
    /\ UNCHANGED <<core, db, tip, scan, caughtUp, cutShort, bootTop, crashes>>

\* caughtUp.Swap(true), by addrbal's pass that got to its target.
CatchUp == IF Here = "addrbal" THEN caughtUp' = TRUE /\ cutShort' = FALSE
           ELSE UNCHANGED <<caughtUp, cutShort>>

\* Mutant: < for <=.
ResumeShort(from) ==
    /\ curr' = from /\ to' = ChunkEnd(from) /\ got' = <<>>
    /\ IF from < Target
       THEN at' = "fetch" /\ UNCHANGED <<turn, caughtUp, cutShort>>
       ELSE Leave /\ CatchUp

\* The next chunk, or the end of the scan.
Resume(from) ==
    /\ curr' = from /\ to' = ChunkEnd(from) /\ got' = <<>>
    /\ IF from <= Target
       THEN at' = "fetch" /\ UNCHANGED <<turn, caughtUp, cutShort>>
       ELSE Leave /\ CatchUp

\* Mutant: every scan starts at genesis.
GetPlaceAgain ==
    /\ at = "place"
    /\ Resume(IF place[Here] = NoPlace THEN 0 ELSE place[Here] + 1)
    /\ UNCHANGED <<core, db, tip, count, loaded, bootTop, faults, crashes>>

\* cursors.Get answers "no place" when the read fails.
GetPlace ==
    /\ at = "place"
    /\ \/ /\ Resume(IF place[Here] = NoPlace THEN First[Here] ELSE place[Here] + 1)
          /\ UNCHANGED faults
       \/ FlakyReads /\ Fault /\ Resume(First[Here])
    /\ UNCHANGED <<core, db, tip, count, loaded, bootTop, crashes>>

\* Mutant: an error ends addrbal's scan as the tip does.
FetchEnds ==
    /\ at = "fetch"
    /\ LET h == curr + Len(got) IN
       \/ /\ got' = Append(got, chain[h])
          /\ \/ at' = "flush"
             \/ at' = "fetch" /\ h < to
          /\ UNCHANGED <<turn, faults, caughtUp>>
       \/ Fail /\ UNCHANGED got /\ caughtUp' = (caughtUp \/ Here = "addrbal")
    /\ UNCHANGED <<core, db, tip, curr, to, count, loaded, cutShort, bootTop, crashes>>

\* The six hours of addrbal's pass run out: its producer may stop without an error, here
\* and at each chunk that is left, and the pass then ends as one that got to its target
\* (a block it still asks for is the error of Fetch).
Expire ==
    /\ Here = "addrbal" /\ Fail
    /\ caughtUp' = TRUE /\ cutShort' = (cutShort \/ ~caughtUp)

\* The chunk's next block; addrstat and addrbal may stop short of its end.
Fetch ==
    /\ at = "fetch"
    /\ LET h == curr + Len(got) IN
       \/ /\ got' = Append(got, chain[h])
          /\ \/ at' = "flush" /\ (h = to \/ Here \in Early)
             \/ at' = "fetch" /\ h < to
          /\ UNCHANGED <<turn, faults, caughtUp, cutShort>>
       \/ Fail /\ UNCHANGED <<got, caughtUp, cutShort>>
       \/ Expire /\ UNCHANGED got
    /\ UNCHANGED <<core, db, tip, curr, to, count, loaded, bootTop, crashes>>

Reached == curr + Len(got) - 1
Merged == [h \in Heights |-> IF curr <= h /\ h <= Reached
                             THEN Append(table[Here][h], got[h - curr + 1]) ELSE table[Here][h]]

\* After a flush the chunk goes on, or the next begins.
GoOn(from) ==
    IF from <= to
    THEN curr' = from /\ got' = <<>> /\ at' = "fetch" /\ UNCHANGED <<to, turn, caughtUp, cutShort>>
    ELSE Resume(from)

\* Mutant: the place is committed after the batch, and may fail alone.
FlushApart ==
    /\ at = "flush"
    /\ table' = [table EXCEPT ![Here] = Merged]
    /\ \/ /\ place' = [place EXCEPT ![Here] = Reached]
          /\ IF Here = "addrbal"
             THEN at' = "add" /\ UNCHANGED <<turn, curr, to, got, caughtUp, cutShort>>
             ELSE GoOn(Reached + 1)
          /\ UNCHANGED faults
       \/ Fail /\ UNCHANGED <<place, scan, caughtUp, cutShort>>
    /\ UNCHANGED <<core, tip, count, loaded, bootTop, crashes>>

\* The batch and the place it reached, in one transaction.
Flush ==
    /\ at = "flush"
    /\ \/ /\ table' = [table EXCEPT ![Here] = Merged]
          /\ place' = [place EXCEPT ![Here] = Reached]
          /\ IF Here = "addrbal"
             THEN at' = "add" /\ UNCHANGED <<turn, curr, to, got, caughtUp, cutShort>>
             ELSE GoOn(Reached + 1)
          /\ UNCHANGED faults
       \/ Fail /\ UNCHANGED <<db, scan, caughtUp, cutShort>>
    /\ UNCHANGED <<core, tip, count, loaded, bootTop, crashes>>

\* Mutant: the change of the whole chunk is added at each of its merges.
AddChunk ==
    /\ at = "add"
    /\ count' = count + (to - curr + 1)
    /\ GoOn(Reached + 1)
    /\ UNCHANGED <<core, db, tip, loaded, bootTop, faults, crashes>>

\* count.Add(change)
AddCount ==
    /\ at = "add"
    /\ count' = count + Len(got)
    /\ GoOn(Reached + 1)
    /\ UNCHANGED <<core, db, tip, loaded, bootTop, faults, crashes>>

UpdateIndexes == Wake \/ GetTip \/ LoadCount \/ GetPlace \/ Fetch \/ Flush \/ AddCount

-----------------------------------------------------------------------------
(* Bitcoin Core, and a restart: the database is what is left.              *)

Mine ==
    /\ top < MaxTop /\ top' = top + 1
    /\ chain' = [chain EXCEPT ![top + 1] = branch]
    /\ UNCHANGED <<branch, db, at, turn, tip, scan, bal, bootTop, faults, crashes>>

\* d blocks are replaced by a branch one longer.
Reorg ==
    /\ branch < MaxReorgs /\ branch' = branch + 1
    /\ top < MaxTop /\ top' = top + 1
    /\ \E d \in 1..MaxDepth :
        /\ d <= top
        /\ chain' = [h \in Heights |-> IF top - d < h /\ h <= top + 1 THEN branch' ELSE chain[h]]
    /\ UNCHANGED <<db, at, turn, tip, scan, bal, bootTop, faults, crashes>>

Restart ==
    /\ crashes < MaxCrashes /\ crashes' = crashes + 1
    /\ at' = "tip" /\ turn' = 1 /\ got' = <<>>
    /\ count' = 0 /\ loaded' = FALSE /\ caughtUp' = FALSE /\ cutShort' = FALSE
    /\ bootTop' = top
    /\ UNCHANGED <<core, db, tip, curr, to, faults>>

Next == UpdateIndexes \/ Mine \/ Reorg \/ Restart
Spec == Init /\ [][Next]_vars

\* The ticker never stops, and each call to Core and the database ends.
FairSpec == Spec /\ WF_vars(UpdateIndexes)

-----------------------------------------------------------------------------
(* Properties.                                                             *)

TypeOK ==
    /\ top \in Heights /\ chain \in [Heights -> Nat] /\ branch \in Nat
    /\ table \in [Scans -> [Heights -> Seq(Nat)]]
    /\ place \in [Scans -> Heights \cup {NoPlace}]
    /\ at \in {"idle", "tip", "load", "place", "fetch", "flush", "add"} /\ turn \in 1..Len(Order)
    /\ tip \in Heights /\ curr \in 0..(MaxTop + 1) /\ to \in Int /\ got \in Seq(Nat)
    /\ count \in Int /\ loaded \in BOOLEAN /\ caughtUp \in BOOLEAN /\ cutShort \in BOOLEAN
    /\ bootTop \in Heights /\ faults \in Nat /\ crashes \in Nat

\* Each scan has counted every height from its first up to its place once, and
\* nothing beyond: no batch is skipped or repeated over failed calls, early
\* merges and restarts.
ExactlyOnce ==
    \A s \in Scans, h \in Heights :
        Len(table[s][h]) = IF place[s] # NoPlace /\ First[s] <= h /\ h <= place[s] THEN 1 ELSE 0

\* The balances are of blocks of the chain, as long as no reorg is deeper than
\* the confirmations the scan waits for.
BalancesOfChain ==
    \A h \in Heights : \A i \in DOMAIN table["addrbal"][h] : table["addrbal"][h][i] = chain[h]

\* The running count is what the table holds, but for the moment between the
\* commit of a merge and the count's own update.
CountIsTable == loaded => count + (IF at = "add" THEN Len(got) ELSE 0) = Funded

\* Once Count says it has caught up, its figure covers all of the chain there was when
\* the process started, short of the confirmations: "not a share of it".  Let off is
\* the pass that its six hours cut short, until a later one does get to its target.
CaughtUpIsWhole ==
    caughtUp /\ ~cutShort => \A h \in Heights : h + Confirmations <= bootTop => table["addrbal"][h] # <<>>

\* What Count answers: the table's own number, and of a table that is whole when it says so.
CountIsWhole == CountIsTable /\ CaughtUpIsWhole

\* Whichever scan fails, each of them gets to every height of the chain.
EveryScanArrives ==
    \A s \in Scans, h \in Heights :
        h >= First[s] /\ h + (IF s = "addrbal" THEN Confirmations ELSE 0) <= top ~> table[s][h] # <<>>

\* The scans are tallies.
Kept == INSTANCE Tally WITH counted <- [s \in Scans |-> [h \in Heights |-> Len(table[s][h])]]
IsTally == Kept!Spec
=============================================================================
