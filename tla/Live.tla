-------------------------------- MODULE Live --------------------------------
(***************************************************************************)
(* The live mempool list: mp.Record files the rawtx frames, and an open    *)
(* page asks for what is newer than it has (mp/mp.go, main.go,             *)
(* telegram/app.html).                                                     *)
(*                                                                         *)
(* Transactions are numbered as they enter the mempool.  What makes a page *)
(* ask, its own timer or an event, is Events': here it may ask whenever it *)
(* is not waiting for an answer; it was opened while the list was empty.    *)
(* Left out: the counts and the flow rate, and a reorg, which publishes    *)
(* its transactions once more.                                             *)
(***************************************************************************)
EXTENDS Integers, Sequences, SequencesExt, FiniteSets

CONSTANTS
    Kept, GoneKept,  \* Kept, goneKept
    Nothing,         \* no request, no reply
    MaxTxs, MaxBlocks, MaxFaults   \* bounds

\* What the page may be answered.
Payloads == [top : Nat, whole : BOOLEAN, txs : Seq([seq : Nat, tx : Nat]), mined : SUBSET Nat]

ASSUME LiveConstants == /\ Kept \in Nat \ {0} /\ GoneKept \in Nat \ {0}
                        /\ Nothing \notin Int /\ Nothing \notin Payloads
                        /\ {MaxTxs, MaxBlocks, MaxFaults} \subseteq Nat

Txs == 1..MaxTxs
Coinbase == 0
Whole == -1   \* the whole list, which a page with a hole is handed

VARIABLES
    arrived, pool, frames, blocks,  \* Core: its mempool, and the rawtx frames under way
    list, gone, seq,                \* mp: the list, the log of the mined, their counter
    burst,                          \* it is before minedUntil
    rows, top, asked, reply,        \* the page: what it shows, its mark, its request
    listed, cut, shrunk,            \* what the properties remember
    faults

coreVars == <<arrived, pool, frames, blocks>>
listVars == <<list, gone, seq, burst, listed, cut, shrunk>>
pageVars == <<rows, top, asked, reply>>
liveVars == <<coreVars, listVars, pageVars, faults>>

LiveInit ==
    /\ arrived = 0 /\ pool = {} /\ frames = <<>> /\ blocks = 0
    /\ list = <<>> /\ gone = <<>> /\ seq = 0 /\ burst = FALSE
    /\ rows = <<>> /\ top = 0 /\ asked = Nothing /\ reply = Nothing
    /\ listed = {} /\ cut = 0 /\ shrunk = FALSE
    /\ faults = 0

-----------------------------------------------------------------------------
(* Bitcoin Core.                                                           *)

Arrive ==
    /\ arrived < MaxTxs /\ arrived' = arrived + 1
    /\ pool' = pool \cup {arrived'} /\ frames' = Append(frames, arrived')
    /\ UNCHANGED <<blocks, listVars, pageVars, faults>>

\* A block's transactions are published again, its coinbase first.
MineBlock ==
    /\ blocks < MaxBlocks /\ blocks' = blocks + 1
    /\ \E S \in SUBSET pool :
        /\ pool' = pool \ S
        /\ frames' = frames \o <<Coinbase>> \o SetToSeq(S)
    /\ UNCHANGED <<arrived, listVars, pageVars, faults>>

-----------------------------------------------------------------------------
(* mp.Record, on the goroutine that reads the frames.                      *)

Positions(t) == {i \in DOMAIN list : list[i].tx = t}
Without(t) == RemoveAt(list, CHOOSE i \in Positions(t) : \A j \in Positions(t) : i <= j)
LogGone(e) == LET g == Append(gone, e) IN IF Len(g) > GoneKept THEN Tail(g) ELSE g

\* shrunk: the list gets shorter after arrivals that the page has not had were cut.
Had == IF reply = Nothing THEN top ELSE reply.top
RemoveMined(t) ==
    IF Positions(t) = {} THEN UNCHANGED <<list, gone, seq, shrunk>>
    ELSE /\ list' = Without(t) /\ seq' = seq + 1
         /\ gone' = LogGone([seq |-> seq', tx |-> t])
         /\ shrunk' = (shrunk \/ cut > Had)

ListArrival(t) ==
    LET l == <<[seq |-> seq + 1, tx |-> t]>> \o list IN
    /\ seq' = seq + 1 /\ listed' = listed \cup {t}
    /\ IF Len(l) > Kept THEN list' = Front(l) /\ cut' = Last(l).seq
                        ELSE list' = l /\ UNCHANGED cut

\* Mutant: a frame inside the burst is an arrival unless it is listed.
FileListed(t) ==
    \/ t = Coinbase /\ burst' = TRUE /\ UNCHANGED <<list, gone, seq, listed, cut, shrunk>>
    \/ /\ t # Coinbase /\ burst /\ Positions(t) # {}
       /\ RemoveMined(t) /\ UNCHANGED <<burst, listed, cut>>
    \/ /\ t # Coinbase /\ (~burst \/ Positions(t) = {})
       /\ ListArrival(t) /\ UNCHANGED <<gone, shrunk, burst>>

\* A block's burst begins with its coinbase, and every frame in it is a mined one.
File(t) ==
    \/ t = Coinbase /\ burst' = TRUE /\ UNCHANGED <<list, gone, seq, listed, cut, shrunk>>
    \/ t # Coinbase /\ burst /\ RemoveMined(t) /\ UNCHANGED <<burst, listed, cut>>
    \/ t # Coinbase /\ ~burst /\ ListArrival(t) /\ UNCHANGED <<gone, shrunk, burst>>

Record ==
    /\ frames # <<>> /\ File(Head(frames)) /\ frames' = Tail(frames)
    /\ UNCHANGED <<arrived, pool, blocks, pageVars, faults>>

\* minedWindow is up: it is far longer than a burst, whose frames come at once.
EndBurst ==
    /\ burst /\ burst' = FALSE
    /\ \A i \in DOMAIN frames : frames[i] \in pool
    /\ UNCHANGED <<coreVars, list, gone, seq, listed, cut, shrunk, pageVars, faults>>

-----------------------------------------------------------------------------
(* The page, and what it is served.                                        *)

Ask ==
    /\ asked = Nothing /\ asked' = top
    /\ UNCHANGED <<coreVars, listVars, rows, top, reply, faults>>

\* Mutant: the log's own overflow is not noticed.
MoreFull(after) == Len(list) = Kept /\ Last(list).seq > after + 1

More(after) ==
    \/ Len(list) = Kept /\ Last(list).seq > after + 1
    \/ Len(gone) = GoneKept /\ gone[1].seq > after + 1

\* List takes the rows until one is not newer; the newest come first.
NewerRows(after) == SubSeq(list, 1, Cardinality({i \in DOMAIN list : \A j \in 1..i : list[j].seq > after}))
NewerMined(after) == {gone[i].tx : i \in {j \in DOMAIN gone : gone[j].seq > after}}

\* Mutant: only a row moves the mark.
MempoolByRow(after) ==
    [top |-> IF list = <<>> THEN after ELSE Head(list).seq, whole |-> after = Whole,
     txs |-> NewerRows(after), mined |-> NewerMined(after)]

\* List: what is newer than after; the whole list is newer than any row.
Mempool(after) ==
    [top |-> seq, whole |-> after = Whole, txs |-> NewerRows(after), mined |-> NewerMined(after)]

\* A page with a hole is handed the whole list, which is read anew.
Serve ==
    /\ asked # Nothing /\ reply = Nothing
    /\ \/ asked # Whole /\ More(asked) /\ asked' = Whole /\ UNCHANGED <<reply, shrunk, faults>>
       \/ /\ asked # Whole => ~More(asked)
          /\ reply' = Mempool(asked) /\ shrunk' = (shrunk /\ asked # Whole) /\ UNCHANGED <<asked, faults>>
       \/ faults < MaxFaults /\ faults' = faults + 1 /\ asked' = Nothing /\ UNCHANGED <<reply, shrunk>>
    /\ UNCHANGED <<coreVars, list, gone, seq, burst, listed, cut, rows, top>>

\* What s has at the positions ps, in its order.
NthOf(ps, i) == CHOOSE p \in ps : Cardinality({q \in ps : q < p}) = i - 1
Picked(s, ps) == [i \in 1..Cardinality(ps) |-> s[NthOf(ps, i)]]

\* The page drops the mined rows, puts the new ones on top and cuts at Kept.
Applied(r) ==
    LET new == r.txs \o Picked(rows, {i \in DOMAIN rows : ~r.whole /\ rows[i].tx \notin r.mined})
    IN  SubSeq(new, 1, IF Len(new) > Kept THEN Kept ELSE Len(new))

Apply ==
    /\ reply # Nothing /\ rows' = Applied(reply)
    /\ top' = reply.top /\ asked' = Nothing /\ reply' = Nothing
    /\ UNCHANGED <<coreVars, listVars, faults>>

LiveNext == Arrive \/ MineBlock \/ Record \/ EndBurst \/ Ask \/ Serve \/ Apply

LiveSpec == LiveInit /\ [][LiveNext]_liveVars

\* The frames are read, a burst ends, and the page asks "every 30s".
LiveFairSpec ==
    /\ LiveSpec /\ WF_liveVars(Record) /\ WF_liveVars(EndBurst)
    /\ WF_liveVars(Ask) /\ WF_liveVars(Serve) /\ WF_liveVars(Apply)

-----------------------------------------------------------------------------
(* Properties.                                                             *)

Current == top = seq /\ asked = Nothing

\* No listed transaction that still waits is missing between a page's rows.
NoHole ==
    \A t \in listed \cap pool :
        (\E i \in DOMAIN rows : rows[i].tx < t) => \E i \in DOMAIN rows : rows[i].tx = t

\* A page that is up to date shows the list, with older rows under it and no hole among
\* them, "rather than a prepend that would leave a gap" (mp.go:127).  The hole it may
\* have is of arrivals that were cut, unseen by the page, from a list a block then made
\* shorter: List takes a list that is not full now for one that never overflowed.
PageShowsList == Current => IsPrefix(list, rows) /\ (shrunk \/ NoHole)

\* What is listed waits in the mempool, or its block's frames are on their way.
ListedUnmined ==
    \A i \in DOMAIN list :
        list[i].tx \in pool \/ \E j \in DOMAIN frames : frames[j] = list[i].tx

\* The page catches up, whichever answers are lost.
PageSettles == <>[](top = seq)
=============================================================================
