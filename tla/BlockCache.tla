----------------------------- MODULE BlockCache -----------------------------
(***************************************************************************)
(* The blocks table against the chain it caches: the catch-up goroutine of *)
(* startIndexUpdates (indexes.go), which runs blocks.Update at the table's *)
(* end, and the ZMQ loop (zmq.go), which wakes it on a new tip and rolls   *)
(* the table back past every block a reorg disconnects.  The two share the *)
(* table and nothing else.                                                 *)
(*                                                                         *)
(* A block is its height and the branch it was mined on, standing for its  *)
(* hash: what the row tells of it is a function of the hash.               *)
(***************************************************************************)
EXTENDS Naturals, FiniteSets, Sequences

CONSTANTS
    ChunkSize,    \* chunkSize
    StartTop,     \* the tip when the process first starts
    MaxTop,       \* bound: the highest block
    MaxReorgs, MaxDepth,   \* bounds: reorgs, and the blocks one disconnects
    MaxFaults,    \* bound: failed calls and lost messages
    MaxCrashes    \* bound: restarts

ASSUME ChunkType == ChunkSize \in Nat \ {0}
ASSUME TopType == StartTop \in Nat /\ MaxTop \in Nat
ASSUME BoundsType == MaxReorgs \in Nat /\ MaxDepth \in Nat /\ MaxFaults \in Nat /\ MaxCrashes \in Nat

VARIABLES
    top, chain, branch,  \* Core: its height, the branch of each block, the last branch
    rows,       \* the blocks table
    at,         \* where the catch-up goroutine is
    tip,        \* Update's tip
    next,       \* the next height Update asks for
    got,        \* infos: the chunk so far
    woken,      \* the signal pending in the goroutine's channel
    subscribed, \* startZMQ has run
    gone,       \* blocks whose D message is still to come
    tips,       \* hashblock messages still to come
    straddled,    \* a block was rolled back since the goroutine read the table's end
    excuse,     \* why the table may be wrong: see the properties
    faults, crashes

core  == <<top, chain, branch>>
pass  == <<at, tip, next, got>>
feed  == <<subscribed, gone, tips>>
ghost == <<straddled, excuse>>
vars  == <<core, rows, pass, woken, feed, ghost, faults, crashes>>

Heights(S) == {b[1] : b \in S}
Block == Nat \X Nat
At(h) == <<h, chain[h]>>
OnChain(b) == b[1] <= top /\ chain[b[1]] = b[2]
Going(b) == \E i \in 1..Len(gone) : gone[i] = b

Fault == faults < MaxFaults /\ faults' = faults + 1

\* The table holds what an earlier process cached: a part of the chain from genesis.
Init ==
    /\ top = StartTop /\ chain = [h \in 0..StartTop |-> 0] /\ branch = 0
    /\ \E n \in 0..(StartTop + 1) : rows = {<<h, 0>> : h \in {i \in 0..StartTop : i < n}}
    /\ at = "tip" /\ tip = 0 /\ next = 0 /\ got = {}
    /\ woken = FALSE /\ subscribed = FALSE /\ gone = <<>> /\ tips = 0
    /\ straddled = FALSE /\ excuse = {}
    /\ faults = 0 /\ crashes = 0

-----------------------------------------------------------------------------
(* The catch-up goroutine.                                                 *)

\* select: the ticker, or the signal.
TickUpdates ==
    /\ at = "idle" /\ at' = "tip"
    /\ UNCHANGED <<core, rows, tip, next, got, woken, feed, ghost, faults, crashes>>

Wake ==
    /\ at = "idle" /\ woken /\ at' = "tip" /\ woken' = FALSE
    /\ UNCHANGED <<core, rows, tip, next, got, feed, ghost, faults, crashes>>

GetTip ==
    /\ at = "tip"
    /\ \/ tip' = top /\ at' = "last" /\ UNCHANGED faults
       \/ Fault /\ at' = "idle" /\ UNCHANGED tip
    /\ UNCHANGED <<core, rows, next, got, woken, feed, ghost, crashes>>

\* select max(height) from blocks, and the first test of the loop.
Highest == {h \in Heights(rows) : \A k \in Heights(rows) : k <= h}

\* Mutant: the tip itself is left for the next pass.
LastBeforeTip ==
    /\ at = "last"
    /\ \E from \in IF rows = {} THEN {0} ELSE {h + 1 : h \in Highest} :
        /\ next' = from
        /\ at' = IF from < tip THEN "fetch" ELSE "idle"
    /\ got' = {} /\ straddled' = FALSE
    /\ UNCHANGED <<core, rows, tip, woken, feed, excuse, faults, crashes>>

\* Mutant: resumes at the highest stored block, not after it.
LastAgain ==
    /\ at = "last"
    /\ \E from \in IF rows = {} THEN {0} ELSE Highest :
        /\ next' = from
        /\ at' = IF from <= tip THEN "fetch" ELSE "idle"
    /\ got' = {} /\ straddled' = FALSE
    /\ UNCHANGED <<core, rows, tip, woken, feed, excuse, faults, crashes>>

LastHeight ==
    /\ at = "last"
    /\ \/ /\ \E from \in IF rows = {} THEN {0} ELSE {h + 1 : h \in Highest} :
              /\ next' = from
              /\ at' = IF from <= tip THEN "fetch" ELSE "idle"
          /\ UNCHANGED faults
       \/ Fault /\ at' = "idle" /\ UNCHANGED next
    /\ got' = {} /\ straddled' = FALSE
    /\ UNCHANGED <<core, rows, tip, woken, feed, excuse, crashes>>

\* Mutant: a block that cannot be fetched is passed over.
FetchSkips ==
    /\ at = "fetch"
    /\ next' = next + 1
    /\ at' = IF next = tip \/ Cardinality(got) + 1 = ChunkSize THEN "flush" ELSE "fetch"
    /\ \/ got' = got \cup {At(next)} /\ UNCHANGED faults
       \/ Fault /\ UNCHANGED got
    /\ UNCHANGED <<core, rows, tip, woken, feed, ghost, crashes>>

\* GetBlockHash and Compute; an error ends the pass with the chunk dropped.
Fetch ==
    /\ at = "fetch"
    /\ \/ /\ got' = got \cup {At(next)}
          /\ next' = next + 1
          /\ at' = IF next = tip \/ Cardinality(got') = ChunkSize THEN "flush" ELSE "fetch"
          /\ UNCHANGED faults
       \/ Fault /\ at' = "idle" /\ got' = {} /\ UNCHANGED next
    /\ UNCHANGED <<core, rows, tip, woken, feed, ghost, crashes>>

\* One transaction, then the pause when another chunk is to come.
Flush ==
    /\ at = "flush"
    /\ \/ /\ rows' = {b \in rows : b[1] \notin Heights(got)} \cup got
          /\ at' = IF next <= tip THEN "fetch" ELSE "idle"
          /\ excuse' = IF straddled THEN excuse \cup {"raced"} ELSE excuse
          /\ UNCHANGED faults
       \/ Fault /\ at' = "idle" /\ UNCHANGED <<rows, excuse>>
    /\ got' = {}
    /\ UNCHANGED <<core, tip, next, woken, feed, straddled, crashes>>

CatchUp == TickUpdates \/ Wake \/ GetTip \/ LastHeight \/ Fetch \/ Flush

-----------------------------------------------------------------------------
(* The ZMQ loop.  Each topic may have a port of its own, so a D message    *)
(* and the hashblock after it come in either order.                        *)

StartZMQ ==
    /\ ~subscribed /\ subscribed' = TRUE
    /\ UNCHANGED <<core, rows, pass, woken, gone, tips, ghost, faults, crashes>>

HashBlock ==
    /\ tips > 0 /\ tips' = tips - 1
    /\ woken' = TRUE
    /\ UNCHANGED <<core, rows, pass, subscribed, gone, ghost, faults, crashes>>

\* What Rollback deletes, and what of it matters to a pass under way.
Above(b) == IF b \in rows THEN {r \in rows : r[1] >= b[1]} ELSE {}
Crosses(b) == Above(b) # {} \/ b \in got

\* Mutant: > for >=.
RollbackAbove ==
    /\ gone # <<>> /\ gone' = Tail(gone)
    /\ rows' = rows \ (Above(Head(gone)) \ {Head(gone)})
    /\ straddled' = (straddled \/ Crosses(Head(gone)))
    /\ UNCHANGED <<core, pass, woken, subscribed, tips, excuse, faults, crashes>>

\* sequence, a D event: blocks.Rollback.
Rollback ==
    /\ gone # <<>> /\ gone' = Tail(gone)
    /\ \/ /\ rows' = rows \ Above(Head(gone))
          /\ straddled' = (straddled \/ Crosses(Head(gone)))
          /\ UNCHANGED <<excuse, faults>>
       \/ Fault /\ excuse' = excuse \cup {"unheard"} /\ UNCHANGED <<rows, straddled>>
    /\ UNCHANGED <<core, pass, woken, subscribed, tips, crashes>>

\* The socket fails and is dialled afresh: what was on its way is lost.
Reconnect ==
    /\ subscribed /\ Fault
    /\ gone' = <<>> /\ tips' = 0
    /\ excuse' = IF gone = <<>> THEN excuse ELSE excuse \cup {"unheard"}
    /\ UNCHANGED <<core, rows, pass, woken, subscribed, straddled, crashes>>

Zmq == StartZMQ \/ HashBlock \/ Rollback \/ Reconnect

-----------------------------------------------------------------------------
(* Bitcoin Core, and a restart.                                            *)

Extend(keep, n) ==
    /\ top' = keep + n
    /\ chain' = [h \in 0..(keep + n) |-> IF h <= keep THEN chain[h] ELSE branch']
    /\ tips' = IF subscribed THEN tips + 1 ELSE tips

Mine ==
    /\ top < MaxTop /\ UNCHANGED branch
    /\ Extend(top, 1)
    /\ UNCHANGED <<rows, pass, woken, subscribed, gone, ghost, faults, crashes>>

\* d blocks are disconnected, from the top, and a longer branch takes their place.
Reorg ==
    /\ branch < MaxReorgs /\ top < MaxTop /\ branch' = branch + 1
    /\ \E d \in 1..MaxDepth :
        /\ d <= top
        /\ Extend(top - d, d + 1)
        /\ gone' = IF subscribed THEN gone \o [i \in 1..d |-> At(top + 1 - i)] ELSE gone
    /\ excuse' = IF subscribed THEN excuse ELSE excuse \cup {"unheard"}
    /\ UNCHANGED <<rows, pass, woken, subscribed, straddled, faults, crashes>>

Core == Mine \/ Reorg

Restart ==
    /\ crashes < MaxCrashes /\ crashes' = crashes + 1
    /\ at' = "tip" /\ got' = {} /\ woken' = FALSE
    /\ subscribed' = FALSE /\ gone' = <<>> /\ tips' = 0 /\ straddled' = FALSE
    /\ excuse' = IF gone = <<>> THEN excuse ELSE excuse \cup {"unheard"}
    /\ UNCHANGED <<core, rows, tip, next, faults>>

Next == CatchUp \/ Zmq \/ Core \/ Restart
Spec == Init /\ [][Next]_vars

\* The ticker never stops, and Core's calls and the reads of the socket end.
FairSpec ==
    /\ Spec
    /\ WF_vars(CatchUp)
    /\ WF_vars(StartZMQ) /\ WF_vars(HashBlock) /\ WF_vars(Rollback)

-----------------------------------------------------------------------------
(* Properties.  "raced" in excuse: a chunk was stored though a block was   *)
(* rolled back while it was made.  "unheard": a block was disconnected and *)
(* the bot was down or connecting, lost the message or could not delete.   *)

TypeOK ==
    /\ top \in Nat /\ branch \in Nat /\ chain \in [0..top -> Nat]
    /\ rows \subseteq Block /\ got \subseteq Block
    /\ at \in {"idle", "tip", "last", "fetch", "flush"}
    /\ tip \in Nat /\ next \in Nat
    /\ woken \in BOOLEAN /\ subscribed \in BOOLEAN /\ straddled \in BOOLEAN
    /\ gone \in Seq(Block) /\ tips \in Nat
    /\ excuse \subseteq {"raced", "unheard"}
    /\ faults \in Nat /\ crashes \in Nat

\* A row off the chain is one whose disconnection is still to be heard of:
\* the cache shows a stale block only as long as the message is on its way.
StaleIsGoing == excuse = {} => \A b \in rows : OnChain(b) \/ Going(b)

\* The table has no gap below its highest block, which is where Update resumes:
\* a height it leaves out is never asked for again.
Gapless(S) == \A h \in Heights(S) : \A k \in 0..h : k \in Heights(S)
NoGap == "raced" \notin excuse => Gapless(rows)

\* A row is written once: it may be deleted, never replaced by another block's
\* without having been deleted first.  The upsert of Flush never finds a row,
\* whatever was rolled back since Update read where the table ends.
RowsNeverRewritten ==
    [][\A b \in rows, c \in rows' : b[1] = c[1] => b = c]_vars

\* Every block of the chain is cached in the end, if no disconnection went
\* unheard or met a chunk half made: the ticker makes up for a signal lost.
CatchesUp ==
    \A h \in 0..MaxTop : h <= top ~> (h <= top /\ At(h) \in rows) \/ excuse # {}

\* Every message is heard and every block to the tip was asked for.
Settled == at = "idle" /\ gone = <<>> /\ tips = 0 /\ subscribed /\ top \in Heights(rows)
Faithful == Gapless(rows) /\ \A b \in rows : OnChain(b)

\* "The replacement chain is cached by the next catch-up": a reorg every
\* message of which is heard leaves no stale row and no gap.
RollbackHeals == Settled /\ "unheard" \notin excuse => Faithful
=============================================================================
