--------------------------- MODULE ServicesProofs ---------------------------
(***************************************************************************)
(* The block cache, the calls to the node and the chats.  BlockCache for   *)
(* any chunk size, chain and bound: the types, that a row is written once, *)
(* and that short of the two excuses the table has no gap and no stale row *)
(* but those whose message is on its way.  CoreConn for any callers,       *)
(* connections and restarts: the types, and that the calls of one          *)
(* connection take turns at the block caches.  Chats for any handlers,     *)
(* languages, states and number of updates: the types, that a prompt is    *)
(* answered once, that the cached language is the row's, and that a        *)
(* message leaves no prompt behind.  Backup and Lifecycle for any number   *)
(* of failures and ends of the process: that the backup is never half a    *)
(* file, that the database is open under every copy and every handler, and *)
(* that a shutdown loses no update it answered.                            *)
(***************************************************************************)
EXTENDS BlockCache, CoreConn, Chats, Backup, Lifecycle, TLAPS

-----------------------------------------------------------------------------
(* The block cache.  What makes its properties inductive is what a pass    *)
(* under way knows of the chunk it holds: it lies above every row (Place), *)
(* its blocks are on the chain or going (ChunkGoing), and with the rows it *)
(* covers every height below the next (ChunkGapless), the last two unless  *)
(* a rollback has straddled the pass.                                      *)

InPass == at \in {"fetch", "flush"}

\* Update asks for no height the chain does not have.
Asked == tip <= top /\ (at = "fetch" => next <= tip)

Place ==
    /\ \A b, c \in rows : b[1] = c[1] => b = c
    /\ \A b, c \in got : b[1] = c[1] => b = c
    /\ InPass => /\ \A b \in rows \cup got : b[1] < next
                 /\ \A b \in rows, c \in got : b[1] < c[1]

ChunkGoing ==
    excuse = {} /\ InPass /\ ~straddled => \A b \in got : OnChain(b) \/ Going(b)

ChunkGapless ==
    InPass /\ "raced" \notin excuse /\ ~straddled =>
        \A k \in Nat : k < next => k \in Heights(rows \cup got)

CacheInv == TypeOK /\ Asked /\ Place

USE ChunkType, TopType, BoundsType

-----------------------------------------------------------------------------

\* What is read from the chain at a height it has is a block on it.
LEMMA AtBlock ==
    ASSUME TypeOK, NEW h \in Nat, h <= top
    PROVE  At(h) \in Block /\ At(h)[1] = h /\ OnChain(At(h))
BY DEF At, Block, OnChain, TypeOK

\* A chain that grows or is reorganised is longer than before.
LEMMA ExtendType ==
    ASSUME TypeOK, Asked, NEW keep \in 0..top, NEW n \in Nat, keep + n > top,
           branch' \in Nat, Extend(keep, n)
    PROVE  /\ top' \in Nat /\ top' > top /\ chain' \in [0..top' -> Nat] /\ tips' \in Nat
           /\ \A h \in 0..keep : chain'[h] = chain[h]
BY DEF TypeOK, Extend

LEMMA CacheStarts == Init => CacheInv
<1> SUFFICES ASSUME Init PROVE CacheInv
  OBVIOUS
<1>1. PICK n \in 0..(StartTop + 1) : rows = {<<h, 0>> : h \in {i \in 0..StartTop : i < n}}
  BY DEF Init
<1>2. rows \subseteq Block /\ \A b, c \in rows : b[1] = c[1] => b = c
  BY <1>1 DEF Block
<1>3. TypeOK
  <2>1. top \in Nat /\ branch \in Nat /\ chain \in [0..top -> Nat]
    BY DEF Init
  <2>2. got \subseteq Block /\ gone \in Seq(Block) /\ excuse \subseteq {"raced", "unheard"}
    BY DEF Init
  <2>3. tip \in Nat /\ next \in Nat /\ tips \in Nat /\ faults \in Nat /\ crashes \in Nat
    BY DEF Init
  <2>4. /\ at \in {"idle", "tip", "last", "fetch", "flush"}
        /\ woken \in BOOLEAN /\ subscribed \in BOOLEAN /\ straddled \in BOOLEAN
    BY DEF Init
  <2> QED
    BY <1>2, <2>1, <2>2, <2>3, <2>4 DEF TypeOK
<1>4. Asked /\ Place
  BY <1>2 DEF Init, Asked, Place, InPass
<1> QED
  BY <1>3, <1>4 DEF CacheInv

LEMMA CatchUpOK == ASSUME CacheInv, CatchUp PROVE CacheInv'
<1> USE DEF CacheInv
<1>1. CASE TickUpdates
  BY <1>1 DEF TickUpdates, TypeOK, Asked, Place, InPass, core, feed, ghost
<1>2. CASE Wake
  BY <1>2 DEF Wake, TypeOK, Asked, Place, InPass, core, feed, ghost
<1>3. CASE GetTip
  BY <1>3 DEF GetTip, Fault, TypeOK, Asked, Place, InPass, core, feed, ghost
<1>4. CASE LastHeight
  <2>1. \A b \in rows : b[1] \in Nat /\ b[1] \in Heights(rows)
    BY DEF TypeOK, Block, Heights
  <2>2. CASE Fault /\ at' = "idle" /\ UNCHANGED next
    BY <1>4, <2>2 DEF LastHeight, Fault, TypeOK, Asked, Place, InPass, core, feed
  <2>3. ASSUME NEW from \in IF rows = {} THEN {0} ELSE {h + 1 : h \in Highest},
               next' = from, at' = (IF from <= tip THEN "fetch" ELSE "idle"), UNCHANGED faults
        PROVE  CacheInv'
    <3>1. from \in Nat /\ \A b \in rows : b[1] < from
      <4>1. CASE rows = {}
        BY <2>3, <4>1
      <4>2. CASE rows # {}
        <5>1. PICK h \in Highest : from = h + 1
          BY <2>3, <4>2
        <5>2. h \in Heights(rows) /\ \A k \in Heights(rows) : k <= h
          BY <5>1 DEF Highest
        <5>3. h \in Nat
          BY <5>2 DEF Heights, TypeOK, Block
        <5> QED
          BY <5>1, <5>2, <5>3, <2>1
      <4> QED
        BY <4>1, <4>2
    <3>2. rows' = rows /\ got' = {} /\ straddled' = FALSE
      BY <1>4 DEF LastHeight
    <3>3. TypeOK'
      BY <1>4, <2>3, <3>1, <3>2 DEF LastHeight, TypeOK, core, feed
    <3>4. Asked' /\ Place'
      BY <1>4, <2>3, <3>1, <3>2 DEF LastHeight, Asked, Place, InPass, core
    <3> QED
      BY <3>3, <3>4
  <2> QED
    BY <1>4, <2>2, <2>3 DEF LastHeight
<1>5. CASE Fetch
  <2>1. CASE Fault /\ at' = "idle" /\ got' = {} /\ UNCHANGED next
    BY <1>5, <2>1 DEF Fetch, Fault, TypeOK, Asked, Place, InPass, core, feed, ghost
  <2>2. CASE /\ got' = got \cup {At(next)} /\ next' = next + 1
             /\ at' = (IF next = tip \/ Cardinality(got') = ChunkSize THEN "flush" ELSE "fetch")
             /\ UNCHANGED faults
    <3>1. next \in Nat /\ tip \in Nat /\ top \in Nat /\ next <= tip /\ tip <= top /\ InPass
      BY <1>5 DEF Fetch, TypeOK, Asked, InPass
    <3>2. At(next) \in Block /\ At(next)[1] = next
      BY <3>1, AtBlock
    <3>3. at' \in {"fetch", "flush"} /\ (at' = "fetch" => next # tip)
      BY <2>2
    <3>4. UNCHANGED <<core, rows, tip, woken, feed, ghost, crashes>>
      BY <1>5 DEF Fetch
    <3>5. TypeOK'
      BY <2>2, <3>1, <3>2, <3>3, <3>4 DEF TypeOK, core, feed, ghost
    <3>6. Asked'
      BY <2>2, <3>1, <3>3, <3>4 DEF Asked, core
    <3>7. Place'
      <4>1. \A b \in rows \cup got : b[1] \in Nat /\ b[1] < next
        BY <3>1 DEF TypeOK, Block, Place
      <4> QED
        BY <2>2, <3>1, <3>2, <3>4, <4>1 DEF Place, InPass
    <3> QED
      BY <3>5, <3>6, <3>7
  <2> QED
    BY <1>5, <2>1, <2>2 DEF Fetch
<1>6. CASE Flush
  <2>1. CASE Fault /\ at' = "idle" /\ UNCHANGED <<rows, excuse>>
    BY <1>6, <2>1 DEF Flush, Fault, TypeOK, Asked, Place, InPass, core, feed
  <2>2. CASE /\ rows' = {b \in rows : b[1] \notin Heights(got)} \cup got
             /\ at' = (IF next <= tip THEN "fetch" ELSE "idle")
             /\ excuse' = (IF straddled THEN excuse \cup {"raced"} ELSE excuse)
             /\ UNCHANGED faults
    <3>1. InPass /\ got' = {} /\ next' = next /\ tip' = tip /\ top' = top
      BY <1>6 DEF Flush, InPass, core
    <3>2. TypeOK'
      BY <1>6, <2>2 DEF Flush, TypeOK, core, feed
    <3>3. Asked'
      BY <2>2, <3>1 DEF Asked
    <3>4. Place'
      <4>1. \A b \in rows, c \in got : b[1] < c[1] /\ b[1] \in Nat /\ c[1] \in Nat
        BY <3>1 DEF Place, TypeOK, Block
      <4> QED
        BY <2>2, <3>1, <4>1 DEF Place, InPass
    <3> QED
      BY <3>2, <3>3, <3>4
  <2> QED
    BY <1>6, <2>1, <2>2 DEF Flush
<1> QED
  BY <1>1, <1>2, <1>3, <1>4, <1>5, <1>6 DEF CatchUp

LEMMA ZmqOK == ASSUME CacheInv, Zmq PROVE CacheInv'
<1> USE DEF CacheInv
<1>1. CASE StartZMQ
  BY <1>1 DEF StartZMQ, TypeOK, Asked, Place, InPass, core, pass, ghost
<1>2. CASE HashBlock
  BY <1>2 DEF HashBlock, TypeOK, Asked, Place, InPass, core, pass, ghost
<1>3. CASE Rollback
  <2>1. gone' \in Seq(Block)
    BY <1>3 DEF Rollback, TypeOK
  <2>2. rows' \subseteq rows
    BY <1>3 DEF Rollback
  <2>3. excuse' \subseteq {"raced", "unheard"} /\ faults' \in Nat
    <3>1. UNCHANGED <<excuse, faults>> \/ (Fault /\ excuse' = excuse \cup {"unheard"})
      BY <1>3, Zenon DEF Rollback
    <3>2. excuse \subseteq {"raced", "unheard"} /\ faults \in Nat
      BY DEF TypeOK
    <3>3. excuse' \subseteq {"raced", "unheard"}
      BY <3>1, <3>2
    <3>4. faults' \in Nat
      BY <3>1, <3>2 DEF Fault
    <3> QED
      BY <3>3, <3>4
  <2>4. straddled' \in BOOLEAN
    <3>1. straddled' = straddled \/ straddled' = (straddled \/ Crosses(Head(gone)))
      BY <1>3, Zenon DEF Rollback
    <3> QED
      BY <3>1, Zenon DEF TypeOK
  <2> QED
    BY <1>3, <2>1, <2>2, <2>3, <2>4 DEF Rollback, TypeOK, Asked, Place, InPass, core, pass
<1>4. CASE Reconnect
  BY <1>4 DEF Reconnect, Fault, TypeOK, Asked, Place, InPass, core, pass
<1> QED
  BY <1>1, <1>2, <1>3, <1>4 DEF Zmq

LEMMA CoreOK == ASSUME CacheInv, Core PROVE CacheInv'
<1> USE DEF CacheInv
<1>1. CASE Mine
  <2>1. top \in 0..top /\ top + 1 > top /\ branch' \in Nat /\ Extend(top, 1)
    BY <1>1 DEF Mine, TypeOK
  <2>2. top' \in Nat /\ top' > top /\ chain' \in [0..top' -> Nat] /\ tips' \in Nat
    BY <2>1, ExtendType
  <2> QED
    BY <1>1, <2>1, <2>2 DEF Mine, TypeOK, Asked, Place, InPass, pass, ghost
<1>2. CASE Reorg
  <2>1. PICK d \in 1..MaxDepth :
          /\ d <= top /\ Extend(top - d, d + 1)
          /\ gone' = IF subscribed THEN gone \o [i \in 1..d |-> At(top + 1 - i)] ELSE gone
    BY <1>2 DEF Reorg
  <2>2. top \in Nat /\ d \in Nat /\ top - d \in 0..top /\ branch' \in Nat /\ (top - d) + (d + 1) > top
    BY <1>2, <2>1 DEF Reorg, TypeOK
  <2>3. top' \in Nat /\ top' > top /\ chain' \in [0..top' -> Nat] /\ tips' \in Nat
    BY <2>1, <2>2, ExtendType
  <2>4. [i \in 1..d |-> At(top + 1 - i)] \in Seq(Block)
    <3>1. \A i \in 1..d : top + 1 - i \in Nat /\ top + 1 - i <= top
      BY <2>1, <2>2
    <3>2. \A i \in 1..d : At(top + 1 - i) \in Block
      BY <3>1, AtBlock
    <3> QED
      BY <2>2, <3>2
  <2>5. gone' \in Seq(Block)
    BY <2>1, <2>4 DEF TypeOK
  <2> QED
    BY <1>2, <2>2, <2>3, <2>5 DEF Reorg, TypeOK, Asked, Place, InPass, pass
<1> QED
  BY <1>1, <1>2 DEF Core

LEMMA NextOK == CacheInv /\ [Next]_vars => CacheInv'
<1> SUFFICES ASSUME CacheInv, [Next]_vars PROVE CacheInv'
  OBVIOUS
<1>1. CASE Restart
  <2>1. TypeOK'
    BY <1>1 DEF Restart, CacheInv, TypeOK, core
  <2>2. Asked' /\ Place'
    BY <1>1 DEF Restart, CacheInv, Asked, Place, InPass, core
  <2> QED
    BY <2>1, <2>2 DEF CacheInv
<1>2. CASE UNCHANGED vars
  BY <1>2 DEF vars, CacheInv, TypeOK, Asked, Place, InPass, core, pass, feed, ghost
<1> QED
  BY <1>1, <1>2, CatchUpOK, ZmqOK, CoreOK DEF Next

THEOREM CacheInvariant == Spec => []CacheInv
BY CacheStarts, NextOK, PTL DEF Spec

\* Every variable keeps its type, whatever Core, the network and the goroutine do.
THEOREM CacheTypes == Spec => []TypeOK
BY CacheInvariant, PTL DEF CacheInv

-----------------------------------------------------------------------------

\* A row is never replaced by another block of its height: the only step that
\* adds rows is Flush, and they lie above every row there is.
THEOREM WrittenOnce == Spec => RowsNeverRewritten
<1>1. ASSUME CacheInv, [Next]_vars PROVE \A b \in rows, c \in rows' : b[1] = c[1] => b = c
  <2>1. \A b, c \in rows : b[1] = c[1] => b = c
    BY <1>1 DEF CacheInv, Place
  <2>2. CASE Flush
    <3>1. rows' \subseteq rows \cup got
      BY <2>2 DEF Flush
    <3>2. \A b \in rows, c \in got : b[1] < c[1] /\ b[1] \in Nat /\ c[1] \in Nat
      BY <1>1, <2>2 DEF Flush, CacheInv, Place, InPass, TypeOK, Block
    <3> QED
      BY <2>1, <3>1, <3>2
  <2>3. CASE ~Flush
    <3>1. rows' \subseteq rows
      BY <1>1, <2>3 DEF Next, CatchUp, TickUpdates, Wake, GetTip, LastHeight, Fetch, Zmq, StartZMQ, HashBlock,
         Rollback, Reconnect, Core, Mine, Reorg, Restart, vars
    <3> QED
      BY <2>1, <3>1
  <2> QED
    BY <2>2, <2>3
<1> QED
  BY <1>1, CacheInvariant, PTL DEF Spec, RowsNeverRewritten

-----------------------------------------------------------------------------

\* What the chain keeps and what goes: a step of Core leaves a block on the
\* chain, or its message is put on the way, or nobody hears it.
LEMMA CoreKeeps ==
    ASSUME CacheInv, Core, NEW b \in Block, OnChain(b) \/ Going(b)
    PROVE  excuse' # {} \/ OnChain(b)' \/ Going(b)'
<1> USE DEF CacheInv
<1>1. CASE Mine
  <2>1. top \in 0..top /\ top + 1 > top /\ branch' \in Nat /\ Extend(top, 1) /\ gone' = gone
    BY <1>1 DEF Mine, TypeOK
  <2>2. top' \in Nat /\ top' > top /\ \A h \in 0..top : chain'[h] = chain[h]
    BY <2>1, ExtendType
  <2>3. b[1] \in Nat /\ top \in Nat
    BY DEF Block, TypeOK
  <2> QED
    BY <2>1, <2>2, <2>3 DEF OnChain, Going
<1>2. CASE Reorg
  <2>1. PICK d \in 1..MaxDepth :
          /\ d <= top /\ Extend(top - d, d + 1)
          /\ gone' = IF subscribed THEN gone \o [i \in 1..d |-> At(top + 1 - i)] ELSE gone
    BY <1>2 DEF Reorg
  <2>2. top \in Nat /\ d \in Nat /\ top - d \in 0..top /\ branch' \in Nat /\ (top - d) + (d + 1) > top
    BY <1>2, <2>1 DEF Reorg, TypeOK
  <2>3. top' \in Nat /\ top' > top /\ \A h \in 0..(top - d) : chain'[h] = chain[h]
    BY <2>1, <2>2, ExtendType
  <2>4. CASE ~subscribed
    BY <1>2, <2>4 DEF Reorg
  <2>5. CASE subscribed
    <3> DEFINE more == [i \in 1..d |-> At(top + 1 - i)]
    <3>1. gone \in Seq(Block) /\ gone' = gone \o more
      BY <2>1, <2>5 DEF TypeOK
    <3>2. more \in Seq(Block) /\ Len(more) = d /\ \A i \in 1..d : more[i] = At(top + 1 - i)
      <4>1. \A i \in 1..d : top + 1 - i \in Nat /\ top + 1 - i <= top
        BY <2>1, <2>2
      <4>2. \A i \in 1..d : At(top + 1 - i) \in Block
        BY <4>1, AtBlock
      <4> QED
        BY <2>2, <4>2
    <3> HIDE DEF more
    <3>3. CASE Going(b)
      <4>1. PICK i \in 1..Len(gone) : gone[i] = b
        BY <3>3 DEF Going
      <4>2. i \in 1..Len(gone') /\ gone'[i] = b
        BY <3>1, <3>2, <4>1
      <4> QED
        BY <4>2 DEF Going
    <3>4. CASE OnChain(b) /\ b[1] <= top - d
      <4>1. b[1] \in 0..(top - d) /\ b[1] <= top'
        BY <2>2, <2>3, <3>4 DEF Block
      <4> QED
        BY <2>3, <3>4, <4>1 DEF OnChain
    <3>5. CASE OnChain(b) /\ b[1] > top - d
      <4> DEFINE i == top + 1 - b[1]
      <4>1. i \in 1..d /\ top + 1 - i = b[1]
        BY <2>2, <3>5 DEF OnChain, Block
      <4>2. b = At(b[1])
        BY <3>5 DEF OnChain, At, Block
      <4>3. more[i] = b
        BY <3>2, <4>1, <4>2
      <4>4. Len(gone) + i \in 1..Len(gone') /\ gone'[Len(gone) + i] = b
        BY <3>1, <3>2, <4>1, <4>3
      <4> QED
        BY <4>4 DEF Going
    <3>6. b[1] <= top - d \/ b[1] > top - d
      BY <2>2 DEF Block
    <3> QED
      BY <3>3, <3>4, <3>5, <3>6
  <2> QED
    BY <2>4, <2>5
<1> QED
  BY <1>1, <1>2 DEF Core

Stale == StaleIsGoing /\ ChunkGoing

LEMMA StaleCatchUp == ASSUME CacheInv, Stale, CatchUp PROVE Stale'
<1> USE DEF Stale, CacheInv
<1>1. gone' = gone /\ top' = top /\ chain' = chain
  BY DEF CatchUp, TickUpdates, Wake, GetTip, LastHeight, Fetch, Flush, core, feed
<1>2. \A b : OnChain(b)' = OnChain(b) /\ Going(b)' = Going(b)
  BY <1>1 DEF OnChain, Going
<1>3. CASE TickUpdates \/ Wake \/ GetTip
  BY <1>2, <1>3 DEF TickUpdates, Wake, GetTip, StaleIsGoing, ChunkGoing, InPass, ghost
<1>4. CASE LastHeight
  BY <1>2, <1>4 DEF LastHeight, StaleIsGoing, ChunkGoing
<1>5. CASE Fetch
  <2>1. next \in Nat /\ next <= top
    BY <1>5 DEF Fetch, Asked, TypeOK
  <2>2. OnChain(At(next))
    BY <2>1, AtBlock
  <2>3. got' \subseteq got \cup {At(next)} /\ rows' = rows /\ excuse' = excuse /\ straddled' = straddled /\ InPass
    BY <1>5 DEF Fetch, ghost, InPass
  <2> QED
    BY <1>2, <2>2, <2>3 DEF StaleIsGoing, ChunkGoing
<1>6. CASE Flush
  <2>1. got' = {} /\ rows' \subseteq rows \cup got /\ InPass
    BY <1>6 DEF Flush, InPass
  <2>2. excuse \subseteq excuse' /\ (rows' = rows \/ ~straddled \/ excuse' # {})
    BY <1>6 DEF Flush
  <2> QED
    BY <1>2, <2>1, <2>2 DEF StaleIsGoing, ChunkGoing
<1> QED
  BY <1>3, <1>4, <1>5, <1>6 DEF CatchUp

LEMMA StaleZmq == ASSUME CacheInv, Stale, Zmq PROVE Stale'
<1> USE DEF Stale, CacheInv
<1>1. top' = top /\ chain' = chain /\ at' = at /\ got' = got
  BY DEF Zmq, StartZMQ, HashBlock, Rollback, Reconnect, core, pass
<1>2. \A b : OnChain(b)' = OnChain(b)
  BY <1>1 DEF OnChain
<1>3. CASE StartZMQ \/ HashBlock
  BY <1>1, <1>2, <1>3 DEF StartZMQ, HashBlock, StaleIsGoing, ChunkGoing, InPass, Going, ghost
<1>4. CASE Rollback
  <2>1. gone \in Seq(Block) /\ gone # <<>> /\ gone' = Tail(gone)
    BY <1>4 DEF Rollback, TypeOK
  <2>2. \A b : Going(b) => b = Head(gone) \/ Going(b)'
    <3> SUFFICES ASSUME NEW b, Going(b), b # Head(gone) PROVE Going(b)'
      OBVIOUS
    <3>1. PICK i \in 1..Len(gone) : gone[i] = b
      BY DEF Going
    <3>2. i # 1 /\ i - 1 \in 1..Len(gone') /\ gone'[i - 1] = b
      BY <2>1, <3>1
    <3> QED
      BY <3>2 DEF Going
  <2>3. CASE excuse' = excuse \cup {"unheard"}
    BY <2>3 DEF StaleIsGoing, ChunkGoing
  <2>4. CASE /\ rows' = rows \ Above(Head(gone))
             /\ straddled' = (straddled \/ Crosses(Head(gone)))
             /\ UNCHANGED <<excuse, faults>>
    <3>1. Head(gone) \in Block
      BY <2>1
    <3>2. Head(gone) \notin rows'
      BY <2>4, <3>1 DEF Above, Block
    <3>3. straddled \/ Head(gone) \in got => straddled'
      BY <2>4, Zenon DEF Crosses
    <3> QED
      BY <1>1, <1>2, <2>2, <2>4, <3>2, <3>3 DEF StaleIsGoing, ChunkGoing, InPass
  <2> QED
    BY <1>4, <2>3, <2>4, Zenon DEF Rollback
<1>5. CASE Reconnect
  <2>1. gone' = gone \/ excuse' # {}
    BY <1>5 DEF Reconnect
  <2>2. rows' = rows /\ straddled' = straddled /\ excuse \subseteq excuse'
    BY <1>5 DEF Reconnect
  <2> QED
    BY <1>1, <1>2, <2>1, <2>2 DEF StaleIsGoing, ChunkGoing, InPass, Going
<1> QED
  BY <1>3, <1>4, <1>5 DEF Zmq

LEMMA StaleCore == ASSUME CacheInv, Stale, Core PROVE Stale'
<1>1. rows' = rows /\ got' = got /\ at' = at /\ straddled' = straddled /\ excuse \subseteq excuse'
  BY DEF Core, Mine, Reorg, pass, ghost
<1>2. \A b \in rows \cup got : b \in Block
  BY DEF CacheInv, TypeOK
<1> QED
  BY <1>1, <1>2, CoreKeeps DEF Stale, StaleIsGoing, ChunkGoing, InPass

LEMMA StaleNext == CacheInv /\ Stale /\ [Next]_vars => Stale'
<1> SUFFICES ASSUME CacheInv, Stale, [Next]_vars PROVE Stale'
  OBVIOUS
<1>1. CASE Restart
  <2>1. rows' = rows /\ excuse \subseteq excuse' /\ top' = top /\ chain' = chain /\ ~InPass'
    BY <1>1 DEF Restart, core, InPass
  <2>2. gone' = gone \/ excuse' # {}
    BY <1>1 DEF Restart
  <2> QED
    BY <2>1, <2>2 DEF Stale, StaleIsGoing, ChunkGoing, OnChain, Going
<1>2. CASE UNCHANGED vars
  BY <1>2 DEF vars, Stale, StaleIsGoing, ChunkGoing, InPass, OnChain, Going, core, pass, feed, ghost
<1> QED
  BY <1>1, <1>2, StaleCatchUp, StaleZmq, StaleCore DEF Next

LEMMA StaleInit == Init => Stale
<1> SUFFICES ASSUME Init PROVE Stale
  OBVIOUS
<1>1. PICK n \in 0..(StartTop + 1) : rows = {<<h, 0>> : h \in {i \in 0..StartTop : i < n}}
  BY DEF Init
<1>2. \A b \in rows : OnChain(b)
  BY <1>1 DEF Init, OnChain
<1> QED
  BY <1>2 DEF Init, Stale, StaleIsGoing, ChunkGoing, InPass

\* A row off the chain is one whose message is on its way, as long as none was
\* lost and no chunk was stored across a rollback.
THEOREM NoStaleRow == Spec => []StaleIsGoing
<1>1. Spec => []Stale
  BY CacheInvariant, StaleInit, StaleNext, PTL DEF Spec
<1> QED
  BY <1>1, PTL DEF Stale

-----------------------------------------------------------------------------

Solid == NoGap /\ ChunkGapless

\* Deleting a block and all above it leaves no gap.
LEMMA CutGapless ==
    ASSUME NEW S \in SUBSET Block, NEW h \in Nat, Gapless(S)
    PROVE  Gapless({b \in S : ~(b[1] >= h)})
<1> DEFINE T == {b \in S : ~(b[1] >= h)}
<1> SUFFICES ASSUME NEW k \in Heights(T), NEW j \in 0..k PROVE j \in Heights(T)
  BY DEF Gapless
<1>1. k \in Heights(S) /\ k < h /\ k \in Nat
  BY DEF Heights, Block
<1>2. PICK b \in S : b[1] = j
  BY <1>1 DEF Gapless, Heights
<1>3. b \in T
  BY <1>1, <1>2
<1> QED
  BY <1>2, <1>3 DEF Heights

LEMMA SolidLast == ASSUME CacheInv, Solid, LastHeight PROVE Solid'
<1> USE DEF Solid, CacheInv
<1>1. rows' = rows /\ excuse' = excuse /\ got' = {}
  BY DEF LastHeight
<1>2. CASE at' # "fetch"
  BY <1>1, <1>2 DEF LastHeight, NoGap, ChunkGapless, InPass
<1>3. CASE at' = "fetch"
  <2>1. next' \in IF rows = {} THEN {0} ELSE {h + 1 : h \in Highest}
    BY <1>3 DEF LastHeight
  <2>2. ASSUME "raced" \notin excuse, NEW k \in Nat, k < next' PROVE k \in Heights(rows)
    <3>1. rows # {}
      BY <2>1, <2>2
    <3>2. PICK h \in Highest : next' = h + 1
      BY <2>1, <3>1
    <3>3. h \in Heights(rows) /\ h \in Nat
      BY <3>2 DEF Highest, Heights, TypeOK, Block
    <3>4. k \in 0..h
      BY <2>2, <3>2, <3>3
    <3> QED
      BY <2>2, <3>3, <3>4 DEF NoGap, Gapless
  <2>3. rows' \cup got' = rows
    BY <1>1
  <2> QED
    BY <1>1, <2>2, <2>3 DEF NoGap, ChunkGapless
<1> QED
  BY <1>2, <1>3

LEMMA SolidFlush == ASSUME CacheInv, Solid, Flush PROVE Solid'
<1> USE DEF Solid, CacheInv
<1>1. got' = {} /\ straddled' = straddled /\ next' = next /\ InPass
  BY DEF Flush, InPass
<1>2. CASE at' = "idle" /\ UNCHANGED <<rows, excuse>>
  BY <1>2 DEF NoGap, ChunkGapless, InPass
<1>3. CASE /\ rows' = {b \in rows : b[1] \notin Heights(got)} \cup got
           /\ excuse' = (IF straddled THEN excuse \cup {"raced"} ELSE excuse)
  <2>1. CASE "raced" \in excuse'
    BY <2>1 DEF NoGap, ChunkGapless
  <2>2. CASE "raced" \notin excuse'
    <3>1. ~straddled /\ "raced" \notin excuse
      BY <1>3, <2>2
    <3>2. Heights(rows') = Heights(rows \cup got)
      BY <1>3 DEF Heights
    <3>3. \A k \in Nat : k < next => k \in Heights(rows')
      BY <1>1, <3>1, <3>2 DEF ChunkGapless
    <3>4. \A b \in rows' : b[1] \in Nat /\ b[1] < next
      BY <1>1, <1>3 DEF Place, TypeOK, Block
    <3>5. \A h \in Heights(rows') : h \in Nat /\ h < next
      BY <3>4 DEF Heights
    <3>6. Gapless(rows')
      <4> SUFFICES ASSUME NEW h \in Heights(rows'), NEW k \in 0..h PROVE k \in Heights(rows')
        BY DEF Gapless
      <4>1. k \in Nat /\ k < next
        BY <3>5 DEF TypeOK
      <4> QED
        BY <3>3, <4>1
    <3>7. Heights(rows' \cup got') = Heights(rows')
      BY <1>1 DEF Heights
    <3> QED
      BY <1>1, <3>3, <3>6, <3>7 DEF NoGap, ChunkGapless
  <2> QED
    BY <2>1, <2>2
<1> QED
  BY <1>2, <1>3 DEF Flush

LEMMA SolidCatchUp == ASSUME CacheInv, Solid, CatchUp PROVE Solid'
<1> USE DEF Solid, CacheInv
<1>1. CASE TickUpdates \/ Wake \/ GetTip
  BY <1>1 DEF TickUpdates, Wake, GetTip, NoGap, ChunkGapless, InPass, ghost
<1>2. CASE Fetch
  <2>1. InPass /\ rows' = rows /\ excuse' = excuse /\ straddled' = straddled
    BY <1>2 DEF Fetch, InPass, ghost
  <2>2. CASE at' = "idle"
    BY <2>1, <2>2 DEF NoGap, ChunkGapless, InPass
  <2>3. CASE got' = got \cup {At(next)} /\ next' = next + 1
    <3>1. next \in Nat /\ At(next)[1] = next
      BY <1>2, AtBlock DEF Fetch, Asked, TypeOK
    <3>2. ASSUME NEW k \in Nat, k < next', "raced" \notin excuse, ~straddled
          PROVE  k \in Heights(rows' \cup got')
      <4>1. CASE k < next
        <5>1. k \in Heights(rows \cup got)
          BY <2>1, <3>2, <4>1 DEF ChunkGapless
        <5> QED
          BY <2>1, <2>3, <5>1 DEF Heights
      <4>2. CASE k = next
        BY <2>3, <3>1, <4>2 DEF Heights
      <4>3. next' = next + 1
        BY <2>3
      <4>4. k < next \/ k = next
        BY <3>1, <3>2, <4>3
      <4> QED
        BY <4>1, <4>2, <4>4
    <3> QED
      BY <2>1, <3>2 DEF NoGap, ChunkGapless
  <2> QED
    BY <1>2, <2>2, <2>3 DEF Fetch
<1> QED
  BY <1>1, <1>2, SolidLast, SolidFlush DEF CatchUp

LEMMA SolidZmq == ASSUME CacheInv, Solid, Zmq PROVE Solid'
<1> USE DEF Solid, CacheInv
<1>1. at' = at /\ got' = got /\ next' = next /\ excuse \subseteq excuse'
  BY DEF Zmq, StartZMQ, HashBlock, Rollback, Reconnect, pass, ghost
<1>2. CASE rows' = rows /\ (straddled => straddled')
  BY <1>1, <1>2 DEF NoGap, ChunkGapless, InPass
<1>3. CASE rows' = rows \ Above(Head(gone)) /\ straddled' = (straddled \/ Crosses(Head(gone))) /\ Rollback
  <2>1. CASE Above(Head(gone)) = {}
    BY <1>2, <1>3, <2>1, Zenon
  <2>2. CASE Above(Head(gone)) # {}
    <3>1. straddled'
      BY <1>3, <2>2, Zenon DEF Crosses
    <3>2. Head(gone) \in rows
      BY <2>2 DEF Above
    <3> DEFINE h == Head(gone)[1]
    <3>3. h \in Nat /\ rows \in SUBSET Block
      BY <3>2 DEF TypeOK, Block
    <3>4. rows' = {b \in rows : ~(b[1] >= h)}
      BY <1>3, <3>2 DEF Above
    <3>5. Gapless(rows) => Gapless(rows')
      BY <3>3, <3>4, CutGapless
    <3> QED
      BY <1>1, <3>1, <3>5 DEF NoGap, ChunkGapless
  <2> QED
    BY <2>1, <2>2
<1>4. Rollback => \/ rows' = rows \ Above(Head(gone)) /\ straddled' = (straddled \/ Crosses(Head(gone)))
                  \/ rows' = rows /\ straddled' = straddled
  BY Zenon DEF Rollback
<1>5. StartZMQ \/ HashBlock \/ Reconnect => rows' = rows /\ straddled' = straddled
  BY DEF StartZMQ, HashBlock, Reconnect, ghost
<1> QED
  BY <1>2, <1>3, <1>4, <1>5 DEF Zmq

LEMMA SolidNext == CacheInv /\ Solid /\ [Next]_vars => Solid'
<1> SUFFICES ASSUME CacheInv, Solid, [Next]_vars PROVE Solid'
  OBVIOUS
<1>1. CASE Core
  BY <1>1 DEF Core, Mine, Reorg, Solid, NoGap, ChunkGapless, InPass, pass, ghost
<1>2. CASE Restart
  BY <1>2 DEF Restart, Solid, NoGap, ChunkGapless, InPass
<1>3. CASE UNCHANGED vars
  BY <1>3 DEF vars, Solid, NoGap, ChunkGapless, InPass, pass, ghost
<1> QED
  BY <1>1, <1>2, <1>3, SolidCatchUp, SolidZmq DEF Next

LEMMA SolidInit == Init => Solid
<1> SUFFICES ASSUME Init PROVE Solid
  OBVIOUS
<1>1. PICK n \in 0..(StartTop + 1) : rows = {<<h, 0>> : h \in {i \in 0..StartTop : i < n}}
  BY DEF Init
<1>2. Heights(rows) = {i \in 0..StartTop : i < n}
  <2>1. \A b \in rows : b[1] \in {i \in 0..StartTop : i < n}
    BY <1>1
  <2>2. \A h \in {i \in 0..StartTop : i < n} : <<h, 0>> \in rows /\ <<h, 0>>[1] = h
    BY <1>1
  <2> QED
    BY <2>1, <2>2 DEF Heights
<1>3. Gapless(rows)
  <2> SUFFICES ASSUME NEW h \in Heights(rows), NEW k \in 0..h PROVE k \in Heights(rows)
    BY DEF Gapless
  <2> QED
    BY <1>2
<1> QED
  BY <1>3 DEF Init, Solid, NoGap, ChunkGapless, InPass

\* As long as no chunk is stored across a rollback, the table has no gap below
\* its highest block, whatever messages are lost.
THEOREM NoGapEver == Spec => []NoGap
<1>1. Spec => []Solid
  BY CacheInvariant, SolidInit, SolidNext, PTL DEF Spec
<1> QED
  BY <1>1, PTL DEF Solid

HIDE BoundsType
HIDE TopType
HIDE ChunkType

-----------------------------------------------------------------------------
(* The connection.                                                         *)

\* The watchdog calls nothing that is cached.
WatchdogPings == pc[Watchdog] \notin Inside \cup {"get", "put"}

\* A call at work on the caches holds the mutex of its connection.
InsideHolds == \A t \in Callers : pc[t] \in Inside => mu[conn[t]] = t

CoreInv == CoreTypes /\ WatchdogPings /\ InsideHolds

USE CoreConstants

LEMMA CoreInitOK == CoreInit => CoreInv
<1> SUFFICES ASSUME CoreInit PROVE CoreInv
  OBVIOUS
<1>1. up \in BOOLEAN
  BY Zenon DEF CoreInit
<1>2. current \in Conns /\ auth \in [Conns -> Nat] /\ mu \in [Conns -> Callers \cup {Nobody}]
  BY DEF CoreInit, Conns
<1>3. hand \in [Threads -> Nat] /\ conn \in [Threads -> Conns \cup {0}] /\ pc = [t \in Threads |-> "idle"]
  BY DEF CoreInit, Conns
<1>4. \A t \in Threads : conn[t] = 0 <=> t # Watchdog
  BY DEF CoreInit
<1>5. failures \in 0..FailedPings /\ secret \in Nat /\ cookie \in Nat /\ restarts \in Nat /\ timeouts \in Nat
  BY DEF CoreInit
<1> QED
  BY <1>1, <1>2, <1>3, <1>4, <1>5 DEF CoreInv, CoreTypes, WatchdogPings, InsideHolds, Inside, Threads

\* What a call that fails leaves behind, whoever made it.
LEMMA FailedOK ==
    ASSUME CoreInv, NEW t \in Threads, Failed(t), pc[t] \in {"wait", "cookie", "dial", "renew"},
           current' = current, mu' = mu, UNCHANGED nodeVars, auth' \in [Conns -> Nat], timeouts' \in Nat
    PROVE  CoreInv'
<1> USE DEF CoreInv, CoreTypes, WatchdogPings, InsideHolds, Inside, Conns, Threads
<1>1. hand' \in [Threads -> Nat] /\ failures' \in 0..FailedPings
  BY DEF Failed, Hold
<1>2. PICK s \in {"dial", "idle"}, c \in Conns \cup {0} :
        /\ pc' = [pc EXCEPT ![t] = s] /\ conn' = [conn EXCEPT ![t] = c]
        /\ c = 0 <=> t # Watchdog
        /\ s = "dial" => t = Watchdog
  <2>1. CASE /\ t = Watchdog /\ failures' = FailedPings /\ current < MaxConns
             /\ pc' = [pc EXCEPT ![t] = "dial"] /\ conn' = [conn EXCEPT ![t] = current + 1]
    <3>1. current + 1 \in Conns \cup {0} /\ current + 1 # 0
      BY <2>1
    <3> QED
      BY <2>1, <3>1
  <2>2. CASE /\ pc' = [pc EXCEPT ![t] = "idle"]
             /\ conn' = [conn EXCEPT ![t] = IF t = Watchdog THEN current ELSE 0]
    <3> DEFINE c == IF t = Watchdog THEN current ELSE 0
    <3>1. c \in Conns \cup {0} /\ (c = 0 <=> t # Watchdog)
      OBVIOUS
    <3> QED
      BY <2>2, <3>1
  <2> QED
    BY <2>1, <2>2 DEF Failed
<1>3. /\ pc' \in [Threads -> Inside \cup {"idle", "get", "put", "send", "wait", "cookie", "renew", "dial", "dialled"}]
      /\ conn' \in [Threads -> Conns \cup {0}]
      /\ \A u \in Threads : conn'[u] = 0 <=> u # Watchdog /\ pc'[u] = "idle"
      /\ WatchdogPings' /\ InsideHolds'
  BY <1>2
<1> QED
  BY <1>1, <1>3 DEF nodeVars

LEMMA CoreStepOK == ASSUME CoreInv, [CoreNext]_coreVars PROVE CoreInv'
<1> USE DEF CoreInv, CoreTypes, WatchdogPings, InsideHolds, Inside, Conns, Threads, connVars, nodeVars
<1>1. ASSUME NEW t \in Threads, Load(t) PROVE CoreInv'
  BY <1>1 DEF Load, Step
<1>2. ASSUME NEW t \in Threads, Enter(t) PROVE CoreInv'
  BY <1>2 DEF Enter, Step, Free
<1>3. ASSUME NEW t \in Threads, Leave(t) PROVE CoreInv'
  <2>1. /\ t \in Callers /\ pc[t] \in Inside /\ mu[conn[t]] = t
    BY <1>3 DEF Leave, Step
  <2>2. PICK s \in {"idle", "send"} : Step(t, pc[t], s) /\ (IF s = "idle" THEN Drop(t) ELSE UNCHANGED conn)
    BY <1>3 DEF Leave, Step
  <2>3. mu' = [mu EXCEPT ![conn[t]] = Nobody] /\ UNCHANGED <<current, auth, hand, failures, nodeVars, timeouts>>
    BY <1>3 DEF Leave, Unlock
  <2>4. InsideHolds'
    <3> SUFFICES ASSUME NEW u \in Callers, pc'[u] \in Inside PROVE mu'[conn'[u]] = u
      OBVIOUS
    <3>1. u # t
      BY <2>2 DEF Step
    <3>2. pc'[u] = pc[u] /\ conn'[u] = conn[u] /\ conn[u] # conn[t]
      BY <2>1, <2>2, <3>1 DEF Step, Drop
    <3> QED
      BY <2>3, <3>2
  <2>5. CASE s = "idle"
    BY <2>1, <2>2, <2>3, <2>4, <2>5 DEF Step, Drop
  <2>6. CASE s = "send"
    BY <2>1, <2>2, <2>3, <2>4, <2>6 DEF Step
  <2> QED
    BY <2>5, <2>6
<1>4. ASSUME NEW t \in Threads, Request(t) PROVE CoreInv'
  BY <1>4 DEF Request, Step, Hold, Free
<1>5. ASSUME NEW t \in Threads, Answered(t) PROVE CoreInv'
  BY <1>5, SMTT(40) DEF Answered, Step, Hold
<1>6. ASSUME NEW t \in Threads, Refused(t) PROVE CoreInv'
  BY <1>6 DEF Refused, Step, Hold
<1>7. ASSUME NEW t \in Threads, NoAnswer(t) PROVE CoreInv'
  <2>1. timeouts' \in Nat /\ Failed(t) /\ pc[t] = "wait"
    BY <1>7 DEF NoAnswer
  <2>2. current' = current /\ mu' = mu /\ auth' = auth /\ UNCHANGED nodeVars
    BY <1>7 DEF NoAnswer
  <2> QED
    BY <2>1, <2>2, FailedOK
<1>8. ASSUME NEW t \in Threads, ReadCookie(t) PROVE CoreInv'
  <2>1. CASE Failed(t) /\ pc[t] \in {"cookie", "dial"}
    BY <1>8, <2>1, FailedOK DEF ReadCookie
  <2>2. CASE (Step(t, "cookie", "renew") \/ Step(t, "dial", "dialled")) /\ Hold(t, cookie) /\ UNCHANGED <<conn, failures>>
    BY <1>8, <2>2 DEF ReadCookie, Step, Hold
  <2> QED
    BY <1>8, <2>1, <2>2 DEF ReadCookie
<1>9. ASSUME NEW t \in Threads, Renew(t) PROVE CoreInv'
  <2>1. auth' \in [Conns -> Nat]
    BY <1>9 DEF Renew, Free
  <2>2. CASE pc[t] = "renew" /\ Failed(t)
    BY <1>9, <2>1, <2>2, FailedOK DEF Renew
  <2>3. CASE Step(t, "dialled", "send") /\ Hold(t, 0) /\ UNCHANGED <<conn, failures>>
    BY <1>9, <2>1, <2>3 DEF Renew, Step, Hold
  <2> QED
    BY <1>9, <2>2, <2>3 DEF Renew
<1>10. CASE Tick
  BY <1>10 DEF Tick, Step
<1>11. CASE NodeStops \/ NodeStarts
  <2>1. up' \in BOOLEAN
    BY <1>11, Zenon DEF NodeStops, NodeStarts
  <2>2. secret' \in Nat /\ cookie' \in Nat /\ restarts' \in Nat
    BY <1>11 DEF NodeStops, NodeStarts
  <2>3. UNCHANGED <<current, auth, mu, pc, conn, hand, failures, timeouts>>
    BY <1>11 DEF NodeStops, NodeStarts, threadVars
  <2> QED
    BY <2>1, <2>2, <2>3
<1>12. CASE UNCHANGED coreVars
  BY <1>12 DEF coreVars, threadVars
<1> QED
  BY <1>1, <1>2, <1>3, <1>4, <1>5, <1>6, <1>7, <1>8, <1>9, <1>10, <1>11, <1>12 DEF CoreNext, CallStep

LEMMA CoreInvariant == CoreSpec => []CoreInv
<1>1. CoreInv /\ [CoreNext]_coreVars => CoreInv'
  BY CoreStepOK
<1> QED
  BY CoreInitOK, <1>1, PTL DEF CoreSpec

\* The types of the connections, the calls and the watchdog of core.go.
THEOREM CoreTyped == CoreSpec => []CoreTypes
<1>1. CoreInv => CoreTypes
  BY DEF CoreInv
<1> QED
  BY <1>1, CoreInvariant, PTL

\* conn's mutex keeps the calls of one connection apart at the block caches,
\* whatever the watchdog swaps meanwhile.
THEOREM CacheTurns == CoreSpec => []CachePerConnection
<1>1. CoreInv => CachePerConnection
  <2> SUFFICES ASSUME CoreInv, NEW s \in Callers, NEW t \in Callers, s # t,
                      pc[s] \in Inside, pc[t] \in Inside
               PROVE  conn[s] # conn[t]
    BY DEF CachePerConnection
  <2>1. mu[conn[s]] = s /\ mu[conn[t]] = t
    BY DEF CoreInv, InsideHolds
  <2> QED
    BY <2>1
<1> QED
  BY <1>1, CoreInvariant, PTL

HIDE CoreConstants

-----------------------------------------------------------------------------
(* The chats.                                                              *)

Steps == {"idle", "store", "cache", "log", "logging", "set", "take", "drop", "lookup", "fill", "send", "telling"}

\* A handler that is about a state has one.
HasState == \A h \in Handlers : step[h] # "idle" => which[h] \in 1..Len(States)

\* A state that waits has not been answered.
Waiting == state # NoState => answers = 0

\* What is stored and still to be cached is the row's language; so is what a
\* miss has read, unless an update is about to cache another.
InCache == \E h \in Handlers : step[h] = "cache"
Cached ==
    /\ \A h \in Handlers : step[h] = "fill" <=> langMu = h
    /\ ~crossed => \A h \in Handlers : step[h] = "cache" => says[h] = lang
    /\ ~crossed /\ ~InCache => \A h \in Handlers : step[h] = "fill" => found[h] = lang

\* The states a message has tried are not set, and one that was not taken as the
\* answer is set only if it has lapsed, unless a command has set one meanwhile or
\* the database failed.
Before == {"store", "cache", "log", "logging"}
Tried ==
    \A h \in Handlers : work[h] = "text" =>
        /\ step[h] \in Before => which[h] = 1
        /\ ~disturbed[h] /\ errors = 0 =>
            /\ step[h] \in {"take", "drop"} => \A j \in 1..Len(States) : j < which[h] => state # States[j]
            /\ step[h] = "drop" => (state = States[which[h]] => lapsed)

ChatsInv == ChatsTypes /\ HasState /\ Waiting /\ AnsweredOnce

USE ChatsConstants

-----------------------------------------------------------------------------
(* The types and the answers.                                              *)

LEMMA StateIsNamed == \A i \in 1..Len(States) : States[i] # NoState /\ States[i] \in Prompts
BY DEF Prompts

LEMMA ChatsInitOK == ChatsInit => ChatsInv
<1> SUFFICES ASSUME ChatsInit PROVE ChatsInv
  OBVIOUS
<1>1. known \in BOOLEAN /\ lapsed \in BOOLEAN /\ crossed \in BOOLEAN /\ disturbed \in [Handlers -> BOOLEAN]
  BY Zenon DEF ChatsInit
<1>2. /\ lang \in Langs \cup {NoLang} /\ state \in Prompts \cup {NoState}
      /\ langs \in Langs \cup {NoLang, Uncached} /\ langMu \in Handlers \cup {Unlocked}
  BY DEF ChatsInit
<1>3. /\ step = [h \in Handlers |-> "idle"] /\ step \in [Handlers -> Steps]
      /\ work \in [Handlers -> Works] /\ says \in [Handlers -> Langs \cup {NoLang}]
      /\ which \in [Handlers -> 0..Len(States)] /\ found \in [Handlers -> Langs \cup {NoLang}]
  BY DEF ChatsInit, Works, Steps
<1>4. updates \in Nat /\ errors \in Nat /\ answers = 0
  BY DEF ChatsInit
<1> QED
  BY <1>1, <1>2, <1>3, <1>4 DEF ChatsInv, ChatsTypes, HasState, Waiting, AnsweredOnce, Steps

\* The part of a step that the handler's own variables are about.
HandlerTypes ==
    /\ step \in [Handlers -> Steps] /\ work \in [Handlers -> Works]
    /\ says \in [Handlers -> Langs \cup {NoLang}] /\ which \in [Handlers -> 0..Len(States)]
    /\ found \in [Handlers -> Langs \cup {NoLang}]
    /\ updates \in Nat /\ errors \in Nat
    /\ HasState

\* The rest of the types, and the answers.
Flags == known \in BOOLEAN /\ lapsed \in BOOLEAN /\ crossed \in BOOLEAN /\ disturbed \in [Handlers -> BOOLEAN]
RowTypes ==
    /\ lang \in Langs \cup {NoLang} /\ state \in Prompts \cup {NoState}
    /\ langs \in Langs \cup {NoLang, Uncached} /\ langMu \in Handlers \cup {Unlocked}
    /\ answers \in Nat /\ Waiting /\ AnsweredOnce

LEMMA Parts == ChatsInv <=> HandlerTypes /\ Flags /\ RowTypes
BY DEF ChatsInv, HandlerTypes, Flags, RowTypes, ChatsTypes, Steps, AnsweredOnce

ChatStep(h) ==
    \/ Receive(h) \/ Store(h) \/ Cache(h) \/ Log(h) \/ SetState(h) \/ Take(h) \/ DropLapsed(h)
    \/ Lookup(h) \/ Fill(h) \/ SendReply(h)

\* A message that is no answer stays in the types.
LEMMA UntakenMoves ==
    ASSUME HandlerTypes, NEW h \in Handlers, step[h] # "idle", Untaken(h),
           UNCHANGED <<says, found, updates>>, errors' \in Nat
    PROVE  HandlerTypes'
<1> USE DEF HandlerTypes, HasState, To
<1>1. which[h] \in 1..Len(States) /\ work[h] \in Works
  OBVIOUS
<1>2. CASE To(h, "lookup") /\ UNCHANGED <<work, which>>
  BY <1>1, <1>2 DEF Steps
<1>3. CASE which[h] < Len(States) /\ To(h, "take") /\ which' = [which EXCEPT ![h] = @ + 1] /\ UNCHANGED work
  <2>1. which[h] + 1 \in 1..Len(States)
    BY <1>1, <1>3
  <2> QED
    BY <1>3, <2>1 DEF Steps
<1>4. CASE Over(h)
  BY <1>4 DEF Over, Steps, Works
<1> QED
  BY <1>2, <1>3, <1>4 DEF Untaken

LEMMA HandlerStep == ASSUME HandlerTypes, RowTypes, NEW h \in Handlers, ChatStep(h) PROVE HandlerTypes'
<1> USE DEF HandlerTypes, HasState, Steps, Works, To, Error
<1>1. CASE Receive(h)
  BY <1>1 DEF Receive
<1>2. CASE Store(h)
  BY <1>2 DEF Store
<1>3. CASE Cache(h)
  BY <1>3 DEF Cache
<1>4. CASE Log(h)
  BY <1>4 DEF Log
<1>5. CASE SetState(h)
  BY <1>5 DEF SetState
<1>6. CASE Take(h)
  <2>1. errors' \in Nat /\ step[h] # "idle" /\ UNCHANGED <<says, found, updates>>
    BY <1>6 DEF Take
  <2>2. CASE Untaken(h)
    BY <2>1, <2>2, UntakenMoves
  <2>3. CASE To(h, "drop") /\ UNCHANGED <<work, which>>
    BY <2>1, <2>3
  <2>4. CASE To(h, "lookup") /\ UNCHANGED <<work, which>>
    BY <2>1, <2>4
  <2>5. CASE work' = [work EXCEPT ![h] = "full"] /\ UNCHANGED <<step, which>>
    BY <2>1, <2>5
  <2> QED
    BY <1>6, <2>2, <2>3, <2>4, <2>5 DEF Take
<1>7. CASE DropLapsed(h)
  <2>1. errors' \in Nat /\ step[h] # "idle" /\ UNCHANGED <<says, found, updates>>
    BY <1>7 DEF DropLapsed
  <2> QED
    BY <1>7, <2>1, UntakenMoves DEF DropLapsed
<1>8. CASE Lookup(h)
  <2>1. errors' \in Nat /\ step[h] # "idle" /\ UNCHANGED <<says, work, which, updates>>
    BY <1>8 DEF Lookup
  <2>2. CASE To(h, "fill") /\ found' = [found EXCEPT ![h] = lang] /\ lang \in Langs \cup {NoLang}
    BY <2>1, <2>2
  <2>3. CASE To(h, "send") /\ UNCHANGED found
    BY <2>1, <2>3
  <2> QED
    BY <1>8, <2>2, <2>3 DEF Lookup, RowTypes
<1>9. CASE Fill(h)
  BY <1>9 DEF Fill
<1>10. CASE SendReply(h)
  <2>1. UNCHANGED <<says, found, updates, errors>>
    BY <1>10 DEF SendReply
  <2>2. CASE step[h] = "send" /\ To(h, "telling") /\ UNCHANGED <<work, which>>
    BY <2>1, <2>2
  <2>3. CASE Over(h)
    BY <2>1, <2>3 DEF Over
  <2> QED
    BY <1>10, <2>2, <2>3 DEF SendReply
<1> QED
  BY <1>1, <1>2, <1>3, <1>4, <1>5, <1>6, <1>7, <1>8, <1>9, <1>10 DEF ChatStep

LEMMA FlagStep == ASSUME Flags, NEW h \in Handlers, ChatStep(h) PROVE Flags'
<1> USE Zenon DEF Flags, rowVars, ghostVars
<1>1. CASE Receive(h)
  BY <1>1 DEF Receive
<1>2. CASE Store(h)
  BY <1>2 DEF Store
<1>3. CASE Cache(h)
  BY <1>3 DEF Cache
<1>4. CASE Log(h)
  BY <1>4 DEF Log
<1>5. CASE SetState(h)
  BY <1>5 DEF SetState, Disturb
<1>6. CASE Take(h)
  BY <1>6 DEF Take, Untaken, Over, Clear
<1>7. CASE DropLapsed(h)
  BY <1>7 DEF DropLapsed, Untaken, Over, Clear
<1>8. CASE Lookup(h)
  BY <1>8 DEF Lookup
<1>9. CASE Fill(h)
  BY <1>9 DEF Fill
<1>10. CASE SendReply(h)
  BY <1>10 DEF SendReply, Over
<1> QED
  BY <1>1, <1>2, <1>3, <1>4, <1>5, <1>6, <1>7, <1>8, <1>9, <1>10 DEF ChatStep

LEMMA RowStep == ASSUME HandlerTypes, RowTypes, NEW h \in Handlers, ChatStep(h) PROVE RowTypes'
<1> USE DEF RowTypes, Waiting, AnsweredOnce, rowVars, langVars, ghostVars
<1>1. CASE Receive(h)
  BY <1>1 DEF Receive
<1>2. CASE Store(h)
  BY <1>2 DEF Store, HandlerTypes
<1>3. CASE Cache(h)
  BY <1>3 DEF Cache, HandlerTypes
<1>4. CASE Log(h)
  BY <1>4 DEF Log
<1>5. CASE SetState(h)
  BY <1>5, StateIsNamed DEF SetState, HandlerTypes, HasState
<1>6. CASE Take(h)
  <2>1. UNCHANGED <<lang, langs, langMu>>
    BY <1>6 DEF Take
  <2>2. CASE state = States[which[h]] /\ state' = NoState /\ answers' \in {answers, answers + 1}
    <3>1. which[h] \in 1..Len(States)
      BY <1>6 DEF Take, HandlerTypes, HasState
    <3>2. answers = 0
      BY <2>2, <3>1, StateIsNamed
    <3> QED
      BY <2>1, <2>2, <3>2
  <2>3. CASE UNCHANGED <<state, answers>>
    BY <2>1, <2>3
  <2> QED
    BY <1>6, <2>2, <2>3 DEF Take, Clear
<1>7. CASE DropLapsed(h)
  BY <1>7 DEF DropLapsed, Clear
<1>8. CASE Lookup(h)
  BY <1>8 DEF Lookup
<1>9. CASE Fill(h)
  BY <1>9 DEF Fill, HandlerTypes
<1>10. CASE SendReply(h)
  BY <1>10 DEF SendReply
<1> QED
  BY <1>1, <1>2, <1>3, <1>4, <1>5, <1>6, <1>7, <1>8, <1>9, <1>10 DEF ChatStep

LEMMA ChatsStepOK == ASSUME ChatsInv, [ChatsNext]_chatVars PROVE ChatsInv'
<1> DEFINE Kept == HandlerTypes' /\ Flags' /\ RowTypes'
<1>1. HandlerTypes /\ Flags /\ RowTypes
  BY Parts
<1>2. ASSUME NEW h \in Handlers, ChatStep(h) PROVE Kept
  BY <1>1, <1>2, HandlerStep, FlagStep, RowStep
<1>3. ASSUME Lapse \/ Evict PROVE Kept
  <2>1. HandlerTypes'
    BY <1>1, <1>3 DEF Lapse, Evict, HandlerTypes, HasState, handlerVars
  <2>2. Flags'
    BY <1>1, <1>3, Zenon DEF Lapse, Evict, Flags, rowVars, ghostVars
  <2>3. RowTypes'
    BY <1>1, <1>3 DEF Lapse, Evict, RowTypes, Waiting, AnsweredOnce, rowVars, langVars, ghostVars
  <2> QED
    BY <2>1, <2>2, <2>3
<1>4. ASSUME UNCHANGED chatVars PROVE Kept
  <2>1. HandlerTypes'
    BY <1>1, <1>4 DEF HandlerTypes, HasState, handlerVars, chatVars
  <2>2. Flags'
    BY <1>1, <1>4, Zenon DEF Flags, rowVars, ghostVars, chatVars
  <2>3. RowTypes'
    BY <1>1, <1>4 DEF RowTypes, Waiting, AnsweredOnce, rowVars, langVars, ghostVars, chatVars
  <2> QED
    BY <2>1, <2>2, <2>3
<1>5. Kept
  BY <1>2, <1>3, <1>4 DEF ChatsNext, ChatStep
<1>6. (ChatsInv <=> HandlerTypes /\ Flags /\ RowTypes)'
  BY Parts, PTL
<1> QED
  BY <1>5, <1>6

LEMMA ChatsInvariant == ChatsSpec => []ChatsInv
<1>1. ChatsInv /\ [ChatsNext]_chatVars => ChatsInv'
  BY ChatsStepOK
<1> QED
  BY ChatsInitOK, <1>1, PTL DEF ChatsSpec

\* The types of a chat's row, the language cache and the handlers.
THEOREM ChatsTyped == ChatsSpec => []ChatsTypes
<1>1. ChatsInv => ChatsTypes
  BY DEF ChatsInv
<1> QED
  BY <1>1, ChatsInvariant, PTL

\* Take's conditional update lets one message answer a bare command, however
\* many are handled at once.
THEOREM OneAnswer == ChatsSpec => []AnsweredOnce
<1>1. ChatsInv => AnsweredOnce
  BY DEF ChatsInv
<1> QED
  BY <1>1, ChatsInvariant, PTL

-----------------------------------------------------------------------------
(* The language.                                                           *)

LEMMA CachedInit == ChatsInit => Cached /\ LangAgrees
<1> SUFFICES ASSUME ChatsInit PROVE Cached /\ LangAgrees
  OBVIOUS
<1>1. langs = Uncached /\ langMu = Unlocked /\ \A h \in Handlers : step[h] = "idle"
  BY DEF ChatsInit
<1> QED
  BY <1>1 DEF Cached, LangAgrees

\* A step that leaves row, cache and mutex alone, and takes no handler to or
\* from the two steps that matter.
LEMMA CachedElsewhere ==
    ASSUME ChatsInv, Cached, LangAgrees, UNCHANGED <<lang, langVars, crossed>>,
           \A g \in Handlers : /\ step'[g] = "cache" <=> step[g] = "cache"
                               /\ step'[g] = "fill" <=> step[g] = "fill"
                               /\ step[g] = "cache" => says'[g] = says[g]
                               /\ step[g] = "fill" => found'[g] = found[g]
    PROVE  Cached' /\ LangAgrees'
BY DEF Cached, LangAgrees, InCache, langVars

LEMMA CachedStep == ASSUME ChatsInv, Cached, LangAgrees, [ChatsNext]_chatVars PROVE Cached' /\ LangAgrees'
<1> USE DEF To
<1>1. HandlerTypes /\ RowTypes
  BY Parts
<1>2. step \in [Handlers -> Steps] /\ says \in [Handlers -> Langs \cup {NoLang}] /\ found \in [Handlers -> Langs \cup {NoLang}]
  BY <1>1 DEF HandlerTypes
<1>3. ASSUME NEW h \in Handlers, Store(h) PROVE Cached' /\ LangAgrees'
  <2>1. UNCHANGED <<langs, langMu, says, found>>
    BY <1>3 DEF Store, langVars
  <2>2. step[h] = "store" /\ step' = [step EXCEPT ![h] = IF says[h] = NoLang THEN "log" ELSE "cache"]
    BY <1>3 DEF Store
  <2>3. CASE says[h] = NoLang
    <3>1. UNCHANGED lang /\ (crossed' => crossed) /\ (crossed => crossed')
      BY <1>3, <2>3, Zenon DEF Store
    <3> QED
      BY <1>2, <2>1, <2>2, <2>3, <3>1 DEF Cached, LangAgrees, InCache
  <2>4. CASE says[h] # NoLang
    <3>1. ~crossed' => lang' = says[h] /\ \A g \in Handlers \ {h} : step[g] # "cache"
      BY <1>3, <2>4, Zenon DEF Store
    <3> QED
      BY <1>2, <2>1, <2>2, <2>4, <3>1 DEF Cached, LangAgrees, InCache
  <2> QED
    BY <2>3, <2>4
<1>4. ASSUME NEW h \in Handlers, Cache(h) PROVE Cached' /\ LangAgrees'
  <2>1. /\ step[h] = "cache" /\ langMu = Unlocked /\ step' = [step EXCEPT ![h] = "log"]
        /\ langs' = says[h] /\ says' = [says EXCEPT ![h] = NoLang]
        /\ UNCHANGED <<lang, langMu, found, crossed>>
    BY <1>4 DEF Cache, rowVars, ghostVars
  <2>2. \A g \in Handlers : step[g] # "fill"
    BY <2>1 DEF Cached
  <2> QED
    BY <1>2, <2>1, <2>2 DEF Cached, LangAgrees, InCache
<1>5. ASSUME NEW h \in Handlers, Lookup(h) PROVE Cached' /\ LangAgrees'
  <2>1. step[h] = "lookup" /\ langMu = Unlocked /\ UNCHANGED <<lang, langs, says, crossed>>
    BY <1>5 DEF Lookup, rowVars, ghostVars
  <2>2. CASE To(h, "fill") /\ langMu' = h /\ found' = [found EXCEPT ![h] = lang]
    BY <1>2, <2>1, <2>2 DEF Cached, LangAgrees, InCache
  <2>3. CASE To(h, "send") /\ UNCHANGED <<langMu, found>>
    BY <1>2, <2>1, <2>3 DEF Cached, LangAgrees, InCache
  <2> QED
    BY <1>5, <2>2, <2>3 DEF Lookup
<1>6. ASSUME NEW h \in Handlers, Fill(h) PROVE Cached' /\ LangAgrees'
  <2>1. /\ step[h] = "fill" /\ step' = [step EXCEPT ![h] = "send"]
        /\ langs' = found[h] /\ langMu' = Unlocked
        /\ UNCHANGED <<lang, says, crossed>>
    BY <1>6 DEF Fill, rowVars, ghostVars
  <2>2. \A g \in Handlers : step[g] = "fill" => g = h
    BY <2>1 DEF Cached
  <2> QED
    BY <1>2, <2>1, <2>2 DEF Cached, LangAgrees, InCache
<1>7. CASE Evict
  BY <1>7 DEF Evict, Cached, LangAgrees, InCache, rowVars, handlerVars, ghostVars
<1>8. ASSUME NEW h \in Handlers, Receive(h) \/ Log(h) \/ SetState(h) \/ Take(h) \/ DropLapsed(h) \/ SendReply(h)
      PROVE  Cached' /\ LangAgrees'
  <2>1. UNCHANGED <<lang, langVars, crossed, found>>
    BY <1>8 DEF Receive, Log, SetState, Take, DropLapsed, SendReply, rowVars, ghostVars
  <2>2. step[h] \notin {"cache", "fill"} /\ \E s \in Steps \ {"cache", "fill"} : step' = [step EXCEPT ![h] = s]
    BY <1>2, <1>8 DEF Receive, Log, SetState, Take, DropLapsed, SendReply, Untaken, Over, Steps
  <2>3. \A g \in Handlers : g # h => says'[g] = says[g]
    BY <1>2, <1>8 DEF Receive, Log, SetState, Take, DropLapsed, SendReply
  <2> QED
    BY <1>2, <2>1, <2>2, <2>3, CachedElsewhere
<1>9. CASE Lapse \/ UNCHANGED chatVars
  <2>1. UNCHANGED <<lang, langVars, crossed, step, says, found>>
    BY <1>9 DEF Lapse, chatVars, rowVars, handlerVars, ghostVars
  <2> QED
    BY <2>1, CachedElsewhere
<1> QED
  BY <1>3, <1>4, <1>5, <1>6, <1>7, <1>8, <1>9 DEF ChatsNext

\* The mutex Language holds over its query keeps a language read before an
\* update from being cached after the update's own: the entry is the row's.
THEOREM LanguageIsRows == ChatsSpec => []LangAgrees
<1>1. ChatsInv /\ Cached /\ LangAgrees /\ [ChatsNext]_chatVars => (Cached /\ LangAgrees)'
  BY CachedStep
<1> QED
  BY CachedInit, <1>1, ChatsInvariant, PTL DEF ChatsSpec

-----------------------------------------------------------------------------
(* What a message leaves.                                                  *)

LEMMA TriedInit == ChatsInit => Tried
BY DEF ChatsInit, Tried, Before

\* A step of one handler that leaves the state alone and makes this handler no
\* longer look for one.
LEMMA TriedElsewhere ==
    ASSUME ChatsInv, Tried, NEW h \in Handlers, UNCHANGED <<state, lapsed>>, errors' = 0 => errors = 0,
           step'[h] \notin {"take", "drop"}, step'[h] \in Before /\ work'[h] = "text" => which'[h] = 1,
           \A g \in Handlers \ {h} : /\ step'[g] = step[g] /\ work'[g] = work[g]
                                     /\ which'[g] = which[g] /\ disturbed'[g] = disturbed[g]
    PROVE  Tried'
BY DEF Tried

LEMMA TriedTake == ASSUME ChatsInv, Tried, NEW h \in Handlers, Take(h) \/ DropLapsed(h) PROVE Tried'
<1> USE DEF To
<1>1. HandlerTypes /\ RowTypes
  BY Parts
<1>2. /\ step \in [Handlers -> Steps] /\ work \in [Handlers -> Works]
      /\ which \in [Handlers -> 0..Len(States)] /\ which[h] \in 1..Len(States) /\ errors \in Nat
      /\ step[h] \in {"take", "drop"}
  BY <1>1 DEF HandlerTypes, HasState, Take, DropLapsed
<1>3. \A g \in Handlers \ {h} : /\ step'[g] = step[g] /\ work'[g] = work[g]
                                /\ which'[g] = which[g] /\ disturbed'[g] = disturbed[g]
  <2>1. CASE Untaken(h)
    BY <1>2, <2>1, Parts DEF Untaken, Over, ChatsInv, ChatsTypes
  <2> QED
    BY <1>2, <2>1 DEF Take, DropLapsed
<1>4. CASE Error
  <2>1. errors' # 0
    BY <1>2, <1>4 DEF Error
  <2>2. step'[h] \notin Before
    BY <1>2, <1>4 DEF Take, DropLapsed, Untaken, Over, Before
  <2> QED
    BY <1>3, <2>1, <2>2 DEF Tried
<1>5. CASE state' = NoState
  <2>1. step'[h] \notin Before
    BY <1>2 DEF Take, DropLapsed, Untaken, Over, Before
  <2>2. \A g \in Handlers : step'[g] = "drop" => which'[g] \in 1..Len(States)
    BY <1>1, HandlerStep DEF ChatStep, HandlerTypes, HasState
  <2> QED
    BY <1>3, <1>5, <2>1, <2>2, StateIsNamed DEF Tried
<1>6. CASE /\ Take(h) /\ ~(state = States[which[h]] /\ ~lapsed) /\ To(h, "drop")
           /\ UNCHANGED <<state, lapsed, work, which, errors, disturbed>>
  BY <1>2, <1>6 DEF Take, Tried, Before
<1>7. CASE DropLapsed(h) /\ ~(state = States[which[h]] /\ lapsed) /\ UNCHANGED <<state, lapsed, errors>>
  <2>1. Untaken(h) /\ step[h] = "drop"
    BY <1>7 DEF DropLapsed
  <2>2. CASE /\ work[h] = "text" /\ which[h] < Len(States)
             /\ To(h, "take") /\ which' = [which EXCEPT ![h] = @ + 1] /\ UNCHANGED <<work, disturbed>>
    <3>1. step'[h] = "take" /\ which'[h] = which[h] + 1
      BY <1>2, <2>2
    <3>2. ~disturbed[h] /\ errors = 0 => \A j \in 1..Len(States) : j < which[h] + 1 => state # States[j]
      BY <1>2, <1>7, <2>1, <2>2 DEF Tried
    <3> QED
      BY <1>3, <1>7, <2>2, <3>1, <3>2 DEF Tried, Before
  <2>3. CASE To(h, "lookup") \/ Over(h)
    <3>1. step'[h] \in {"lookup", "idle"}
      BY <1>2, <2>3 DEF Over
    <3> QED
      BY <1>3, <1>7, <3>1, TriedElsewhere DEF Before
  <2> QED
    BY <2>1, <2>2, <2>3 DEF Untaken
<1> QED
  BY <1>4, <1>5, <1>6, <1>7 DEF Take, DropLapsed, Clear

LEMMA TriedStep == ASSUME ChatsInv, Tried, [ChatsNext]_chatVars PROVE Tried'
<1> USE DEF To
<1>1. HandlerTypes /\ RowTypes
  BY Parts
<1>2. /\ step \in [Handlers -> Steps] /\ work \in [Handlers -> Works]
      /\ which \in [Handlers -> 0..Len(States)] /\ errors \in Nat
      /\ disturbed \in [Handlers -> BOOLEAN]
  BY <1>1 DEF HandlerTypes, ChatsInv, ChatsTypes
<1>3. ASSUME NEW h \in Handlers,
             Receive(h) \/ Store(h) \/ Cache(h) \/ Lookup(h) \/ Fill(h) \/ SendReply(h)
      PROVE  Tried'
  <2>1. UNCHANGED <<state, lapsed>>
    BY <1>3 DEF Receive, Store, Cache, Lookup, Fill, SendReply, rowVars
  <2>2. errors' = 0 => errors = 0
    BY <1>2, <1>3 DEF Receive, Store, Cache, Lookup, Fill, SendReply, Error
  <2>3. step'[h] \notin {"take", "drop"}
    BY <1>2, <1>3 DEF Receive, Store, Cache, Lookup, Fill, SendReply, Over
  <2>4. \A g \in Handlers \ {h} : /\ step'[g] = step[g] /\ work'[g] = work[g]
                                  /\ which'[g] = which[g] /\ disturbed'[g] = disturbed[g]
    BY <1>2, <1>3 DEF Receive, Store, Cache, Lookup, Fill, SendReply, Over, ghostVars
  <2>5. step'[h] \in Before /\ work'[h] = "text" => which'[h] = 1
    BY <1>2, <1>3 DEF Receive, Store, Cache, Lookup, Fill, SendReply, Over, Tried, Before
  <2> QED
    BY <2>1, <2>2, <2>3, <2>4, <2>5, TriedElsewhere
<1>4. ASSUME NEW h \in Handlers, Log(h) PROVE Tried'
  BY <1>2, <1>4 DEF Log, Tried, Before, rowVars, ghostVars
<1>5. ASSUME NEW h \in Handlers, SetState(h) PROVE Tried'
  <2>1. \A g \in Handlers : step[g] # "idle" => disturbed'[g]
    BY <1>5, Zenon DEF SetState, Disturb
  <2>2. step' = [step EXCEPT ![h] = "lookup"] /\ UNCHANGED <<work, which>>
    BY <1>5 DEF SetState
  <2> QED
    BY <1>2, <2>1, <2>2 DEF Tried, Before
<1>6. CASE Lapse
  BY <1>6 DEF Lapse, Tried, handlerVars, ghostVars
<1>7. CASE Evict \/ UNCHANGED chatVars
  BY <1>7 DEF Evict, chatVars, rowVars, handlerVars, ghostVars, Tried
<1> QED
  BY <1>3, <1>4, <1>5, <1>6, <1>7, TriedTake DEF ChatsNext

\* The last state tried leaves none, fresh or lapsed: the end of the tries of
\* message() for a text that answered nothing.
THEOREM NothingLeft == ChatsSpec => TextLeavesNothing
<1> DEFINE Finishes(h) == step[h] = "drop" /\ step'[h] = "idle" /\ ~disturbed[h] /\ errors' = 0
<1>1. ASSUME ChatsInv, Tried, [ChatsNext]_chatVars, NEW h \in Handlers, Finishes(h) PROVE state' = NoState
  <2>1. HandlerTypes /\ RowTypes
    BY <1>1, Parts
  <2>2. step \in [Handlers -> Steps] /\ which[h] \in 1..Len(States) /\ errors \in Nat
    BY <1>1, <2>1 DEF HandlerTypes, HasState
  <2>3. DropLapsed(h)
    <3>1. ASSUME NEW g \in Handlers, ChatStep(g), step'[h] # step[h] PROVE g = h
      BY <2>2, <3>1 DEF ChatStep, Receive, Store, Cache, Log, SetState, Take, DropLapsed,
                        Lookup, Fill, SendReply, Untaken, Over, To
    <3>2. ~Lapse /\ ~Evict /\ ~UNCHANGED chatVars
      BY <1>1 DEF Lapse, Evict, chatVars, handlerVars
    <3>3. ChatStep(h)
      BY <1>1, <3>1, <3>2 DEF ChatsNext, ChatStep
    <3> QED
      BY <1>1, <3>3 DEF ChatStep, Receive, Store, Cache, Log, SetState, Take, Lookup, Fill, SendReply
  <2>4. ~Error /\ errors = 0
    BY <1>1, <2>2, <2>3 DEF DropLapsed, Error
  <2>5. work[h] = "text" /\ which[h] = Len(States)
    BY <1>1, <2>2, <2>3 DEF DropLapsed, Untaken, To
  <2>6. CASE state' = NoState
    BY <2>6
  <2>7. CASE ~(state = States[which[h]] /\ lapsed) /\ state' = state
    <3>1. \A j \in 1..Len(States) : state # States[j]
      BY <1>1, <2>2, <2>4, <2>5, <2>7 DEF Tried
    <3> QED
      BY <2>1, <2>7, <3>1 DEF RowTypes, Prompts
  <2> QED
    BY <2>3, <2>4, <2>6, <2>7 DEF DropLapsed, Clear
<1>2. ChatsInv /\ Tried /\ [ChatsNext]_chatVars => [\A h \in Handlers : Finishes(h) => state' = NoState]_chatVars
  BY <1>1
<1>3. ChatsInv /\ Tried /\ [ChatsNext]_chatVars => Tried'
  BY TriedStep
<1> QED
  BY TriedInit, <1>2, <1>3, ChatsInvariant, PTL DEF ChatsSpec, TextLeavesNothing

-----------------------------------------------------------------------------
(* The backup and its files.                                               *)

\* What is renamed is whole, and what is being written is not.
TmpFollowsStage ==
    /\ stage = "rename" => tmp = "whole"
    /\ stage = "copying" => tmp = "partial"

\* The database is closed only once the goroutine has returned.
ClosedLast == ~dbOpen => stage = "ended"

IInv == BackupTypes /\ NeverTruncated /\ TmpFollowsStage /\ ClosedLast

USE BackupConstants

LEMMA InitOK == BackupInit => IInv
<1> SUFFICES ASSUME BackupInit PROVE IInv
  OBVIOUS
<1>1. stopping \in BOOLEAN /\ dbOpen \in BOOLEAN /\ dbOpen
  BY Zenon DEF BackupInit
<1>2. saved \in {"absent", "fresh", "stale"} /\ tmp \in {"absent"} \cup Files \cup Others
  BY DEF BackupInit
<1>3. stage = "check" /\ stops \in Nat /\ diskFaults \in Nat
  BY DEF BackupInit
<1> QED
  BY <1>1, <1>2, <1>3 DEF IInv, BackupTypes, NeverTruncated, TmpFollowsStage, ClosedLast

LEMMA StepOK == ASSUME IInv, [BackupNext]_backupVars PROVE IInv'
<1> USE DEF IInv, BackupTypes, NeverTruncated, TmpFollowsStage, ClosedLast, Files, Others
<1>1. CASE Check
  BY <1>1 DEF Check
<1>2. CASE ClearTmp
  BY <1>2 DEF ClearTmp, DiskFault
<1>3. CASE Vacuum
  BY <1>3 DEF Vacuum, Remove
<1>4. CASE Copied
  BY <1>4 DEF Copied, DiskFault, Remove
<1>5. CASE Rename
  BY <1>5 DEF Rename, DiskFault, Remove
<1>6. CASE ScriptEnds
  BY <1>6 DEF ScriptEnds
<1>7. CASE WaitOver
  BY <1>7 DEF WaitOver
<1>8. CASE Age \/ SomeoneDeletes \/ SomeonePuts
  BY <1>8 DEF Age, SomeoneDeletes, SomeonePuts, DiskFault
<1>9. CASE ShutDown
  <2>1. stopping' \in BOOLEAN
    BY <1>9, Zenon DEF ShutDown
  <2> QED
    BY <1>9, <2>1 DEF ShutDown
<1>10. CASE CloseDB
  <2>1. dbOpen' \in BOOLEAN
    BY <1>10, Zenon DEF CloseDB
  <2> QED
    BY <1>10, <2>1 DEF CloseDB
<1>11. CASE StartAgain \/ Crash
  <2>1. stopping' \in BOOLEAN /\ dbOpen' \in BOOLEAN /\ dbOpen'
    BY <1>11, Zenon DEF StartAgain, Crash, Begin
  <2>2. stage' = "check" /\ stops' \in Nat /\ UNCHANGED <<saved, tmp, diskFaults>>
    BY <1>11 DEF StartAgain, Crash, Begin
  <2> QED
    BY <2>1, <2>2
<1>12. CASE UNCHANGED backupVars
  BY <1>12 DEF backupVars
<1> QED
  BY <1>1, <1>2, <1>3, <1>4, <1>5, <1>6, <1>7, <1>8, <1>9, <1>10, <1>11, <1>12 DEF BackupNext, Work

LEMMA Invariant == BackupSpec => []IInv
<1>1. BackupInit => IInv
  BY InitOK
<1>2. IInv /\ [BackupNext]_backupVars => IInv'
  BY StepOK
<1> QED
  BY <1>1, <1>2, PTL DEF BackupSpec

\* The types of what startBackup and backup keep on disk and in memory.
THEOREM TypeCorrect == BackupSpec => []BackupTypes
<1>1. IInv => BackupTypes
  BY DEF IInv
<1> QED
  BY <1>1, Invariant, PTL

\* Whatever fails and whenever the process dies, backup has left a whole copy
\* at path, or none yet.
THEOREM WholeAlways == BackupSpec => []NeverTruncated
<1>1. IInv => NeverTruncated
  BY DEF IInv
<1> QED
  BY <1>1, Invariant, PTL

\* shutdown closes the database only after the goroutine's last copy.
THEOREM OpenForCopy == BackupSpec => []CopyHasDatabase
<1>1. IInv => CopyHasDatabase
  BY DEF IInv, BackupTypes, ClosedLast, CopyHasDatabase
<1> QED
  BY <1>1, Invariant, PTL

-----------------------------------------------------------------------------
(* main, the servers and shutdown.                                         *)

\* Where main and the four servers can be.
LifeTypes ==
    /\ configured \subseteq Servers
    /\ main \in {"gone", "db", "core", "max", "rest", "run", "close", "exit"} \cup Servers
    /\ server \in [Servers -> {"off", "open", "closing"}]
    /\ dbUp \in BOOLEAN
    /\ flight \in [Servers -> {"none", "work", "answer"}]
    /\ streams \subseteq Servers
    /\ late \in {"no", "slow"}
    /\ update \in [Hooks -> {"none", "sent", "answered"}]
    /\ effect \in [Hooks -> {"none", "had", "no", "slow"}]
    /\ {ends, news, pages} \subseteq Nat

\* The servers that shutdown is done with.
Passed == CASE main = "app"     -> {"hook"}
            [] main = "maxHook" -> {"hook", "app"}
            [] main = "maxApp"  -> {"hook", "app", "maxHook"}
            [] main \in {"close", "exit"} -> Servers
            [] OTHER -> {}

\* The database is open for as long as a server listens; one that shutdown is
\* done with takes nothing new, and has nothing left to answer while there was
\* time.
DbStage == dbUp <=> main \notin {"gone", "db", "exit"}
Stages ==
    /\ DbStage
    /\ main \in {"gone", "db", "core"} => \A s \in Servers : server[s] = "off"
    /\ \A s \in Servers : server[s] = "off" => flight[s] = "none"
    /\ \A s \in Passed : server[s] # "open" /\ (flight[s] = "none" \/ late # "no")
    /\ late # "no" => main \in Servers \cup {"close", "exit"}

\* An update is answered only for what its handler has done, or did when the
\* fifteen seconds were over.
Updates ==
    \A s \in Hooks :
        /\ flight[s] # "none" => update[s] = "sent"
        /\ flight[s] = "answer" \/ update[s] = "answered" => effect[s] \in {"had", "slow"}

LifeInv == LifeTypes /\ Stages /\ Updates

LEMMA NextServer ==
    ASSUME main \in {"hook", "app", "maxHook"}
    PROVE  Drains[1 + CHOOSE i \in 1..3 : Drains[i] = main] =
              CASE main = "hook" -> "app" [] main = "app" -> "maxHook" [] main = "maxHook" -> "maxApp"
<1>1. Drains[1] = "hook" /\ Drains[2] = "app" /\ Drains[3] = "maxHook" /\ Drains[4] = "maxApp"
  BY DEF Drains
<1>2. (CHOOSE i \in 1..3 : Drains[i] = main) \in {j \in 1..3 : Drains[j] = main}
  BY <1>1
<1> QED
  BY <1>1, <1>2

LEMMA LifeStart == LifeInit => LifeInv
<1> SUFFICES ASSUME LifeInit PROVE LifeInv
  OBVIOUS
<1>1. dbUp = FALSE /\ main = "gone" /\ late = "no"
  BY DEF LifeInit
<1>2. dbUp \in BOOLEAN /\ DbStage /\ Passed = {}
  BY <1>1 DEF DbStage, Passed
<1>3. LifeTypes
  BY <1>2 DEF LifeInit, LifeTypes, Servers
<1>4. Stages
  BY <1>1, <1>2 DEF LifeInit, Stages
<1>5. Updates
  BY DEF LifeInit, Updates, Hooks, Servers
<1> QED
  BY <1>3, <1>4, <1>5 DEF LifeInv

\* The end of the process.
LEMMA EndOK ==
    ASSUME LifeInv, Ends, ends' \in Nat
    PROVE  LifeInv'
<1>1. dbUp' = FALSE /\ main' = "gone" /\ late' = "no" /\ \A s \in Servers : server'[s] = "off" /\ flight'[s] = "none"
  BY DEF Ends
<1>2. dbUp' \in BOOLEAN /\ DbStage' /\ Passed' = {}
  BY <1>1 DEF DbStage, Passed
<1>3. LifeTypes'
  BY <1>1, <1>2 DEF Ends, LifeInv, LifeTypes
<1>4. Stages'
  BY <1>1, <1>2 DEF Stages
<1>5. Updates'
  BY <1>1 DEF Ends, LifeInv, Updates, Hooks, Servers
<1> QED
  BY <1>3, <1>4, <1>5 DEF LifeInv

\* What main and shutdown do while the requests stand still.
LEMMA ProcessOK ==
    ASSUME LifeInv, UNCHANGED <<requests, configured>>,
           main' \in {"gone", "db", "core", "max", "rest", "run", "close", "exit"} \cup Servers,
           server' \in [Servers -> {"off", "open", "closing"}], late' \in {"no", "slow"}, ends' \in Nat,
           dbUp' \in BOOLEAN, Stages'
    PROVE  LifeInv'
<1>1. LifeTypes'
  BY DEF LifeInv, LifeTypes, requests
<1>2. Updates'
  BY DEF LifeInv, Updates, requests
<1> QED
  BY <1>1, <1>2 DEF LifeInv

LEMMA MainOK ==
    ASSUME LifeInv, StartAgain1 \/ OpenDatabase \/ StartTelegram \/ StartMax \/ StartRest \/ Signal
    PROVE  LifeInv'
<1>1. /\ main \in {"gone", "db", "core", "max", "rest", "run"} /\ DbStage /\ late = "no"
      /\ UNCHANGED <<requests, configured, late>> /\ ends' \in Nat
      /\ server \in [Servers -> {"off", "open", "closing"}] /\ dbUp \in BOOLEAN
  BY DEF StartAgain1, OpenDatabase, StartTelegram, StartMax, StartRest, Signal, LifeInv, LifeTypes, Stages, Servers, Hooks, Apps
<1>2. /\ main' \in {"db", "core", "max", "rest", "run", "hook"}
      /\ main' = "db" <=> main = "gone"
      /\ main' = "core" <=> main = "db"
      /\ main' = "max" <=> main = "core"
      /\ server' # server => main \in {"core", "max"}
      /\ server' \in [Servers -> {"off", "open", "closing"}]
  BY <1>1 DEF StartAgain1, OpenDatabase, StartTelegram, StartMax, StartRest, Signal, Drains, Listen
<1>3. dbUp' \in BOOLEAN /\ DbStage'
  <2>1. CASE OpenDatabase
    <3>1. dbUp' = TRUE /\ main' = "core"
      BY <2>1 DEF OpenDatabase
    <3> QED
      BY <3>1 DEF DbStage
  <2>2. CASE ~OpenDatabase
    <3>1. dbUp' = dbUp /\ main # "db"
      BY <1>1, <2>2 DEF StartAgain1, OpenDatabase, StartTelegram, StartMax, StartRest, Signal
    <3> QED
      BY <1>1, <1>2, <3>1 DEF DbStage
  <2> QED
    BY <2>1, <2>2
<1>4. Passed' = {}
  BY <1>2 DEF Passed
<1>5. main' \in {"db", "core"} => \A s \in Servers : server'[s] = "off"
  BY <1>2 DEF LifeInv, Stages
<1>6. \A s \in Servers : server'[s] = "off" => flight'[s] = "none"
  <2>1. flight' = flight /\ \A s \in Servers : server'[s] = "off" => server[s] = "off"
    BY <1>1 DEF StartAgain1, OpenDatabase, StartTelegram, StartMax, StartRest, Signal, Listen, requests
  <2> QED
    BY <2>1 DEF LifeInv, Stages
<1>7. Stages'
  BY <1>1, <1>2, <1>3, <1>4, <1>5, <1>6 DEF Stages
<1> QED
  BY <1>1, <1>2, <1>3, <1>7, ProcessOK DEF Servers, Hooks

\* A step of shutdown.
LEMMA ShutdownOK ==
    ASSUME LifeInv, CloseListener \/ RunOut \/ Drained \/ CloseDatabase
    PROVE  LifeInv'
<1>1. /\ UNCHANGED <<requests, configured>> /\ ends' \in Nat /\ DbStage
      /\ server \in [Servers -> {"off", "open", "closing"}] /\ dbUp \in BOOLEAN /\ late \in {"no", "slow"}
  BY DEF CloseListener, RunOut, Drained, CloseDatabase, LifeInv, LifeTypes, Stages
<1>2. CASE CloseListener
  <2>1. /\ main \in Servers /\ main' = main /\ late' = late /\ dbUp' = dbUp /\ flight' = flight
        /\ server[main] = "open" /\ server' = [server EXCEPT ![main] = "closing"]
    BY <1>2 DEF CloseListener, Draining, requests
  <2>2. dbUp' \in BOOLEAN /\ DbStage'
    BY <1>1, <2>1 DEF DbStage
  <2>3. Passed' = Passed
    BY <2>1 DEF Passed
  <2>4. /\ \A s \in Servers : server'[s] = "off" <=> server[s] = "off"
        /\ \A s \in Servers : server'[s] = "open" => server[s] = "open"
        /\ Passed \subseteq Servers
    BY <1>1, <2>1 DEF Passed, Servers, Hooks, Apps
  <2>5. Stages'
    BY <2>1, <2>2, <2>3, <2>4 DEF Stages, LifeInv
  <2> QED
    BY <1>1, <2>1, <2>2, <2>5, ProcessOK
<1>3. CASE RunOut
  <2>1. /\ main \in Servers /\ UNCHANGED <<main, server>> /\ late' = "slow" /\ dbUp' = dbUp /\ flight' = flight
    BY <1>3 DEF RunOut, Draining, Told, requests
  <2>2. dbUp' \in BOOLEAN /\ DbStage'
    BY <1>1, <2>1 DEF DbStage
  <2>3. Passed' = Passed
    BY <2>1 DEF Passed
  <2>4. Stages'
    BY <2>1, <2>2, <2>3 DEF Stages, LifeInv
  <2> QED
    BY <1>1, <2>1, <2>2, <2>4, ProcessOK
<1>4. CASE Drained
  <2>1. /\ main \in Servers /\ UNCHANGED <<server, late, flight>> /\ dbUp' = dbUp
        /\ server[main] # "open" /\ (server[main] = "closing" => late # "no" \/ flight[main] = "none")
        /\ main' = IF main = "maxApp" THEN "close" ELSE Drains[1 + CHOOSE i \in 1..3 : Drains[i] = main]
    BY <1>4 DEF Drained, Draining, Emptied, requests
  <2>2. main' = CASE main = "hook" -> "app" [] main = "app" -> "maxHook"
                  [] main = "maxHook" -> "maxApp" [] main = "maxApp" -> "close"
    BY <2>1, NextServer DEF Servers, Hooks, Apps
  <2>3. dbUp' \in BOOLEAN /\ DbStage'
    BY <1>1, <2>1, <2>2 DEF DbStage, Servers, Hooks, Apps
  <2>4. Passed' = Passed \cup {main}
    BY <2>1, <2>2 DEF Passed, Servers, Hooks, Apps
  <2>5. flight[main] = "none" \/ late # "no"
    BY <1>1, <2>1 DEF LifeInv, Stages
  <2>6. main' \in {"app", "maxHook", "maxApp", "close"}
    BY <2>1, <2>2 DEF Servers, Hooks, Apps
  <2>7. Stages'
    BY <2>1, <2>3, <2>4, <2>5, <2>6 DEF Stages, LifeInv, Servers, Hooks, Apps
  <2> QED
    BY <1>1, <2>1, <2>3, <2>6, <2>7, ProcessOK DEF Servers, Hooks, Apps
<1>5. CASE CloseDatabase
  <2>1. main = "close" /\ main' = "exit" /\ dbUp' = FALSE /\ UNCHANGED <<server, late, flight>>
    BY <1>5 DEF CloseDatabase, requests
  <2>2. dbUp' \in BOOLEAN /\ DbStage'
    BY <2>1 DEF DbStage
  <2>3. Passed' = Passed
    BY <2>1 DEF Passed
  <2>4. Stages'
    BY <2>1, <2>2, <2>3 DEF Stages, LifeInv
  <2> QED
    BY <1>1, <2>1, <2>2, <2>4, ProcessOK
<1> QED
  BY <1>2, <1>3, <1>4, <1>5

\* A request leaves main and shutdown alone.  It begins only at a server that
\* listens, which shutdown is not done with.
LEMMA FlightOK ==
    ASSUME LifeInv, UNCHANGED <<process, configured, ends>>,
           flight' \in [Servers -> {"none", "work", "answer"}], streams' \subseteq Servers,
           update' \in [Hooks -> {"none", "sent", "answered"}], effect' \in [Hooks -> {"none", "had", "no", "slow"}],
           news' \in Nat, pages' \in Nat,
           \A s \in Servers : flight'[s] # "none" => flight[s] # "none" \/ server[s] = "open",
           Updates'
    PROVE  LifeInv'
<1>1. UNCHANGED <<main, server, late>> /\ dbUp' = dbUp /\ UNCHANGED <<configured, ends>>
  BY DEF process
<1>2. dbUp' \in BOOLEAN /\ DbStage'
  <2>1. dbUp \in BOOLEAN /\ DbStage
    BY DEF LifeInv, LifeTypes, Stages
  <2> QED
    BY <1>1, <2>1 DEF DbStage
<1>3. LifeTypes'
  BY <1>1, <1>2 DEF LifeInv, LifeTypes
<1>4. Passed' = Passed /\ Passed \subseteq Servers
  BY <1>1 DEF Passed, Servers, Hooks, Apps
<1>5. Stages'
  BY <1>1, <1>2, <1>4 DEF LifeInv, Stages
<1> QED
  BY <1>3, <1>5 DEF LifeInv

LEMMA RequestsOK ==
    ASSUME LifeInv, \/ \E s \in Hooks : NewUpdate(s) \/ DeliverUpdate(s)
                    \/ \E s \in Apps : AskPage(s) \/ OpenStream(s)
                    \/ \E s \in Servers : Handle(s) \/ AnswerRequest(s) \/ EndStream(s)
    PROVE  LifeInv'
<1>t. /\ flight \in [Servers -> {"none", "work", "answer"}] /\ streams \subseteq Servers
      /\ update \in [Hooks -> {"none", "sent", "answered"}] /\ effect \in [Hooks -> {"none", "had", "no", "slow"}]
      /\ news \in Nat /\ pages \in Nat /\ Updates /\ late \in {"no", "slow"}
  BY DEF LifeInv, LifeTypes
<1>s. Hooks \subseteq Servers /\ Apps \subseteq Servers /\ Hooks \cap Apps = {}
  BY DEF Servers, Hooks, Apps
<1>1. ASSUME NEW h \in Hooks, NewUpdate(h) PROVE LifeInv'
  <2>1. /\ update[h] # "sent" /\ update' = [update EXCEPT ![h] = "sent"] /\ effect' = [effect EXCEPT ![h] = "none"]
        /\ UNCHANGED <<flight, streams, pages>> /\ news' = news + 1
        /\ UNCHANGED <<process, configured, ends>>
    BY <1>1 DEF NewUpdate
  <2>2. Updates'
    BY <1>t, <1>s, <2>1 DEF Updates
  <2> QED
    BY <1>t, <2>1, <2>2, FlightOK
<1>2. ASSUME NEW h \in Hooks, DeliverUpdate(h) PROVE LifeInv'
  <2>1. /\ update[h] = "sent" /\ server[h] = "open" /\ flight' = [flight EXCEPT ![h] = "work"]
        /\ UNCHANGED <<update, effect, streams, pages, news>>
        /\ UNCHANGED <<process, configured, ends>>
    BY <1>2 DEF DeliverUpdate
  <2>2. Updates'
    BY <1>t, <1>s, <2>1 DEF Updates
  <2> QED
    BY <1>t, <1>s, <2>1, <2>2, FlightOK
<1>3. ASSUME NEW a \in Apps, AskPage(a) PROVE LifeInv'
  <2>1. /\ server[a] = "open" /\ flight' = [flight EXCEPT ![a] = "work"] /\ pages' = pages + 1
        /\ UNCHANGED <<update, effect, streams, news>>
        /\ UNCHANGED <<process, configured, ends>>
    BY <1>3 DEF AskPage
  <2>2. Updates'
    BY <1>t, <1>s, <2>1 DEF Updates
  <2> QED
    BY <1>t, <1>s, <2>1, <2>2, FlightOK
<1>4. ASSUME NEW a \in Servers, (a \in Apps /\ OpenStream(a)) \/ EndStream(a) PROVE LifeInv'
  <2>1. /\ streams' \subseteq Servers /\ UNCHANGED <<update, effect, flight, news, pages>>
        /\ UNCHANGED <<process, configured, ends>>
    BY <1>t, <1>4 DEF OpenStream, EndStream
  <2>2. Updates'
    BY <1>t, <2>1 DEF Updates
  <2> QED
    BY <1>t, <2>1, <2>2, FlightOK
<1>5. ASSUME NEW s \in Servers, Handle(s) PROVE LifeInv'
  <2>1. /\ flight[s] = "work" /\ flight' = [flight EXCEPT ![s] = "answer"]
        /\ effect' = IF s \notin Hooks THEN effect
                     ELSE [effect EXCEPT ![s] = IF dbUp THEN "had" ELSE IF @ = "had" THEN @ ELSE late]
        /\ UNCHANGED <<update, streams, news, pages>>
        /\ UNCHANGED <<process, configured, ends>>
    BY <1>5 DEF Handle
  <2>2. ~dbUp => late = "slow"
    <3>1. SUFFICES ASSUME main \in {"gone", "db", "exit"} PROVE late = "slow"
      BY DEF LifeInv, Stages, DbStage
    <3>2. server[s] # "off"
      BY <2>1 DEF LifeInv, Stages
    <3>3. main = "exit"
      <4>1. main = "db" => \A x \in Servers : server[x] = "off"
        BY DEF LifeInv, Stages
      <4> QED
        BY <3>1, <3>2, <4>1 DEF LifeInv, Stages
    <3>4. s \in Passed
      BY <3>3 DEF Passed
    <3> QED
      BY <1>t, <2>1, <3>4 DEF LifeInv, Stages
  <2>3. /\ s \in Hooks => effect'[s] \in {"had", "slow"}
        /\ \A h \in Hooks : h # s => effect'[h] = effect[h]
        /\ effect' \in [Hooks -> {"none", "had", "no", "slow"}]
    BY <1>t, <2>1, <2>2
  <2>4. Updates'
    BY <1>t, <1>s, <2>1, <2>3 DEF Updates
  <2> QED
    BY <1>t, <2>1, <2>3, <2>4, FlightOK
<1>6. ASSUME NEW s \in Servers, AnswerRequest(s) PROVE LifeInv'
  <2>1. /\ flight[s] = "answer" /\ flight' = [flight EXCEPT ![s] = "none"]
        /\ update' = IF s \in Hooks THEN [update EXCEPT ![s] = "answered"] ELSE update
        /\ UNCHANGED <<effect, streams, news, pages>>
        /\ UNCHANGED <<process, configured, ends>>
    BY <1>6 DEF AnswerRequest
  <2>2. Updates'
    BY <1>t, <1>s, <2>1 DEF Updates
  <2>3. update' \in [Hooks -> {"none", "sent", "answered"}]
    BY <1>t, <2>1
  <2> QED
    BY <1>t, <2>1, <2>2, <2>3, FlightOK
<1> QED
  BY <1>s, <1>1, <1>2, <1>3, <1>4, <1>5, <1>6

\* The database is closed under no handler, and an update that was answered has
\* had its effect, however often the process is stopped or killed: but for what
\* a request leaves behind that uses up the fifteen seconds.
THEOREM LosesNothing == LifeSpec => []ShutdownLosesNothing
<1>1. LifeInit => LifeInv
  BY LifeStart
<1>2. LifeInv /\ [LifeNext]_lifeVars => LifeInv'
  <2> SUFFICES ASSUME LifeInv, [LifeNext]_lifeVars PROVE LifeInv'
    OBVIOUS
  <2>1. CASE Dies \/ Exit1
    <3>1. Ends /\ ends' \in Nat
      BY <2>1 DEF Dies, Exit1, LifeInv, LifeTypes
    <3> QED
      BY <3>1, EndOK
  <2>2. CASE UNCHANGED lifeVars
    <3>1. /\ UNCHANGED <<process, configured, ends>> /\ UNCHANGED <<flight, streams, update, effect, news, pages>>
      BY <2>2 DEF lifeVars, process
    <3>2. Updates'
      BY <3>1 DEF LifeInv, Updates
    <3> QED
      BY <3>1, <3>2, FlightOK DEF LifeInv, LifeTypes
  <2> QED
    BY <2>1, <2>2, MainOK, ShutdownOK, RequestsOK DEF LifeNext
<1>3. LifeInv => ShutdownLosesNothing
  <2> SUFFICES ASSUME LifeInv PROVE ShutdownLosesNothing
    OBVIOUS
  <2>1. late # "stream"
    BY DEF LifeInv, LifeTypes
  <2>2. ASSUME late = "no", ~dbUp, NEW s \in Servers PROVE flight[s] = "none"
    <3>1. main \in {"gone", "db", "exit"}
      BY <2>2 DEF LifeInv, Stages, DbStage
    <3>2. main = "exit" => s \in Passed
      BY DEF Passed
    <3>3. /\ main \in {"gone", "db"} => server[s] = "off"
          /\ server[s] = "off" => flight[s] = "none"
      BY DEF LifeInv, Stages
    <3>4. s \in Passed => flight[s] = "none"
      BY <2>2 DEF LifeInv, Stages
    <3> QED
      BY <3>1, <3>2, <3>3, <3>4
  <2>3. \A s \in Hooks : update[s] = "answered" => effect[s] \in {"had", "slow"}
    BY DEF LifeInv, Updates
  <2> QED
    BY <2>1, <2>2, <2>3 DEF ShutdownLosesNothing
<1> QED
  BY <1>1, <1>2, <1>3, PTL DEF LifeSpec
=============================================================================
