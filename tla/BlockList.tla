----------------------------- MODULE BlockList ------------------------------
(***************************************************************************)
(* The Blocks tab: appBlocks' windows of the blocks table, appended as the *)
(* reader scrolls, put on top when blocks are collected, and restored down *)
(* to a row by Back.  The Telegram page's elements take their own answers  *)
(* with them when they are replaced; the MAX page applies an answer to the *)
(* list it then has.                                                       *)
(*                                                                         *)
(* A row is a height and the number of reorgs before it was cached.  Left  *)
(* out: genesis, and a row that does not scan.  A page waits for one       *)
(* answer of a kind at a time.                                             *)
(***************************************************************************)
EXTENDS Integers, Sequences, FiniteSets

CONSTANTS
    Batch, MaxRows,   \* blocksPerPage, blocksMaxRows
    Depth,            \* how many blocks a reorg disconnects
    MaxHeight, MaxReorgs, MaxOpens \* bounds

ASSUME BlockListConstants == /\ {Batch, MaxRows, Depth} \subseteq Nat \ {0}
                             /\ Batch < MaxRows /\ {MaxHeight, MaxReorgs, MaxOpens} \subseteq Nat

Calls == {"newer", "older", "whole"}
Idle == <<>>

VARIABLES
    surface,              \* the page's messenger
    table, reorgs, unsaid, \* blocks; a change of it that is not announced yet
    kept,                 \* the cached answers
    blockRows, mark,      \* the list, newest first; the heights it asks by, and whether there is more
    opened, opens,        \* the row whose page has taken the list's place
    call,                 \* each request: its query, then its answer
    back, mixed, short    \* what the properties remember

tableVars == <<table, reorgs, unsaid>>
tabVars == <<surface, blockRows, mark, opened, opens, call, back, mixed, short>>
blockListVars == <<tableVars, kept, tabVars>>

Query(kind, h) == [kind |-> kind, at |-> h]
AnyBlock == Query("any", 0)

-----------------------------------------------------------------------------
(* appBlocks, and its answers' cache.                                      *)

\* Mutant: a batch begins at the row it was asked from.
SelectedFrom(q) ==
    {h \in DOMAIN table : /\ q.kind = "before" => h <= q.at
                          /\ q.kind = "after" => h > q.at
                          /\ q.kind = "down" => h >= q.at}
Selected(q) ==
    {h \in DOMAIN table : /\ q.kind = "before" => h < q.at
                          /\ q.kind = "after" => h > q.at
                          /\ q.kind = "down" => h >= q.at}

\* Mutant: Back is given a batch.
BatchOnly(q) == Batch
Limit(q) == IF q.kind = "down" THEN MaxRows ELSE Batch

BlockRow(h) == [num |-> h, version |-> table[h]]

\* "order by height desc": above the i-th row there are i - 1.
NthNewest(hs, i) == CHOOSE h \in hs : Cardinality({g \in hs : g > h}) = i - 1

\* Top stays where it was when there is nothing newer.
Blocks(q) ==
    LET found == Cardinality(Selected(q))
        n == IF found < Limit(q) THEN found ELSE Limit(q)
    IN  [query |-> q,
         rows |-> [i \in 1..n |-> BlockRow(NthNewest(Selected(q), i))],
         top |-> IF n > 0 THEN NthNewest(Selected(q), 1) ELSE IF q.kind = "after" THEN q.at ELSE 0,
         next |-> IF n > 0 THEN NthNewest(Selected(q), n) ELSE 0,
         more |-> found > n \/ (q.kind = "down" /\ \E h \in DOMAIN table : h < q.at)]

Held(q) == {a \in kept : a.query = q}

\* What is newer than the top is never cached.
CallOf(k) == IF k = "newer" /\ blockRows = <<>> THEN "whole" ELSE k
Answers(k, q) == IF CallOf(k) # "newer" /\ Held(q) # {} THEN Held(q) ELSE {Blocks(q)}

-----------------------------------------------------------------------------
(* The table, its announcements and the cache.                             *)

BlockListInit ==
    /\ surface \in {"telegram", "max"}
    /\ table = [i \in 1..(Batch + 1) |-> 0] /\ reorgs = 0 /\ unsaid = FALSE /\ kept = {}
    /\ blockRows = Blocks(AnyBlock).rows /\ opened = 0 /\ opens = 0
    /\ mark = [top |-> Batch + 1, next |-> 2, more |-> TRUE]
    /\ call = [k \in Calls |-> Idle] /\ back = 0 /\ mixed = FALSE /\ short = FALSE

\* Update: a chunk is flushed, and only then announced.
CollectChunk ==
    /\ \E n \in 1..(MaxHeight - Len(table)) : table' = table \o [i \in 1..n |-> reorgs]
    /\ unsaid' = TRUE /\ UNCHANGED <<reorgs, kept, tabVars>>

\* Rollback of a disconnected block, and of those above it.
Disconnect ==
    /\ reorgs < MaxReorgs /\ reorgs' = reorgs + 1
    /\ \E n \in 1..Depth : n < Len(table) /\ table' = SubSeq(table, 1, Len(table) - n)
    /\ unsaid' = TRUE /\ UNCHANGED <<kept, tabVars>>

\* Notify("blocks") clears the cache; whether the page hears of it is not told apart from
\* its timer.
Announce == unsaid /\ unsaid' = FALSE /\ kept' = {} /\ UNCHANGED <<table, reorgs, tabVars>>

\* Mutant: an entry has no end.
NeverLapses == FALSE
Lapses == kept # {}
Lapse == Lapses /\ kept' = {} /\ UNCHANGED <<tableVars, tabVars>>

-----------------------------------------------------------------------------
(* The page.                                                               *)

AskFor(k, q) == call' = [call EXCEPT ![k] = <<q>>]

\* A new block's event or the timer, "every 10m": an empty list asks for itself.
AskNewer ==
    /\ opened = 0 /\ call["newer"] = Idle
    /\ AskFor("newer", IF blockRows = <<>> THEN AnyBlock ELSE Query("after", mark.top))
    /\ UNCHANGED <<tableVars, kept, surface, blockRows, mark, opened, opens, back, mixed, short>>

\* The sentinel below the rows has come into view; a list without rows has none.
AskOlder ==
    /\ opened = 0 /\ call["older"] = Idle /\ mark.more /\ blockRows # <<>>
    /\ AskFor("older", Query("before", mark.next))
    /\ UNCHANGED <<tableVars, kept, surface, blockRows, mark, opened, opens, back, mixed, short>>

\* The page of a row takes the place of the list, and of its elements.
OpenRow ==
    /\ surface = "telegram" /\ opened = 0 /\ opens < MaxOpens /\ opens' = opens + 1
    /\ \E i \in DOMAIN blockRows : opened' = blockRows[i].num
    /\ blockRows' = <<>> /\ call' = [k \in Calls |-> Idle]
    /\ UNCHANGED <<tableVars, kept, surface, mark, back, mixed, short>>
AskBack ==
    /\ opened # 0 /\ call["whole"] = Idle /\ AskFor("whole", Query("down", opened))
    /\ UNCHANGED <<tableVars, kept, surface, blockRows, mark, opened, opens, back, mixed, short>>

\* /newblocks answers with the whole list when more than a batch is newer.  short: what
\* is below a row was asked for when a reorg had taken blocks below that row.
ServeBlocks(k) ==
    /\ Len(call[k]) = 1
    /\ \E a \in Answers(k, call[k][1]) :
        call' = [call EXCEPT ![k] =
            <<@[1], IF surface = "telegram" /\ a.query.kind = "after" /\ a.more THEN Blocks(AnyBlock) ELSE a,
              a \notin kept /\ a.query.kind # "after">>]
    /\ short' = (short \/ (call[k][1].kind = "before" /\ Len(table) < call[k][1].at - 1))
    /\ UNCHANGED <<tableVars, kept, surface, blockRows, mark, opened, opens, back, mixed>>

\* The list is the answer's; what its elements had asked is dropped with them.
TakeList(k, a) ==
    /\ blockRows' = a.rows /\ mark' = [top |-> a.top, next |-> a.next, more |-> a.more]
    /\ opened' = 0 /\ back' = (IF a.query.kind = "down" THEN a.query.at ELSE 0)
    /\ call' = IF surface = "telegram" THEN [c \in Calls |-> Idle] ELSE [call EXCEPT ![k] = Idle]
    /\ UNCHANGED mixed

\* The rows newer than h; the newest come first.
Above(rows, h) == SubSeq(rows, 1, Cardinality({i \in DOMAIN rows : rows[i].num > h}))

\* The MAX page starts again when more than a batch is newer, and otherwise takes what is
\* above its first row.
AddNewer(a) ==
    LET rows == IF surface = "telegram" THEN a.rows
                ELSE Above(a.rows, blockRows[1].num)
        again == surface = "max" /\ a.more
    IN  /\ IF again THEN UNCHANGED <<blockRows, mark, mixed>>
           ELSE /\ blockRows' = rows \o blockRows
                /\ mark' = [mark EXCEPT !.top = IF rows = <<>> THEN @ ELSE rows[1].num]
                /\ mixed' = (mixed \/ a.query.at # mark.top)
        /\ call' = [call EXCEPT !["newer"] = Idle,
                                !["whole"] = IF again /\ @ = Idle THEN <<AnyBlock>> ELSE @]
        /\ UNCHANGED <<opened, back>>

AddOlder(a) ==
    /\ blockRows' = blockRows \o a.rows
    /\ mark' = [mark EXCEPT !.next = IF a.rows = <<>> THEN @ ELSE a.next, !.more = a.more]
    /\ mixed' = (mixed \/ a.query.at # mark.next)
    /\ call' = [call EXCEPT !["older"] = Idle] /\ UNCHANGED <<opened, back>>

\* A computed answer is put in the cache, which may have been cleared meanwhile.
Deliver(k) ==
    /\ Len(call[k]) = 3
    /\ LET a == call[k][2] IN
        /\ kept' = IF call[k][3] THEN {b \in kept : b.query # a.query} \cup {a} ELSE kept
        /\ CASE a.query.kind = "after" -> AddNewer(a)
             [] a.query.kind = "before" -> AddOlder(a)
             [] OTHER -> TakeList(k, a)
    /\ UNCHANGED <<tableVars, surface, opens, short>>

BlockListNext ==
    \/ CollectChunk \/ Disconnect \/ Announce \/ Lapse \/ AskNewer \/ AskOlder \/ OpenRow \/ AskBack
    \/ \E k \in Calls : ServeBlocks(k) \/ Deliver(k)

BlockListSpec == BlockListInit /\ [][BlockListNext]_blockListVars

-----------------------------------------------------------------------------
(* Properties.                                                             *)

Contiguous == \A i \in 1..(Len(blockRows) - 1) : blockRows[i].num = blockRows[i + 1].num + 1
RestoredToRow ==
    back # 0 /\ blockRows # <<>> =>
        Len(blockRows) >= MaxRows \/ \E i \in DOMAIN blockRows : blockRows[i].num = back

\* However batches, new blocks, reorgs and cached answers meet, the list has every height
\* between its first row and its last, once, and Back restores it down to the row that was
\* opened -- unless the MAX page has applied an answer to another list than it was asked of,
\* or the blocks right below the list were off the table when it asked for them, which it
\* does after Back to one of its first rows.
ListWithoutGap == mixed \/ short \/ (Contiguous /\ RestoredToRow)

\* A list that is shown comes to begin with the newest block, or with one that a reorg took.
ListSettles == <>[](opened = 0 => mark.top >= Len(table))
=============================================================================
