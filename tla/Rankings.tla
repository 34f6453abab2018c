------------------------------ MODULE Rankings ------------------------------
(***************************************************************************)
(* The three ranked lists of the Mini App's Addresses tab, which page      *)
(* through the addrstat table by offset: a batch, what it says of the next *)
(* one, and the list restored by Back.                                     *)
(***************************************************************************)
EXTENDS AddrStat

CONSTANTS AddrsFirstPage, AddrsPage, AddrsMaxRows, AddrsRestoreRows

ASSUME PageType == /\ AddrsFirstPage \in Nat \ {0} /\ AddrsPage \in Nat \ {0}
                   /\ AddrsRestoreRows \in Nat \ {0} /\ AddrsMaxRows \in Nat

Kinds == {"active", "rich", "abandoned"}
Column(kind, s) == CASE kind = "active" -> s.txs [] kind = "rich" -> Balance(s) [] OTHER -> s.last
Keep(kind, s) == CASE kind = "active" -> s.txs > 0 [] kind = "rich" -> Balance(s) > 0
                   [] OTHER -> Balance(s) > 0 /\ s.last > 0

\* order by column: what the column's index yields, equal values by rowid; desc is that
\* walked backwards.
Ranked(kind) ==
    LET value(a) == Column(kind, statRows[a])
        before(a, b) == value(a) < value(b) \/ (value(a) = value(b) /\ rowids[a] < rowids[b])
        up == CHOOSE s \in SetToSeqs({a \in DOMAIN statRows : Keep(kind, statRows[a])}) :
                  \A i, j \in DOMAIN s : i < j => before(s[i], s[j])
    IN  IF kind = "abandoned" THEN up ELSE Reverse(up)

\* appAddresses: the window from a row on, or down to the row a reader had scrolled to.
Wanted(from, restore, down) ==
    LET first == IF from = 0 THEN AddrsFirstPage ELSE AddrsPage
        deep == IF restore /\ down + 1 > first THEN Min({down + 1, AddrsRestoreRows}) ELSE first
    IN  Min({deep, AddrsMaxRows - from})
Limit(want) == want + 1
AppAddresses(kind, from, restore, down) ==
    IF from >= AddrsMaxRows THEN [rows |-> <<>>, more |-> FALSE, next |-> 0]
    ELSE LET want == Wanted(from, restore, down)
             got == SubSeq(Ranked(kind), from + 1, Min({from + Limit(want), Len(Ranked(kind))}))
             rows == SubSeq(got, 1, Min({want, Len(got)}))
             next == from + Len(rows)
         IN  [rows |-> rows, more |-> Len(got) > want /\ next < AddrsMaxRows, next |-> next]

\* Whatever the table holds and however its values collide, the batches that follow one
\* another are the ranking, each row once, as deep as it goes; a restored list is the
\* beginning of it, and reaches the row the reader had scrolled to.
RankedOnce ==
    \A kind \in Kinds :
        LET ranking == SubSeq(Ranked(kind), 1, Min({AddrsMaxRows, Len(Ranked(kind))}))
            after[from \in 0..AddrsMaxRows] ==
                LET page == AppAddresses(kind, from, FALSE, 0)
                IN  page.rows \o (IF page.more THEN after[page.next] ELSE <<>>)
        IN  /\ after[0] = ranking
            /\ \A down \in 0..Len(ranking) - 1 :
                   LET page == AppAddresses(kind, 0, TRUE, down)
                   IN  /\ page.rows = SubSeq(ranking, 1, Len(page.rows))
                       /\ down < AddrsRestoreRows => Len(page.rows) > down
                       /\ page.rows \o (IF page.more THEN after[page.next] ELSE <<>>) = ranking
=============================================================================
