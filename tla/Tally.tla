------------------------------- MODULE Tally -------------------------------
(***************************************************************************)
(* What a scan over the chain promises (cursors/cursors.go): it counts the *)
(* heights from its first one in order, each once, and never goes back,    *)
(* whatever calls fail and however often the process restarts.             *)
(***************************************************************************)
EXTENDS Naturals

CONSTANTS Scans, Heights, First

VARIABLE counted    \* how many times each scan has counted each height

\* What a scan has counted when n is the next height it will count.
Below(s, n) == [h \in Heights |-> IF First[s] <= h /\ h < n THEN 1 ELSE 0]

Init == counted = [s \in Scans |-> Below(s, 0)]

\* One batch.
Count(s, n, m) ==
    /\ n < m /\ counted[s] = Below(s, n)
    /\ counted' = [counted EXCEPT ![s] = Below(s, m)]

Bounds == Heights \cup {h + 1 : h \in Heights}
Next == \E s \in Scans, n \in Bounds, m \in Bounds : Count(s, n, m)

Spec == Init /\ [][Next]_counted
=============================================================================
