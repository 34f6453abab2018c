----------------------------- MODULE MCWatching -----------------------------
(* Instances of Watching for TLC: who pays whom, what is asked for.        *)
EXTENDS Watching, TLC

CONSTANTS c1, c2, a1, a2, t1, t2, al1, al2

NoSpends == [t \in Txs |-> {}]
PayA1 == [t \in Txs |-> {a1}]
NobodyWatches == {[k \in Keys |-> Absent]}
A1Watched == NobodyWatches \cup {[k \in Keys |-> IF k = <<c1, a1>> THEN al1 ELSE Absent]}

Ask(kind, c, target, al) == [kind |-> kind, chat |-> c, target |-> target, alias |-> al]

\* One chat: every kind of request on an address and on a transaction.
EveryCall == {Ask("watch", c1, a1, al1), Ask("bell", c1, a1, al1), Ask("unwatch", c1, a1, al1),
              Ask("rename", c1, a1, al2), Ask("bell", c1, t1, al1),
              Ask("unwatch", c1, t1, al1), Ask("rename", c1, t1, al2)}

\* A payment to a1, and a second that spends it and pays a2: it is announced
\* for either address, or for the one watched first.
PayThenSpend == [t \in Txs |-> IF t = t1 THEN {a1} ELSE {a2}]
SpendT1 == [t \in Txs |-> IF t = t1 THEN {} ELSE {<<t1, a1>>}]

FeedCalls == {Ask("watch", c1, a1, al1), Ask("watch", c1, a2, al1),
              Ask("unwatch", c1, a1, al1), Ask("rename", c1, a1, al2)}

\* Two chats, the same address.
SharedCalls == {Ask("watch", c1, a1, al1), Ask("watch", c2, a1, al1), Ask("unwatch", c2, a1, al1)}

RequestSymmetry == Permutations(Requests)
=============================================================================
