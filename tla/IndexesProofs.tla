--------------------------- MODULE IndexesProofs ---------------------------
(***************************************************************************)
(* Indexes for any order of the scans, chunk size, chain and bounds, when  *)
(* a place can always be read: each scan counts every height once, the     *)
(* balances are of the chain, the scans implement Tally, and the count of  *)
(* the balances is the table's.                                            *)
(*                                                                         *)
(* The invariant ties the batch under way to the place: it starts at the   *)
(* height after the place, and ends within a target that was below a tip   *)
(* the chain has not gone back from.                                       *)
(***************************************************************************)
EXTENDS Indexes, FiniteSetTheorems, TLAPS

\* The height a scan will count next.
After(s) == IF place[s] = NoPlace THEN First[s] ELSE place[s] + 1

Batch ==
    /\ tip <= top
    /\ at \in {"fetch", "flush"} => curr = After(Here) /\ to <= Target
    /\ at = "fetch" => curr + Len(got) <= to
    /\ at = "flush" => got # <<>> /\ curr + Len(got) - 1 <= to
    /\ at = "add" => curr + Len(got) = After(Here) /\ to <= Target

IInv == TypeOK /\ Batch /\ ExactlyOnce

USE OrderType, ChunkType, BoundsType, Fresh

-----------------------------------------------------------------------------

LEMMA ScanHere == ASSUME TypeOK PROVE Here \in Scans
BY DEF TypeOK, Here, Scans

LEMMA AfterType ==
    ASSUME TypeOK, NEW s \in Scans
    PROVE  After(s) \in Nat /\ After(s) <= MaxTop + 1 /\ First[s] \in {0, 1} /\ After(s) >= 0
BY DEF TypeOK, After, First, Heights

\* Entering the next scan, or the end of the pass.
LEMMA LeaveType ==
    ASSUME TypeOK, Leave
    PROVE  turn' \in 1..Len(Order) /\ at' \in {"idle", "load", "place"}
BY DEF TypeOK, Leave, Enter

LEMMA EnterType ==
    ASSUME NEW i \in 1..Len(Order), Enter(i)
    PROVE  turn' \in 1..Len(Order) /\ at' \in {"load", "place"}
BY DEF Enter

LEMMA TargetType ==
    ASSUME TypeOK
    PROVE  Target \in Int /\ Target <= tip /\ tip \in Nat /\ tip <= MaxTop
BY DEF TypeOK, Target, Heights

\* Where a scan resumes is inside its batch, or it has ended.
LEMMA ResumeBatch ==
    ASSUME TypeOK, NEW from \in 0..(MaxTop + 1), Resume(from), tip' = tip
    PROVE  /\ curr' = from /\ to' \in Int /\ got' = <<>> /\ caughtUp' \in BOOLEAN /\ cutShort' \in BOOLEAN
           /\ turn' \in 1..Len(Order) /\ at' \in {"idle", "load", "place", "fetch"}
           /\ at' = "fetch" => turn' = turn /\ from <= to' /\ to' <= Target
<1>1. Target \in Int /\ tip \in Nat
  BY TargetType
<1>2. to' \in Int /\ to' <= Target /\ (from <= Target => from <= to')
  BY <1>1 DEF Resume, ChunkEnd
<1>3. CASE from <= Target
  BY <1>2, <1>3 DEF Resume, TypeOK
<1>4. CASE ~(from <= Target)
  <2>1. Leave /\ CatchUp /\ curr' = from /\ got' = <<>>
    BY <1>4 DEF Resume
  <2>2. caughtUp' \in BOOLEAN /\ cutShort' \in BOOLEAN
    <3>1. CASE Here = "addrbal"
      BY <2>1, <3>1, Zenon DEF CatchUp
    <3>2. CASE Here # "addrbal"
      BY <2>1, <3>2, Zenon DEF CatchUp, TypeOK
    <3> QED
      BY <3>1, <3>2
  <2> QED
    BY <1>2, <2>1, <2>2, LeaveType
<1> QED
  BY <1>3, <1>4

\* The number of balances is a number.
LEMMA FundedType == ASSUME TypeOK PROVE Funded \in Int
<1> DEFINE S == {h \in Heights : table["addrbal"][h] # <<>>}
<1>1. IsFiniteSet(Heights)
  BY FS_Interval DEF Heights
<1>2. S \in SUBSET Heights
  OBVIOUS
<1>3. IsFiniteSet(S)
  BY <1>1, <1>2, FS_Subset
<1>4. Cardinality(S) \in Nat
  BY <1>3, FS_CardinalityType
<1> QED
  BY <1>4 DEF Funded

LEMMA InitOK == Init => IInv
<1> SUFFICES ASSUME Init PROVE IInv
  OBVIOUS
<1>1. TypeOK
  <2>1. table \in [Scans -> [Heights -> Seq(Nat)]] /\ place \in [Scans -> Heights \cup {NoPlace}]
    BY DEF Init
  <2>2. top \in Heights /\ tip \in Heights /\ bootTop \in Heights /\ curr \in 0..(MaxTop + 1)
    BY DEF Init, Heights
  <2>3. chain \in [Heights -> Nat] /\ turn \in 1..Len(Order) /\ got \in Seq(Nat)
    BY DEF Init
  <2>4. loaded \in BOOLEAN /\ caughtUp \in BOOLEAN /\ cutShort \in BOOLEAN
    BY Zenon DEF Init
  <2> QED
    BY <2>1, <2>2, <2>3, <2>4 DEF Init, TypeOK
<1>2. Batch
  BY DEF Init, Batch
<1>3. ExactlyOnce
  BY DEF Init, ExactlyOnce
<1> QED
  BY <1>1, <1>2, <1>3 DEF IInv

LEMMA GoOnBatch ==
    ASSUME TypeOK, NEW from \in 0..(MaxTop + 1), GoOn(from), to <= Target, tip' = tip
    PROVE  /\ curr' = from /\ to' \in Int /\ got' = <<>> /\ caughtUp' \in BOOLEAN /\ cutShort' \in BOOLEAN
           /\ turn' \in 1..Len(Order) /\ at' \in {"idle", "load", "place", "fetch"}
           /\ at' = "fetch" => turn' = turn /\ from <= to' /\ to' <= Target
BY ResumeBatch DEF GoOn, TypeOK

\* The same scan has the same target.
LEMMA SameTarget == ASSUME turn' = turn, tip' = tip PROVE Here' = Here /\ Target' = Target
BY DEF Here, Target

LEMMA GetPlaceOK == ASSUME ~FlakyReads, IInv, GetPlace PROVE IInv'
<1> USE DEF IInv
<1>1. Resume(After(Here)) /\ UNCHANGED faults
  BY DEF GetPlace, After
<1>2. UNCHANGED <<core, db, tip, count, loaded, bootTop, crashes>>
  BY DEF GetPlace
<1>3. After(Here) \in 0..(MaxTop + 1)
  BY ScanHere, AfterType
<1>4. /\ curr' = After(Here) /\ to' \in Int /\ got' = <<>> /\ caughtUp' \in BOOLEAN /\ cutShort' \in BOOLEAN
      /\ turn' \in 1..Len(Order) /\ at' \in {"idle", "load", "place", "fetch"}
      /\ at' = "fetch" => turn' = turn /\ After(Here) <= to' /\ to' <= Target
  BY <1>1, <1>2, <1>3, ResumeBatch
<1>5. TypeOK'
  BY <1>1, <1>2, <1>3, <1>4 DEF TypeOK, core, db
<1>6. Batch'
  <2>1. at' = "fetch" => Here' = Here /\ Target' = Target
    BY <1>2, <1>4, SameTarget
  <2>2. at' = "fetch" => After(Here)' = After(Here)
    BY <1>2, <2>1 DEF After, db
  <2> QED
    BY <1>2, <1>3, <1>4, <2>1, <2>2 DEF Batch, core
<1>7. ExactlyOnce'
  BY <1>2 DEF ExactlyOnce, db
<1> QED
  BY <1>5, <1>6, <1>7

LEMMA FetchOK == ASSUME IInv, Fetch PROVE IInv'
<1> USE DEF IInv
<1> DEFINE h == curr + Len(got)
<1>1. UNCHANGED <<core, db, tip, curr, to, count, loaded, bootTop, crashes>> /\ at = "fetch"
  BY DEF Fetch
<1>2. ExactlyOnce' /\ tip' <= top'
  BY <1>1 DEF ExactlyOnce, db, core, Batch
<1>3. CASE Fail /\ UNCHANGED got /\ (UNCHANGED <<caughtUp, cutShort>> \/ Expire)
  <2>1. turn' \in 1..Len(Order) /\ at' \in {"idle", "load", "place"} /\ faults' \in Nat
    BY <1>3, LeaveType DEF Fail, Fault, TypeOK
  <2>2. caughtUp' \in BOOLEAN /\ cutShort' \in BOOLEAN
    <3>1. CASE UNCHANGED <<caughtUp, cutShort>>
      BY <3>1 DEF TypeOK
    <3>2. CASE Expire
      BY <3>2, Zenon DEF Expire
    <3> QED
      BY <1>3, <3>1, <3>2
  <2> QED
    BY <1>1, <1>2, <1>3, <2>1, <2>2 DEF TypeOK, Batch, core, db
<1>4. CASE /\ got' = Append(got, chain[h])
           /\ at' = "flush" \/ (at' = "fetch" /\ h < to)
           /\ UNCHANGED <<turn, faults, caughtUp, cutShort>>
  <2>1. h \in Nat /\ h <= to /\ to <= Target /\ to \in Int /\ curr \in Nat /\ got \in Seq(Nat)
    BY <1>1 DEF Batch, TypeOK
  <2>2. h \in Heights
    BY <2>1, TargetType DEF Heights
  <2>3. chain[h] \in Nat
    BY <2>2 DEF TypeOK
  <2>4. got' \in Seq(Nat) /\ Len(got') = Len(got) + 1 /\ got' # <<>>
    BY <1>4, <2>1, <2>3
  <2>5. TypeOK'
    BY <1>1, <1>4, <2>4 DEF TypeOK, core, db
  <2>6. Here' = Here /\ Target' = Target
    BY <1>1, <1>4, SameTarget
  <2>7. After(Here)' = After(Here)
    BY <1>1, <2>6 DEF After, db
  <2>8. curr' = curr /\ to' = to /\ curr = After(Here)
    BY <1>1 DEF Batch
  <2>9. at' = "fetch" => curr' + Len(got') <= to'
    BY <1>4, <2>1, <2>4, <2>8
  <2>10. curr' + Len(got') - 1 <= to'
    BY <2>1, <2>4, <2>8
  <2> QED
    BY <1>2, <1>4, <2>1, <2>4, <2>5, <2>6, <2>7, <2>8, <2>9, <2>10 DEF Batch
<1> QED
  BY <1>3, <1>4 DEF Fetch, Expire

\* A batch that is merged counts the heights from the place's next to the one
\* it reached, none of which had been counted.
LEMMA MergeOnce ==
    ASSUME IInv, at = "flush", table' = [table EXCEPT ![Here] = Merged],
           place' = [place EXCEPT ![Here] = Reached]
    PROVE  /\ ExactlyOnce'
           /\ Reached \in Heights /\ Reached <= to /\ curr <= Reached
           /\ table' \in [Scans -> [Heights -> Seq(Nat)]]
           /\ place' \in [Scans -> Heights \cup {NoPlace}]
<1> USE DEF IInv
<1>1. Here \in Scans
  BY ScanHere
<1>2. curr = After(Here) /\ got # <<>> /\ curr + Len(got) - 1 <= to /\ to <= Target
  BY DEF Batch
<1>3. curr \in Nat /\ got \in Seq(Nat) /\ Len(got) \in Nat /\ Len(got) > 0 /\ to \in Int
  <2>1. curr \in Nat /\ got \in Seq(Nat) /\ to \in Int
    BY DEF TypeOK
  <2> QED
    BY <1>2, <2>1
<1>4. Reached \in Heights /\ Reached <= to /\ curr <= Reached /\ Reached = curr + Len(got) - 1
  BY <1>2, <1>3, TargetType DEF Reached, Heights
<1>5. ASSUME NEW h \in Heights, curr <= h, h <= Reached
      PROVE  h - curr + 1 \in 1..Len(got) /\ got[h - curr + 1] \in Nat
  BY <1>3, <1>4, <1>5 DEF Heights
<1>6. Merged \in [Heights -> Seq(Nat)]
  BY <1>1, <1>5 DEF Merged, TypeOK
<1>7. ASSUME NEW h \in Heights
      PROVE  Len(Merged[h]) = IF curr <= h /\ h <= Reached THEN Len(table[Here][h]) + 1 ELSE Len(table[Here][h])
  <2>1. table[Here][h] \in Seq(Nat)
    BY <1>1 DEF TypeOK
  <2>2. CASE curr <= h /\ h <= Reached
    <3>1. Merged[h] = Append(table[Here][h], got[h - curr + 1])
      BY <2>2 DEF Merged
    <3>2. got[h - curr + 1] \in Nat
      BY <1>5, <2>2
    <3> QED
      BY <2>1, <2>2, <3>1, <3>2
  <2>3. CASE ~(curr <= h /\ h <= Reached)
    BY <2>3 DEF Merged
  <2> QED
    BY <2>2, <2>3
<1>8. First[Here] \in {0, 1} /\ First[Here] <= curr
  <2>1. First[Here] \in {0, 1}
    BY <1>1 DEF First
  <2>2. CASE place[Here] = NoPlace
    BY <1>2, <2>1, <2>2 DEF After
  <2>3. CASE place[Here] # NoPlace
    <3>1. place[Here] \in Nat
      BY <1>1, <2>3 DEF TypeOK, Heights
    <3> QED
      BY <1>2, <2>1, <2>3, <3>1 DEF After
  <2> QED
    BY <2>2, <2>3
<1>9. table' \in [Scans -> [Heights -> Seq(Nat)]] /\ place' \in [Scans -> Heights \cup {NoPlace}]
  BY <1>1, <1>4, <1>6 DEF TypeOK
<1>10. ASSUME NEW h \in Heights
       PROVE  Len(table'[Here][h]) = IF First[Here] <= h /\ h <= Reached THEN 1 ELSE 0
  <2>1. table'[Here] = Merged
    BY <1>1 DEF TypeOK
  <2>2. Len(table[Here][h]) = IF place[Here] # NoPlace /\ First[Here] <= h /\ h <= place[Here] THEN 1 ELSE 0
    BY <1>1 DEF ExactlyOnce
  <2>3. place[Here] # NoPlace => place[Here] \in Nat /\ curr = place[Here] + 1
    BY <1>1, <1>2 DEF After, TypeOK, Heights
  <2>4. place[Here] = NoPlace => curr = First[Here]
    BY <1>2 DEF After
  <2>5. h \in Nat /\ Reached \in Nat
    BY <1>4 DEF Heights
  <2>6. h < curr => (Len(table[Here][h]) = 1 <=> First[Here] <= h) /\ Len(table[Here][h]) \in {0, 1}
    BY <1>3, <1>8, <2>2, <2>3, <2>4, <2>5
  <2>7. curr <= h => Len(table[Here][h]) = 0
    BY <1>3, <1>8, <2>2, <2>3, <2>4, <2>5
  <2>8. CASE h < curr
    <3>1. Len(Merged[h]) = Len(table[Here][h])
      BY <1>3, <1>7, <2>5, <2>8
    <3>2. h <= Reached
      BY <1>3, <1>4, <2>5, <2>8
    <3>3. Len(table[Here][h]) = IF First[Here] <= h THEN 1 ELSE 0
      BY <2>6, <2>8
    <3> QED
      BY <2>1, <3>1, <3>2, <3>3
  <2>9. CASE curr <= h /\ h <= Reached
    <3>1. Len(Merged[h]) = Len(table[Here][h]) + 1
      BY <1>7, <2>9
    <3>2. Len(table[Here][h]) = 0
      BY <2>7, <2>9
    <3>3. First[Here] <= h
      BY <1>3, <1>8, <2>5, <2>9
    <3> QED
      BY <2>1, <2>9, <3>1, <3>2, <3>3
  <2>10. CASE h > Reached
    <3>1. Len(Merged[h]) = 0
      BY <1>3, <1>4, <1>7, <2>5, <2>7, <2>10
    <3> QED
      BY <2>1, <2>5, <2>10, <3>1
  <2> QED
    BY <1>3, <2>5, <2>8, <2>9, <2>10
<1>11. ExactlyOnce'
  <2> SUFFICES ASSUME NEW s \in Scans, NEW h \in Heights
               PROVE  Len(table'[s][h]) =
                        IF place'[s] # NoPlace /\ First[s] <= h /\ h <= place'[s] THEN 1 ELSE 0
    BY DEF ExactlyOnce
  <2>1. CASE s = Here
    <3>1. place'[s] = Reached /\ Reached # NoPlace
      BY <1>1, <1>4, <2>1 DEF TypeOK, Heights
    <3> QED
      BY <1>10, <2>1, <3>1
  <2>2. CASE s # Here
    BY <2>2 DEF TypeOK, ExactlyOnce
  <2> QED
    BY <2>1, <2>2
<1> QED
  BY <1>4, <1>9, <1>11

LEMMA FlushOK == ASSUME IInv, Flush PROVE IInv'
<1> USE DEF IInv
<1>1. at = "flush" /\ UNCHANGED <<core, tip, count, loaded, bootTop, crashes>>
  BY DEF Flush
<1>2. CASE Fail /\ UNCHANGED <<db, scan, caughtUp, cutShort>>
  <2>1. turn' \in 1..Len(Order) /\ at' \in {"idle", "load", "place"} /\ faults' \in Nat
    BY <1>2, LeaveType DEF Fail, Fault, TypeOK
  <2> QED
    BY <1>1, <1>2, <2>1 DEF TypeOK, Batch, ExactlyOnce, core, db, scan
<1>3. CASE /\ table' = [table EXCEPT ![Here] = Merged]
           /\ place' = [place EXCEPT ![Here] = Reached]
           /\ UNCHANGED faults
           /\ IF Here = "addrbal"
              THEN at' = "add" /\ UNCHANGED <<turn, curr, to, got, caughtUp, cutShort>>
              ELSE GoOn(Reached + 1)
  <2>1. /\ ExactlyOnce' /\ Reached \in Heights /\ Reached <= to /\ curr <= Reached
        /\ table' \in [Scans -> [Heights -> Seq(Nat)]]
        /\ place' \in [Scans -> Heights \cup {NoPlace}]
    BY <1>1, <1>3, MergeOnce
  <2>2. to <= Target /\ Reached + 1 \in 0..(MaxTop + 1) /\ Reached \in Nat /\ Reached # NoPlace
    BY <1>1, <2>1 DEF Batch, Heights
  <2>3. turn' = turn => Here' = Here /\ Target' = Target /\ After(Here)' = Reached + 1
    <3>1. Here \in Scans
      BY ScanHere
    <3> QED
      BY <1>1, <1>3, <2>2, <3>1, SameTarget DEF After, TypeOK
  <2>4. CASE at' = "add" /\ UNCHANGED <<turn, curr, to, got, caughtUp, cutShort>>
    <3>1. curr + Len(got) = Reached + 1
      BY DEF Reached, TypeOK
    <3> QED
      BY <1>1, <1>3, <2>1, <2>2, <2>3, <2>4, <3>1 DEF TypeOK, Batch, core
  <2>5. CASE GoOn(Reached + 1)
    <3>1. /\ curr' = Reached + 1 /\ to' \in Int /\ got' = <<>> /\ caughtUp' \in BOOLEAN /\ cutShort' \in BOOLEAN
          /\ turn' \in 1..Len(Order) /\ at' \in {"idle", "load", "place", "fetch"}
          /\ at' = "fetch" => turn' = turn /\ Reached + 1 <= to' /\ to' <= Target
      BY <1>1, <2>2, <2>5, GoOnBatch
    <3>2. TypeOK'
      <4>1. curr' \in 0..(MaxTop + 1) /\ got' \in Seq(Nat)
        BY <2>2, <3>1
      <4>2. at' \in {"idle", "tip", "load", "place", "fetch", "flush", "add"}
        BY <3>1
      <4> QED
        BY <1>1, <1>3, <2>1, <3>1, <4>1, <4>2 DEF TypeOK, core
    <3>3. Batch'
      BY <1>1, <2>2, <2>3, <3>1 DEF Batch, core
    <3> QED
      BY <2>1, <3>2, <3>3
  <2> QED
    BY <1>3, <2>4, <2>5
<1> QED
  BY <1>2, <1>3 DEF Flush

LEMMA AddOK == ASSUME IInv, AddCount PROVE IInv'
<1> USE DEF IInv
<1>1. at = "add" /\ UNCHANGED <<core, db, tip, loaded, bootTop, faults, crashes>>
  BY DEF AddCount
<1>2. Reached + 1 = After(Here) /\ to <= Target
  BY <1>1 DEF Batch, Reached, TypeOK
<1>3. Reached + 1 \in 0..(MaxTop + 1)
  BY <1>2, ScanHere, AfterType
<1>4. /\ curr' = Reached + 1 /\ to' \in Int /\ got' = <<>> /\ caughtUp' \in BOOLEAN /\ cutShort' \in BOOLEAN
      /\ turn' \in 1..Len(Order) /\ at' \in {"idle", "load", "place", "fetch"}
      /\ at' = "fetch" => turn' = turn /\ Reached + 1 <= to' /\ to' <= Target
  BY <1>1, <1>2, <1>3, GoOnBatch DEF AddCount
<1>5. count' \in Int
  BY DEF AddCount, TypeOK
<1>6. TypeOK'
  BY <1>1, <1>3, <1>4, <1>5 DEF TypeOK, core, db
<1>7. turn' = turn => Here' = Here /\ Target' = Target /\ After(Here)' = Reached + 1
  BY <1>1, <1>2, SameTarget DEF After, db
<1>8. Batch'
  BY <1>1, <1>3, <1>4, <1>7 DEF Batch, core
<1>9. ExactlyOnce'
  BY <1>1 DEF ExactlyOnce, db
<1> QED
  BY <1>6, <1>8, <1>9

\* The steps that leave no batch behind.
LEMMA OtherOK == ASSUME IInv, Wake \/ GetTip \/ LoadCount \/ Mine \/ Reorg \/ Restart PROVE IInv'
<1> USE DEF IInv
<1>0. ExactlyOnce'
  BY DEF Wake, GetTip, LoadCount, Mine, Reorg, Restart, ExactlyOnce, db
<1>1. CASE Wake
  BY <1>0, <1>1 DEF Wake, TypeOK, Batch, core, db, scan, bal
<1>2. CASE GetTip
  <2>1. turn' \in 1..Len(Order) /\ at' \in {"idle", "load", "place"} /\ faults' \in Nat
    BY <1>2, EnterType DEF GetTip, Fault, TypeOK
  <2>2. tip' \in Heights /\ tip' <= top
    BY <1>2 DEF GetTip, TypeOK, Batch, Heights
  <2> QED
    BY <1>0, <1>2, <2>1, <2>2 DEF GetTip, TypeOK, Batch, core, db, scan, bal
<1>3. CASE LoadCount
  <2>1. turn' \in 1..Len(Order) /\ at' \in {"idle", "load", "place"} /\ faults' \in Nat
    BY <1>3, LeaveType DEF LoadCount, Fail, Fault, TypeOK
  <2>2. loaded' \in BOOLEAN
    BY <1>3 DEF LoadCount, TypeOK
  <2>3. count' \in Int
    BY <1>3, FundedType DEF LoadCount, TypeOK
  <2> QED
    BY <1>0, <1>3, <2>1, <2>2, <2>3 DEF LoadCount, TypeOK, Batch, core, db, scan
<1>4. CASE Mine
  <2>1. top' \in Heights /\ top' > top /\ chain' \in [Heights -> Nat]
    BY <1>4 DEF Mine, TypeOK, Heights
  <2>2. TypeOK'
    BY <1>4, <2>1 DEF Mine, TypeOK, db, scan, bal
  <2>3. Batch'
    <3>1. tip' = tip /\ tip <= top'
      BY <1>4, <2>1 DEF Mine, TypeOK, Batch, Heights
    <3> QED
      BY <1>4, <3>1, SameTarget DEF Mine, Batch, After, db, scan
  <2> QED
    BY <1>0, <2>2, <2>3
<1>5. CASE Reorg
  <2>1. top' \in Heights /\ top' > top /\ branch' \in Nat
    BY <1>5 DEF Reorg, TypeOK, Heights
  <2>2. chain' \in [Heights -> Nat]
    BY <1>5, <2>1 DEF Reorg, TypeOK
  <2>3. TypeOK'
    BY <1>5, <2>1, <2>2 DEF Reorg, TypeOK, db, scan, bal
  <2>4. Batch'
    <3>1. tip' = tip /\ tip <= top'
      BY <1>5, <2>1 DEF Reorg, TypeOK, Batch, Heights
    <3> QED
      BY <1>5, <3>1, SameTarget DEF Reorg, Batch, After, db, scan
  <2> QED
    BY <1>0, <2>3, <2>4
<1>6. CASE Restart
  <2>1. turn' \in 1..Len(Order) /\ got' \in Seq(Nat) /\ crashes' \in Nat
    BY <1>6 DEF Restart, TypeOK
  <2>2. /\ UNCHANGED <<top, chain, branch, table, place, tip, curr, to, faults>>
        /\ at' = "tip" /\ count' = 0 /\ loaded' = FALSE /\ caughtUp' = FALSE /\ cutShort' = FALSE /\ bootTop' = top
    BY <1>6 DEF Restart, core, db
  <2>3. TypeOK'
    <3>1. loaded' \in BOOLEAN /\ caughtUp' \in BOOLEAN /\ cutShort' \in BOOLEAN
      BY <2>2, Zenon
    <3>2. bootTop' \in Heights /\ at' \in {"idle", "tip", "load", "place", "fetch", "flush", "add"}
      BY <2>2 DEF TypeOK
    <3>3. count' \in Int
      BY <2>2
    <3> QED
      BY <2>1, <2>2, <3>1, <3>2, <3>3 DEF TypeOK
  <2>4. Batch'
    BY <1>6 DEF Restart, Batch, core
  <2> QED
    BY <1>0, <2>3, <2>4
<1> QED
  BY <1>1, <1>2, <1>3, <1>4, <1>5, <1>6

LEMMA NextOK == ASSUME ~FlakyReads, IInv, [Next]_vars PROVE IInv'
<1>1. CASE UNCHANGED vars
  <2>1. TypeOK' /\ ExactlyOnce'
    BY <1>1 DEF vars, IInv, TypeOK, ExactlyOnce, core, db, scan, bal
  <2>2. Batch'
    BY <1>1, SameTarget DEF vars, IInv, Batch, After, core, db, scan
  <2> QED
    BY <2>1, <2>2 DEF IInv
<1> QED
  BY <1>1, GetPlaceOK, FetchOK, FlushOK, AddOK, OtherOK DEF Next, UpdateIndexes

THEOREM Invariant == ASSUME ~FlakyReads PROVE Spec => []IInv
<1>1. IInv /\ [Next]_vars => IInv'
  BY NextOK
<1> QED
  BY <1>1, InitOK, PTL DEF Spec

\* As long as a place can be read, each scan counts every height from its first
\* up to its place once and no other, over failures, early merges and restarts.
THEOREM CountedOnce == ASSUME ~FlakyReads PROVE Spec => []ExactlyOnce
BY Invariant, PTL DEF IInv

-----------------------------------------------------------------------------
(* The scans implement Tally.                                              *)

counted == [s \in Scans |-> [h \in Heights |-> Len(table[s][h])]]

\* What a scan has counted is what lies below the height after its place.
LEMMA CountedBelow ==
    ASSUME TypeOK, ExactlyOnce, NEW s \in Scans
    PROVE  counted[s] = Kept!Below(s, After(s))
<1> SUFFICES ASSUME NEW h \in Heights
             PROVE  Len(table[s][h]) = IF First[s] <= h /\ h < After(s) THEN 1 ELSE 0
  BY DEF counted, Kept!Below
<1>1. h \in Nat /\ First[s] \in {0, 1}
  BY DEF Heights, First
<1>2. Len(table[s][h]) = IF place[s] # NoPlace /\ First[s] <= h /\ h <= place[s] THEN 1 ELSE 0
  BY DEF ExactlyOnce
<1>3. CASE place[s] = NoPlace
  BY <1>1, <1>2, <1>3 DEF After
<1>4. CASE place[s] # NoPlace
  <2>1. place[s] \in Nat /\ After(s) = place[s] + 1
    BY <1>4 DEF After, TypeOK, Heights
  <2> QED
    BY <1>1, <1>2, <1>4, <2>1
<1> QED
  BY <1>3, <1>4

\* A merge is one Count, of the heights from the batch's first on.
LEMMA MergeCounts ==
    ASSUME IInv, at = "flush", table' = [table EXCEPT ![Here] = Merged],
           place' = [place EXCEPT ![Here] = Reached], TypeOK'
    PROVE  Kept!Count(Here, curr, Reached + 1) /\ curr \in Kept!Bounds /\ Reached + 1 \in Kept!Bounds
<1> USE DEF IInv
<1>1. Here \in Scans /\ curr = After(Here) /\ curr \in Nat
  BY ScanHere DEF Batch, TypeOK
<1>2. ExactlyOnce' /\ Reached \in Heights /\ curr <= Reached
  BY MergeOnce
<1>3. Reached \in Nat /\ Reached # NoPlace /\ curr < Reached + 1 /\ curr \in Heights
  BY <1>1, <1>2 DEF Heights
<1>4. counted[Here] = Kept!Below(Here, curr)
  BY <1>1, CountedBelow
<1>5. counted' = [counted EXCEPT ![Here] = Kept!Below(Here, Reached + 1)]
  <2> SUFFICES ASSUME NEW s \in Scans
               PROVE  counted'[s] = IF s = Here THEN Kept!Below(Here, Reached + 1) ELSE counted[s]
    BY DEF counted
  <2>1. CASE s = Here
    <3> SUFFICES ASSUME NEW h \in Heights
                 PROVE  Len(table'[Here][h]) = IF First[Here] <= h /\ h < Reached + 1 THEN 1 ELSE 0
      BY <2>1 DEF counted, Kept!Below
    <3>1. place'[Here] = Reached
      BY <1>1 DEF TypeOK
    <3>2. Len(table'[Here][h]) = IF First[Here] <= h /\ h <= Reached THEN 1 ELSE 0
      BY <1>1, <1>2, <1>3, <3>1 DEF ExactlyOnce
    <3>3. h \in Nat
      BY DEF Heights
    <3> QED
      BY <1>3, <3>2, <3>3
  <2>2. CASE s # Here
    BY <2>2 DEF counted, TypeOK
  <2> QED
    BY <2>1, <2>2
<1> QED
  BY <1>1, <1>2, <1>3, <1>4, <1>5 DEF Kept!Count, Kept!Bounds, counted

LEMMA StepCounts == ASSUME IInv, IInv', [Next]_vars PROVE [Kept!Next]_counted
<1>1. CASE table' = table
  BY <1>1 DEF counted
<1>2. CASE table' # table
  <2>1. Flush /\ at = "flush"
    BY <1>2 DEF Next, UpdateIndexes, Wake, GetTip, LoadCount, GetPlace, Fetch, Flush, AddCount,
                Mine, Reorg, Restart, vars, db
  <2>2. table' = [table EXCEPT ![Here] = Merged] /\ place' = [place EXCEPT ![Here] = Reached]
    BY <1>2, <2>1 DEF Flush, db
  <2>3. Kept!Count(Here, curr, Reached + 1) /\ curr \in Kept!Bounds /\ Reached + 1 \in Kept!Bounds
    BY <2>1, <2>2, MergeCounts DEF IInv
  <2>4. Here \in Scans
    BY ScanHere DEF IInv
  <2>5. Kept!Next
    BY <2>3, <2>4, Zenon DEF Kept!Next, Kept!Count
  <2> QED
    BY <2>5
<1> QED
  BY <1>1, <1>2

\* The four scans do what a tally promises: every change to a table is one
\* batch of heights after the last, whatever fails and restarts between.
THEOREM Refinement == ASSUME ~FlakyReads PROVE Spec => IsTally
<1>1. Init => Kept!Init
  <2> SUFFICES ASSUME Init PROVE counted = [s \in Scans |-> Kept!Below(s, 0)]
    BY DEF Kept!Init, counted
  <2> SUFFICES ASSUME NEW s \in Scans, NEW h \in Heights
               PROVE  Len(table[s][h]) = IF First[s] <= h /\ h < 0 THEN 1 ELSE 0
    BY DEF counted, Kept!Below
  <2>1. table[s][h] = <<>> /\ h \in Nat
    BY DEF Init, Heights
  <2> QED
    BY <2>1
<1>2. IInv /\ IInv' /\ [Next]_vars => [Kept!Next]_counted
  BY StepCounts
<1> QED
  BY <1>1, <1>2, Invariant, PTL DEF Spec, IsTally, Kept!Spec, counted

-----------------------------------------------------------------------------
(* The balances are of the chain.                                          *)

Bal == "addrbal"

\* A height is settled when no reorg can reach it any more.
Settled(h) == h + Confirmations <= top

\* The balances, and the blocks on their way into them, are settled blocks of
\* the chain.
Confirmed ==
    /\ BalancesOfChain
    /\ place[Bal] # NoPlace => Settled(place[Bal])
    /\ Here = Bal /\ at \in {"fetch", "flush"} => \A i \in DOMAIN got : got[i] = chain[curr + i - 1]

\* What is settled stays.
LEMMA SettledStays ==
    ASSUME MaxDepth <= Confirmations, TypeOK, Mine \/ Reorg, NEW h \in Heights, Settled(h)
    PROVE  chain'[h] = chain[h] /\ Settled(h)'
<1>1. h \in Nat /\ top \in Nat /\ top' = top + 1 /\ h + Confirmations <= top
  BY DEF Mine, Reorg, Heights, TypeOK, Settled
<1>2. Settled(h)'
  BY <1>1 DEF Settled
<1>3. CASE Mine
  <2>1. h # top + 1
    BY <1>1
  <2> QED
    BY <1>2, <1>3, <2>1 DEF Mine, TypeOK
<1>4. CASE Reorg
  <2>1. PICK d \in 1..MaxDepth :
          chain' = [k \in Heights |-> IF top - d < k /\ k <= top + 1 THEN branch' ELSE chain[k]]
    BY <1>4 DEF Reorg
  <2>2. ~(top - d < h)
    BY <1>1, <2>1
  <2> QED
    BY <1>2, <2>1, <2>2
<1> QED
  BY <1>3, <1>4

\* The heights that a batch of addrbal holds, or will read, are settled.
LEMMA BatchSettled ==
    ASSUME IInv, Here = Bal, at \in {"fetch", "flush"}, NEW h \in Int, h <= to
    PROVE  Settled(h)
<1>1. to <= Target /\ tip <= top /\ Target = tip - Confirmations
  BY DEF IInv, Batch, Target, Bal
<1>2. to \in Int /\ tip \in Nat /\ top \in Nat
  BY DEF IInv, TypeOK, Heights
<1> QED
  BY <1>1, <1>2 DEF Settled

\* Where a block counted lies.
LEMMA CountedSettled ==
    ASSUME IInv, Confirmed, Bal \in Scans, NEW h \in Heights, NEW i \in DOMAIN table[Bal][h]
    PROVE  Settled(h)
<1>1. table[Bal][h] \in Seq(Nat)
  BY DEF IInv, TypeOK
<1>2. Len(table[Bal][h]) # 0
  BY <1>1
<1>3. place[Bal] # NoPlace /\ h <= place[Bal]
  BY <1>2 DEF IInv, ExactlyOnce
<1>4. place[Bal] \in Nat /\ h \in Nat /\ top \in Nat
  BY <1>3 DEF IInv, TypeOK, Heights
<1> QED
  BY <1>3, <1>4 DEF Confirmed, Settled

LEMMA ChainConfirmed ==
    ASSUME MaxDepth <= Confirmations, Bal \in Scans, IInv, Confirmed, Mine \/ Reorg
    PROVE  Confirmed'
<1>1. UNCHANGED <<db, at, turn, tip, scan>> /\ Here' = Here
  BY DEF Mine, Reorg, Here
<1>2. BalancesOfChain'
  <2> SUFFICES ASSUME NEW h \in Heights, NEW i \in DOMAIN table[Bal][h]
               PROVE  table[Bal][h][i] = chain'[h]
    BY <1>1 DEF BalancesOfChain, Bal, db
  <2> QED
    BY CountedSettled, SettledStays DEF IInv, Confirmed, BalancesOfChain, Bal
<1>3. place'[Bal] # NoPlace => Settled(place[Bal])'
  <2> SUFFICES ASSUME place[Bal] # NoPlace PROVE Settled(place[Bal])'
    BY <1>1 DEF db
  <2>1. place[Bal] \in Heights /\ Settled(place[Bal])
    BY DEF IInv, TypeOK, Confirmed
  <2>2. top' >= top /\ place'[Bal] = place[Bal]
    BY <1>1 DEF Mine, Reorg, IInv, TypeOK, Heights, db
  <2> QED
    BY <2>1, <2>2 DEF Settled, IInv, TypeOK, Heights, Mine, Reorg
<1>4. Here' = Bal /\ at' \in {"fetch", "flush"} => \A i \in DOMAIN got' : got'[i] = chain'[curr' + i - 1]
  <2> SUFFICES ASSUME Here = Bal, at \in {"fetch", "flush"}, NEW i \in DOMAIN got
               PROVE  got[i] = chain'[curr + i - 1]
    BY <1>1 DEF scan
  <2>1. got \in Seq(Nat) /\ curr \in Nat /\ to \in Int /\ to <= Target
    BY DEF IInv, TypeOK, Batch
  <2>2. i \in 1..Len(got)
    BY <2>1
  <2>3. curr + Len(got) - 1 <= to
    BY <2>1 DEF IInv, Batch
  <2>4. curr + i - 1 \in Heights /\ curr + i - 1 <= to
    BY <2>1, <2>2, <2>3, TargetType DEF IInv, Heights
  <2>5. Settled(curr + i - 1)
    BY <2>4, BatchSettled DEF Heights
  <2>6. chain'[curr + i - 1] = chain[curr + i - 1]
    BY <2>4, <2>5, SettledStays DEF IInv
  <2> QED
    BY <2>6 DEF Confirmed
<1> QED
  BY <1>2, <1>3, <1>4 DEF Confirmed

\* The next block of a batch is read from the chain.
LEMMA FetchConfirmed == ASSUME IInv, Confirmed, Fetch PROVE Confirmed'
<1>1. UNCHANGED <<core, db, tip, curr, to>> /\ at = "fetch"
  BY DEF Fetch
<1>2. BalancesOfChain' /\ (place'[Bal] # NoPlace => Settled(place[Bal])')
  BY <1>1 DEF Confirmed, BalancesOfChain, Settled, core, db
<1>3. CASE Fail
  <2>1. at' \notin {"fetch", "flush"}
    BY <1>3 DEF Fail, Leave, Enter
  <2> QED
    BY <1>2, <2>1 DEF Confirmed
<1>4. CASE got' = Append(got, chain[curr + Len(got)]) /\ turn' = turn
  <2>1. Here' = Here /\ chain' = chain /\ curr' = curr /\ got \in Seq(Nat) /\ curr \in Nat
    BY <1>1, <1>4 DEF Here, core, IInv, TypeOK
  <2> SUFFICES ASSUME Here = Bal, NEW i \in DOMAIN got'
               PROVE  got'[i] = chain[curr + i - 1]
    BY <1>2, <2>1 DEF Confirmed
  <2>2. curr + Len(got) \in Heights
    BY <1>1, <2>1, TargetType DEF IInv, Batch, TypeOK, Heights
  <2>3. chain[curr + Len(got)] \in Nat
    BY <2>2 DEF IInv, TypeOK
  <2>4. i \in 1..(Len(got) + 1)
    BY <1>4, <2>1, <2>3
  <2>5. CASE i = Len(got) + 1
    <3>1. got'[i] = chain[curr + Len(got)] /\ curr + i - 1 = curr + Len(got)
      BY <1>4, <2>1, <2>3, <2>5
    <3> QED
      BY <3>1
  <2>6. CASE i # Len(got) + 1
    <3>1. i \in DOMAIN got /\ got'[i] = got[i]
      BY <1>4, <2>1, <2>3, <2>4, <2>6
    <3> QED
      BY <1>1, <3>1 DEF Confirmed
  <2> QED
    BY <2>5, <2>6
<1> QED
  BY <1>3, <1>4 DEF Fetch, Expire, Fail

\* A merge moves its blocks into the table.
LEMMA FlushConfirmed ==
    ASSUME Bal \in Scans, IInv, IInv', Confirmed, Flush
    PROVE  Confirmed'
<1>1. at = "flush" /\ UNCHANGED <<core, tip>>
  BY DEF Flush
<1>2. CASE UNCHANGED <<db, scan>> /\ Fail
  <2>1. at' \notin {"fetch", "flush"}
    BY <1>2 DEF Fail, Leave, Enter
  <2>2. BalancesOfChain' /\ (place'[Bal] # NoPlace => Settled(place[Bal])')
    BY <1>1, <1>2 DEF Confirmed, BalancesOfChain, Settled, core, db
  <2> QED
    BY <2>1, <2>2 DEF Confirmed
<1>3. CASE /\ table' = [table EXCEPT ![Here] = Merged]
           /\ place' = [place EXCEPT ![Here] = Reached]
  <2>1. /\ Reached \in Heights /\ Reached <= to /\ curr <= Reached /\ Here \in Scans
    BY <1>1, <1>3, MergeOnce, ScanHere DEF IInv
  <2>2. table'[Here] = Merged /\ place'[Here] = Reached
    BY <1>3, <2>1 DEF IInv, TypeOK
  <2>3. CASE Here = Bal
    <3>1. Reached + Confirmations <= top'
      BY <1>1, <2>1, <2>3, BatchSettled DEF Settled, core, Heights
    <3>2. BalancesOfChain'
      <4> SUFFICES ASSUME NEW h \in Heights, NEW i \in DOMAIN Merged[h]
                   PROVE  Merged[h][i] = chain[h]
        <5>1. table'["addrbal"] = Merged /\ chain' = chain
          BY <1>1, <2>2, <2>3 DEF Bal, core
        <5> QED
          BY <5>1 DEF BalancesOfChain
      <4>1. table[Here][h] \in Seq(Nat) /\ h \in Nat /\ curr \in Nat /\ got \in Seq(Nat)
        <5>1. table[Here][h] \in Seq(Nat)
          BY <2>1 DEF IInv, TypeOK
        <5>2. curr \in Nat /\ got \in Seq(Nat)
          BY DEF IInv, TypeOK
        <5> QED
          BY <5>1, <5>2 DEF Heights
      <4>2. CASE curr <= h /\ h <= Reached
        <5>1. Merged[h] = Append(table[Here][h], got[h - curr + 1])
          BY <4>2 DEF Merged
        <5>2. h - curr + 1 \in DOMAIN got
          BY <2>1, <4>1, <4>2 DEF Reached, Heights
        <5>3. got[h - curr + 1] = chain[curr + (h - curr + 1) - 1]
          BY <1>1, <2>3, <5>2 DEF Confirmed
        <5>4. got[h - curr + 1] = chain[h] /\ got[h - curr + 1] \in Nat
          BY <4>1, <5>2, <5>3
        <5>5. i \in 1..(Len(table[Here][h]) + 1)
          BY <4>1, <5>1, <5>4
        <5>6. CASE i = Len(table[Here][h]) + 1
          BY <4>1, <5>1, <5>4, <5>6
        <5>7. CASE i # Len(table[Here][h]) + 1
          <6>1. table[Here][h] \in Seq(Nat) /\ Len(table[Here][h]) \in Nat
            BY <4>1
          <6>2. i \in 1..Len(table[Here][h])
            BY <5>5, <5>7, <6>1
          <6>3. i \in DOMAIN table[Here][h] /\ Merged[h][i] = table[Here][h][i]
            BY <5>1, <5>4, <6>1, <6>2
          <6> QED
            BY <2>3, <6>3 DEF Confirmed, BalancesOfChain, Bal
        <5> QED
          BY <5>6, <5>7
      <4>3. CASE ~(curr <= h /\ h <= Reached)
        <5>1. Merged[h] = table[Here][h]
          BY <4>3 DEF Merged
        <5> QED
          BY <2>3, <5>1 DEF Confirmed, BalancesOfChain, Bal
      <4> QED
        BY <4>2, <4>3
    <3>3. at' \notin {"fetch", "flush"}
      BY <1>1, <1>3, <2>3 DEF Flush, Fail, Leave, Enter, Bal
    <3> QED
      BY <2>2, <2>3, <3>1, <3>2, <3>3 DEF Confirmed, Settled
  <2>4. CASE Here # Bal
    <3>1. table'[Bal] = table[Bal] /\ place'[Bal] = place[Bal]
      BY <1>3, <2>4 DEF IInv, TypeOK
    <3>2. BalancesOfChain' /\ (place'[Bal] # NoPlace => Settled(place[Bal])')
      BY <1>1, <3>1 DEF Confirmed, BalancesOfChain, Bal, Settled, core
    <3>3. at' \in {"fetch", "flush"} => got' = <<>>
      <4>1. CASE Fail
        BY <4>1 DEF Fail, Leave, Enter
      <4>2. CASE GoOn(Reached + 1)
        <5>1. Reached + 1 \in 0..(MaxTop + 1) /\ to <= Target /\ tip' = tip
          BY <1>1, <2>1 DEF IInv, Batch, Heights
        <5> QED
          BY <4>2, <5>1, GoOnBatch DEF IInv
      <4> QED
        BY <2>4, <4>1, <4>2 DEF Flush, Bal
    <3> QED
      BY <3>2, <3>3 DEF Confirmed
  <2> QED
    BY <2>3, <2>4
<1> QED
  BY <1>2, <1>3 DEF Flush

LEMMA OtherConfirmed ==
    ASSUME IInv, Confirmed, ~FlakyReads,
           Wake \/ GetTip \/ LoadCount \/ GetPlace \/ AddCount \/ Restart \/ UNCHANGED vars
    PROVE  Confirmed'
<1>1. UNCHANGED <<core, db>>
  BY DEF Wake, GetTip, LoadCount, GetPlace, AddCount, Restart, vars
<1>2. BalancesOfChain' /\ (place'[Bal] # NoPlace => Settled(place[Bal])')
  BY <1>1 DEF Confirmed, BalancesOfChain, Settled, core, db
<1>3. CASE UNCHANGED vars
  BY <1>2, <1>3 DEF Confirmed, Here, vars, scan, core
<1>4. CASE Wake \/ GetTip \/ LoadCount \/ Restart
  <2>1. at' \notin {"fetch", "flush"}
    BY <1>4 DEF Wake, GetTip, LoadCount, Restart, Fail, Leave, Enter
  <2> QED
    BY <1>2, <2>1 DEF Confirmed
<1>5. CASE GetPlace
  <2>1. got' = <<>>
    BY <1>5 DEF GetPlace, Resume
  <2> QED
    BY <1>2, <2>1 DEF Confirmed
<1>6. CASE AddCount
  <2>1. got' = <<>>
    BY <1>6 DEF AddCount, GoOn, Resume
  <2> QED
    BY <1>2, <2>1 DEF Confirmed
<1> QED
  BY <1>3, <1>4, <1>5, <1>6

\* The balances are of blocks of the chain, where no reorg is deeper than the
\* confirmations that addrbal waits for.
THEOREM OfChain ==
    ASSUME ~FlakyReads, MaxDepth <= Confirmations, Bal \in Scans
    PROVE  Spec => []BalancesOfChain
<1>1. Init => Confirmed
  BY DEF Init, Confirmed, BalancesOfChain, Bal
<1>2. IInv /\ IInv' /\ Confirmed /\ [Next]_vars => Confirmed'
  BY ChainConfirmed, FetchConfirmed, FlushConfirmed, OtherConfirmed DEF Next, UpdateIndexes
<1>3. Confirmed => BalancesOfChain
  BY DEF Confirmed
<1> QED
  BY <1>1, <1>2, <1>3, Invariant, PTL DEF Spec

-----------------------------------------------------------------------------
(* What Count answers.                                                     *)

\* The tip of a pass was read after the process started, and only the balances
\* are counted and catch up.
Pass ==
    /\ at = "load" => Here = "addrbal"
    /\ loaded \/ caughtUp => "addrbal" \in Scans
    /\ bootTop <= top
    /\ at \notin {"tip", "idle"} => bootTop <= tip

\* The balances' merge brings an address for each of its blocks.
LEMMA FundedGrows ==
    ASSUME IInv, at = "flush", Here = "addrbal", table' = [table EXCEPT ![Here] = Merged],
           place' = [place EXCEPT ![Here] = Reached]
    PROVE  /\ Funded' = Funded + Len(got)
           /\ \A h \in Heights : table["addrbal"][h] # <<>> => table'["addrbal"][h] # <<>>
<1> DEFINE S == {h \in Heights : table["addrbal"][h] # <<>>}
           N == curr..Reached
<1>1. /\ Here \in Scans /\ Reached \in Heights /\ curr <= Reached /\ curr \in Nat /\ got \in Seq(Nat)
      /\ Reached = curr + Len(got) - 1 /\ curr = After(Here)
  BY ScanHere, MergeOnce DEF IInv, TypeOK, Batch, Reached
<1>2. N \subseteq Heights /\ Reached \in Int
  <2>1. Reached \in Nat /\ Reached <= MaxTop
    BY <1>1 DEF Heights
  <2>2. ASSUME NEW h \in N PROVE h \in Heights
    <3>1. curr \in Nat /\ Reached \in Nat /\ h \in curr..Reached
      BY <1>1, <2>1
    <3>2. h \in Nat /\ h <= Reached
      BY <3>1
    <3> QED
      BY <2>1, <3>2 DEF Heights
  <2> QED
    BY <2>1, <2>2
<1>3. \A h \in Heights : Len(table["addrbal"][h]) = IF place[Here] # NoPlace /\ First[Here] <= h /\ h <= place[Here] THEN 1 ELSE 0
  BY <1>1 DEF IInv, ExactlyOnce
<1>4. \A h \in N : table["addrbal"][h] = <<>>
  <2> SUFFICES ASSUME NEW h \in N PROVE table["addrbal"][h] = <<>>
    OBVIOUS
  <2>1. h \in Heights /\ h \in Nat /\ After(Here) <= h
    BY <1>1, <1>2 DEF Heights
  <2>2. table["addrbal"][h] \in Seq(Nat)
    BY <1>1, <2>1 DEF IInv, TypeOK
  <2>3. Len(table["addrbal"][h]) = 0
    <3>1. place[Here] # NoPlace => place[Here] \in Nat /\ After(Here) = place[Here] + 1
      BY <1>1 DEF IInv, TypeOK, After, Heights
    <3>2. place[Here] # NoPlace => ~(h <= place[Here])
      BY <2>1, <3>1
    <3> QED
      BY <1>3, <2>1, <3>2
  <2> QED
    BY <2>2, <2>3
<1>5. table'["addrbal"] = Merged
  BY <1>1 DEF IInv, TypeOK
<1>6. \A h \in Heights : table'["addrbal"][h] # <<>> <=> h \in S \cup N
  <2> SUFFICES ASSUME NEW h \in Heights PROVE Merged[h] # <<>> <=> h \in S \cup N
    BY <1>5
  <2>1. table["addrbal"][h] \in Seq(Nat) /\ h \in Nat
    <3>1. table["addrbal"][h] \in Seq(Nat)
      BY <1>1 DEF IInv, TypeOK
    <3> QED
      BY <3>1 DEF Heights
  <2>2. CASE h \in N
    <3>1. Merged[h] = Append(table["addrbal"][h], got[h - curr + 1])
      BY <2>2 DEF Merged
    <3> QED
      BY <2>1, <2>2, <3>1
  <2>3. CASE h \notin N
    <3>1. ~(curr <= h /\ h <= Reached)
      BY <1>1, <1>2, <2>1, <2>3
    <3>2. Merged[h] = table["addrbal"][h]
      BY <3>1 DEF Merged
    <3> QED
      BY <2>3, <3>2
  <2> QED
    BY <2>2, <2>3
<1>7. Funded' = Cardinality(S \cup N)
  <2>1. {h \in Heights : table'["addrbal"][h] # <<>>} = S \cup N
    BY <1>2, <1>6
  <2> QED
    BY <2>1 DEF Funded
<1>8. IsFiniteSet(S) /\ IsFiniteSet(N) /\ Cardinality(N) = Len(got) /\ S \cap N = {}
  <2>1. IsFiniteSet(Heights) /\ S \in SUBSET Heights
    <3>1. IsFiniteSet(Heights)
      <4> HIDE DEF S, N
      <4> QED
        BY FS_Interval DEF Heights
    <3> QED
      BY <3>1
  <2>2. IsFiniteSet(S)
    BY <2>1, FS_Subset
  <2>3. curr \in Int /\ Reached \in Int /\ Len(got) \in Nat
    BY <1>1, <1>2
  <2>4. IsFiniteSet(N) /\ Cardinality(N) = Reached - curr + 1
    <3>1. ~(curr > Reached)
      BY <1>1, <2>3
    <3>2. IsFiniteSet(N) /\ Cardinality(N) = IF curr > Reached THEN 0 ELSE Reached - curr + 1
      BY <2>3, FS_Interval
    <3> QED
      BY <3>1, <3>2
  <2>5. Reached - curr + 1 = Len(got)
    BY <1>1, <2>3
  <2> QED
    BY <1>4, <2>2, <2>4, <2>5
<1>9. Cardinality(S \cup N) = Cardinality(S) + Cardinality(N) - Cardinality(S \cap N)
  BY <1>8, FS_Union
<1>10. Cardinality(S \cap N) = 0 /\ Cardinality(S) \in Nat
  BY <1>8, FS_EmptySet, FS_CardinalityType
<1> QED
  BY <1>1, <1>6, <1>7, <1>8, <1>9, <1>10 DEF Funded

\* Another scan's merge leaves the balances alone.
LEMMA FundedKept ==
    ASSUME TypeOK, "addrbal" \in Scans, Here # "addrbal", table' = [table EXCEPT ![Here] = Merged]
    PROVE  table'["addrbal"] = table["addrbal"] /\ Funded' = Funded
<1>1. table'["addrbal"] = table["addrbal"]
  BY DEF TypeOK
<1> QED
  BY <1>1 DEF Funded

LEMMA LeavePass ==
    ASSUME TypeOK, Leave
    PROVE  at' \in {"idle", "load", "place"} /\ (at' = "load" => Here' = "addrbal")
BY DEF TypeOK, Leave, Enter, Here

\* A scan of the balances that ends has counted all there was at the start.
LEMMA EndsWhole ==
    ASSUME IInv, Pass, at \notin {"tip", "idle"}, Here = "addrbal", After(Here) > Target, NEW h \in Heights, h + Confirmations <= bootTop
    PROVE  table["addrbal"][h] # <<>>
<1>1. Here \in Scans /\ h \in Nat /\ tip \in Nat /\ bootTop \in Nat /\ bootTop <= tip
  BY ScanHere DEF IInv, TypeOK, Heights, Pass
<1>2. h <= Target
  <2>1. Target = tip - Confirmations
    BY DEF Target
  <2>2. Confirmations \in Nat /\ h + Confirmations <= tip
    BY <1>1
  <2> QED
    BY <1>1, <2>1, <2>2
<1>3. Target \in Int /\ After(Here) \in Nat
  BY TargetType, AfterType, ScanHere DEF IInv
<1>4. h < After(Here) /\ First[Here] = 0
  BY <1>1, <1>2, <1>3 DEF First
<1>5. place[Here] # NoPlace /\ h <= place[Here]
  <2>1. place[Here] # NoPlace
    BY <1>1, <1>4 DEF After
  <2>2. place[Here] \in Nat
    BY <1>1, <2>1 DEF IInv, TypeOK, Heights
  <2> QED
    BY <1>1, <1>4, <2>1, <2>2 DEF After
<1>6. Len(table["addrbal"][h]) = 1
  <2>1. Len(table[Here][h]) = IF place[Here] # NoPlace /\ First[Here] <= h /\ h <= place[Here] THEN 1 ELSE 0
    BY <1>1 DEF IInv, ExactlyOnce
  <2> QED
    BY <1>1, <1>4, <1>5, <2>1
<1> QED
  BY <1>6, SMTT(40)

LEMMA ResumePass ==
    ASSUME IInv, Pass, at \notin {"tip", "idle"}, Resume(After(Here)), CaughtUpIsWhole
    PROVE  /\ at' \in {"idle", "load", "place", "fetch"} /\ (at' = "load" => Here' = "addrbal")
           /\ caughtUp' => "addrbal" \in Scans
           /\ caughtUp' /\ ~cutShort' => \A h \in Heights : h + Confirmations <= bootTop => table["addrbal"][h] # <<>>
<1>1. Target \in Int /\ After(Here) \in Nat
  BY TargetType, AfterType, ScanHere DEF IInv
<1>2. CASE After(Here) <= Target
  BY <1>2 DEF Resume, Pass, CaughtUpIsWhole
<1>3. CASE ~(After(Here) <= Target)
  <2>1. Leave /\ CatchUp
    BY <1>3 DEF Resume
  <2>2. at' \in {"idle", "load", "place"} /\ (at' = "load" => Here' = "addrbal")
    BY <2>1, LeavePass DEF IInv
  <2>3. CASE Here = "addrbal"
    <3>1. \A h \in Heights : h + Confirmations <= bootTop => table["addrbal"][h] # <<>>
      BY <1>1, <1>3, <2>3, EndsWhole
    <3> QED
      BY <2>2, <2>3, <3>1, ScanHere DEF IInv
  <2>4. CASE Here # "addrbal"
    BY <2>1, <2>2, <2>4 DEF CaughtUpIsWhole, Pass, CatchUp
  <2> QED
    BY <2>3, <2>4
<1> QED
  BY <1>2, <1>3

CInv == Pass /\ CountIsWhole

LEMMA InitCount == Init => CInv
<1> SUFFICES ASSUME Init PROVE CInv
  OBVIOUS
<1>1. at = "tip" /\ ~loaded /\ ~caughtUp /\ bootTop = top /\ top = StartTop
  BY DEF Init
<1> QED
  BY <1>1 DEF CInv, Pass, CountIsWhole, CountIsTable, CaughtUpIsWhole

\* A step that leaves the balances, the count and where they got to alone.
LEMMA QuietCount ==
    ASSUME IInv, CInv, UNCHANGED <<table, count, loaded, caughtUp, cutShort, bootTop>>, at # "add", at' # "add",
           at' = "load" => Here' = "addrbal", bootTop <= top', at' \notin {"tip", "idle"} => bootTop <= tip'
    PROVE  CInv'
<1>1. Pass'
  BY DEF CInv, Pass
<1>2. Funded' = Funded
  BY DEF Funded
<1>3. CountIsTable'
  BY <1>2 DEF CInv, CountIsWhole, CountIsTable
<1>4. CaughtUpIsWhole'
  BY DEF CInv, CountIsWhole, CaughtUpIsWhole
<1> QED
  BY <1>1, <1>3, <1>4 DEF CInv, CountIsWhole

LEMMA LoadCountOK == ASSUME IInv, CInv, LoadCount PROVE CInv'
<1>1. /\ at = "load" /\ Here = "addrbal" /\ bootTop <= tip /\ Here \in Scans
      /\ UNCHANGED <<top, tip, table, got, caughtUp, cutShort, bootTop>>
  BY ScanHere DEF LoadCount, CInv, Pass, IInv, core, db, scan
<1>2. Funded' = Funded /\ (loaded => count = Funded)
  BY <1>1 DEF Funded, CInv, CountIsWhole, CountIsTable, IInv, TypeOK
<1>3. CaughtUpIsWhole'
  BY <1>1 DEF CInv, CountIsWhole, CaughtUpIsWhole
<1>4. CASE at' = "place" /\ loaded' = TRUE /\ count' = IF loaded THEN count ELSE Funded
  <2>1. count' = Funded /\ Funded \in Int
    BY <1>2, <1>4, FundedType DEF IInv
  <2>2. CountIsTable'
    BY <1>2, <1>4, <2>1 DEF CountIsTable
  <2>3. Pass'
    BY <1>1, <1>4 DEF CInv, Pass
  <2> QED
    BY <1>3, <2>2, <2>3 DEF CInv, CountIsWhole
<1>5. CASE ~loaded /\ Leave /\ UNCHANGED <<count, loaded>>
  <2>1. at' \in {"idle", "load", "place"} /\ (at' = "load" => Here' = "addrbal")
    BY <1>5, LeavePass DEF IInv
  <2>2. Pass'
    BY <1>1, <1>5, <2>1 DEF CInv, Pass
  <2>3. CountIsTable'
    BY <1>5 DEF CountIsTable
  <2> QED
    BY <1>3, <2>2, <2>3 DEF CInv, CountIsWhole
<1> QED
  BY <1>4, <1>5 DEF LoadCount, Fail

\* The balances resume, or a scan of them ends.
LEMMA ResumeCount ==
    ASSUME IInv, CInv, at \notin {"tip", "idle"}, Resume(After(Here)), UNCHANGED <<top, table, tip, loaded, bootTop>>,
           loaded => count' = Funded
    PROVE  CInv'
<1>1. /\ at' \in {"idle", "load", "place", "fetch"} /\ (at' = "load" => Here' = "addrbal")
      /\ caughtUp' => "addrbal" \in Scans
      /\ caughtUp' /\ ~cutShort' => \A h \in Heights : h + Confirmations <= bootTop => table["addrbal"][h] # <<>>
  BY ResumePass DEF CInv, CountIsWhole
<1>2. Pass'
  BY <1>1 DEF CInv, Pass
<1>3. Funded' = Funded
  BY DEF Funded
<1>4. CountIsTable'
  <2>1. at' # "add"
    BY <1>1
  <2>2. loaded' => count' + 0 = Funded'
    BY <1>3, FundedType DEF IInv
  <2> QED
    BY <2>1, <2>2 DEF CountIsTable
<1>5. CaughtUpIsWhole'
  BY <1>1 DEF CaughtUpIsWhole
<1> QED
  BY <1>2, <1>4, <1>5 DEF CInv, CountIsWhole

LEMMA GetPlaceCount == ASSUME ~FlakyReads, IInv, CInv, GetPlace PROVE CInv'
<1>1. at = "place" /\ Resume(After(Here)) /\ UNCHANGED <<top, table, tip, count, loaded, bootTop>>
  BY DEF GetPlace, After, core, db
<1>2. loaded => count = Funded
  BY <1>1 DEF CInv, CountIsWhole, CountIsTable, IInv, TypeOK
<1> QED
  BY <1>1, <1>2, ResumeCount

LEMMA AddCountOK == ASSUME IInv, CInv, AddCount PROVE CInv'
<1>1. at = "add" /\ UNCHANGED <<top, table, tip, loaded, bootTop>> /\ count' = count + Len(got) /\ GoOn(Reached + 1)
  BY DEF AddCount, core, db
<1>2. Reached + 1 = After(Here)
  BY <1>1 DEF IInv, Batch, Reached, TypeOK
<1>3. loaded => count' = Funded
  BY <1>1 DEF CInv, CountIsWhole, CountIsTable
<1>4. CASE Resume(After(Here))
  BY <1>1, <1>3, <1>4, ResumeCount
<1>5. CASE at' = "fetch" /\ UNCHANGED <<to, turn, caughtUp, cutShort>>
  <2>1. Pass'
    BY <1>1, <1>5 DEF CInv, Pass
  <2>2. Funded' = Funded /\ Funded \in Int
    BY <1>1, FundedType DEF Funded, IInv
  <2>3. CountIsTable'
    BY <1>1, <1>3, <1>5, <2>2 DEF CountIsTable
  <2>4. CaughtUpIsWhole'
    BY <1>1, <1>5 DEF CInv, CountIsWhole, CaughtUpIsWhole
  <2> QED
    BY <2>1, <2>3, <2>4 DEF CInv, CountIsWhole
<1> QED
  BY <1>1, <1>2, <1>4, <1>5 DEF GoOn

LEMMA FlushCount == ASSUME IInv, CInv, Flush PROVE CInv'
<1>1. at = "flush" /\ UNCHANGED <<top, tip, count, loaded, bootTop>>
  BY DEF Flush, core
<1>2. CASE Fail /\ UNCHANGED <<db, scan, caughtUp, cutShort>>
  <2>1. at' \in {"idle", "load", "place"} /\ (at' = "load" => Here' = "addrbal")
    BY <1>2, LeavePass DEF IInv, Fail
  <2> QED
    BY <1>1, <1>2, <2>1, QuietCount DEF CInv, Pass, db
<1>3. CASE /\ table' = [table EXCEPT ![Here] = Merged] /\ place' = [place EXCEPT ![Here] = Reached]
           /\ Here = "addrbal" /\ at' = "add" /\ UNCHANGED <<turn, curr, to, got, caughtUp, cutShort>>
  <2>1. /\ Funded' = Funded + Len(got)
        /\ \A h \in Heights : table["addrbal"][h] # <<>> => table'["addrbal"][h] # <<>>
    BY <1>1, <1>3, FundedGrows
  <2>2. CountIsTable'
    <3>1. loaded => count = Funded
      BY <1>1 DEF CInv, CountIsWhole, CountIsTable, IInv, TypeOK
    <3> QED
      BY <1>1, <1>3, <2>1, <3>1 DEF CountIsTable
  <2>3. CaughtUpIsWhole'
    BY <1>1, <1>3, <2>1 DEF CInv, CountIsWhole, CaughtUpIsWhole
  <2>4. Pass'
    BY <1>1, <1>3 DEF CInv, Pass
  <2> QED
    BY <2>2, <2>3, <2>4 DEF CInv, CountIsWhole
<1>4. CASE /\ table' = [table EXCEPT ![Here] = Merged] /\ place' = [place EXCEPT ![Here] = Reached]
           /\ Here # "addrbal" /\ GoOn(Reached + 1)
  <2>1. at' \in {"idle", "load", "place", "fetch"} /\ (at' = "load" => Here' = "addrbal") /\ UNCHANGED <<caughtUp, cutShort>>
    BY <1>4, LeavePass DEF IInv, GoOn, Resume, CatchUp, TypeOK
  <2>2. Pass'
    BY <1>1, <2>1 DEF CInv, Pass
  <2>3. loaded \/ caughtUp => "addrbal" \in Scans
    BY DEF CInv, Pass
  <2>4. "addrbal" \in Scans => table'["addrbal"] = table["addrbal"] /\ Funded' = Funded
    BY <1>4, FundedKept DEF IInv
  <2>5. CountIsTable'
    <3>1. at # "add" /\ at' # "add" /\ loaded' = loaded /\ count' = count
      BY <1>1, <2>1
    <3>2. loaded => Funded' = Funded
      BY <2>3, <2>4
    <3> QED
      BY <3>1, <3>2 DEF CInv, CountIsWhole, CountIsTable
  <2>6. CaughtUpIsWhole'
    BY <1>1, <2>1, <2>3, <2>4 DEF CInv, CountIsWhole, CaughtUpIsWhole
  <2> QED
    BY <2>2, <2>5, <2>6 DEF CInv, CountIsWhole
<1> QED
  BY <1>2, <1>3, <1>4 DEF Flush

LEMMA OtherCount == ASSUME IInv, CInv, Wake \/ GetTip \/ Fetch \/ Mine \/ Reorg \/ Restart \/ UNCHANGED vars PROVE CInv'
<1> USE DEF core, db, scan, bal
<1>0. top \in Nat /\ tip \in Nat /\ bootTop \in Nat /\ bootTop <= top
  BY DEF IInv, TypeOK, Heights, CInv, Pass
<1>1. CASE Wake
  BY <1>0, <1>1, QuietCount DEF Wake
<1>2. CASE GetTip
  <2>1. CASE tip' = top /\ Enter(1)
    <3>1. at' \in {"load", "place"} /\ (at' = "load" => Here' = "addrbal")
      BY <2>1 DEF Enter, Here
    <3> QED
      BY <1>0, <1>2, <2>1, <3>1, QuietCount DEF GetTip
  <2>2. CASE at' = "idle"
    BY <1>0, <1>2, <2>2, QuietCount DEF GetTip
  <2> QED
    BY <1>2, <2>1, <2>2 DEF GetTip
<1>3. CASE Fetch
  <2>1. at' \in {"flush", "fetch", "idle", "load", "place"} /\ (at' = "load" => Here' = "addrbal")
    BY <1>3, LeavePass DEF Fetch, Expire, Fail, IInv
  <2>2. at = "fetch" /\ bootTop <= tip
    BY <1>3 DEF Fetch, CInv, Pass
  <2>3. at' \notin {"add", "tip"} /\ UNCHANGED <<top, table, tip, count, loaded, bootTop>>
    BY <1>3, <2>1 DEF Fetch
  <2>4. CASE UNCHANGED <<caughtUp, cutShort>>
    BY <1>0, <2>1, <2>2, <2>3, <2>4, QuietCount
  <2>5. CASE Expire
    <3>1. Pass'
      BY <2>1, <2>2, <2>3, <2>5, ScanHere DEF CInv, Pass, Expire, IInv
    <3>2. CountIsTable'
      BY <2>2, <2>3 DEF CInv, CountIsWhole, CountIsTable, Funded
    <3>3. CaughtUpIsWhole'
      BY <2>3, <2>5 DEF CInv, CountIsWhole, CaughtUpIsWhole, Expire
    <3> QED
      BY <3>1, <3>2, <3>3 DEF CInv, CountIsWhole
  <2> QED
    BY <1>3, <2>4, <2>5 DEF Fetch
<1>4. CASE Mine \/ Reorg \/ UNCHANGED vars
  <2>1. /\ UNCHANGED <<at, turn, tip, table, got, count, loaded, caughtUp, cutShort, bootTop>>
        /\ top' = top \/ top' = top + 1
    BY <1>4 DEF Mine, Reorg, vars
  <2>2. Here' = Here /\ Funded' = Funded /\ bootTop' <= top'
    BY <1>0, <2>1 DEF Here, Funded
  <2>3. Pass'
    BY <2>1, <2>2 DEF CInv, Pass
  <2>4. CountIsTable' /\ CaughtUpIsWhole'
    BY <2>1, <2>2 DEF CInv, CountIsWhole, CountIsTable, CaughtUpIsWhole
  <2> QED
    BY <2>3, <2>4 DEF CInv, CountIsWhole
<1>5. CASE Restart
  <2>1. at' = "tip" /\ ~loaded' /\ ~caughtUp' /\ bootTop' = top /\ top' = top
    BY <1>5 DEF Restart
  <2> QED
    BY <1>0, <2>1 DEF CInv, Pass, CountIsWhole, CountIsTable, CaughtUpIsWhole
<1> QED
  BY <1>1, <1>2, <1>3, <1>4, <1>5

LEMMA NextCount == ASSUME ~FlakyReads, IInv, CInv, [Next]_vars PROVE CInv'
BY LoadCountOK, GetPlaceCount, FlushCount, AddCountOK, OtherCount DEF Next, UpdateIndexes

\* What Count answers is the table's own number, and the whole chain's there was
\* at the start once it says so, over failed calls, early merges, restarts and
\* reorgs: the count is added after its commit, and a scan that fails does not catch
\* up.  A pass cut short by its six hours does say so, and is let off (cutShort) until
\* one gets to its target.
THEOREM CountWhole == ASSUME ~FlakyReads PROVE Spec => []CountIsWhole
<1>1. IInv /\ CInv /\ [Next]_vars => CInv'
  BY NextCount
<1>2. CInv => CountIsWhole
  BY DEF CInv
<1> QED
  BY <1>1, <1>2, Invariant, InitCount, PTL DEF Spec
=============================================================================
