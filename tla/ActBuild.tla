------------------------------ MODULE ActBuild ------------------------------
(***************************************************************************)
(* The command actbuild of tools/addrindex: how many transactions paid to  *)
(* every script, counted over Core's block files into a sorted run of      *)
(* packed records and a small buffer in front of it, and the addresses     *)
(* past a threshold stored when every file has been read.                  *)
(*                                                                         *)
(* A file is a sequence of records: a block, as the scripts each of its    *)
(* transactions pays, Broken (a block that does not parse), or Padding,    *)
(* which a half-written record at the end reads like too.                  *)
(***************************************************************************)
EXTENDS Integers, FiniteSets, Sequences

CONSTANTS
    Outputs, NoScript, \* the scripts, and the empty one
    Pays, NoAddress,  \* Pays[s] is the address s pays to, or NoAddress
    Broken, Padding,
    Disks,         \* the block files a scan may find
    ActiveMin,     \* activeMin
    MaxCount,      \* maxCount: what a record's count field holds
    BufferedAddrs  \* bufferedAddrs

ASSUME CounterType == ActiveMin \in Nat /\ MaxCount \in Nat \ {0} /\ BufferedAddrs \in Nat \ {0}
Txs == Seq(Outputs \cup {NoScript})
Records == {Broken, Padding} \cup Seq(Txs)
ASSUME DiskType == /\ NoScript \notin Outputs /\ Broken # Padding
                   /\ Broken \notin Seq(Txs) /\ Padding \notin Seq(Txs)
                   /\ \A d \in Disks : d \in Seq(Seq(Records))

VARIABLES
    disk,               \* the files the scan reads
    file, record, tx, output, \* the file, the record in it, the transaction and its output next
    run, pending,       \* the sorted run and the buffer: the count of each prefix
    qualified,          \* the scripts kept when they crossed the threshold
    cut,                \* for the property: a buffered count is past what a record holds
    active, phase       \* the table, and what the command is at

place  == <<file, record, tx, output>>
counts == <<run, pending, qualified, cut>>
actVars == <<disk, place, counts, active, phase>>

Empty == [s \in {} |-> 0]
\* The run's order is what the binary search needs; what it finds is the record of the
\* prefix, so the run is a function, and a count is cut to its field's bytes.
Field(n) == n % (MaxCount + 1)
Folded(r, p) == [s \in DOMAIN r \cup DOMAIN p |-> IF s \in DOMAIN p THEN Field(p[s]) ELSE r[s]]
CountOf(r, p, s) == IF s \in DOMAIN r THEN r[s] ELSE IF s \in DOMAIN p THEN p[s] ELSE 0

\* Mutant: a count in the run wraps.
WrapsAt(c, s) == Field(c.run[s] + 1)
\* add: in place, and no further than the field, for a prefix of the run; in the buffer,
\* which is folded when it is full, for any other.
Bumped(c, s) == IF c.run[s] < MaxCount THEN c.run[s] + 1 ELSE c.run[s]
Add(c, s) ==
    LET n == IF s \in DOMAIN c.run THEN Bumped(c, s) ELSE CountOf(Empty, c.pending, s) + 1
        more == [x \in DOMAIN c.pending \cup {s} |-> IF x = s THEN n ELSE c.pending[x]]
        d == [c EXCEPT !.qualified = IF n > ActiveMin THEN @ \cup {s} ELSE @,
                       !.cut = @ \/ n > MaxCount]
    IN  CASE s \in DOMAIN c.run -> [d EXCEPT !.run[s] = n]
          [] s \notin DOMAIN c.run /\ Cardinality(DOMAIN more) < BufferedAddrs -> [d EXCEPT !.pending = more]
          [] OTHER -> [d EXCEPT !.run = Folded(c.run, more), !.pending = Empty]

-----------------------------------------------------------------------------
ActInit ==
    /\ disk \in Disks /\ file = 1 /\ record = 1 /\ tx = 1 /\ output = 1
    /\ run = Empty /\ pending = Empty /\ qualified = {} /\ cut = FALSE
    /\ active = Empty /\ phase = "scan"

\* The record under the reader: the end of a file's blocks is the end of the file.
Here == IF record <= Len(disk[file]) THEN disk[file][record] ELSE Padding
NextRecord == record' = record + 1 /\ tx' = 1 /\ output' = 1 /\ file' = file

NextFile ==
    /\ phase = "scan" /\ file <= Len(disk) /\ Here = Padding
    /\ file' = file + 1 /\ record' = 1 /\ tx' = 1 /\ output' = 1
    /\ UNCHANGED <<disk, counts, active, phase>>

SkipBlock ==
    /\ phase = "scan" /\ file <= Len(disk) /\ Here = Broken
    /\ NextRecord /\ UNCHANGED <<disk, counts, active, phase>>

BlockDone ==
    /\ phase = "scan" /\ file <= Len(disk) /\ Here \notin {Broken, Padding} /\ tx > Len(Here)
    /\ NextRecord /\ UNCHANGED <<disk, counts, active, phase>>

\* A transaction counts once for each script it pays, however many of its outputs do,
\* and not for an empty one.
InTx == phase = "scan" /\ file <= Len(disk) /\ Here \notin {Broken, Padding} /\ tx <= Len(Here)
Seen(outs, n) == {outs[k] : k \in 1..n - 1}
CountOutput ==
    /\ InTx /\ output <= Len(Here[tx])
    /\ LET s == Here[tx][output]
           c == [run |-> run, pending |-> pending, qualified |-> qualified, cut |-> cut]
           d == IF s \in Seen(Here[tx], output) \cup {NoScript} THEN c ELSE Add(c, s)
       IN  run' = d.run /\ pending' = d.pending /\ qualified' = d.qualified /\ cut' = d.cut
    /\ output' = output + 1 /\ UNCHANGED <<disk, file, record, tx, active, phase>>

TxDone ==
    /\ InTx /\ output > Len(Here[tx]) /\ tx' = tx + 1 /\ output' = 1
    /\ UNCHANGED <<disk, file, record, counts, active, phase>>

\* active() folds what is buffered; storeActive writes a row for each kept script past
\* the threshold that pays an address: of two scripts of one address, whichever is last.
Past(r) == {s \in qualified : r[s] > ActiveMin /\ Pays[s] # NoAddress}
StoreActive ==
    /\ phase = "scan" /\ file > Len(disk) /\ phase' = "done"
    /\ run' = Folded(run, pending) /\ pending' = Empty
    /\ LET past == Past(run')
       IN  \E last \in [{Pays[s] : s \in past} -> past] :
               /\ \A a \in DOMAIN last : Pays[last[a]] = a
               /\ active' = [a \in DOMAIN last \cup DOMAIN active |->
                                IF a \in DOMAIN last THEN run'[last[a]] ELSE active[a]]
    /\ UNCHANGED <<disk, place, qualified, cut>>

ActNext == NextFile \/ SkipBlock \/ BlockDone \/ CountOutput \/ TxDone \/ StoreActive
ActSpec == ActInit /\ [][ActNext]_actVars

-----------------------------------------------------------------------------
\* The transactions on the disk that pay s, up to the first padding of each file.
Blocks(f) == {i \in 1..Len(f) : f[i] # Broken /\ \A j \in 1..i : f[j] # Padding}
TxsOf(f, i, s) == {t \in DOMAIN disk[f][i] : \E k \in DOMAIN disk[f][i][t] : disk[f][i][t][k] = s}
PaidBy(s) == UNION {UNION {{<<f, i, t>> : t \in TxsOf(f, i, s)} : i \in Blocks(disk[f])} : f \in DOMAIN disk}

\* When the scan is over the table holds exactly the addresses one of whose scripts is in
\* more than activeMin transactions, each with the count of one of those, or with the most
\* a record holds: wherever the buffer was folded and the file ended, and a transaction
\* that pays a script twice counting once (actbuild.go, counter.go).  A count of the buffer
\* past what a record holds is the one excuse: only a count of the run stops there.  On the
\* real chain the buffer fills long before.
ActiveIsCounted == phase = "done" /\ ~cut =>
    LET Counted(s) == IF Cardinality(PaidBy(s)) > MaxCount THEN MaxCount ELSE Cardinality(PaidBy(s))
    IN  /\ DOMAIN active = {Pays[s] : s \in {x \in Outputs : Counted(x) > ActiveMin}} \ {NoAddress}
        /\ \A a \in DOMAIN active : \E s \in Outputs : Pays[s] = a /\ active[a] = Counted(s)
=============================================================================
