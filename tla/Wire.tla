-------------------------------- MODULE Wire --------------------------------
(***************************************************************************)
(* Serialized transactions and blocks: the reader of zmq.go, which takes a *)
(* rawtx message apart for the watches and the mempool list, and the one   *)
(* of tools/addrindex/files.go, which takes blocks out of Core's files.    *)
(*                                                                         *)
(* A message is a sequence of bytes.  A reader is a record of the position *)
(* it has reached, what it last took, what it has gathered, `bad' as in    *)
(* the code, and its state: reading, refused (a read returned false, and   *)
(* its caller with it) or died (a slice out of bounds, or too large).      *)
(*                                                                         *)
(* An int has three bytes here for the code's eight: the low two of a      *)
(* number are exact, and the last one has the sign.  So a length converts  *)
(* to a negative int, and a sum wraps, where they do in the code, and      *)
(* every number below 2^16 is itself.                                      *)
(***************************************************************************)
EXTENDS Integers, Sequences, FiniteSets, FiniteSetsExt, SequencesExt, Bitwise

CONSTANTS
    Messages,   \* what was serialized, how many bytes of it came, and its file's key
    MaxBlock,   \* maxBlock
    Magic,      \* magic
    Rounds      \* more rounds of a loop than any message lasts

VARIABLES sent, result

wireVars == <<sent, result>>

Reading(raw) == [raw |-> raw, pos |-> 0, bad |-> FALSE, state |-> "reading",
                 got |-> <<>>, ins |-> <<>>, outs |-> <<>>]
Goes(r) == r.state = "reading"

\* Signed is the conversion of an unsigned number, Plus the addition of ints.
Half == 2 ^ 23
Signed(n) == ((n + Half) % (2 * Half)) - Half
Plus(a, b) == Signed(a + b)

\* A loop.  A count past any message makes Rounds of them, more than the message lasts, and
\* is refused by then.
Repeat(n, Op(_), r) ==
    FoldSet(LAMBDA i, acc : IF Goes(acc) THEN Op(acc) ELSE acc, r, {i \in 1..Rounds : i <= n})

\* bytes, the same in both readers: a sum that wrapped passes its test, and no slice has
\* such bounds.  What is read once the reader has stopped is not used.
Halted(state, how) == IF state = "reading" THEN how ELSE state
Beyond(r, n) == Plus(r.pos, n) > Len(r.raw)
Take(r, n) ==
    CASE n < 0 \/ Beyond(r, n) -> [r EXCEPT !.bad = TRUE, !.state = Halted(@, "refused")]
      [] r.pos < 0 \/ Plus(r.pos, n) < 0 -> [r EXCEPT !.state = Halted(@, "died")]
      [] OTHER -> [r EXCEPT !.pos = @ + n, !.got = SubSeq(r.raw, r.pos + 1, r.pos + n)]
\* skip of zmq.go: a negative length goes back.  A length past the end leaves the reader
\* where it is, to be refused when all is read.
SkipBytes(r, n) ==
    IF Beyond(r, n) THEN [r EXCEPT !.bad = TRUE] ELSE [r EXCEPT !.pos = Plus(@, n)]
\* skip of files.go.
FileSkip(r, n) ==
    IF n < 0 \/ Beyond(r, n) THEN [r EXCEPT !.bad = TRUE] ELSE [r EXCEPT !.pos = Plus(@, n)]
\* make, of a slice as long as a count says: one past any memory ends the program, and a
\* smaller one is taken to fit.
Make(r, n) == [r EXCEPT !.state = IF n >= 2 ^ 16 THEN Halted(@, "died") ELSE @]

\* binary.LittleEndian.
Weight == <<1, 256, 0, 0, 0, 0, 0, 2 ^ 16>>
Little[bytes \in Seq(0..255)] == FoldSet(LAMBDA i, acc : acc + bytes[i] * Weight[i], 0, DOMAIN bytes)
Number(r) == Little[r.got]
Length(r) == Signed(Number(r))

\* Mutant: of the longest form only four bytes are read.
NarrowForm(first) == CASE first = 253 -> 2 [] first \in {254, 255} -> 4 [] OTHER -> 0
\* How many bytes follow the first.
Form(first) == CASE first = 253 -> 2 [] first = 254 -> 4 [] first = 255 -> 8 [] OTHER -> 0
VarInt(r) ==
    LET f == Take(r, 1)
    IN  IF Goes(f) /\ f.got[1] >= 253 THEN Take(f, Form(f.got[1])) ELSE f
\* The same in files.go.
FileVarInt(r) == VarInt(r)

\* The count of inputs, behind the segwit marker and flag if they are there: the two
\* readers' skips are one for the lengths of 4 and 1.
Inputs(r, VI(_)) ==
    LET first == VI(SkipBytes(r, 4))
        segwit == Goes(first) /\ Number(first) = 0
        count == IF segwit THEN VI(SkipBytes(first, 1)) ELSE first
    IN  [reader |-> count, segwit |-> segwit, n |-> IF Goes(count) THEN Number(count) ELSE 0]

-----------------------------------------------------------------------------
\* parseTx of zmq.go: the inputs, the outputs' scripts and their total, and where the
\* outputs end.
Input(r) ==
    LET hash == Take(r, 32)
        index == Take(hash, 4)
        len == VarInt(index)
        rest == SkipBytes(SkipBytes(len, Length(len)), 4)
    IN  [rest EXCEPT !.ins = Append(@, <<hash.got, index.got>>)]
Output(r) ==
    LET value == Take(r, 8)
        len == VarInt(value)
        script == Take(len, Length(len))
    IN  [script EXCEPT !.outs = Append(@, [sat |-> Length(value), script |-> script.got])]

Null == [i \in 1..32 |-> 0]
ParseTx(raw) ==
    LET head == Inputs(Reading(raw), VarInt)
        ins == Repeat(head.n, Input, head.reader)
        count == VarInt(ins)
        outs == Repeat(Number(count), Output, count)
    IN  [state |-> outs.state, bad |-> outs.bad, segwit |-> head.segwit,
         ins |-> outs.ins, outs |-> outs.outs, end |-> outs.pos,
         amount |-> FoldSet(LAMBDA i, acc : Plus(acc, outs.outs[i].sat), 0, DOMAIN outs.outs),
         coinbase |-> Len(outs.ins) = 1 /\ outs.ins[1] = <<Null, <<255, 255, 255, 255>>>>]

\* Three times the bytes without the witness and once all of them, over four, rounded up.
VSize(raw, tx) ==
    LET base == IF tx.segwit THEN tx.end + 2 ELSE Len(raw)
    IN  (base * 3 + Len(raw) + 3) \div 4

\* What the txid is the hash of: not the marker, the flag and the witness; <<>> when the
\* message stops before the locktime.
TxidKeepsMarker(raw, tx) == SubSeq(raw, 1, tx.end) \o SubSeq(raw, Len(raw) - 3, Len(raw))
Hashed(raw, tx) ==
    CASE Len(raw) < tx.end + 4 -> <<>>
      [] tx.segwit -> SubSeq(raw, 1, 4) \o SubSeq(raw, 7, tx.end) \o SubSeq(raw, Len(raw) - 3, Len(raw))
      [] OTHER -> SubSeq(raw, 1, tx.end + 4)

-----------------------------------------------------------------------------
\* skipTxKeepOutputs of files.go: the outputs, past everything else of a transaction.
SkipInput(r) ==
    LET len == FileVarInt(FileSkip(r, 36)) IN FileSkip(FileSkip(len, Length(len)), 4)
KeepOutput(r) == Output(r)
SkipItem(r) == LET len == FileVarInt(r) IN FileSkip(len, Length(len))
SkipWitness(r) == LET count == FileVarInt(r) IN Repeat(Number(count), SkipItem, count)
SkipTxKeepOutputs(r) ==
    LET head == Inputs([r EXCEPT !.outs = <<>>], FileVarInt)
        ins == Repeat(head.n, SkipInput, head.reader)
        count == FileVarInt(ins)
        outs == Repeat(Number(count), KeepOutput, Make(count, Number(count)))
        wit == IF head.segwit THEN Repeat(head.n, SkipWitness, outs) ELSE outs
        end == FileSkip(wit, 4)
    IN  [end EXCEPT !.ins = Append(r.ins, end.outs), !.outs = <<>>]

ParseBlockOutputs(raw) ==
    LET count == FileVarInt(FileSkip(Reading(raw), 80))
        txs == Repeat(Number(count), SkipTxKeepOutputs, Make(count, Number(count)))
    IN  [txs EXCEPT !.raw = <<>>, !.got = <<>>]

\* A byte of a file under its key, by its offset from the file's start.
Undone(file, k) == IF k = <<>> THEN file
                   ELSE [i \in 1..Len(file) |-> file[i] ^^ k[((i - 1) % Len(k)) + 1]]
\* next: the block under a file's reader.  Padding and a half-written record end the
\* file; so does a length no block has, as an error.
BlockUnder(r) ==
    LET magic == Take(r, 4)
        size == Take(magic, 4)
        body == Take(size, Number(size))
        end == [r EXCEPT !.state = "refused"]
    IN  CASE ~Goes(size) \/ magic.got # Magic -> end
          [] Number(size) = 0 \/ Number(size) > MaxBlock -> end
          [] OTHER -> body

-----------------------------------------------------------------------------
\* How the node serializes.  A transaction has for each input the byte its hash repeats,
\* its index and the length of its script, for each output its amount and its script,
\* and the lengths of each input's witness items, or no witness at all.  At `odd' it has
\* its counts of inputs or of outputs, or the lengths of their scripts, in another form
\* than the shortest: the number itself, or one past any message.
Bytes(n, w) == [i \in 1..w |-> IF i > 3 THEN 0 ELSE (n \div (256 ^ (i - 1))) % 256]
CountBytes(n) == IF n < 253 THEN <<n>> ELSE <<253>> \o Bytes(n, 2)
Width(first) == CASE first = 253 -> 2 [] first = 254 -> 4 [] OTHER -> 8
Counted(tx, at, n) ==
    CASE tx.odd.at # at -> CountBytes(n)
      [] tx.odd.number = <<>> -> <<tx.odd.first>> \o Bytes(n, Width(tx.odd.first))
      [] OTHER -> <<tx.odd.first>> \o tx.odd.number
Filled(n) == [i \in 1..n |-> 7]
Ins(tx) == Counted(tx, "ins", Len(tx.ins)) \o FlattenSeq([i \in 1..Len(tx.ins) |->
    [j \in 1..32 |-> tx.ins[i].hash] \o [j \in 1..4 |-> tx.ins[i].index]
    \o Counted(tx, "in", tx.ins[i].len) \o Filled(tx.ins[i].len) \o Filled(4)])
Outs(tx) == Counted(tx, "outs", Len(tx.outs)) \o FlattenSeq([i \in 1..Len(tx.outs) |->
    Bytes(tx.outs[i].sat, 8) \o Counted(tx, "out", Len(tx.outs[i].script)) \o tx.outs[i].script])
Wit(tx) == FlattenSeq([i \in 1..Len(tx.wit) |-> CountBytes(Len(tx.wit[i])) \o
    FlattenSeq([j \in 1..Len(tx.wit[i]) |-> CountBytes(tx.wit[i][j]) \o Filled(tx.wit[i][j])])])
Bare(tx) == Filled(4) \o Ins(tx) \o Outs(tx) \o Filled(4)
Whole(tx) == IF tx.wit = <<>> THEN Bare(tx)
             ELSE Filled(4) \o <<0, 1>> \o Ins(tx) \o Outs(tx) \o Wit(tx) \o Filled(4)
BlockBytes(txs) == Filled(80) \o CountBytes(Len(txs)) \o FlattenSeq([i \in 1..Len(txs) |-> Whole(txs[i])])
RecordBytes(txs) == Magic \o Bytes(Len(BlockBytes(txs)), 4) \o BlockBytes(txs)
FileBytes(m) == FlattenSeq([i \in 1..Len(m.blocks) |-> RecordBytes(m.blocks[i])]) \o [i \in 1..12 |-> 0]

Written(m) == IF m.kind = "tx" THEN Whole(m.blocks[1][1]) ELSE Undone(FileBytes(m), m.key)
Came(m) == SubSeq(Written(m), 1, Len(Written(m)) - m.cut)

WireInit == sent \in Messages /\ result = [at |-> Reading(<<>>), txs |-> <<>>, blocks |-> <<>>, state |-> "sent"]

ReadTx ==
    /\ sent.kind = "tx" /\ result.state = "sent"
    /\ result' = [result EXCEPT !.txs = <<ParseTx(Came(sent))>>, !.state = "read"]
    /\ UNCHANGED sent

Open ==
    /\ sent.kind = "file" /\ result.state = "sent"
    /\ result' = [result EXCEPT !.at = Reading(Undone(Came(sent), sent.key)), !.state = "open"]
    /\ UNCHANGED sent

NextBlock ==
    /\ result.state = "open" /\ \A n \in DOMAIN result.blocks : result.blocks[n].state # "died"
    /\ LET r == BlockUnder(result.at)
       IN  result' = IF Goes(r) THEN [result EXCEPT !.at = r, !.blocks = Append(@, ParseBlockOutputs(r.got))]
                     ELSE [result EXCEPT !.state = "read"]
    /\ UNCHANGED sent

-----------------------------------------------------------------------------
\* Three numbers past any message are not refused.  One whose sum with the position is
\* past the largest int: it wraps, and both readers slice out of bounds.  A script's length
\* of an input that is a negative int, which skip of zmq.go does not test for and bytes
\* and skip of files.go do: the reader goes back, to read bytes it has read or to die
\* before the first.  A count of outputs, which files.go makes a slice for before it reads.
TooMany(tx) == tx.odd.number # <<>>
Unrefused(tx) ==
    LET n == Little[tx.odd.number]
    IN  /\ TooMany(tx)
        /\ \/ tx.odd.at \in {"in", "out"} /\ n < Half /\ Plus(n, Len(Came(sent))) < 0
           \/ sent.kind = "tx" /\ tx.odd.at = "in" /\ Signed(n) < 0
           \/ sent.kind = "file" /\ tx.odd.at = "outs" /\ n >= 2 ^ 16

\* A transaction: its inputs, outputs and total, whether it is a coinbase; and when all of
\* it came, its size and what its txid is the hash of, by the definitions of both.
TxAsSent ==
    LET tx == sent.blocks[1][1]
        raw == Came(sent)
        got == result.txs[1]
        read == Goes(got) /\ ~got.bad
        end == Len(Whole(tx)) - Len(Wit(tx)) - 4
    IN  Unrefused(tx) \/
        /\ got.state # "died" /\ read = (Len(raw) >= end /\ ~TooMany(tx))
        /\ read =>
             /\ got.outs = tx.outs /\ Len(got.ins) = Len(tx.ins)
             /\ got.amount = FoldSet(LAMBDA i, acc : acc + tx.outs[i].sat, 0, DOMAIN tx.outs)
             /\ got.coinbase = (Len(tx.ins) = 1 /\ tx.ins[1].hash = 0 /\ tx.ins[1].index = 255)
             /\ sent.cut = 0 => /\ Hashed(raw, got) = Bare(tx)
                                /\ VSize(raw, got) = (3 * Len(Bare(tx)) + Len(raw) + 3) \div 4
             /\ Len(raw) < end + 4 => Hashed(raw, got) = <<>>

\* A file: the blocks that came whole, with each transaction's outputs.
FileAsSent ==
    LET Ends(n) == FoldSet(LAMBDA i, acc : acc + Len(RecordBytes(sent.blocks[i])), 0, 1..n)
        whole == {n \in 1..Len(sent.blocks) : Ends(n) <= Len(Came(sent))}
    IN  /\ Len(result.blocks) = Cardinality(whole)
        /\ \A n \in whole :
              LET txs == sent.blocks[n]
                  got == result.blocks[n]
                  read == Goes(got) /\ ~got.bad
              IN  /\ read = \A i \in 1..Len(txs) : ~TooMany(txs[i])
                  /\ read => got.ins = [i \in 1..Len(txs) |-> txs[i].outs]

\* Every message is read as what was sent, its numbers in whichever of their four forms,
\* or refused when it did not come whole or a number of it is past its end; no reading
\* ends the program; but for the numbers of Unrefused (zmq.go, files.go).
ReadAsSent ==
    /\ result.state = "read" => IF sent.kind = "tx" THEN TxAsSent ELSE FileAsSent
    /\ \A n \in DOMAIN result.blocks : result.blocks[n].state = "died" =>
           \E i \in 1..Len(sent.blocks[n]) : Unrefused(sent.blocks[n][i])
=============================================================================
