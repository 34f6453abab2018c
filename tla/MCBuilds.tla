------------------------------ MODULE MCBuilds ------------------------------
(* The offline tools, and the two encodings they share with the bot, for TLC: *)
(* a behaviour is one of a single part.                                        *)
EXTENDS Tools, Wire, Addresses, TLC

VARIABLE part
vars == <<part, buildVars, actVars, wireVars, addressVars>>

\* An early miner's address paid by two scripts, another address, and a script that is no
\* address; the third block's clock is behind the second's; on the second branch the
\* coins go another way, and some come back to where they were in one block.
Move(t, m) == [time |-> t, moves |-> m, first |-> m]
Bodies == [h \in 0..3 |-> <<
    <<Move(1, "other" :> 5), Move(1, "other" :> 5)>>,
    <<Move(4, "pk" :> 5), Move(4, "other" :> 5)>>,
    <<Move(3, "pk" :> -5 @@ "pkh" :> 4 @@ "bare" :> 6), Move(3, "other" :> -2 @@ "pkh" :> 7)>>,
    <<Move(6, "pk" :> 5 @@ "other" :> 2), Move(6, "pkh" :> 5 @@ "other" :> 0)>> >>[h + 1]]

MCScripts == {"pk", "pkh", "other", "bare"}
AddressOfScript == [s \in MCScripts |-> CASE s \in {"pk", "pkh"} -> "a" [] s = "other" -> "b" [] OTHER -> ""]
Hashes == [s \in MCScripts |-> IF s \in {"pk", "bare"} THEN 0 ELSE 1]
SomeFlags == {[min |-> 0, top |-> 1], [min |-> 5, top |-> 1]}

\* Block files in which x passes the threshold before, at and after a fold of the
\* buffer, reaches what a record holds, and is counted past it in the buffer.
Twice == <<"x", "", "x", "y">>
DiskFiles == {<< <<<<o, Twice>>, b, <<p>> >>, <<b2, <<<<"z", "x">>, <<"x">>, q>> >> >> :
              o \in {<<"x">>, <<"z", "w">>}, b \in {Broken, Padding, <<<<"x">>, <<"z">>>>},
              p \in {Twice, <<"x">>}, b2 \in {<<>>, Broken, <<<<"x">>, <<"x">>>>}, q \in {<<"y">>, <<"x", "w">>}}
PaysTo == [s \in {"x", "y", "z", "w"} |-> CASE s \in {"x", "y"} -> "a" [] s = "z" -> "b" [] OTHER -> ""]

\* Transactions with short, long and no scripts, a coinbase and two near ones, amounts of
\* one and two bytes, with, without and with empty witnesses; cut in the locktime, the
\* witness, the outputs and the inputs.  Some have a number in a longer form than it needs,
\* or one past the message's end in each of the longer forms: in the longest, 2^62, the
\* largest int, the least one and -1.
In(h, i, l) == [hash |-> h, index |-> i, len |-> l]
Out(sat, n) == [sat |-> sat, script |-> [i \in 1..n |-> 40 + i]]
Plainly == [at |-> "nowhere", first |-> 0, number |-> <<>>]
EightBytes(low, high) == [i \in 1..8 |-> IF i = 8 THEN high ELSE low]
TooLong == {<<253, <<255, 255>>>>, <<254, <<255, 255, 255, 255>>>>} \cup
        {<<255, n>> : n \in {EightBytes(0, 64), EightBytes(255, 127), EightBytes(0, 128), EightBytes(255, 255)}}
Odd == {[at |-> a, first |-> f[1], number |-> f[2]] :
            a \in {"ins", "in", "outs", "out"}, f \in {<<f, <<>>>> : f \in 253..255} \cup TooLong}
Sent == {[ins |-> ins, outs |-> outs, odd |-> Plainly,
          wit |-> IF w = 0 THEN <<>> ELSE [i \in 1..Len(ins) |-> IF w = 1 THEN <<2, 0>> ELSE <<>>]] :
             ins \in {<<In(0, 255, 3)>>, <<In(5, 1, 0), In(0, 255, 2)>>, <<In(0, 1, 254)>>},
             outs \in {<<Out(300, 2)>>, <<Out(0, 0), Out(50000, 3)>>}, w \in 0..2}
Plain == {t \in Sent : Len(t.outs) = 2 /\ t.ins[1].len < 9}
Oddly == {[t EXCEPT !.odd = o] : t \in {t \in Plain : Len(t.ins) = 2}, o \in Odd}
MCMessages ==
    [kind : {"tx"}, blocks : {<<<<t>>>> : t \in Oddly}, cut : {0, 5, 30}, key : {<<>>}] \cup
    [kind : {"file"}, blocks : {<<<<t, u>>, <<u>>>> : t \in {t \in Oddly : t.odd.number = <<>> \/ t.wit = <<>>},
                                    u \in {CHOOSE p \in Plain : TRUE}}, cut : {0, 13, 100}, key : {<<>>}] \cup
    [kind : {"tx"}, blocks : {<<<<t>>>> : t \in Sent}, cut : {0, 1, 4, 5, 9, 12, 30}, key : {<<>>}]
    \cup [kind : {"file"}, blocks : {<<<<t>>, <<t, u>>>> : t, u \in Plain}, cut : {0, 12, 13, 150},
          key : {<<>>, <<3, 129, 200>>}]
MCMagic == <<249, 190, 180, 217>>

\* Every form of a script, witness programs of the shortest, the usual and the longest
\* length and of one byte more, and scripts of no form.
Run(n, x) == [i \in 1..n |-> (x * i) % 256]
MCForms == {<<118, 169, 20>> \o Run(20, x) \o <<136, 172>> : x \in {0, 7}}
    \cup {<<169, 20>> \o Run(20, x) \o <<135>> : x \in {0, 3}}
    \cup {<<33>> \o Run(33, 9) \o <<172>>, <<65>> \o Run(65, 9) \o <<172>>}
    \cup {<<op, n>> \o Run(n, x) : op \in {0, 81, 96, 97}, n \in {2, 20, 32, 40, 41}, x \in {0, 77}}
    \cup {<<106, 2, 1, 1>>, <<0, 3, 5, 5>>}

InBuilds == part = "builds" /\ UNCHANGED <<part, actVars, wireVars, addressVars>>
InAct == part = "actbuild" /\ UNCHANGED <<part, buildVars, wireVars, addressVars>>
InWire == part = "wire" /\ UNCHANGED <<part, buildVars, actVars, addressVars>>
InAddresses == part = "addresses" /\ UNCHANGED <<part, buildVars, actVars, wireVars>>

\* The parts that are not the behaviour's own stay in one of their initial states.
Own(p, S) == IF part = p THEN S ELSE {CHOOSE x \in S : TRUE}
Init == /\ part \in {"builds", "actbuild", "wire", "addresses"}
        /\ cmd \in Own("builds", {"richbuild", "ababuild"}) /\ flags \in Own("builds", Flags)
        /\ disk \in Own("actbuild", Disks) /\ sent \in Own("wire", Messages)
        /\ script \in Own("addresses", ScriptInputs)
        /\ BuildInit /\ ActInit /\ WireInit /\ AddressInit

Next ==
    \/ (Mine /\ InBuilds) \/ (Reorg /\ InBuilds) \/ (\E f \in Flags : Start(f) /\ InBuilds)
    \/ (FetchNext /\ InBuilds) \/ (\E i \in 1..Fetch + 2 : FetchBlock(i) /\ InBuilds) \/ (Scan /\ InBuilds)
    \/ (Claim /\ InBuilds) \/ (\E i \in 0..Shards - 1 : StoreShard(i) /\ InBuilds) \/ (Refuse /\ InBuilds)
    \/ (Commit /\ InBuilds) \/ (DropAnswer /\ InBuilds) \/ (FillAnswer /\ InBuilds) \/ (MarkAnswer /\ InBuilds)
    \/ (Stop /\ InBuilds)
    \/ (NextFile /\ InAct) \/ (SkipBlock /\ InAct) \/ (BlockDone /\ InAct) \/ (CountOutput /\ InAct) \/ (TxDone /\ InAct)
    \/ (StoreActive /\ InAct)
    \/ (ReadTx /\ InWire) \/ (Open /\ InWire) \/ (NextBlock /\ InWire)
    \/ (Write /\ InAddresses) \/ (\E i \in Mistyped : Mistype(i) /\ InAddresses) \/ (Read /\ InAddresses)
Spec == Init /\ [][Next]_vars

\* What is read back, a message, a block file or an address, is what was written, or
\* an error.
ReadBackAsWritten == ReadAsSent /\ AddressesMeetKeys
=============================================================================
