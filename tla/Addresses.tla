----------------------------- MODULE Addresses -----------------------------
(***************************************************************************)
(* How an address is written and read (addrindex/address.go).  A script is *)
(* its bytes; an address is the digits of its alphabet, base58 or bech32:  *)
(* spelling a digit with its character changes nothing.  Two hashes are    *)
(* external: the checksum of base58 and the hash of a public key.          *)
(***************************************************************************)
EXTENDS Integers, Sequences, FiniteSets, FiniteSetsExt, SequencesExt, Bitwise

CONSTANTS
    ScriptInputs,    \* the scripts
    Mistyped         \* the places of an address in which its reader may find another digit

VARIABLES script, text, reply, typo   \* typo is the place of the mistyped digit, or 0

addressVars == <<script, text, reply, typo>>

Refused == [ok |-> FALSE, key |-> <<>>, kind |-> ""]
Unread == [ok |-> FALSE, key |-> <<>>, kind |-> "unread"]
Unwritten == [form |-> "unwritten", digits |-> <<>>]
NoText == [form |-> "", digits |-> <<>>]
\* External: double SHA-256 cut to four bytes, and RIPEMD-160 of SHA-256.
Sum4(b) == LET t == FoldLeft(LAMBDA acc, x : (acc * 31 + x + 1) % 65536, 7, b)
           IN  <<t % 256, t \div 256, (t * 7) % 256, (t * 13) % 251>>
Hash160(b) == [i \in 1..20 |-> (b[(i % Len(b)) + 1] + i) % 256]

-----------------------------------------------------------------------------
\* base58: long division of the whole number, a digit for each leading zero byte in front.
\* num holds the lowest digit first; the recursive functions evaluate their arguments.
Carry(num, c, from, to) ==
    LET over[n \in Seq(0..255), d \in Nat] ==
            IF n = <<>> THEN IF d = 0 THEN <<>> ELSE <<d % to>> \o over[<<>>, d \div to]
            ELSE <<(Head(n) * from + d) % to>> \o over[Tail(n), (Head(n) * from + d) \div to]
    IN  over[num, c]
Convert(b, from, to) ==
    LET after[num \in Seq(0..255), i \in Nat] ==
            IF i > Len(b) THEN Reverse(num) ELSE after[Carry(num, b[i], from, to), i + 1]
    IN  after[<<0>>, 1]
Leading(b) == CHOOSE n \in 0..Len(b) : (\A i \in 1..n : b[i] = 0) /\ (n < Len(b) => b[n + 1] # 0)
Zeros(n) == [i \in 1..n |-> 0]
Base58(b) == Zeros(Leading(b)) \o Convert(b, 256, 58)
\* Mutant: the leading ones are not the zero bytes they stand for.
BareDecode(t) == Convert(t, 58, 256)
Base58Decode(t) == Zeros(Leading(t)) \o Convert(t, 58, 256)

Base58Check(version, payload) ==
    [form |-> "base58", digits |-> Base58(<<version>> \o payload \o Sum4(<<version>> \o payload))]
Base58CheckDecode(t) ==
    LET full == Base58Decode(t)
        body == SubSeq(full, 1, Len(full) - 4)
    IN  [ok |-> Len(full) >= 5 /\ Sum4(body) = SubSeq(full, Len(full) - 3, Len(full)), body |-> body]

-----------------------------------------------------------------------------
\* bech32: the program in groups of five bits, and a checksum over a polynomial that
\* the version's constant ends.
ConvertBits(data, from, to, pad) ==
    LET bits == Len(data) * from
        Bit(k) == IF k < bits THEN (data[k \div from + 1] \div 2^(from - 1 - (k % from))) % 2 ELSE 0
    IN  [j \in 1..((bits + (IF pad THEN to - 1 ELSE 0)) \div to) |->
            MapThenSumSet(LAMBDA k : Bit((j - 1) * to + k) * 2^(to - 1 - k), 0..to - 1)]

\* The checksum's thirty bits are six groups of five, the highest first.
Groups(n) == <<n \div 2^25, (n \div 2^20) % 32, (n \div 2^15) % 32, (n \div 2^10) % 32, (n \div 32) % 32, n % 32>>
Gen == <<996825010, 642813549, 513874426, 1027748829, 705979059>>
XorGroups(c, d) == <<c[1] ^^ d[1], c[2] ^^ d[2], c[3] ^^ d[3], c[4] ^^ d[4], c[5] ^^ d[5], c[6] ^^ d[6]>>
Shift(chk, v) == FoldSet(LAMBDA i, acc : IF (chk[1] \div 2^(i - 1)) % 2 = 1 THEN XorGroups(acc, Groups(Gen[i])) ELSE acc,
                         <<chk[2], chk[3], chk[4], chk[5], chk[6], v>>, 1..5)
Polymod(values) ==
    LET after[chk \in Seq(0..31), i \in Nat] ==
            IF i > Len(values) THEN chk ELSE after[Shift(chk, values[i]), i + 1]
    IN  after[Groups(1), 1]
HRP == <<3, 3, 0, 2, 3>>   \* "bc"
Constant(version) == IF version = 0 THEN 1 ELSE 734539939
Checksum(data, c) ==
    XorGroups(Polymod(HRP \o data \o Zeros(6)), Groups(c))
Segwit(version, program) ==
    LET data == <<version>> \o ConvertBits(program, 8, 5, TRUE)
    IN  [form |-> "bech32", digits |-> data \o Checksum(data, Constant(version))]
DecodeSegwit(t) ==
    LET version == t[1]
        program == ConvertBits(SubSeq(t, 2, Len(t) - 6), 5, 8, FALSE)
    IN  [ok |-> /\ Len(t) >= 7 /\ version <= 16 /\ Polymod(HRP \o t) = Groups(Constant(version))
                /\ Len(program) \in (IF version = 0 THEN {20, 32} ELSE 2..40),
         version |-> version, program |-> program]

-----------------------------------------------------------------------------
\* The forms of a script, and what each carries: Key reads it out of a script, Address
\* writes the address of it, Decode reads it out of an address.
Witness(s) ==
    LET op == s[1]
        version == IF op = 0 THEN 0 ELSE op - 80
        n == s[2]
    IN  [ok |-> /\ Len(s) \in 4..42 /\ op \in {0} \cup 81..96 /\ Len(s) = n + 2
                /\ n \in (IF version = 0 THEN {20, 32} ELSE 2..40),
         version |-> version, program |-> SubSeq(s, 3, Len(s))]

IsP2PKH(s) == Len(s) = 25 /\ SubSeq(s, 1, 3) = <<118, 169, 20>> /\ s[24] = 136 /\ s[25] = 172
IsP2SH(s) == Len(s) = 23 /\ SubSeq(s, 1, 2) = <<169, 20>> /\ s[23] = 135
IsP2PK(s) == Len(s) \in {35, 67} /\ s[1] = Len(s) - 2 /\ s[Len(s)] = 172
Address(s) ==
    CASE IsP2PKH(s) -> Base58Check(0, SubSeq(s, 4, 23))
      [] IsP2SH(s) -> Base58Check(5, SubSeq(s, 3, 22))
      [] IsP2PK(s) -> Base58Check(0, Hash160(SubSeq(s, 2, Len(s) - 1)))
      [] Witness(s).ok -> Segwit(Witness(s).version, Witness(s).program)
      [] OTHER -> NoText

KeyWitness(version) == 128 + version
Key(s) ==
    CASE IsP2PKH(s) -> <<0>> \o SubSeq(s, 4, 23)
      [] IsP2SH(s) -> <<5>> \o SubSeq(s, 3, 22)
      [] IsP2PK(s) -> <<0>> \o Hash160(SubSeq(s, 2, Len(s) - 1))
      [] Witness(s).ok -> <<KeyWitness(Witness(s).version)>> \o Witness(s).program
      [] OTHER -> <<>>

Decode(t) ==
    IF t.form = "bech32"
    THEN LET d == DecodeSegwit(t.digits)
         IN  IF ~d.ok THEN Refused
             ELSE [ok |-> TRUE, key |-> <<KeyWitness(d.version)>> \o d.program,
                   kind |-> IF d.version = 0 THEN "segwit" ELSE "taproot"]
    ELSE LET d == Base58CheckDecode(t.digits)
         IN  IF d.ok /\ Len(d.body) = 21 /\ d.body[1] \in {0, 5}
             THEN [ok |-> TRUE, key |-> d.body, kind |-> IF d.body[1] = 0 THEN "p2pkh" ELSE "p2sh"]
             ELSE Refused

-----------------------------------------------------------------------------
AddressInit == script \in ScriptInputs /\ text = Unwritten /\ reply = Unread /\ typo = 0

Write == /\ text = Unwritten /\ text' = Address(script)
         /\ UNCHANGED <<script, reply, typo>>
\* Somebody types another digit of the alphabet in one place; the model leaves a second out.
Mistype(i) ==
    /\ typo = 0 /\ reply = Unread /\ i \in DOMAIN text.digits /\ typo' = i
    /\ \E d \in {0, 1, 17, 31} \ {text.digits[i]} : text' = [text EXCEPT !.digits[i] = d]
    /\ UNCHANGED <<script, reply>>
Read == /\ text \notin {Unwritten, NoText} /\ reply = Unread /\ reply' = Decode(text)
        /\ UNCHANGED <<script, text, typo>>

\* Decode is Address's inverse on every form Address produces, so a script and the address
\* it pays meet on one key, Key's, a public key's output included; a script has an address
\* exactly when it has a key; and no address with one digit wrong is read as another
\* (address.go).
AddressesMeetKeys ==
    /\ text # Unwritten /\ typo = 0 /\ reply = Unread => (text = NoText) = (Key(script) = <<>>)
    /\ reply # Unread => IF typo = 0 THEN reply.ok /\ reply.key = Key(script) ELSE ~reply.ok
=============================================================================
