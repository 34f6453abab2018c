----------------------------- MODULE ScanChain ------------------------------
(***************************************************************************)
(* The blocks the index scans read: what core.BlockAt returns of each.  A  *)
(* block is [time, txs], a transaction [outs, ins], two sequences of       *)
(* payments [script, sat]; a coinbase has no ins.  Payee is                *)
(* addrindex.Address, and Slot the hash addrbal files an address under:    *)
(* <<its first two bytes, the other six>>.                                 *)
(***************************************************************************)
EXTENDS Integers, FiniteSets, Sequences, FiniteSetsExt, SequencesExt

CONSTANTS
    Chain,                   \* the block at each height, from 0 in Chain[1]
    Payee, NoPayee,          \* Payee[s] is the address s pays to, or NoPayee
    Slot,                    \* Slot[a], for each address
    MaxScanFaults            \* bound: calls that fail, and ends of the process

Payments == Seq([script : DOMAIN Payee, sat : Nat])
ASSUME ChainType == Chain \in Seq([time : Nat, txs : Seq([ins : Payments, outs : Payments])])

ChainTop == Len(Chain) - 1
BlockOf(h) == Chain[h + 1]
Payees == {Payee[s] : s \in DOMAIN Payee} \ {NoPayee}
ASSUME ScanType == \A a \in Payees : Slot[a] \in Nat \X Nat

\* What the payments at some places of a sequence come to, and the places of an address's.
Amount(ps, places) == SumFunction([i \in places |-> ps[i].sat])
To(ps, a) == {i \in DOMAIN ps : Payee[ps[i].script] = a}
\* What a transaction pays over what it spends; a coinbase pays none.
Fee(tx) == IF tx.ins = <<>> THEN 0 ELSE Amount(tx.ins, DOMAIN tx.ins) - Amount(tx.outs, DOMAIN tx.outs)

\* For the properties: the transactions of blocks f..t, those a is in, and what a
\* holds after block t.
TxOf(p) == BlockOf(p[1]).txs[p[2]]
TxsIn(f, t) == UNION {{<<h, i>> : i \in DOMAIN BlockOf(h).txs} : h \in f..t}
With(a, f, t) == {p \in TxsIn(f, t) : To(TxOf(p).outs \o TxOf(p).ins, a) # {}}
Received(a, f, t) == SumFunction([p \in TxsIn(f, t) |-> Amount(TxOf(p).outs, To(TxOf(p).outs, a))])
Spent(a, f, t) == SumFunction([p \in TxsIn(f, t) |-> Amount(TxOf(p).ins, To(TxOf(p).ins, a))])
Holds(a, t) == Received(a, 0, t) - Spent(a, 0, t)

\* The chain's rules: no transaction but a coinbase pays out more than it spends, and no
\* address spends what it was not paid.
ASSUME Solvent == /\ \A h \in 0..ChainTop : \A i \in DOMAIN BlockOf(h).txs : Fee(BlockOf(h).txs[i]) >= 0
                  /\ \A a \in Payees, t \in 0..ChainTop : Holds(a, t) >= 0

\* What the blocks f..t say of an address.
Whole(a, f, t) ==
    LET p == With(a, f, t)
        dates == {BlockOf(q[1]).time : q \in p} \ {0}
    IN  [recv |-> Received(a, f, t), sent |-> Spent(a, f, t), txs |-> Cardinality(p),
         fees |-> SumFunction([q \in {r \in p : To(TxOf(r).ins, a) # {}} |-> Fee(TxOf(q))]),
         first |-> IF dates = {} THEN 0 ELSE Min(dates), last |-> IF dates = {} THEN 0 ELSE Max(dates)]
=============================================================================
