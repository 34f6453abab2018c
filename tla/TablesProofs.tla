---------------------------- MODULE TablesProofs ---------------------------
(***************************************************************************)
(* AddrStat for any chain, goroutines, chunks and failures: a record is    *)
(* what the blocks say of its address since it was last found empty.       *)
(* AddrBal: every shard lists what its addresses hold.  Rankings: the      *)
(* batches of a list are the ranking, each row once.  And the parts that   *)
(* run together, whose figures FiguresProofs proves.                       *)
(***************************************************************************)
EXTENDS MCTables, FiguresProofs

-----------------------------------------------------------------------------
(* What a set of transactions says of an address.                          *)

Transactions == [ins : Payments, outs : Payments]
StatRecords == [recv : Int, sent : Int, fees : Int, txs : Int, first : Nat, last : Nat]

Pairs == TxsIn(0, ChainTop)
PairsAt(H) == {p \in Pairs : p[1] \in H}
Names(a, p) == To(TxOf(p).outs \o TxOf(p).ins, a) # {}
Spends(a, p) == To(TxOf(p).ins, a) # {}
TimeOf(p) == BlockOf(p[1]).time
Recvs(a) == [p \in Pairs |-> Amount(TxOf(p).outs, To(TxOf(p).outs, a))]
Sents(a) == [p \in Pairs |-> Amount(TxOf(p).ins, To(TxOf(p).ins, a))]
Fees == [p \in Pairs |-> Fee(TxOf(p))]
DatesOf(a, T) == {TimeOf(p) : p \in {q \in T : Names(a, q)}} \ {0}
FirstOf(D) == IF D = {} THEN 0 ELSE Min(D)
LastOf(D) == IF D = {} THEN 0 ELSE Max(D)

WholeOf(a, T) ==
    [recv |-> SumOn(Recvs(a), T), sent |-> SumOn(Sents(a), T), txs |-> Cardinality({p \in T : Names(a, p)}),
     fees |-> SumOn(Fees, {p \in T : Spends(a, p)}),
     first |-> FirstOf(DatesOf(a, T)), last |-> LastOf(DatesOf(a, T))]

\* Two records of one address added up, as flush adds a change to its row.
Join(s, d) ==
    [recv |-> s.recv + d.recv, sent |-> s.sent + d.sent, fees |-> s.fees + d.fees, txs |-> s.txs + d.txs,
     first |-> Earlier(d.first, s.first), last |-> Latest(s.last, d.last)]

LEMMA ChainIs ==
    /\ ChainTop \in Int /\ ChainTop >= -1
    /\ \A h \in 0..ChainTop : /\ BlockOf(h).time \in Nat /\ BlockOf(h).txs \in Seq(Transactions)
                              /\ DOMAIN BlockOf(h).txs = 1..Len(BlockOf(h).txs) /\ Len(BlockOf(h).txs) \in Nat
                              /\ \A i \in DOMAIN BlockOf(h).txs : BlockOf(h).txs[i] \in Transactions
<1>1. Chain \in Seq([time : Nat, txs : Seq(Transactions)])
  BY ChainType DEF Transactions
<1>2. ChainTop \in Int /\ ChainTop >= -1
  BY <1>1 DEF ChainTop
<1>3. ASSUME NEW h \in 0..ChainTop
      PROVE  /\ BlockOf(h).time \in Nat /\ BlockOf(h).txs \in Seq(Transactions)
             /\ DOMAIN BlockOf(h).txs = 1..Len(BlockOf(h).txs) /\ Len(BlockOf(h).txs) \in Nat
             /\ \A i \in DOMAIN BlockOf(h).txs : BlockOf(h).txs[i] \in Transactions
  <2>1. h + 1 \in 1..Len(Chain)
    BY <1>1 DEF ChainTop
  <2> DEFINE B == [time : Nat, txs : Seq(Transactions)]
  <2>2. Chain[h + 1] \in [time : Nat, txs : Seq(Transactions)]
    <3>1. Chain \in Seq(B)
      BY <1>1
    <3> HIDE DEF B
    <3>2. Chain[h + 1] \in B
      BY <2>1, <3>1
    <3> QED
      BY <3>2 DEF B
  <2>3. BlockOf(h) \in [time : Nat, txs : Seq(Transactions)]
    BY <2>2 DEF BlockOf
  <2>4. BlockOf(h).time \in Nat /\ BlockOf(h).txs \in Seq(Transactions)
    BY <2>3
  <2> DEFINE t == BlockOf(h).txs
  <2> HIDE DEF t
  <2>5. t \in Seq(Transactions)
    BY <2>4 DEF t
  <2>6. DOMAIN t = 1..Len(t) /\ Len(t) \in Nat /\ \A i \in DOMAIN t : t[i] \in Transactions
    BY <2>5
  <2> QED
    BY <2>4, <2>6 DEF t
<1> QED
  BY <1>2, <1>3

LEMMA PairIs ==
    ASSUME NEW f, NEW t, NEW p
    PROVE  p \in TxsIn(f, t) <=> \E h \in f..t : \E i \in DOMAIN BlockOf(h).txs : p = <<h, i>>
BY DEF TxsIn

LEMMA PairTypes ==
    ASSUME NEW p \in Pairs
    PROVE  /\ p[1] \in 0..ChainTop /\ p[2] \in DOMAIN BlockOf(p[1]).txs /\ p = <<p[1], p[2]>>
           /\ TxOf(p) \in Transactions /\ TimeOf(p) \in Nat /\ Fee(TxOf(p)) >= 0
           /\ TxOf(p).ins \in Payments /\ TxOf(p).outs \in Payments
<1>0. PICK h \in 0..ChainTop : \E i \in DOMAIN BlockOf(h).txs : p = <<h, i>>
  BY PairIs DEF Pairs
<1>1. PICK i \in DOMAIN BlockOf(h).txs : p = <<h, i>>
  BY <1>0
<1>2. TxOf(p) = BlockOf(h).txs[i] /\ TimeOf(p) = BlockOf(h).time /\ p[1] = h /\ p[2] = i
  BY <1>1 DEF TxOf, TimeOf
<1>3. TxOf(p) \in Transactions /\ TimeOf(p) \in Nat
  BY <1>2, ChainIs
<1>4. Fee(TxOf(p)) >= 0
  BY <1>2, Solvent
<1> QED
  BY <1>1, <1>2, <1>3, <1>4 DEF Transactions

LEMMA TxsFinite ==
    ASSUME NEW f \in Int, f >= 0, NEW t \in Int, t <= ChainTop
    PROVE  IsFiniteSet(TxsIn(f, t)) /\ TxsIn(f, t) \subseteq Pairs
<1>1. \A h \in f..t : h \in 0..ChainTop
  BY ChainIs
<1> DEFINE of == [h \in f..t |-> {<<h, i>> : i \in DOMAIN BlockOf(h).txs}]
<1>2. ASSUME NEW h \in f..t PROVE IsFiniteSet(of[h])
  <2>0. DOMAIN BlockOf(h).txs = 1..Len(BlockOf(h).txs) /\ Len(BlockOf(h).txs) \in Int
    BY <1>1, ChainIs
  <2>1. IsFiniteSet(1..Len(BlockOf(h).txs)) /\ DOMAIN BlockOf(h).txs = 1..Len(BlockOf(h).txs)
    BY <2>0, FS_Interval
  <2> DEFINE D == DOMAIN BlockOf(h).txs
             g == [i \in D |-> <<h, i>>]
  <2>2. IsFiniteSet(D)
    BY <2>1
  <2> HIDE DEF D
  <2>3. IsFiniteSet({g[i] : i \in D})
    BY <2>2, ImageFinite
  <2>4. {g[i] : i \in D} = {<<h, i>> : i \in D}
    OBVIOUS
  <2> QED
    BY <2>3, <2>4 DEF D
<1>3. IsFiniteSet({of[h] : h \in f..t})
  <2>1. IsFiniteSet(f..t)
    BY FS_Interval
  <2> HIDE DEF of
  <2> QED
    BY <2>1, ImageFinite
<1>4. IsFiniteSet(UNION {of[h] : h \in f..t})
  BY <1>2, <1>3, FS_UNION
<1>5. UNION {of[h] : h \in f..t} = TxsIn(f, t)
  BY DEF TxsIn
<1>6. TxsIn(f, t) \subseteq Pairs
  BY <1>1, PairIs DEF Pairs
<1> QED
  BY <1>4, <1>5, <1>6

\* The transactions of heights that follow on.
LEMMA TxsFollow ==
    ASSUME NEW f \in Int, NEW s \in Int, NEW t \in Int, f <= s + 1, s <= t
    PROVE  TxsIn(f, t) = TxsIn(f, s) \cup TxsIn(s + 1, t) /\ TxsIn(f, s) \cap TxsIn(s + 1, t) = {}
<1>1. \A h : h \in f..t <=> h \in f..s \/ h \in (s + 1)..t
  OBVIOUS
<1>2. \A h : ~(h \in f..s /\ h \in (s + 1)..t)
  OBVIOUS
<1>3. TxsIn(f, t) = TxsIn(f, s) \cup TxsIn(s + 1, t)
  BY <1>1, PairIs
<1>4. ASSUME NEW p, p \in TxsIn(f, s), p \in TxsIn(s + 1, t) PROVE FALSE
  <2>1. PICK h \in f..s : \E i \in DOMAIN BlockOf(h).txs : p = <<h, i>>
    BY <1>4, PairIs
  <2>2. PICK g \in (s + 1)..t : \E i \in DOMAIN BlockOf(g).txs : p = <<g, i>>
    BY <1>4, PairIs
  <2>3. p[1] = h /\ p[1] = g
    BY <2>1, <2>2
  <2> QED
    BY <1>2, <2>1, <2>2, <2>3
<1> QED
  BY <1>3, <1>4

LEMMA TxsNone == ASSUME NEW f \in Int, NEW t \in Int, t < f PROVE TxsIn(f, t) = {}
<1>1. f..t = {}
  OBVIOUS
<1> QED
  BY <1>1 DEF TxsIn

LEMMA AmountIs ==
    ASSUME NEW ps \in Payments, NEW I, I \subseteq DOMAIN ps
    PROVE  Amount(ps, I) \in Int /\ (I = {} => Amount(ps, I) = 0)
<1>1. DOMAIN ps = 1..Len(ps) /\ \A i \in DOMAIN ps : ps[i].sat \in Int
  <2> DEFINE P == [script : DOMAIN Payee, sat : Nat]
  <2>1. ps \in Seq(P) /\ \A q \in P : q.sat \in Int
    BY DEF Payments
  <2> HIDE DEF P
  <2>2. DOMAIN ps = 1..Len(ps) /\ \A i \in DOMAIN ps : ps[i] \in P
    BY <2>1
  <2> QED
    BY <2>1, <2>2
<1>2. IsFiniteSet(I)
  <2>1. Len(ps) \in Int
    BY DEF Payments
  <2>2. IsFiniteSet(1..Len(ps))
    BY <2>1, FS_Interval
  <2>3. I \subseteq 1..Len(ps)
    BY <1>1
  <2> QED
    BY <2>2, <2>3, FS_Subset
<1> DEFINE v == [i \in I |-> ps[i].sat]
<1>3. Amount(ps, I) = SumOn(v, I)
  BY DEF Amount, SumFunction, SumFunctionOnSet, SumOn
<1>4. \A i \in I : v[i] \in Int
  BY <1>1
<1> HIDE DEF v
<1> QED
  BY <1>2, <1>3, <1>4, SumInt, SumEmpty

LEMMA AmountsOf ==
    ASSUME NEW a, NEW p \in Pairs
    PROVE  /\ Recvs(a)[p] \in Int /\ Sents(a)[p] \in Int /\ Fees[p] \in Int /\ Fees[p] >= 0
           /\ Fee(TxOf(p)) \in Int
           /\ ~Names(a, p) => Recvs(a)[p] = 0 /\ Sents(a)[p] = 0 /\ ~Spends(a, p)
<1> DEFINE o == TxOf(p).outs
           n == TxOf(p).ins
<1>1. o \in Payments /\ n \in Payments /\ Fee(TxOf(p)) >= 0
  BY PairTypes
<1>2. Recvs(a)[p] = Amount(o, To(o, a)) /\ Sents(a)[p] = Amount(n, To(n, a)) /\ Fees[p] = Fee(TxOf(p))
  BY DEF Recvs, Sents, Fees
<1>3. Fee(TxOf(p)) = IF n = <<>> THEN 0 ELSE Amount(n, DOMAIN n) - Amount(o, DOMAIN o)
  BY DEF Fee
<1> HIDE DEF o, n
<1>4. To(o, a) \subseteq DOMAIN o /\ To(n, a) \subseteq DOMAIN n
  BY DEF To
<1>5. Amount(o, To(o, a)) \in Int /\ Amount(n, To(n, a)) \in Int /\ Amount(n, DOMAIN n) \in Int /\ Amount(o, DOMAIN o) \in Int
  BY <1>1, <1>4, AmountIs
<1>6. Fee(TxOf(p)) \in Int
  BY <1>3, <1>5
<1>7. ASSUME ~Names(a, p) PROVE To(o, a) = {} /\ To(n, a) = {}
  <2>1. To(o \o n, a) = {}
    BY <1>7 DEF Names, o, n
  <2>2. o \in Seq([script : DOMAIN Payee, sat : Nat]) /\ n \in Seq([script : DOMAIN Payee, sat : Nat])
    BY <1>1 DEF Payments
  <2>3. ASSUME NEW i \in DOMAIN o, Payee[o[i].script] = a PROVE FALSE
    <3>1. i \in DOMAIN (o \o n) /\ (o \o n)[i] = o[i]
      BY <2>2
    <3> QED
      BY <2>1, <2>3, <3>1 DEF To
  <2>4. ASSUME NEW i \in DOMAIN n, Payee[n[i].script] = a PROVE FALSE
    <3>1. Len(o) + i \in DOMAIN (o \o n) /\ (o \o n)[Len(o) + i] = n[i]
      BY <2>2
    <3> QED
      BY <2>1, <2>4, <3>1 DEF To
  <2> QED
    BY <2>3, <2>4 DEF To
<1>8. ~Names(a, p) => Amount(o, To(o, a)) = 0 /\ Amount(n, To(n, a)) = 0 /\ ~Spends(a, p)
  <2> SUFFICES ASSUME ~Names(a, p) PROVE Amount(o, To(o, a)) = 0 /\ Amount(n, To(n, a)) = 0 /\ ~Spends(a, p)
    OBVIOUS
  <2>1. To(o, a) = {} /\ To(n, a) = {}
    BY <1>7
  <2>2. ~Spends(a, p)
    BY <2>1 DEF Spends, n
  <2> QED
    BY <1>1, <1>4, <2>1, <2>2, AmountIs
<1> QED
  BY <1>1, <1>2, <1>5, <1>6, <1>8

-----------------------------------------------------------------------------
(* Records of sets of transactions add up.                                 *)

LEMMA PartFinite ==
    ASSUME NEW T, T \subseteq Pairs, NEW a
    PROVE  /\ IsFiniteSet(T) /\ IsFiniteSet({p \in T : Names(a, p)}) /\ IsFiniteSet({p \in T : Spends(a, p)})
           /\ IsFiniteSet(DatesOf(a, T)) /\ DatesOf(a, T) \subseteq Nat \ {0}
<1>1. IsFiniteSet(T)
  <2>1. IsFiniteSet(Pairs)
    <3>1. 0 \in Int /\ 0 >= 0 /\ ChainTop \in Int /\ ChainTop <= ChainTop
      BY ChainIs
    <3> QED
      BY <3>1, TxsFinite DEF Pairs
  <2> QED
    BY <2>1, FS_Subset
<1> DEFINE W == {p \in T : Names(a, p)}
           g == [p \in W |-> TimeOf(p)]
<1>2. IsFiniteSet(W) /\ IsFiniteSet({p \in T : Spends(a, p)})
  BY <1>1, FS_Subset
<1>3. IsFiniteSet({g[p] : p \in W})
  <2> HIDE DEF W, g
  <2> QED
    BY <1>2, ImageFinite
<1>4. {g[p] : p \in W} = {TimeOf(p) : p \in W}
  OBVIOUS
<1>5. DatesOf(a, T) = {g[p] : p \in W} \ {0}
  BY <1>4 DEF DatesOf
<1>6. IsFiniteSet(DatesOf(a, T))
  BY <1>3, <1>5, FS_Subset
<1>7. DatesOf(a, T) \subseteq Nat \ {0}
  BY PairTypes DEF DatesOf
<1> QED
  BY <1>1, <1>2, <1>6, <1>7

LEMMA FirstIs ==
    ASSUME NEW D, D \subseteq Nat \ {0}, IsFiniteSet(D)
    PROVE  /\ FirstOf(D) \in Nat /\ LastOf(D) \in Nat
           /\ D = {} => FirstOf(D) = 0 /\ LastOf(D) = 0
           /\ D # {} => /\ FirstOf(D) \in D /\ \A y \in D : FirstOf(D) <= y
                        /\ LastOf(D) \in D /\ \A y \in D : y <= LastOf(D)
<1>1. CASE D = {}
  BY <1>1 DEF FirstOf, LastOf
<1>2. CASE D # {}
  <2>1. FirstOf(D) = Min(D) /\ LastOf(D) = Max(D) /\ D \in SUBSET Nat
    BY <1>2 DEF FirstOf, LastOf
  <2>2. Min(D) \in D /\ \A y \in D : Min(D) <= y
    BY <1>2, <2>1, LeastOf
  <2>3. Max(D) \in D /\ \A y \in D : y <= Max(D)
    BY <1>2, <2>1, HighestIn
  <2> QED
    BY <1>2, <2>1, <2>2, <2>3
<1> QED
  BY <1>1, <1>2

LEMMA DatesJoin ==
    ASSUME NEW D, D \subseteq Nat \ {0}, IsFiniteSet(D), NEW E, E \subseteq Nat \ {0}, IsFiniteSet(E)
    PROVE  /\ FirstOf(D \cup E) = Earlier(FirstOf(E), FirstOf(D))
           /\ LastOf(D \cup E) = Latest(LastOf(D), LastOf(E))
<1> DEFINE U == D \cup E
<1>1. U \subseteq Nat \ {0} /\ IsFiniteSet(U)
  BY FS_Union
<1>2. /\ FirstOf(D) \in Nat /\ LastOf(D) \in Nat /\ FirstOf(E) \in Nat /\ LastOf(E) \in Nat
      /\ FirstOf(U) \in Nat /\ LastOf(U) \in Nat
  BY <1>1, FirstIs
<1>3. CASE D = {}
  <2>1. U = E /\ FirstOf(D) = 0 /\ LastOf(D) = 0
    BY <1>3, FirstIs
  <2> QED
    BY <1>2, <1>3, <2>1, FirstIs DEF Earlier, Latest
<1>4. CASE E = {}
  <2>1. U = D /\ FirstOf(E) = 0 /\ LastOf(E) = 0
    BY <1>4, FirstIs
  <2> QED
    BY <1>2, <2>1 DEF Earlier, Latest
<1>5. CASE D # {} /\ E # {}
  <2> DEFINE d == FirstOf(D)
             e == FirstOf(E)
             u == FirstOf(U)
             l == LastOf(D)
             m == LastOf(E)
             n == LastOf(U)
  <2>1. /\ d \in D /\ (\A y \in D : d <= y) /\ l \in D /\ (\A y \in D : y <= l)
        /\ e \in E /\ (\A y \in E : e <= y) /\ m \in E /\ (\A y \in E : y <= m)
    BY <1>5, FirstIs
  <2>2. U # {}
    BY <1>5
  <2>3. u \in U /\ (\A y \in U : u <= y) /\ n \in U /\ (\A y \in U : y <= n)
    BY <1>1, <2>2, FirstIs
  <2>4. d \in Nat \ {0} /\ e \in Nat \ {0} /\ l \in Nat /\ m \in Nat /\ u \in Nat /\ n \in Nat
    BY <1>2, <2>1
  <2> HIDE DEF d, e, u, l, m, n
  <2>5. u <= d /\ u <= e /\ (d <= u \/ e <= u) /\ l <= n /\ m <= n /\ (n <= l \/ n <= m)
    BY <2>1, <2>3
  <2>6. u = Earlier(e, d)
    BY <2>4, <2>5 DEF Earlier
  <2>7. n = Latest(l, m)
    BY <2>4, <2>5 DEF Latest
  <2> QED
    BY <2>6, <2>7 DEF d, e, u, l, m, n
<1> QED
  BY <1>3, <1>4, <1>5

LEMMA WholeType ==
    ASSUME NEW T, T \subseteq Pairs, NEW a
    PROVE  WholeOf(a, T) \in StatRecords
<1>1. IsFiniteSet(T) /\ IsFiniteSet({p \in T : Names(a, p)}) /\ IsFiniteSet({p \in T : Spends(a, p)})
  BY PartFinite
<1>2. SumOn(Recvs(a), T) \in Int /\ SumOn(Sents(a), T) \in Int
  <2>1. \A p \in T : Recvs(a)[p] \in Int /\ Sents(a)[p] \in Int
    BY AmountsOf
  <2> QED
    BY <1>1, <2>1, SumInt
<1>3. SumOn(Fees, {p \in T : Spends(a, p)}) \in Int
  <2>1. \A p \in {q \in T : Spends(a, q)} : Fees[p] \in Int
    BY AmountsOf
  <2> QED
    BY <1>1, <2>1, SumInt
<1>4. Cardinality({p \in T : Names(a, p)}) \in Int
  BY <1>1, FS_CardinalityType
<1>5. FirstOf(DatesOf(a, T)) \in Nat /\ LastOf(DatesOf(a, T)) \in Nat
  BY PartFinite, FirstIs
<1> QED
  BY <1>2, <1>3, <1>4, <1>5 DEF WholeOf, StatRecords

LEMMA WholeJoin ==
    ASSUME NEW T, T \subseteq Pairs, NEW U, U \subseteq Pairs, T \cap U = {}, NEW a
    PROVE  WholeOf(a, T \cup U) = Join(WholeOf(a, T), WholeOf(a, U))
<1> DEFINE NamesIn(X) == {p \in X : Names(a, p)}
           SpendsIn(X) == {p \in X : Spends(a, p)}
<1>1. /\ IsFiniteSet(T) /\ IsFiniteSet(NamesIn(T)) /\ IsFiniteSet(SpendsIn(T)) /\ IsFiniteSet(DatesOf(a, T))
      /\ IsFiniteSet(U) /\ IsFiniteSet(NamesIn(U)) /\ IsFiniteSet(SpendsIn(U)) /\ IsFiniteSet(DatesOf(a, U))
      /\ DatesOf(a, T) \subseteq Nat \ {0} /\ DatesOf(a, U) \subseteq Nat \ {0}
  BY PartFinite
<1>2. /\ NamesIn(T \cup U) = NamesIn(T) \cup NamesIn(U) /\ NamesIn(T) \cap NamesIn(U) = {}
      /\ SpendsIn(T \cup U) = SpendsIn(T) \cup SpendsIn(U) /\ SpendsIn(T) \cap SpendsIn(U) = {}
  OBVIOUS
<1>3. DatesOf(a, T \cup U) = DatesOf(a, T) \cup DatesOf(a, U)
  BY DEF DatesOf
<1>4. \A p \in T \cup U : Recvs(a)[p] \in Int /\ Sents(a)[p] \in Int /\ Fees[p] \in Int
  BY AmountsOf
<1>5. SumOn(Recvs(a), T \cup U) = SumOn(Recvs(a), T) + SumOn(Recvs(a), U)
  BY <1>1, <1>4, SumApart
<1>6. SumOn(Sents(a), T \cup U) = SumOn(Sents(a), T) + SumOn(Sents(a), U)
  BY <1>1, <1>4, SumApart
<1>7. SumOn(Fees, SpendsIn(T \cup U)) = SumOn(Fees, SpendsIn(T)) + SumOn(Fees, SpendsIn(U))
  <2>1. \A p \in SpendsIn(T) \cup SpendsIn(U) : Fees[p] \in Int
    BY <1>4
  <2> DEFINE A == SpendsIn(T)
             B == SpendsIn(U)
  <2>2. SpendsIn(T \cup U) = A \cup B /\ A \cap B = {} /\ IsFiniteSet(A) /\ IsFiniteSet(B)
    BY <1>1, <1>2
  <2>3. \A p \in A \cup B : Fees[p] \in Int
    BY <2>1
  <2> HIDE DEF A, B
  <2>4. SumOn(Fees, A \cup B) = SumOn(Fees, A) + SumOn(Fees, B)
    BY <2>2, <2>3, SumApart
  <2> QED
    BY <2>2, <2>4 DEF A, B
<1>8. Cardinality(NamesIn(T \cup U)) = Cardinality(NamesIn(T)) + Cardinality(NamesIn(U))
  <2> DEFINE A == NamesIn(T)
             B == NamesIn(U)
  <2>1. NamesIn(T \cup U) = A \cup B /\ A \cap B = {} /\ IsFiniteSet(A) /\ IsFiniteSet(B)
    BY <1>1, <1>2
  <2> HIDE DEF A, B
  <2>2. Cardinality(A \cap B) = 0
    BY <2>1, FS_EmptySet
  <2>3. Cardinality(A) \in Nat /\ Cardinality(B) \in Nat
    BY <2>1, FS_CardinalityType
  <2>4. Cardinality(A \cup B) = Cardinality(A) + Cardinality(B) - Cardinality(A \cap B)
    BY <2>1, FS_Union
  <2>5. Cardinality(A \cup B) = Cardinality(A) + Cardinality(B)
    BY <2>2, <2>3, <2>4
  <2>6. Cardinality(NamesIn(T \cup U)) = Cardinality(A) + Cardinality(B)
    BY <2>1, <2>5
  <2> QED
    BY <2>6 DEF A, B
<1>9. /\ FirstOf(DatesOf(a, T \cup U)) = Earlier(FirstOf(DatesOf(a, U)), FirstOf(DatesOf(a, T)))
      /\ LastOf(DatesOf(a, T \cup U)) = Latest(LastOf(DatesOf(a, T)), LastOf(DatesOf(a, U)))
  BY <1>1, <1>3, DatesJoin
<1> QED
  BY <1>5, <1>6, <1>7, <1>8, <1>9 DEF WholeOf, Join

\* Transactions that do not name the address say nothing of it.
LEMMA WholeUnnamed ==
    ASSUME NEW T, T \subseteq Pairs, NEW a, \A p \in T : ~Names(a, p)
    PROVE  WholeOf(a, T) = Blank
<1>1. {p \in T : Names(a, p)} = {} /\ {p \in T : Spends(a, p)} = {} /\ DatesOf(a, T) = {}
  BY AmountsOf DEF DatesOf
<1>2. ASSUME NEW v, \A p \in T : v[p] = 0 PROVE SumOn(v, T) = 0
  <2>1. IsFiniteSet(T) /\ Cardinality(T) \in Nat
    BY PartFinite, FS_CardinalityType
  <2>2. \A p \in T : v[p] \in Int /\ 0 <= v[p] /\ v[p] <= 0
    BY <1>2
  <2>3. SumOn(v, T) \in Int /\ 0 * Cardinality(T) <= SumOn(v, T) /\ SumOn(v, T) <= 0 * Cardinality(T)
    <3> HIDE <1>2
    <3> QED
      BY <2>1, <2>2, SumBounds
  <2>4. 0 * Cardinality(T) = 0
    BY <2>1
  <2> QED
    BY <2>3, <2>4
<1>3. SumOn(Recvs(a), T) = 0 /\ SumOn(Sents(a), T) = 0
  BY <1>2, AmountsOf
<1>4. SumOn(Fees, {}) = 0 /\ Cardinality({}) = 0
  BY SumEmpty, FS_EmptySet
<1>5. FirstOf({}) = 0 /\ LastOf({}) = 0
  BY DEF FirstOf, LastOf
<1> QED
  BY <1>1, <1>3, <1>4, <1>5 DEF WholeOf, Blank

LEMMA JoinIs ==
    ASSUME NEW s \in StatRecords
    PROVE  Join(s, Blank) = s /\ Join(Blank, s) = s
BY DEF Join, Blank, StatRecords, Earlier, Latest

-----------------------------------------------------------------------------
(* A block applied.                                                        *)

LEMMA NamedIs ==
    ASSUME NEW p \in Pairs, NEW a
    PROVE  a \in Named(TxOf(p)) <=> a \in Payees /\ Names(a, p)
<1> DEFINE o == TxOf(p).outs
           n == TxOf(p).ins
           c == o \o n
           P == [script : DOMAIN Payee, sat : Nat]
<1>1. o \in Seq(P) /\ n \in Seq(P)
  BY PairTypes DEF Payments
<1>2. \A q \in P : q.script \in DOMAIN Payee
  OBVIOUS
<1>3. Named(TxOf(p)) = {Payee[q.script] : q \in ToSet(c)} \ {NoPayee} /\ (Names(a, p) <=> To(c, a) # {})
  BY DEF Named, Names
<1> HIDE DEF o, n, P
<1>4. c \in Seq(P)
  BY <1>1
<1> HIDE DEF c
<1>5. \A i \in DOMAIN c : c[i] \in P
  BY <1>4
<1>6. (\E q \in ToSet(c) : Payee[q.script] = a) <=> To(c, a) # {}
  BY DEF ToSet, To
<1>7. \A q \in ToSet(c) : q.script \in DOMAIN Payee
  BY <1>2, <1>5 DEF ToSet
<1> QED
  BY <1>3, <1>6, <1>7 DEF Payees

\* A transaction applied adds up with what is there.
LEMMA ApplyTxIs ==
    ASSUME NEW s \in StatRecords, NEW p \in Pairs, NEW a, Names(a, p)
    PROVE  ApplyTx(s, TxOf(p), a, TimeOf(p)) = Join(s, WholeOf(a, {p}))
<1> DEFINE t == TimeOf(p)
           fee == IF Spends(a, p) THEN Fee(TxOf(p)) ELSE 0
           r == Recvs(a)[p]
           z == Sents(a)[p]
<1>1. t \in Nat /\ fee \in Int /\ r \in Int /\ z \in Int /\ Fee(TxOf(p)) \in Int /\ Fee(TxOf(p)) >= 0
  BY PairTypes, AmountsOf
<1>2. ASSUME NEW v, v[p] \in Int PROVE SumOn(v, {p}) = v[p]
  <2>1. SumOn(v, {} \cup {p}) = v[p] + SumOn(v, {})
    <3>1. IsFiniteSet({}) /\ p \notin {} /\ \A y \in {} \cup {p} : v[y] \in Int
      BY <1>2, FS_EmptySet
    <3> QED
      BY <3>1, SumWith
  <2>2. SumOn(v, {}) = 0 /\ {} \cup {p} = {p}
    BY SumEmpty
  <2> QED
    BY <1>2, <2>1, <2>2
<1>3. SumOn(Recvs(a), {p}) = r /\ SumOn(Sents(a), {p}) = z
  BY <1>1, <1>2
<1>4. {q \in {p} : Names(a, q)} = {p} /\ Cardinality({p}) = 1
  BY FS_Singleton
<1>5. SumOn(Fees, {q \in {p} : Spends(a, q)}) = fee
  <2>1. CASE Spends(a, p)
    <3>1. {q \in {p} : Spends(a, q)} = {p}
      BY <2>1
    <3>2. Fees[p] \in Int /\ Fees[p] = Fee(TxOf(p))
      BY AmountsOf DEF Fees
    <3>3. SumOn(Fees, {p}) = Fees[p]
      BY <1>2, <3>2
    <3> QED
      BY <2>1, <3>1, <3>2, <3>3
  <2>2. CASE ~Spends(a, p)
    <3>1. {q \in {p} : Spends(a, q)} = {}
      BY <2>2
    <3> QED
      BY <2>2, <3>1, SumEmpty
  <2> QED
    BY <2>1, <2>2
<1>6. FirstOf(DatesOf(a, {p})) = t /\ LastOf(DatesOf(a, {p})) = t
  <2>1. DatesOf(a, {p}) = {t} \ {0}
    BY <1>4 DEF DatesOf
  <2>2. CASE t = 0
    <3>1. DatesOf(a, {p}) = {}
      BY <2>1, <2>2
    <3> QED
      BY <2>2, <3>1 DEF FirstOf, LastOf
  <2>3. CASE t # 0
    <3>1. DatesOf(a, {p}) = {t} /\ {t} \in SUBSET Int
      BY <1>1, <2>1, <2>3
    <3> HIDE DEF t
    <3>0. t \in {t} /\ (\A y \in {t} : t <= y) /\ (\A y \in {t} : y <= t)
      BY <1>1
    <3>2. Min({t}) = t /\ Max({t}) = t
      BY <3>0, <3>1, MinIs, MaxIs
    <3> QED
      BY <3>1, <3>2 DEF FirstOf, LastOf
  <2> QED
    BY <2>2, <2>3
<1>7. WholeOf(a, {p}) = [recv |-> r, sent |-> z, txs |-> 1, fees |-> fee, first |-> t, last |-> t]
  BY <1>3, <1>4, <1>5, <1>6 DEF WholeOf
<1>8. ApplyTx(s, TxOf(p), a, t) = [recv |-> s.recv + r, sent |-> s.sent + z, txs |-> s.txs + 1, fees |-> s.fees + fee,
                                  first |-> Earlier(t, s.first), last |-> Latest(t, s.last)]
  <2>1. Recvs(a)[p] = Amount(TxOf(p).outs, To(TxOf(p).outs, a)) /\ Sents(a)[p] = Amount(TxOf(p).ins, To(TxOf(p).ins, a))
    BY DEF Recvs, Sents
  <2>2. (IF To(TxOf(p).ins, a) # {} /\ Fee(TxOf(p)) > 0 THEN Fee(TxOf(p)) ELSE 0) = fee
    BY <1>1 DEF Spends
  <2> HIDE DEF t, fee, r, z
  <2> QED
    BY <2>1, <2>2 DEF ApplyTx, r, z
<1>9. Latest(t, s.last) = Latest(s.last, t)
  BY <1>1 DEF Latest, StatRecords
<1> HIDE DEF t, fee, r, z
<1>10. Join(s, WholeOf(a, {p})) = [recv |-> s.recv + r, sent |-> s.sent + z, fees |-> s.fees + fee, txs |-> s.txs + 1,
                                  first |-> Earlier(t, s.first), last |-> Latest(s.last, t)]
  BY <1>7 DEF Join
<1> QED
  BY <1>8, <1>9, <1>10 DEF t

\* What has been gathered of some transactions.
DeltasOf(m, T) ==
    /\ DOMAIN m = {a \in Payees : \E p \in T : Names(a, p)}
    /\ m = [a \in DOMAIN m |-> WholeOf(a, T)]
DeltaMaps == UNION {[D -> StatRecords] : D \in SUBSET Payees}

LEMMA StatOfDeltas ==
    ASSUME NEW T, T \subseteq Pairs, NEW m, DeltasOf(m, T), NEW a \in Payees
    PROVE  StatOf(m, a) = WholeOf(a, T)
<1>1. a \in DOMAIN m => m[a] = WholeOf(a, T)
  BY DEF DeltasOf
<1>2. a \notin DOMAIN m => WholeOf(a, T) = Blank
  BY WholeUnnamed DEF DeltasOf
<1> QED
  BY <1>1, <1>2 DEF StatOf

LEMMA AddTxIs ==
    ASSUME NEW T, T \subseteq Pairs, NEW m, DeltasOf(m, T), NEW p \in Pairs, p \notin T
    PROVE  DeltasOf(AddTx(m, TxOf(p), TimeOf(p)), T \cup {p})
<1> DEFINE g == AddTx(m, TxOf(p), TimeOf(p))
<1>1. DOMAIN g = DOMAIN m \cup Named(TxOf(p)) /\ g = [a \in DOMAIN g |-> g[a]]
  BY DEF AddTx
<1>2. DOMAIN g = {a \in Payees : \E q \in T \cup {p} : Names(a, q)}
  BY <1>1, NamedIs DEF DeltasOf
<1>3. ASSUME NEW a \in DOMAIN g PROVE g[a] = WholeOf(a, T \cup {p})
  <2>1. a \in Payees
    BY <1>2, <1>3
  <2>2. StatOf(m, a) = WholeOf(a, T) /\ WholeOf(a, T) \in StatRecords
    BY <2>1, StatOfDeltas, WholeType
  <2>3. WholeOf(a, T \cup {p}) = Join(WholeOf(a, T), WholeOf(a, {p}))
    <3>1. {p} \subseteq Pairs /\ T \cap {p} = {}
      OBVIOUS
    <3> QED
      BY <3>1, WholeJoin
  <2>4. CASE Names(a, p)
    <3>1. a \in Named(TxOf(p))
      BY <2>1, <2>4, NamedIs
    <3>2. g[a] = ApplyTx(StatOf(m, a), TxOf(p), a, TimeOf(p))
      BY <1>1, <3>1 DEF AddTx
    <3>3. ApplyTx(WholeOf(a, T), TxOf(p), a, TimeOf(p)) = Join(WholeOf(a, T), WholeOf(a, {p}))
      BY <2>2, <2>4, ApplyTxIs
    <3> HIDE DEF g
    <3> QED
      BY <2>2, <2>3, <3>2, <3>3
  <2>5. CASE ~Names(a, p)
    <3>1. a \notin Named(TxOf(p)) /\ a \in DOMAIN m
      BY <1>1, <1>3, <2>5, NamedIs
    <3>2. g[a] = m[a] /\ m[a] = WholeOf(a, T)
      BY <3>1 DEF AddTx, DeltasOf
    <3>3. WholeOf(a, {p}) = Blank
      <4>1. {p} \subseteq Pairs /\ \A q \in {p} : ~Names(a, q)
        BY <2>5
      <4> QED
        BY <4>1, WholeUnnamed
    <3>4. Join(WholeOf(a, T), Blank) = WholeOf(a, T)
      BY <2>2, JoinIs
    <3> HIDE DEF g
    <3> QED
      BY <2>3, <3>2, <3>3, <3>4
  <2> QED
    BY <2>4, <2>5
<1> HIDE DEF g
<1>4. g = [a \in DOMAIN g |-> WholeOf(a, T \cup {p})]
  BY <1>1, <1>3
<1> QED
  BY <1>2, <1>4 DEF DeltasOf, g

LEMMA DeltasType == ASSUME NEW T, T \subseteq Pairs, NEW m, DeltasOf(m, T) PROVE m \in DeltaMaps
<1>1. DOMAIN m \in SUBSET Payees /\ m = [a \in DOMAIN m |-> WholeOf(a, T)]
  BY DEF DeltasOf
<1>2. m \in [DOMAIN m -> StatRecords]
  BY <1>1, WholeType
<1> QED
  BY <1>1, <1>2 DEF DeltaMaps

LEMMA AddTxType ==
    ASSUME NEW m \in DeltaMaps, NEW p \in Pairs
    PROVE  AddTx(m, TxOf(p), TimeOf(p)) \in DeltaMaps
<1> DEFINE g == AddTx(m, TxOf(p), TimeOf(p))
<1>1. PICK D \in SUBSET Payees : m \in [D -> StatRecords]
  BY DEF DeltaMaps
<1>2. DOMAIN g = D \cup Named(TxOf(p)) /\ DOMAIN g \in SUBSET Payees /\ g = [a \in DOMAIN g |-> g[a]]
  BY <1>1, NamedIs DEF AddTx
<1>3. ASSUME NEW a \in DOMAIN g PROVE g[a] \in StatRecords
  <2>1. CASE a \in Named(TxOf(p))
    <3>1. StatOf(m, a) \in StatRecords
      BY <1>1 DEF StatOf, Blank, StatRecords
    <3>2. Names(a, p)
      BY <2>1, NamedIs
    <3>3. ApplyTx(StatOf(m, a), TxOf(p), a, TimeOf(p)) = Join(StatOf(m, a), WholeOf(a, {p}))
      BY <3>1, <3>2, ApplyTxIs
    <3>4. WholeOf(a, {p}) \in StatRecords
      BY WholeType
    <3>5. Join(StatOf(m, a), WholeOf(a, {p})) \in StatRecords
      BY <3>1, <3>4 DEF Join, StatRecords, Earlier, Latest
    <3>6. g[a] = ApplyTx(StatOf(m, a), TxOf(p), a, TimeOf(p))
      BY <1>2, <2>1 DEF AddTx
    <3> HIDE DEF g
    <3> QED
      BY <3>3, <3>5, <3>6
  <2>2. CASE a \notin Named(TxOf(p))
    <3>1. g[a] = m[a] /\ a \in D
      BY <1>2, <2>2 DEF AddTx
    <3> HIDE DEF g
    <3> QED
      BY <1>1, <3>1
  <2> QED
    BY <2>1, <2>2
<1> HIDE DEF g
<1>4. g \in [DOMAIN g -> StatRecords]
  BY <1>2, <1>3
<1>5. g \in DeltaMaps
  BY <1>2, <1>4 DEF DeltaMaps
<1> QED
  BY <1>5 DEF g

\* The fold of a block goes transaction by transaction.
LEMMA ApplyFolds ==
    ASSUME NEW m \in DeltaMaps, NEW h \in 0..ChainTop
    PROVE  \E it : /\ it[1..0] = m
                   /\ \A k \in DOMAIN BlockOf(h).txs :
                          it[1..k] = AddTx(it[1..(k - 1)], BlockOf(h).txs[k], BlockOf(h).time)
                   /\ Apply(m, BlockOf(h)) = it[1..Len(BlockOf(h).txs)]
<1> DEFINE txs == BlockOf(h).txs
           time == BlockOf(h).time
           n == Len(txs)
           H == [i \in 1..n |-> [f \in DeltaMaps |-> AddTx(f, txs[i], time)]]
           Folds(it) == it = [s \in SUBSET (1..n) |-> IF s = {} THEN m ELSE AddTx(it[s \ {Max(s)}], txs[Max(s)], time)]
           it == CHOOSE it : it = [s \in SUBSET (1..n) |-> IF s = {} THEN m ELSE AddTx(it[s \ {Max(s)}], txs[Max(s)], time)]
<1>1. n \in Nat /\ DOMAIN txs = 1..n
  BY ChainIs
<1>2. ASSUME NEW i \in 1..n, NEW f \in DeltaMaps PROVE AddTx(f, txs[i], time) \in DeltaMaps
  <2>1. <<h, i>> \in Pairs
    BY <1>1, PairIs DEF Pairs
  <2>2. TxOf(<<h, i>>) = txs[i] /\ TimeOf(<<h, i>>) = time
    BY DEF TxOf, TimeOf
  <2>3. AddTx(f, TxOf(<<h, i>>), TimeOf(<<h, i>>)) \in DeltaMaps
    BY <2>1, AddTxType
  <2> QED
    BY <2>2, <2>3
<1>3. H \in [1..n -> [DeltaMaps -> DeltaMaps]]
  BY <1>2
<1> HIDE DEF txs, time
<1>4. PICK a \in [SUBSET (1..n) -> DeltaMaps] : Along(a, H, m, n)
  <2> HIDE DEF n, H
  <2> QED
    BY <1>1, <1>3, AlongExists
<1>5. ASSUME NEW s \in SUBSET (1..n), s # {}
      PROVE  H[Max(s)][a[s \ {Max(s)}]] = AddTx(a[s \ {Max(s)}], txs[Max(s)], time)
  <2>1. Max(s) \in s
    <3>1. s \in SUBSET Nat /\ IsFiniteSet(s)
      <4> HIDE DEF n
      <4>1. IsFiniteSet(1..n) /\ \A x \in 1..n : x \in Nat
        BY <1>1, FS_Interval
      <4> QED
        BY <4>1, FS_Subset
    <3> QED
      BY <1>5, <3>1, HighestIn
  <2>2. Max(s) \in 1..n /\ s \ {Max(s)} \in SUBSET (1..n)
    BY <2>1
  <2>3. a[s \ {Max(s)}] \in DeltaMaps
    BY <2>2
  <2> QED
    BY <2>2, <2>3
<1>6. Folds(a)
  <2> HIDE DEF n, H
  <2> QED
    BY <1>4, <1>5 DEF Along
<1>7. Folds(it)
  <2>1. \E b : Folds(b)
    BY <1>6
  <2> HIDE DEF n, H
  <2> QED
    BY <2>1
<1>8. Apply(m, BlockOf(h)) = it[1..n]
  BY <1>1 DEF Apply, FoldLeft, MapThenFoldSet, txs, time
<1> HIDE DEF it
<1>9. \A s \in SUBSET (1..n) : it[s] = IF s = {} THEN m ELSE AddTx(it[s \ {Max(s)}], txs[Max(s)], time)
  <2> DEFINE r == [s \in SUBSET (1..n) |-> IF s = {} THEN m ELSE AddTx(it[s \ {Max(s)}], txs[Max(s)], time)]
  <2>1. it = r
    BY <1>7
  <2>2. \A s \in SUBSET (1..n) : r[s] = IF s = {} THEN m ELSE AddTx(it[s \ {Max(s)}], txs[Max(s)], time)
    OBVIOUS
  <2> HIDE DEF r
  <2> QED
    BY <2>1, <2>2
<1>10. it[1..0] = m
  <2>1. 1..0 = {} /\ 1..0 \in SUBSET (1..n)
    OBVIOUS
  <2> QED
    BY <1>9, <2>1
<1>11. ASSUME NEW k \in 1..n PROVE it[1..k] = AddTx(it[1..(k - 1)], txs[k], time)
  <2>1. 1..k \in SUBSET (1..n) /\ 1..k # {} /\ (1..k) \ {k} = 1..(k - 1)
    <3> HIDE DEF n
    <3>1. k \in Int /\ n \in Int /\ 1 <= k /\ k <= n
      BY <1>1
    <3> HIDE <1>11
    <3> QED
      BY <3>1
  <2>2. Max(1..k) = k
    <3>1. 1..k \in SUBSET Int /\ k \in 1..k /\ \A y \in 1..k : y <= k
      BY <1>1
    <3> QED
      BY <3>1, MaxIs
  <2> DEFINE s == 1..k
  <2>3. it[s] = IF s = {} THEN m ELSE AddTx(it[s \ {Max(s)}], txs[Max(s)], time)
    BY <1>9, <2>1
  <2> HIDE DEF s, n
  <2>4. it[s] = AddTx(it[s \ {k}], txs[k], time)
    BY <2>1, <2>2, <2>3 DEF s
  <2> QED
    BY <2>1, <2>4 DEF s
<1> QED
  BY <1>1, <1>8, <1>10, <1>11 DEF txs, time

LEMMA ApplyIs ==
    ASSUME NEW T, T \subseteq Pairs, NEW m, DeltasOf(m, T), NEW h \in 0..ChainTop, T \cap TxsIn(h, h) = {}
    PROVE  DeltasOf(Apply(m, BlockOf(h)), T \cup TxsIn(h, h))
<1> DEFINE n == Len(BlockOf(h).txs)
           Upto(k) == {<<h, i>> : i \in 1..k}
<1>0. n \in Nat /\ DOMAIN BlockOf(h).txs = 1..n
  BY ChainIs
<1>1. TxsIn(h, h) = Upto(n)
  <2>1. h..h = {h}
    OBVIOUS
  <2> QED
    BY <1>0, <2>1 DEF TxsIn
<1>2. m \in DeltaMaps
  BY DeltasType
<1>3. PICK it : /\ it[1..0] = m
                /\ \A k \in 1..n : it[1..k] = AddTx(it[1..(k - 1)], BlockOf(h).txs[k], BlockOf(h).time)
                /\ Apply(m, BlockOf(h)) = it[1..n]
  <2> HIDE DEF n
  <2>1. \E it : /\ it[1..0] = m
                /\ \A k \in DOMAIN BlockOf(h).txs : it[1..k] = AddTx(it[1..(k - 1)], BlockOf(h).txs[k], BlockOf(h).time)
                /\ Apply(m, BlockOf(h)) = it[1..Len(BlockOf(h).txs)]
    BY <1>2, ApplyFolds
  <2> QED
    BY <1>0, <2>1 DEF n
<1> DEFINE N == {k \in Nat : k <= n => DeltasOf(it[1..k], T \cup Upto(k))}
<1>4. 0 \in N
  <2>1. Upto(0) = {} /\ T \cup {} = T
    OBVIOUS
  <2> QED
    BY <1>3, <2>1
<1>5. ASSUME NEW k \in N PROVE k + 1 \in N
  <2>0. k \in Nat /\ k + 1 \in Nat
    OBVIOUS
  <2> SUFFICES ASSUME k + 1 <= n PROVE DeltasOf(it[1..(k + 1)], T \cup Upto(k + 1))
    BY <2>0
  <2>1. DeltasOf(it[1..k], T \cup Upto(k))
    BY <1>0, <2>0
  <2> DEFINE p == <<h, k + 1>>
             U == T \cup Upto(k)
  <2>2. k + 1 \in 1..n
    BY <1>0, <2>0
  <2>3. p \in Pairs /\ p \in TxsIn(h, h) /\ p \notin T
    BY <1>0, <1>1, <2>2, PairIs DEF Pairs
  <2>4. U \subseteq Pairs /\ p \notin U /\ T \cup Upto(k + 1) = U \cup {p}
    <3>1. \A i \in 1..k : i \in 1..n /\ i # k + 1 /\ <<h, i>> \in Pairs
      BY <1>0, <2>0, PairIs DEF Pairs
    <3>2. 1..(k + 1) = (1..k) \cup {k + 1}
      BY <2>0
    <3>3. Upto(k + 1) = Upto(k) \cup {p}
      BY <3>2
    <3>4. Upto(k) \subseteq Pairs /\ p \notin Upto(k)
      BY <3>1
    <3> HIDE DEF Upto, p
    <3> QED
      BY <2>3, <3>3, <3>4
  <2>5. TxOf(p) = BlockOf(h).txs[k + 1] /\ TimeOf(p) = BlockOf(h).time
    BY DEF TxOf, TimeOf
  <2>6. it[1..(k + 1)] = AddTx(it[1..k], TxOf(p), TimeOf(p))
    <3>1. it[1..(k + 1)] = AddTx(it[1..((k + 1) - 1)], BlockOf(h).txs[k + 1], BlockOf(h).time)
      BY <1>3, <2>2
    <3>2. (k + 1) - 1 = k
      BY <2>0
    <3> QED
      BY <2>5, <3>1, <3>2
  <2> HIDE DEF p, U, Upto, N
  <2>7. DeltasOf(it[1..k], U)
    BY <2>1 DEF U
  <2>8. DeltasOf(AddTx(it[1..k], TxOf(p), TimeOf(p)), U \cup {p})
    BY <2>3, <2>4, <2>7, AddTxIs
  <2> QED
    BY <2>4, <2>6, <2>8
<1>6. N = Nat
  <2> HIDE DEF N
  <2>1. N \in SUBSET Nat
    BY DEF N
  <2> QED
    BY <1>4, <1>5, <2>1, EveryNumber
<1>7. DeltasOf(it[1..n], T \cup Upto(n))
  <2>1. n \in N /\ n <= n
    <3> HIDE DEF N, n
    <3> QED
      BY <1>0, <1>6
  <2>2. n <= n => DeltasOf(it[1..n], T \cup Upto(n))
    BY <2>1
  <2> QED
    BY <2>1, <2>2
<1> QED
  BY <1>1, <1>3, <1>7

\* What the properties say of a range of blocks, as what a set of transactions says.
LEMMA WholeIs ==
    ASSUME NEW a, NEW f \in Int, f >= 0, NEW t \in Int, t <= ChainTop
    PROVE  /\ Whole(a, f, t) = WholeOf(a, TxsIn(f, t))
           /\ Received(a, f, t) = SumOn(Recvs(a), TxsIn(f, t)) /\ Spent(a, f, t) = SumOn(Sents(a), TxsIn(f, t))
<1> DEFINE T == TxsIn(f, t)
           r == [p \in T |-> Amount(TxOf(p).outs, To(TxOf(p).outs, a))]
           s == [p \in T |-> Amount(TxOf(p).ins, To(TxOf(p).ins, a))]
           S == {p \in T : Spends(a, p)}
           e == [p \in S |-> Fee(TxOf(p))]
<1>1. IsFiniteSet(T) /\ T \subseteq Pairs
  BY TxsFinite
<1>2. IsFiniteSet(S) /\ S \subseteq Pairs
  BY <1>1, FS_Subset
<1>3. Received(a, f, t) = SumOn(r, T) /\ Spent(a, f, t) = SumOn(s, T)
  BY DEF Received, Spent, SumFunction, SumFunctionOnSet, SumOn
<1>4. SumOn(r, T) = SumOn(Recvs(a), T)
  <2>1. \A p \in T : r[p] = Recvs(a)[p]
    BY <1>1 DEF Recvs
  <2> HIDE DEF r, T
  <2> QED
    BY <1>1, <2>1, SumSame
<1>5. SumOn(s, T) = SumOn(Sents(a), T)
  <2>1. \A p \in T : s[p] = Sents(a)[p]
    BY <1>1 DEF Sents
  <2> HIDE DEF s, T
  <2> QED
    BY <1>1, <2>1, SumSame
<1>6. SumOn(e, S) = SumOn(Fees, S)
  <2>1. \A p \in S : e[p] = Fees[p]
    BY <1>2 DEF Fees
  <2> HIDE DEF e, S
  <2> QED
    BY <1>2, <2>1, SumSame
<1>7. With(a, f, t) = {p \in T : Names(a, p)}
  BY DEF With, Names
<1>8. {p \in With(a, f, t) : To(TxOf(p).ins, a) # {}} = S
  BY <1>1, <1>7, AmountsOf DEF Spends
<1>9. SumFunction([p \in {q \in With(a, f, t) : To(TxOf(q).ins, a) # {}} |-> Fee(TxOf(p))]) = SumOn(e, S)
  BY <1>8 DEF SumFunction, SumFunctionOnSet, SumOn
<1>10. {BlockOf(q[1]).time : q \in With(a, f, t)} \ {0} = DatesOf(a, T)
  BY <1>7 DEF DatesOf, TimeOf
<1> HIDE DEF T, r, s, S, e
<1>11. Whole(a, f, t) = WholeOf(a, T)
  BY <1>3, <1>4, <1>5, <1>6, <1>7, <1>9, <1>10 DEF Whole, WholeOf, FirstOf, LastOf, S
<1> QED
  BY <1>3, <1>4, <1>5, <1>11 DEF T

\* What an address holds after a block, and what it does from one block on.
LEMMA HoldsIs ==
    ASSUME NEW a, NEW t \in -1..ChainTop
    PROVE  /\ Holds(a, t) = Balance(WholeOf(a, TxsIn(0, t))) /\ Holds(a, t) \in Int
           /\ TxsIn(0, t) \subseteq Pairs
           /\ t = -1 => Holds(a, t) = 0
           /\ a \in Payees => Holds(a, t) >= 0
<1>0. t \in Int /\ t <= ChainTop
  BY ChainIs
<1>1. TxsIn(0, t) \subseteq Pairs
  BY <1>0, TxsFinite
<1> DEFINE x == SumOn(Recvs(a), TxsIn(0, t))
           y == SumOn(Sents(a), TxsIn(0, t))
<1>2. Holds(a, t) = x - y
  BY <1>0, WholeIs DEF Holds
<1>3. Balance(WholeOf(a, TxsIn(0, t))) = x - y
  BY DEF Balance, WholeOf
<1>4. x \in Int /\ y \in Int
  <2>1. WholeOf(a, TxsIn(0, t)) \in StatRecords
    BY <1>1, WholeType
  <2>2. WholeOf(a, TxsIn(0, t)).recv = x /\ WholeOf(a, TxsIn(0, t)).sent = y
    BY DEF WholeOf
  <2> HIDE DEF x, y
  <2> QED
    BY <2>1, <2>2 DEF StatRecords
<1>5. t = -1 => x = 0 /\ y = 0
  <2>1. t = -1 => TxsIn(0, t) = {}
    BY TxsNone
  <2> QED
    BY <2>1, SumEmpty
<1> HIDE DEF x, y
<1>6. Holds(a, t) \in Int /\ (t = -1 => Holds(a, t) = 0)
  BY <1>2, <1>4, <1>5
<1>7. ASSUME a \in Payees PROVE Holds(a, t) >= 0
  <2>1. t = -1 \/ t \in 0..ChainTop
    BY ChainIs
  <2> QED
    BY <1>6, <1>7, <2>1, Solvent
<1> QED
  BY <1>1, <1>2, <1>3, <1>6, <1>7

LEMMA HoldsOn ==
    ASSUME NEW a, NEW s \in -1..ChainTop, NEW t \in -1..ChainTop, s <= t
    PROVE  /\ TxsIn(s + 1, t) \subseteq Pairs
           /\ Holds(a, t) = Holds(a, s) + Balance(WholeOf(a, TxsIn(s + 1, t)))
           /\ Balance(WholeOf(a, TxsIn(s + 1, t))) \in Int
<1> DEFINE U == TxsIn(0, s)
           V == TxsIn(s + 1, t)
<1>0. s \in Int /\ t \in Int /\ 0 <= s + 1 /\ s + 1 >= 0 /\ t <= ChainTop
  BY ChainIs
<1>1. U \subseteq Pairs /\ Holds(a, s) = Balance(WholeOf(a, U))
  BY HoldsIs
<1>2. V \subseteq Pairs
  BY <1>0, TxsFinite
<1>3. TxsIn(0, t) = U \cup V /\ U \cap V = {}
  <2>1. 0 \in Int /\ s \in Int /\ t \in Int /\ 0 <= s + 1 /\ s <= t
    BY <1>0
  <2> HIDE DEF U, V
  <2>2. TxsIn(0, t) = TxsIn(0, s) \cup TxsIn(s + 1, t) /\ TxsIn(0, s) \cap TxsIn(s + 1, t) = {}
    BY <2>1, TxsFollow
  <2> QED
    BY <2>2 DEF U, V
<1>4. Holds(a, t) = Balance(WholeOf(a, U \cup V))
  BY <1>3, HoldsIs
<1> HIDE DEF U, V
<1>5. WholeOf(a, U \cup V) = Join(WholeOf(a, U), WholeOf(a, V))
  BY <1>1, <1>2, <1>3, WholeJoin
<1>6. WholeOf(a, U) \in StatRecords /\ WholeOf(a, V) \in StatRecords
  BY <1>1, <1>2, WholeType
<1>7. \A x, y \in StatRecords : Balance(Join(x, y)) = Balance(x) + Balance(y) /\ Balance(y) \in Int
  BY DEF StatRecords, Balance, Join
<1>8. Balance(WholeOf(a, U \cup V)) = Balance(WholeOf(a, U)) + Balance(WholeOf(a, V)) /\ Balance(WholeOf(a, V)) \in Int
  BY <1>5, <1>6, <1>7
<1>9. V = TxsIn(s + 1, t)
  BY DEF V
<1> QED
  BY <1>1, <1>2, <1>4, <1>8, <1>9
-----------------------------------------------------------------------------
(* The scan.                                                               *)

Reading == {height[w] : w \in {u \in Workers : worker[u] = "read"}}
Merged == ((statPlace + 1)..Reached) \ Reading

StatTypes ==
    /\ statStep \in {"idle", "collect"} /\ stopping \in BOOLEAN /\ failed \in BOOLEAN
    /\ worker \in [Workers -> {"take", "read", "full", "failed", "done"}] /\ height \in [Workers -> Int]
    /\ statPlace \in -1..ChainTop /\ since \in [Payees -> Int]
    /\ lastOfPass \in Int /\ lastOfChunk \in Int /\ nextHeight \in Int
    /\ Working => /\ statPlace < lastOfChunk /\ lastOfChunk <= lastOfPass /\ lastOfPass <= ChainTop
                  /\ statPlace < nextHeight

\* No two goroutines read one block, and each reads one of the chunk that was handed out.
ReadersApart ==
    Working => \A w \in Workers : worker[w] = "read" =>
        /\ statPlace < height[w] /\ height[w] < nextHeight /\ height[w] <= lastOfChunk
        /\ \A u \in Workers : worker[u] = "read" /\ height[u] = height[w] => u = w

\* What is gathered is of the blocks handed out and no longer being read.
Gathered == Working /\ ~failed => DeltasOf(deltas, PairsAt(Merged))

RowsRight ==
    /\ DOMAIN statRows = {a \in Payees : Holds(a, statPlace) > 0}
    /\ \A a \in Payees : /\ -1 <= since[a] /\ since[a] <= statPlace /\ Holds(a, since[a]) = 0
                         /\ StatOf(statRows, a) = WholeOf(a, TxsIn(since[a] + 1, statPlace))

StatInv == StatTypes /\ ReadersApart /\ Gathered /\ RowsRight

LEMMA MinOfTwo ==
    ASSUME NEW x \in Int, NEW y \in Int
    PROVE  Min({x, y}) = IF x <= y THEN x ELSE y
<1> DEFINE m == IF x <= y THEN x ELSE y
<1>1. {x, y} \in SUBSET Int /\ m \in {x, y} /\ \A z \in {x, y} : m <= z
  OBVIOUS
<1> HIDE DEF m
<1>2. Min({x, y}) = m
  BY <1>1, MinIs
<1> QED
  BY <1>2 DEF m

LEMMA ReachedIs ==
    ASSUME StatTypes, Working
    PROVE  /\ Reached \in Int /\ Reached \in -1..ChainTop /\ statPlace <= Reached /\ Reached <= lastOfChunk
           /\ Reached = IF nextHeight - 1 <= lastOfChunk THEN nextHeight - 1 ELSE lastOfChunk
<1>1. nextHeight - 1 \in Int /\ lastOfChunk \in Int
  BY DEF StatTypes
<1>2. Reached = IF nextHeight - 1 <= lastOfChunk THEN nextHeight - 1 ELSE lastOfChunk
  BY <1>1, MinOfTwo DEF Reached
<1> QED
  BY <1>1, <1>2, ChainIs DEF StatTypes

\* No transaction, no change.
LEMMA NoneGathered ==
    /\ DeltasOf(<<>>, {})
    /\ \A a \in Payees : StatOf(<<>>, a) = Blank /\ WholeOf(a, {}) = Blank
<1>1. DOMAIN <<>> = {} /\ <<>> = [a \in {} |-> WholeOf(a, {})]
  OBVIOUS
<1>2. {a \in Payees : \E p \in {} : Names(a, p)} = {}
  OBVIOUS
<1>3. DeltasOf(<<>>, {})
  BY <1>1, <1>2 DEF DeltasOf
<1>4. ASSUME NEW a \in Payees PROVE WholeOf(a, {}) = Blank
  BY WholeUnnamed
<1>5. \A a \in Payees : StatOf(<<>>, a) = Blank
  BY <1>1 DEF StatOf
<1> QED
  BY <1>3, <1>4, <1>5

LEMMA StatStarts == StatInit => StatInv
<1> SUFFICES ASSUME StatInit PROVE StatInv
  OBVIOUS
<1> USE DEF StatInit
<1>1. -1 \in -1..ChainTop /\ -1 \in Int
  BY ChainIs
<1>2. ~Working
  BY DEF Working
<1>3. StatTypes
  <2>1. since \in [Payees -> Int] /\ statPlace \in -1..ChainTop
    BY <1>1
  <2>2. worker \in [Workers -> {"take", "read", "full", "failed", "done"}] /\ height \in [Workers -> Int]
    OBVIOUS
  <2>3. lastOfPass \in Int /\ lastOfChunk \in Int /\ nextHeight \in Int
    OBVIOUS
  <2>4. statStep \in {"idle", "collect"} /\ stopping \in BOOLEAN /\ failed \in BOOLEAN
    OBVIOUS
  <2> QED
    BY <1>2, <2>1, <2>2, <2>3, <2>4 DEF StatTypes
<1>4. \A a \in Payees : Holds(a, -1) = 0
  BY <1>1, HoldsIs
<1>5. TxsIn(0, -1) = {}
  BY <1>1, TxsNone
<1>6. ASSUME NEW a \in Payees
      PROVE  StatOf(statRows, a) = WholeOf(a, TxsIn(since[a] + 1, statPlace)) /\ since[a] = -1
  <2>1. since[a] = -1 /\ since[a] + 1 = 0
    OBVIOUS
  <2> QED
    BY <1>5, <2>1, NoneGathered
<1>7. DOMAIN statRows = {a \in Payees : Holds(a, statPlace) > 0}
  <2>1. DOMAIN statRows = {}
    OBVIOUS
  <2> QED
    BY <1>4, <2>1
<1>8. RowsRight
  BY <1>4, <1>6, <1>7 DEF RowsRight
<1> QED
  BY <1>2, <1>3, <1>8 DEF StatInv, ReadersApart, Gathered

\* A chunk begins with nothing read.
LEMMA CollectBegins ==
    ASSUME NEW from \in Int, Collecting(from), statPlace' \in Int, from = statPlace' + 1,
           lastOfChunk' \in Int, from <= lastOfChunk'
    PROVE  ReadersApart' /\ Gathered'
<1>0. /\ from - 1 \in Int /\ from - 1 <= lastOfChunk' /\ from - 1 = statPlace'
      /\ statPlace' + 1 \in Int /\ statPlace' < statPlace' + 1
  <2>1. \A p, l, f \in Int : f = p + 1 /\ f <= l =>
            f - 1 \in Int /\ f - 1 <= l /\ f - 1 = p /\ p + 1 \in Int /\ p < p + 1
    OBVIOUS
  <2> QED
    BY <2>1
<1> USE DEF Collecting
<1>1. \A w \in Workers : worker'[w] = "take"
  OBVIOUS
<1>2. ReadersApart'
  BY <1>1 DEF ReadersApart
<1>3. Reached' = statPlace'
  <2>1. Reached' = Min({from - 1, lastOfChunk'})
    BY DEF Reached
  <2> QED
    BY <1>0, <2>1, MinOfTwo
<1>4. (statPlace' + 1)..statPlace' = {}
  <2>1. \A p \in Int : (p + 1)..p = {}
    OBVIOUS
  <2> QED
    BY <2>1
<1>5. PairsAt(Merged') = {}
  BY <1>3, <1>4 DEF Merged, PairsAt
<1>6. deltas' = <<>>
  OBVIOUS
<1>7. DeltasOf(deltas', PairsAt(Merged'))
  BY <1>5, <1>6, NoneGathered
<1> QED
  BY <1>2, <1>7 DEF Gathered

LEMMA ChunkEndIs ==
    ASSUME NEW from \in Int, NEW tip \in Int, from <= tip
    PROVE  ChunkEnd(from, tip) \in Int /\ from <= ChunkEnd(from, tip) /\ ChunkEnd(from, tip) <= tip
<1>1. from + ChunkSize - 1 \in Int /\ from <= from + ChunkSize - 1
  BY StatType
<1>2. ChunkEnd(from, tip) = IF from + ChunkSize - 1 <= tip THEN from + ChunkSize - 1 ELSE tip
  BY <1>1, MinOfTwo DEF ChunkEnd
<1> QED
  BY <1>1, <1>2

LEMMA UpdateKeeps == ASSUME StatInv, NEW tip \in 0..ChainTop, StatUpdate(tip) PROVE StatInv'
<1>1. /\ tip > statPlace /\ lastOfPass' = tip /\ lastOfChunk' = ChunkEnd(statPlace + 1, tip)
      /\ Collecting(statPlace + 1) /\ UNCHANGED table
  BY DEF StatUpdate
<1>2. statPlace \in Int /\ tip \in Int /\ tip <= ChainTop
  BY ChainIs DEF StatInv, StatTypes
<1>3. lastOfChunk' \in Int /\ statPlace + 1 <= lastOfChunk' /\ lastOfChunk' <= tip
  <2>1. statPlace + 1 \in Int /\ statPlace + 1 <= tip
    BY <1>1, <1>2
  <2> QED
    BY <1>1, <1>2, <2>1, ChunkEndIs
<1>4. statPlace' = statPlace /\ since' = since /\ statRows' = statRows
  BY <1>1 DEF table
<1>5. StatTypes'
  <2>1. nextHeight' = statPlace + 1 /\ stopping' = FALSE /\ failed' = FALSE /\ statStep' = "collect" /\ height' = height
    BY <1>1 DEF Collecting
  <2>2. worker' \in [Workers -> {"take", "read", "full", "failed", "done"}]
    BY <1>1 DEF Collecting
  <2>3. nextHeight' \in Int /\ statPlace' < nextHeight' /\ statPlace' < lastOfChunk' /\ lastOfPass' \in Int
    BY <1>1, <1>2, <1>3, <1>4, <2>1
  <2>4. height \in [Workers -> Int] /\ statPlace \in -1..ChainTop /\ since \in [Payees -> Int]
    BY DEF StatInv, StatTypes
  <2> QED
    BY <1>1, <1>2, <1>3, <1>4, <2>1, <2>2, <2>3, <2>4 DEF StatTypes
<1>6. ReadersApart' /\ Gathered'
  BY <1>1, <1>2, <1>3, <1>4, CollectBegins
<1>7. RowsRight'
  BY <1>4 DEF StatInv, RowsRight
<1> QED
  BY <1>5, <1>6, <1>7 DEF StatInv

LEMMA AbandonKeeps == ASSUME StatInv, Abandon PROVE StatInv'
<1> USE DEF Abandon, table
<1>1. StatTypes' /\ RowsRight'
  BY DEF StatInv, StatTypes, RowsRight, Working
<1>2. ~Working'
  BY DEF Working
<1> QED
  BY <1>1, <1>2 DEF StatInv, ReadersApart, Gathered

LEMMA TxsAt ==
    ASSUME NEW f \in Int, f >= 0, NEW t \in Int, t <= ChainTop
    PROVE  TxsIn(f, t) = PairsAt(f..t)
<1>1. \A h \in f..t : h \in 0..ChainTop
  BY ChainIs
<1>2. \A p : p \in Pairs <=> \E h \in 0..ChainTop : \E i \in DOMAIN BlockOf(h).txs : p = <<h, i>>
  BY PairIs DEF Pairs
<1> QED
  BY <1>1, <1>2, PairIs DEF PairsAt

LEMMA TakeKeeps == ASSUME StatInv, NEW w \in Workers, TakeHeight(w) PROVE StatInv'
<1> DEFINE went == IF stopping \/ nextHeight > lastOfChunk THEN "done" ELSE "read"
<1>1. /\ Working /\ worker[w] = "take" /\ worker' = [worker EXCEPT ![w] = went]
      /\ IF stopping THEN nextHeight' = nextHeight /\ height' = height
         ELSE nextHeight' = nextHeight + 1 /\ height' = [height EXCEPT ![w] = nextHeight]
      /\ UNCHANGED <<statRows, statPlace, since, statStep, lastOfPass, lastOfChunk, stopping, failed, deltas>>
  BY DEF TakeHeight, Pass, table
<1>2. /\ worker \in [Workers -> {"take", "read", "full", "failed", "done"}] /\ height \in [Workers -> Int]
      /\ statPlace \in Int /\ nextHeight \in Int /\ lastOfChunk \in Int /\ statPlace < nextHeight
      /\ statPlace < lastOfChunk
  BY <1>1, ChainIs DEF StatInv, StatTypes
<1>3. \A u \in Workers : worker'[u] = IF u = w THEN went ELSE worker[u]
  BY <1>1, <1>2
<1>4. \A u \in Workers : u # w \/ stopping => height'[u] = height[u]
  BY <1>1, <1>2
<1>5. ~stopping => height'[w] = nextHeight /\ nextHeight' = nextHeight + 1
  BY <1>1, <1>2
<1>6. StatTypes'
  <2>1. worker' \in [Workers -> {"take", "read", "full", "failed", "done"}] /\ height' \in [Workers -> Int]
    BY <1>1, <1>2
  <2>2. nextHeight' \in Int /\ statPlace < nextHeight'
    BY <1>1, <1>2
  <2> HIDE DEF went
  <2> QED
    BY <1>1, <2>1, <2>2 DEF StatInv, StatTypes, Working
<1>7. RowsRight'
  BY <1>1 DEF StatInv, RowsRight
<1>8. Working'
  BY <1>1 DEF Working
<1>9. /\ Reached = IF nextHeight - 1 <= lastOfChunk THEN nextHeight - 1 ELSE lastOfChunk
      /\ Reached' = IF nextHeight' - 1 <= lastOfChunk' THEN nextHeight' - 1 ELSE lastOfChunk'
  <2>1. Reached = IF nextHeight - 1 <= lastOfChunk THEN nextHeight - 1 ELSE lastOfChunk
    BY <1>1, ReachedIs DEF StatInv
  <2>2. Reached' = Min({nextHeight' - 1, lastOfChunk'})
    BY DEF Reached
  <2>3. nextHeight' - 1 \in Int /\ lastOfChunk' \in Int
    BY <1>6 DEF StatTypes
  <2> QED
    BY <2>1, <2>2, <2>3, MinOfTwo
<1>10. \A u \in Workers : worker[u] = "read" => height[u] < nextHeight
  BY <1>1 DEF StatInv, ReadersApart
<1>11. CASE went = "done"
  <2>1. \A u \in Workers : /\ worker'[u] = "read" <=> worker[u] = "read"
                           /\ worker[u] = "read" => height'[u] = height[u]
    BY <1>1, <1>3, <1>4, <1>11
  <2>2. Reading' = Reading
    BY <2>1 DEF Reading
  <2>3. Reached' = Reached
    BY <1>1, <1>2, <1>5, <1>9, <1>11
  <2>4. Merged' = Merged /\ deltas' = deltas /\ failed' = failed
    BY <1>1, <2>2, <2>3 DEF Merged
  <2>5. nextHeight <= nextHeight'
    BY <1>1, <1>2
  <2>6. ReadersApart'
    <3> SUFFICES ASSUME NEW v \in Workers, worker'[v] = "read"
                 PROVE  /\ statPlace' < height'[v] /\ height'[v] < nextHeight' /\ height'[v] <= lastOfChunk'
                        /\ \A u \in Workers : worker'[u] = "read" /\ height'[u] = height'[v] => u = v
      BY DEF ReadersApart
    <3>1. worker[v] = "read" /\ height'[v] = height[v] /\ height[v] \in Int
      BY <1>2, <2>1
    <3>2. /\ statPlace < height[v] /\ height[v] < nextHeight /\ height[v] <= lastOfChunk
          /\ \A u \in Workers : worker[u] = "read" /\ height[u] = height[v] => u = v
      BY <1>1, <3>1 DEF StatInv, ReadersApart
    <3>3. height[v] < nextHeight'
      BY <1>2, <1>6, <2>5, <3>1, <3>2 DEF StatTypes
    <3> QED
      BY <1>1, <2>1, <3>1, <3>2, <3>3
  <2>7. Gathered'
    BY <1>1, <2>4 DEF StatInv, Gathered
  <2> QED
    BY <1>6, <1>7, <2>6, <2>7 DEF StatInv
<1>12. CASE went = "read"
  <2>0. ~stopping /\ nextHeight <= lastOfChunk
    BY <1>2, <1>12
  <2>1. /\ worker'[w] = "read" /\ worker[w] # "read" /\ height'[w] = nextHeight
        /\ \A u \in Workers : u # w => worker'[u] = worker[u] /\ height'[u] = height[u]
    BY <1>1, <1>3, <1>4, <1>5, <1>12, <2>0
  <2>2. Reading' = Reading \cup {nextHeight}
    BY <2>1 DEF Reading
  <2>3. Reached = nextHeight - 1 /\ Reached' = nextHeight
    BY <1>1, <1>2, <1>5, <1>9, <2>0
  <2>4. (statPlace + 1)..nextHeight = ((statPlace + 1)..(nextHeight - 1)) \cup {nextHeight}
        /\ nextHeight \notin (statPlace + 1)..(nextHeight - 1)
    BY <1>2
  <2>5. Merged' = Merged /\ deltas' = deltas /\ failed' = failed
    BY <1>1, <2>2, <2>3, <2>4 DEF Merged
  <2>6. ReadersApart'
    <3> SUFFICES ASSUME NEW v \in Workers, worker'[v] = "read"
                 PROVE  /\ statPlace' < height'[v] /\ height'[v] < nextHeight' /\ height'[v] <= lastOfChunk'
                        /\ \A u \in Workers : worker'[u] = "read" /\ height'[u] = height'[v] => u = v
      BY DEF ReadersApart
    <3>1. nextHeight' = nextHeight + 1 /\ lastOfChunk' = lastOfChunk /\ statPlace' = statPlace
      BY <1>1, <2>0
    <3>2. \A u \in Workers : u # w /\ worker'[u] = "read" => height'[u] < nextHeight /\ height'[u] \in Int
      BY <1>2, <1>10, <2>1
    <3>3. CASE v = w
      <4>1. \A u \in Workers : worker'[u] = "read" /\ height'[u] = nextHeight => u = w
        BY <1>2, <3>2
      <4>2. statPlace < nextHeight /\ nextHeight < nextHeight + 1 /\ nextHeight <= lastOfChunk
        BY <1>2, <2>0
      <4> QED
        BY <2>1, <3>1, <3>3, <4>1, <4>2
    <3>4. CASE v # w
      <4>1. worker[v] = "read" /\ height'[v] = height[v] /\ height[v] \in Int
        BY <1>2, <2>1, <3>4
      <4>2. /\ statPlace < height[v] /\ height[v] < nextHeight /\ height[v] <= lastOfChunk
            /\ \A u \in Workers : worker[u] = "read" /\ height[u] = height[v] => u = v
        BY <1>1, <4>1 DEF StatInv, ReadersApart
      <4>3. height[v] < nextHeight + 1 /\ height[v] # nextHeight
        BY <1>2, <4>1, <4>2
      <4>4. \A u \in Workers : worker'[u] = "read" /\ height'[u] = height[v] => u = v
        BY <2>1, <4>2, <4>3
      <4> QED
        BY <3>1, <4>1, <4>2, <4>3, <4>4
    <3> QED
      BY <3>3, <3>4
  <2>7. Gathered'
    BY <1>1, <2>5 DEF StatInv, Gathered
  <2> QED
    BY <1>6, <1>7, <2>6, <2>7 DEF StatInv
<1> QED
  BY <1>11, <1>12

\* A goroutine that stops reading leaves the others' blocks theirs.
LEMMA ApartStays ==
    ASSUME StatInv, Working, statPlace' = statPlace, nextHeight' = nextHeight, lastOfChunk' = lastOfChunk, height' = height,
           \A u \in Workers : worker'[u] = "read" => worker[u] = "read"
    PROVE  ReadersApart'
<1> SUFFICES ASSUME NEW v \in Workers, worker'[v] = "read"
             PROVE  /\ statPlace' < height'[v] /\ height'[v] < nextHeight' /\ height'[v] <= lastOfChunk'
                    /\ \A u \in Workers : worker'[u] = "read" /\ height'[u] = height'[v] => u = v
  BY DEF ReadersApart
<1>1. worker[v] = "read"
  OBVIOUS
<1>2. /\ statPlace < height[v] /\ height[v] < nextHeight /\ height[v] <= lastOfChunk
      /\ \A u \in Workers : worker[u] = "read" /\ height[u] = height[v] => u = v
  BY <1>1 DEF StatInv, ReadersApart
<1> QED
  BY <1>2

LEMMA ReadKeeps == ASSUME StatInv, NEW w \in Workers, ReadBlock(w) PROVE StatInv'
<1> DEFINE went == IF Cardinality(DOMAIN deltas') >= FlushKeys THEN "full" ELSE "take"
           h == height[w]
<1>1. /\ Working /\ worker[w] = "read" /\ worker' = [worker EXCEPT ![w] = went]
      /\ deltas' = Apply(deltas, BlockOf(h))
      /\ UNCHANGED <<statRows, statPlace, since, statStep, lastOfPass, lastOfChunk, nextHeight, stopping, failed, height>>
  BY DEF ReadBlock, Pass, table
<1> HIDE DEF went, h
<1>2. went \in {"full", "take"}
  BY DEF went
<1>3. worker \in [Workers -> {"take", "read", "full", "failed", "done"}] /\ height \in [Workers -> Int]
  BY DEF StatInv, StatTypes
<1>4. \A u \in Workers : worker'[u] = "read" <=> worker[u] = "read" /\ u # w
  BY <1>1, <1>2, <1>3
<1>5. worker' \in [Workers -> {"take", "read", "full", "failed", "done"}]
  BY <1>1, <1>2, <1>3
<1>6. StatTypes' /\ RowsRight'
  BY <1>1, <1>5 DEF StatInv, StatTypes, RowsRight, Working
<1>7. ReadersApart'
  BY <1>1, <1>4, ApartStays
<1>8. Gathered'
  <2> SUFFICES ASSUME ~failed' PROVE DeltasOf(deltas', PairsAt(Merged'))
    BY DEF Gathered
  <2>1. DeltasOf(deltas, PairsAt(Merged))
    BY <1>1 DEF StatInv, Gathered
  <2>2. /\ statPlace < h /\ h < nextHeight /\ h <= lastOfChunk /\ h \in Int
        /\ \A u \in Workers : worker[u] = "read" /\ height[u] = h => u = w
    BY <1>1, <1>3 DEF StatInv, ReadersApart, h
  <2>3. Reading = Reading' \cup {h} /\ h \notin Reading'
    BY <1>1, <1>4, <2>2 DEF Reading, h
  <2>4. Reached' = Reached
    BY <1>1 DEF Reached
  <2>5. /\ Reached = IF nextHeight - 1 <= lastOfChunk THEN nextHeight - 1 ELSE lastOfChunk
        /\ Reached <= ChainTop /\ Reached \in Int /\ nextHeight \in Int /\ lastOfChunk \in Int /\ statPlace \in -1..ChainTop
    BY <1>1, ReachedIs, ChainIs DEF StatInv, StatTypes
  <2>6. h \in (statPlace + 1)..Reached /\ h \in 0..ChainTop
    BY <2>2, <2>5, ChainIs
  <2>7. Merged' = Merged \cup {h} /\ h \notin Merged
    BY <1>1, <2>3, <2>4, <2>6 DEF Merged
  <2>8. TxsIn(h, h) = PairsAt({h})
    <3>1. h \in Int /\ h >= 0 /\ h <= ChainTop /\ h..h = {h}
      BY <2>6
    <3> QED
      BY <3>1, TxsAt
  <2>9. PairsAt(Merged') = PairsAt(Merged) \cup TxsIn(h, h) /\ PairsAt(Merged) \cap TxsIn(h, h) = {} /\ PairsAt(Merged) \subseteq Pairs
    BY <2>7, <2>8 DEF PairsAt
  <2>10. DeltasOf(Apply(deltas, BlockOf(h)), PairsAt(Merged) \cup TxsIn(h, h))
    BY <2>1, <2>6, <2>9, ApplyIs
  <2> QED
    BY <1>1, <2>9, <2>10
<1> QED
  BY <1>6, <1>7, <1>8 DEF StatInv

LEMMA FailsKeeps == ASSUME StatInv, NEW w \in Workers, ReadFails(w) PROVE StatInv'
<1>1. /\ Working /\ worker' = [worker EXCEPT ![w] = "failed"] /\ failed' = TRUE
      /\ UNCHANGED <<statRows, statPlace, since, statStep, lastOfPass, lastOfChunk, nextHeight, stopping, deltas, height>>
  BY DEF ReadFails, Pass, table
<1>2. worker \in [Workers -> {"take", "read", "full", "failed", "done"}]
  BY DEF StatInv, StatTypes
<1>3. worker' \in [Workers -> {"take", "read", "full", "failed", "done"}]
  BY <1>1, <1>2
<1>4. \A u \in Workers : worker'[u] = "read" => worker[u] = "read"
  BY <1>1, <1>2
<1>5. StatTypes' /\ RowsRight'
  BY <1>1, <1>3 DEF StatInv, StatTypes, RowsRight, Working
<1>6. ReadersApart'
  BY <1>1, <1>4, ApartStays
<1> QED
  BY <1>1, <1>5, <1>6 DEF StatInv, Gathered

LEMMA TellKeeps == ASSUME StatInv, NEW w \in Workers, TellStop(w) PROVE StatInv'
<1> DEFINE went == IF worker[w] = "full" THEN "take" ELSE "done"
<1>1. /\ Working /\ worker[w] \in {"full", "failed"} /\ worker' = [worker EXCEPT ![w] = went] /\ stopping' = TRUE
      /\ UNCHANGED <<statRows, statPlace, since, statStep, lastOfPass, lastOfChunk, nextHeight, failed, deltas, height>>
  BY DEF TellStop, Pass, table
<1>2. worker \in [Workers -> {"take", "read", "full", "failed", "done"}] /\ went \in {"take", "done"}
  BY DEF StatInv, StatTypes
<1> HIDE DEF went
<1>3. worker' \in [Workers -> {"take", "read", "full", "failed", "done"}]
  BY <1>1, <1>2
<1>4. \A u \in Workers : worker'[u] = "read" <=> worker[u] = "read"
  BY <1>1, <1>2
<1>5. StatTypes' /\ RowsRight'
  BY <1>1, <1>3 DEF StatInv, StatTypes, RowsRight, Working
<1>6. ReadersApart'
  BY <1>1, <1>4, ApartStays
<1>7. Reading' = Reading /\ Reached' = Reached
  BY <1>1, <1>4 DEF Reading, Reached
<1>8. Merged' = Merged
  BY <1>1, <1>7 DEF Merged
<1>9. Gathered'
  BY <1>1, <1>8 DEF StatInv, Gathered
<1> QED
  BY <1>5, <1>6, <1>9 DEF StatInv

-----------------------------------------------------------------------------
(* What is gathered merged with the table.                                 *)

LEMMA FlushKeeps ==
    ASSUME StatInv, Working, ~failed, \A w \in Workers : worker[w] = "done", Flush
    PROVE  /\ statPlace' = Reached /\ statPlace' \in -1..ChainTop /\ since' \in [Payees -> Int]
           /\ RowsRight'
<1> DEFINE New == TxsIn(statPlace + 1, Reached)
           known == DOMAIN statRows
           kept == {a \in DOMAIN deltas : Balance(Upserted(a)) # 0}
           emptied == DOMAIN deltas \ kept
<1>1. /\ statRows' = [a \in (known \ emptied) \cup kept |-> IF a \in kept THEN Upserted(a) ELSE statRows[a]]
      /\ statPlace' = Reached
      /\ since' = [a \in Payees |-> IF a \in emptied THEN Reached ELSE since[a]]
  BY DEF Flush
<1>2. Reached \in Int /\ Reached \in -1..ChainTop /\ statPlace <= Reached
  BY ReachedIs DEF StatInv
<1>3. statPlace \in -1..ChainTop /\ statPlace \in Int /\ since \in [Payees -> Int]
  BY ChainIs DEF StatInv, StatTypes
<1>4. DeltasOf(deltas, New)
  <2>1. Reading = {}
    BY DEF Reading
  <2>2. Merged = (statPlace + 1)..Reached
    BY <2>1 DEF Merged
  <2>3. New = PairsAt((statPlace + 1)..Reached)
    <3>1. statPlace + 1 \in Int /\ statPlace + 1 >= 0 /\ Reached <= ChainTop
      BY <1>2, <1>3, ChainIs
    <3> QED
      BY <1>2, <3>1, TxsAt
  <2> HIDE DEF New
  <2> QED
    BY <2>2, <2>3 DEF StatInv, Gathered
<1>5. since' \in [Payees -> Int]
  <2>1. \A a \in Payees : since'[a] \in Int
    BY <1>1, <1>2, <1>3
  <2> QED
    BY <1>1, <2>1
<1>6. /\ \A a \in Payees : /\ -1 <= since[a] /\ since[a] <= statPlace /\ Holds(a, since[a]) = 0
                           /\ StatOf(statRows, a) = WholeOf(a, TxsIn(since[a] + 1, statPlace))
      /\ known = {a \in Payees : Holds(a, statPlace) > 0}
      /\ DOMAIN deltas \subseteq Payees
  BY <1>4 DEF StatInv, RowsRight, DeltasOf
<1> HIDE DEF New
<1>7. ASSUME NEW a \in Payees
      PROVE  /\ Join(StatOf(statRows, a), WholeOf(a, New)) = WholeOf(a, TxsIn(since[a] + 1, Reached))
             /\ Balance(WholeOf(a, TxsIn(since[a] + 1, Reached))) = Holds(a, Reached)
             /\ Holds(a, Reached) = Holds(a, statPlace) + Balance(WholeOf(a, New))
             /\ Holds(a, Reached) >= 0 /\ Holds(a, Reached) \in Int /\ Holds(a, statPlace) \in Int
             /\ StatOf(statRows, a) \in StatRecords /\ New \subseteq Pairs
  <2> DEFINE s == since[a]
             T == TxsIn(s + 1, statPlace)
  <2>1. s \in Int /\ -1 <= s /\ s <= statPlace /\ Holds(a, s) = 0 /\ StatOf(statRows, a) = WholeOf(a, T)
    BY <1>3, <1>6
  <2> HIDE DEF s, T
  <2>2. s \in -1..ChainTop /\ s <= Reached /\ s + 1 \in Int /\ s + 1 >= 0 /\ s + 1 <= statPlace + 1 /\ statPlace <= ChainTop
    <3>1. ChainTop \in Int /\ -1 <= statPlace /\ statPlace <= ChainTop /\ statPlace \in Int
      BY <1>3, ChainIs
    <3> QED
      BY <1>2, <2>1, <3>1
  <2>3. TxsIn(s + 1, Reached) = T \cup New /\ T \cap New = {}
    BY <1>2, <1>3, <2>2, TxsFollow DEF T, New
  <2>4. T \subseteq Pairs
    BY <1>3, <2>2, TxsFinite DEF T
  <2>5. New \subseteq Pairs /\ Holds(a, Reached) = Holds(a, statPlace) + Balance(WholeOf(a, New))
    BY <1>2, <1>3, HoldsOn DEF New
  <2>6. WholeOf(a, T \cup New) = Join(WholeOf(a, T), WholeOf(a, New))
    BY <2>3, <2>4, <2>5, WholeJoin
  <2>7. Holds(a, Reached) = Holds(a, s) + Balance(WholeOf(a, TxsIn(s + 1, Reached)))
        /\ Balance(WholeOf(a, TxsIn(s + 1, Reached))) \in Int
    BY <1>2, <2>2, HoldsOn
  <2>8. Holds(a, Reached) >= 0 /\ Holds(a, Reached) \in Int /\ Holds(a, statPlace) \in Int
    BY <1>2, <1>3, HoldsIs
  <2>9. StatOf(statRows, a) \in StatRecords
    BY <2>1, <2>4, WholeType
  <2>10. Balance(WholeOf(a, TxsIn(s + 1, Reached))) = Holds(a, Reached)
    BY <2>1, <2>7, <2>8
  <2> QED
    BY <2>1, <2>3, <2>5, <2>6, <2>8, <2>9, <2>10 DEF s
<1>8. ASSUME NEW a \in DOMAIN deltas
      PROVE  Upserted(a) = WholeOf(a, TxsIn(since[a] + 1, Reached)) /\ Balance(Upserted(a)) = Holds(a, Reached)
  <2>1. a \in Payees /\ deltas[a] = WholeOf(a, New)
    BY <1>4, <1>6 DEF DeltasOf
  <2>2. Upserted(a) = Join(StatOf(statRows, a), deltas[a])
    BY DEF Upserted, Join
  <2> QED
    BY <1>7, <2>1, <2>2
<1>9. ASSUME NEW a \in Payees, a \notin DOMAIN deltas
      PROVE  /\ StatOf(statRows, a) = WholeOf(a, TxsIn(since[a] + 1, Reached))
             /\ Holds(a, Reached) = Holds(a, statPlace)
  <2>1. \A p \in New : ~Names(a, p)
    BY <1>4, <1>9 DEF DeltasOf
  <2>2. WholeOf(a, New) = Blank
    BY <1>7, <2>1, WholeUnnamed
  <2>3. Balance(Blank) = 0
    BY DEF Balance, Blank
  <2>4. Join(StatOf(statRows, a), Blank) = StatOf(statRows, a)
    BY <1>7, JoinIs
  <2>5. Holds(a, Reached) = Holds(a, statPlace) + 0 /\ Holds(a, statPlace) \in Int
    BY <1>7, <2>2, <2>3
  <2> QED
    BY <1>7, <2>2, <2>4, <2>5
<1>10. kept \subseteq DOMAIN deltas /\ emptied \subseteq DOMAIN deltas /\ DOMAIN statRows' = (known \ emptied) \cup kept
       /\ \A a \in DOMAIN deltas : a \in kept <=> a \notin emptied
  BY <1>1
<1>11. \A a \in DOMAIN deltas : a \in kept <=> Holds(a, Reached) # 0
  BY <1>8
<1>12. \A a \in DOMAIN statRows' : statRows'[a] = IF a \in kept THEN Upserted(a) ELSE statRows[a]
  BY <1>1
<1>13. \A a \in Payees : since'[a] = IF a \in emptied THEN Reached ELSE since[a]
  BY <1>1
<1> HIDE DEF kept, emptied, known
<1>14. ASSUME NEW a \in Payees PROVE a \in DOMAIN statRows' <=> Holds(a, Reached) > 0
  <2>0. Holds(a, Reached) > 0 <=> Holds(a, Reached) # 0
    BY <1>7
  <2>1. CASE a \in DOMAIN deltas
    BY <1>10, <1>11, <2>0, <2>1
  <2>2. CASE a \notin DOMAIN deltas
    <3>1. a \in DOMAIN statRows' <=> a \in known
      BY <1>10, <2>2
    <3>2. a \in known <=> Holds(a, statPlace) > 0
      BY <1>6
    <3> QED
      BY <1>9, <2>2, <3>1, <3>2
  <2> QED
    BY <2>1, <2>2
<1>15. DOMAIN statRows' = {a \in Payees : Holds(a, statPlace') > 0}
  <2>1. DOMAIN statRows' \subseteq Payees
    BY <1>6, <1>10
  <2> QED
    BY <1>1, <1>14, <2>1
<1>16. ASSUME NEW a \in Payees
       PROVE  /\ -1 <= since'[a] /\ since'[a] <= statPlace' /\ Holds(a, since'[a]) = 0
              /\ StatOf(statRows', a) = WholeOf(a, TxsIn(since'[a] + 1, statPlace'))
  <2>1. CASE a \in emptied
    <3>1. since'[a] = Reached /\ a \in DOMAIN deltas /\ Holds(a, Reached) = 0
      BY <1>10, <1>11, <1>13, <2>1
    <3>2. a \notin DOMAIN statRows'
      BY <1>7, <1>14, <3>1
    <3>3. TxsIn(Reached + 1, Reached) = {}
      BY <1>2, TxsNone
    <3>4. WholeOf(a, {}) = Blank /\ StatOf(statRows', a) = Blank
      BY <3>2, NoneGathered DEF StatOf
    <3>5. statPlace' = Reached
      BY <1>1
    <3>6. -1 <= Reached /\ Reached <= Reached
      BY <1>2
    <3>7. StatOf(statRows', a) = WholeOf(a, TxsIn(Reached + 1, Reached))
      BY <3>3, <3>4, Zenon
    <3> QED
      BY <3>1, <3>5, <3>6, <3>7, Zenon
  <2>2. CASE a \notin emptied
    <3>1. since'[a] = since[a]
      BY <1>13, <2>2
    <3>2. -1 <= since[a] /\ since[a] <= Reached /\ Holds(a, since[a]) = 0
      BY <1>2, <1>3, <1>6
    <3>3. StatOf(statRows', a) = WholeOf(a, TxsIn(since[a] + 1, Reached))
      <4>1. CASE a \in DOMAIN deltas
        <5>1. a \in kept /\ a \in DOMAIN statRows'
          BY <1>10, <2>2, <4>1
        <5>2. statRows'[a] = Upserted(a)
          BY <1>12, <5>1
        <5> QED
          BY <1>8, <4>1, <5>1, <5>2 DEF StatOf
      <4>2. CASE a \notin DOMAIN deltas
        <5>1. a \notin kept /\ (a \in DOMAIN statRows' <=> a \in DOMAIN statRows)
          BY <1>10, <2>2, <4>2 DEF known
        <5>2. StatOf(statRows', a) = StatOf(statRows, a)
          BY <1>12, <5>1 DEF StatOf
        <5> QED
          BY <1>9, <4>2, <5>2
      <4> QED
        BY <4>1, <4>2
    <3> QED
      BY <1>1, <3>1, <3>2, <3>3
  <2> QED
    BY <2>1, <2>2
<1>17. RowsRight'
  BY <1>15, <1>16 DEF RowsRight
<1> QED
  BY <1>1, <1>2, <1>5, <1>17

LEMMA MergeKeeps == ASSUME StatInv, Merge PROVE StatInv'
<1>1. Working /\ (\A w \in Workers : worker[w] = "done") /\ ~failed /\ Flush /\ lastOfPass' = lastOfPass
  BY DEF Merge
<1>2. statPlace' = Reached /\ statPlace' \in -1..ChainTop /\ since' \in [Payees -> Int] /\ RowsRight'
  BY <1>1, FlushKeeps
<1>3. /\ Reached \in Int /\ Reached <= lastOfChunk /\ lastOfChunk <= lastOfPass /\ lastOfPass <= ChainTop
      /\ lastOfPass \in Int /\ lastOfChunk \in Int
  BY <1>1, ReachedIs DEF StatInv, StatTypes
<1>4. CASE Reached < lastOfPass
  <2>1. /\ Collecting(Reached + 1)
        /\ lastOfChunk' = (IF Reached < lastOfChunk THEN lastOfChunk ELSE ChunkEnd(Reached + 1, lastOfPass))
    BY <1>4 DEF Merge
  <2>2. lastOfChunk' \in Int /\ Reached < lastOfChunk' /\ lastOfChunk' <= lastOfPass
    <3>1. CASE Reached < lastOfChunk
      BY <1>3, <2>1, <3>1
    <3>2. CASE ~(Reached < lastOfChunk)
      <4>1. Reached + 1 \in Int /\ Reached + 1 <= lastOfPass
        BY <1>3, <1>4
      <4>2. ChunkEnd(Reached + 1, lastOfPass) \in Int /\ Reached + 1 <= ChunkEnd(Reached + 1, lastOfPass)
            /\ ChunkEnd(Reached + 1, lastOfPass) <= lastOfPass
        BY <1>3, <4>1, ChunkEndIs
      <4>3. lastOfChunk' = ChunkEnd(Reached + 1, lastOfPass)
        BY <2>1, <3>2
      <4> QED
        BY <1>3, <4>2, <4>3
    <3> QED
      BY <3>1, <3>2
  <2>3. ReadersApart' /\ Gathered'
    <3>1. Reached + 1 \in Int /\ statPlace' \in Int /\ Reached + 1 = statPlace' + 1 /\ Reached + 1 <= lastOfChunk'
      BY <1>2, <1>3, <2>2
    <3> QED
      BY <2>1, <2>2, <3>1, CollectBegins
  <2>4. StatTypes'
    <3>1. nextHeight' = Reached + 1 /\ stopping' = FALSE /\ failed' = FALSE /\ statStep' = "collect" /\ height' = height
      BY <2>1 DEF Collecting
    <3>2. worker' \in [Workers -> {"take", "read", "full", "failed", "done"}]
      BY <2>1 DEF Collecting
    <3>3. nextHeight' \in Int /\ statPlace' < nextHeight' /\ statPlace' < lastOfChunk' /\ lastOfPass' \in Int
          /\ lastOfChunk' <= lastOfPass' /\ lastOfPass' <= ChainTop
      BY <1>1, <1>2, <1>3, <2>2, <3>1
    <3>4. height \in [Workers -> Int]
      BY DEF StatInv, StatTypes
    <3> QED
      BY <1>2, <2>2, <3>1, <3>2, <3>3, <3>4 DEF StatTypes
  <2> QED
    BY <1>2, <2>3, <2>4 DEF StatInv
<1>5. CASE ~(Reached < lastOfPass)
  <2>1. statStep' = "idle" /\ UNCHANGED <<lastOfChunk, nextHeight, stopping, failed, deltas, worker, height>>
    BY <1>5 DEF Merge
  <2>2. ~Working'
    BY <2>1 DEF Working
  <2>3. StatTypes'
    BY <1>1, <1>2, <2>1, <2>2 DEF StatInv, StatTypes
  <2> QED
    BY <1>2, <2>2, <2>3 DEF StatInv, ReadersApart, Gathered
<1> QED
  BY <1>4, <1>5

LEMMA StatStep == ASSUME StatInv, [StatNext]_statVars PROVE StatInv'
<1>1. CASE \E t \in 0..ChainTop : StatUpdate(t)
  BY <1>1, UpdateKeeps
<1>2. CASE Merge
  BY <1>2, MergeKeeps
<1>3. CASE Abandon
  BY <1>3, AbandonKeeps
<1>4. CASE \E w \in Workers : TakeHeight(w) \/ ReadBlock(w) \/ ReadFails(w) \/ TellStop(w)
  BY <1>4, TakeKeeps, ReadKeeps, FailsKeeps, TellKeeps
<1>5. CASE UNCHANGED statVars
  BY <1>5 DEF statVars, StatInv, StatTypes, ReadersApart, Gathered, RowsRight, Working, Merged, Reading, Reached
<1> QED
  BY <1>1, <1>2, <1>3, <1>4, <1>5 DEF StatNext

\* Every record is the chain's.
LEMMA RowsAreOfChain == ASSUME StatInv PROVE StatsOfChain
<1>1. DOMAIN statRows = {a \in Payees : Holds(a, statPlace) > 0}
  BY DEF StatInv, RowsRight
<1>2. ASSUME NEW a \in DOMAIN statRows PROVE statRows[a] = Whole(a, since[a] + 1, statPlace)
  <2>1. a \in Payees /\ StatOf(statRows, a) = statRows[a]
    BY <1>1 DEF StatOf
  <2>2. statRows[a] = WholeOf(a, TxsIn(since[a] + 1, statPlace)) /\ -1 <= since[a] /\ since[a] \in Int
    BY <2>1 DEF StatInv, StatTypes, RowsRight
  <2>3. since[a] + 1 \in Int /\ since[a] + 1 >= 0 /\ statPlace \in Int /\ statPlace <= ChainTop
    BY <2>2, ChainIs DEF StatInv, StatTypes
  <2> QED
    BY <2>2, <2>3, WholeIs
<1> QED
  BY <1>1, <1>2 DEF StatsOfChain

\* Whatever blocks the chain has, whichever goroutine reads which of them in which order,
\* wherever a chunk is cut and a pass fails or ends, each address of the statistics has
\* the record the blocks give it: none is merged twice and none passed over.
THEOREM StatsAreOfChain == StatSpec => []StatsOfChain
<1>1. StatInit => StatInv
  BY StatStarts
<1>2. StatInv /\ [StatNext]_statVars => StatInv'
  BY StatStep
<1>3. StatInv => StatsOfChain
  BY RowsAreOfChain
<1> QED
  BY <1>1, <1>2, <1>3, PTL DEF StatSpec

-----------------------------------------------------------------------------
(* The batches of a ranked list, whatever its rows.                        *)

\* A page of a sequence R that is at most M rows long: the row after its last is asked
\* for too, and tells whether another page follows.
RowsOf(R, from, want) == LET got == SubSeq(R, from + 1, Min({from + Limit(want), Len(R)}))
                         IN  SubSeq(got, 1, Min({want, Len(got)}))
FollowsOf(R, M, from, want) ==
    Len(SubSeq(R, from + 1, Min({from + Limit(want), Len(R)}))) > want /\ from + Len(RowsOf(R, from, want)) < M

LEMMA PageRows ==
    ASSUME NEW V, NEW R \in Seq(V), NEW from \in Nat, NEW want \in Nat \ {0}
    PROVE  LET batch == RowsOf(R, from, want)
               got == SubSeq(R, from + 1, Min({from + Limit(want), Len(R)}))
           IN  /\ batch = SubSeq(R, from + 1, from + Len(batch)) /\ Len(batch) \in Nat
               /\ Len(batch) = IF Len(R) <= from THEN 0 ELSE IF from + want <= Len(R) THEN want ELSE Len(R) - from
               /\ Len(got) > want <=> from + want < Len(R)
<1> DEFINE n == Len(R)
           e == Min({from + Limit(want), n})
           got == SubSeq(R, from + 1, e)
           g == Len(got)
           r == Min({want, g})
           batch == SubSeq(got, 1, r)
<1>0. n \in Nat /\ \A i \in 1..n : R[i] \in V
  OBVIOUS
<1>1. e = (IF from + (want + 1) <= n THEN from + (want + 1) ELSE n) /\ e \in Nat
  <2>1. from + Limit(want) = from + (want + 1) /\ from + (want + 1) \in Int /\ n \in Int
    BY DEF Limit
  <2> HIDE DEF n
  <2> QED
    BY <1>0, <2>1, MinOfTwo
<1> HIDE DEF n, e
<1>2. CASE n <= from
  <2>1. e < from + 1 /\ e \in Int /\ from + 1 \in Int
    BY <1>0, <1>1, <1>2
  <2>2. got = <<>> /\ g = 0
    <3>1. got = <<>>
      BY <2>1, SubSeqEmpty, Zenon
    <3> QED
      BY <3>1
  <2> HIDE DEF got, g
  <2>3. r = 0
    BY <2>2, MinOfTwo
  <2> HIDE DEF r
  <2>4. batch = <<>>
    <3>1. r \in Int /\ r < 1 /\ 1 \in Int
      BY <2>3
    <3> QED
      BY <3>1, SubSeqEmpty, Zenon
  <2>5. SubSeq(R, from + 1, from + 0) = <<>>
    <3>1. from + 1 \in Int /\ from + 0 \in Int /\ from + 0 < from + 1
      OBVIOUS
    <3> QED
      BY <3>1, SubSeqEmpty, Zenon
  <2> HIDE DEF batch
  <2>6. Len(batch) = 0
    BY <2>4
  <2>7. ~(g > want) /\ ~(from + want < n)
    BY <1>0, <1>2, <2>2
  <2> QED
    BY <1>2, <2>4, <2>5, <2>6, <2>7 DEF RowsOf, batch, r, g, got, e, n
<1>3. CASE ~(n <= from)
  <2>1. e \in 1..n /\ from + 1 \in 1..n /\ from + 1 <= e /\ from + 1 \in Int /\ e \in Int
    BY <1>0, <1>1, <1>3
  <2>2. got \in Seq(V) /\ g = e - from
    <3>1. \A i \in (from + 1)..e : R[i] \in V
      BY <1>0, <2>1
    <3>2. got \in Seq(V) /\ g = IF from + 1 <= e THEN e - (from + 1) + 1 ELSE 0
      BY <2>1, <3>1, SubSeqProperties, Zenon
    <3> HIDE DEF got, g
    <3> QED
      BY <2>1, <3>2
  <2>3. r = (IF want <= e - from THEN want ELSE e - from) /\ r \in 1..(e - from)
    <3> HIDE DEF g
    <3>1. g \in Int /\ g >= 1
      BY <2>1, <2>2
    <3> QED
      BY <2>2, <3>1, MinOfTwo
  <2> HIDE DEF g, r
  <2>4. batch = SubSeq(R, from + 1, from + r)
    <3>1. from + 1 \in 1..Len(R) /\ e \in 1..Len(R) /\ 1 \in 1..(e - (from + 1) + 1) /\ r \in 1..(e - (from + 1) + 1)
          /\ (from + 1) + 1 - 1 = from + 1 /\ (from + 1) + r - 1 = from + r
      BY <2>1, <2>3 DEF n
    <3>2. R \in Seq(V)
      OBVIOUS
    <3>3. SubSeq(SubSeq(R, from + 1, e), 1, r) = SubSeq(R, (from + 1) + 1 - 1, (from + 1) + r - 1)
      BY <3>1, <3>2, SubSeqOfSubSeq
    <3> QED
      BY <3>1, <3>3
  <2>5. Len(batch) = r
    <3>1. from + r \in Int /\ from + 1 \in Int /\ from + r <= e
      BY <2>1, <2>3
    <3>2. \A i \in (from + 1)..(from + r) : R[i] \in V
      BY <1>0, <2>1, <3>1
    <3> DEFINE s == SubSeq(R, from + 1, from + r)
    <3>3. s \in Seq(V) /\ Len(s) = IF from + 1 <= from + r THEN (from + r) - (from + 1) + 1 ELSE 0
      BY <3>1, <3>2, SubSeqProperties
    <3>4. s = batch
      BY <2>4
    <3> HIDE DEF s, batch
    <3> QED
      BY <2>3, <3>3, <3>4
  <2>6. g > want <=> from + want < n
    BY <1>0, <1>1, <2>1, <2>2
  <2>7. r = IF from + want <= n THEN want ELSE n - from
    BY <1>0, <1>1, <1>3, <2>3
  <2> HIDE DEF batch, got
  <2>8. RowsOf(R, from, want) = batch /\ Len(SubSeq(R, from + 1, Min({from + Limit(want), Len(R)}))) = g /\ Len(R) = n
    BY DEF RowsOf, batch, r, g, got, e, n
  <2>9. r \in Nat
    BY <2>3
  <2> QED
    BY <1>3, <2>4, <2>5, <2>6, <2>7, <2>8, <2>9
<1> QED
  BY <1>2, <1>3

\* With the rows that follow it, a page is all of R from its first row on.
LEMMA PageIs ==
    ASSUME NEW V, NEW R \in Seq(V), NEW M \in Nat, NEW from \in 0..(M - 1), NEW want \in 1..(M - from)
    PROVE  LET T == Min({M, Len(R)})
               batch == RowsOf(R, from, want)
               next == from + Len(batch)
           IN  /\ FollowsOf(R, M, from, want) => next \in (from + 1)..M
               /\ batch \o (IF FollowsOf(R, M, from, want) THEN SubSeq(R, next + 1, T) ELSE <<>>) = SubSeq(R, from + 1, T)
               /\ Len(batch) \in Nat /\ batch = SubSeq(R, from + 1, from + Len(batch))
               /\ Len(batch) = IF Len(R) <= from THEN 0 ELSE IF from + want <= Len(R) THEN want ELSE Len(R) - from
<1> DEFINE n == Len(R)
           T == Min({M, n})
           batch == RowsOf(R, from, want)
           l == Len(batch)
           longer == FollowsOf(R, M, from, want)
<1>0. n \in Nat /\ (\A i \in 1..n : R[i] \in V) /\ from \in Nat /\ want \in Nat \ {0} /\ from < M /\ from + want <= M
  OBVIOUS
<1>1. /\ batch = SubSeq(R, from + 1, from + l) /\ l \in Nat
      /\ l = IF n <= from THEN 0 ELSE IF from + want <= n THEN want ELSE n - from
      /\ longer <=> from + want < n /\ from + l < M
  BY <1>0, PageRows DEF FollowsOf
<1>2. T = (IF M <= n THEN M ELSE n) /\ T \in Nat
  <2>1. M \in Int /\ n \in Int
    BY <1>0
  <2> HIDE DEF n
  <2> QED
    BY <1>0, <2>1, MinOfTwo
<1> HIDE DEF n, T, batch, l, longer
<1>3. ASSUME longer PROVE from + l \in (from + 1)..M /\ batch \o SubSeq(R, (from + l) + 1, T) = SubSeq(R, from + 1, T)
  <2>1. l = want /\ from + l \in (from + 1)..M /\ from + l <= T /\ T <= n
    BY <1>0, <1>1, <1>2, <1>3
  <2>2. SubSeq(R, from + 1, from + l) \o SubSeq(R, (from + l) + 1, T) = SubSeq(R, from + 1, T)
    <3>1. from + 1 \in 1..(Len(R) + 1) /\ from + l \in ((from + 1) - 1)..Len(R) /\ T \in (from + l)..Len(R)
      BY <1>0, <1>2, <2>1 DEF n
    <3>2. R \in Seq(V)
      OBVIOUS
    <3> QED
      BY <3>1, <3>2, ConcatAdjacentSubSeq
  <2> QED
    BY <1>1, <2>1, <2>2
<1>4. ASSUME ~longer PROVE batch \o <<>> = SubSeq(R, from + 1, T)
  <2>1. SubSeq(R, from + 1, from + l) = SubSeq(R, from + 1, T)
    <3>1. CASE T <= from
      <4>1. n <= from /\ l = 0
        BY <1>0, <1>1, <1>2, <3>1
      <4>2. from + 1 \in Int /\ from + l \in Int /\ T \in Int /\ from + l < from + 1 /\ T < from + 1
        BY <1>0, <1>2, <3>1, <4>1
      <4> QED
        BY <4>2, SubSeqEmpty
    <3>2. CASE ~(T <= from)
      <4>1. from + l = T
        BY <1>0, <1>1, <1>2, <1>4, <3>2
      <4> QED
        BY <4>1
    <3> QED
      BY <3>1, <3>2
  <2>2. batch \o <<>> = batch
    <3>1. batch \in Seq(V)
      <4>1. \A i \in (from + 1)..(from + l) : R[i] \in V
        <5>1. \A i \in (from + 1)..(from + l) : i \in 1..n
          BY <1>0, <1>1
        <5> QED
          BY <1>0, <5>1
      <4>2. from + 1 \in Int /\ from + l \in Int
        BY <1>0, <1>1
      <4> QED
        BY <1>1, <4>1, <4>2, SubSeqProperties
    <3> QED
      BY <3>1
  <2>3. batch \o <<>> = SubSeq(R, from + 1, T)
    BY <1>1, <2>1, <2>2
  <2> QED
    BY <2>3
<1>5. /\ longer => from + l \in (from + 1)..M
      /\ batch \o (IF longer THEN SubSeq(R, (from + l) + 1, T) ELSE <<>>) = SubSeq(R, from + 1, T)
  BY <1>3, <1>4
<1> QED
  BY <1>1, <1>5 DEF batch, l, longer, T, n

\* Pages that each begin where the one before ended: what follows from a row on is the
\* one function that agrees with every page.
LEMMA PagesFollow ==
    ASSUME NEW M \in Nat, NEW p, NEW r,
           r = [from \in 0..M |-> r[from]],
           \A from \in 0..M : /\ p[from].more => p[from].next \in (from + 1)..M
                              /\ r[from] = p[from].rows \o (IF p[from].more THEN r[p[from].next] ELSE <<>>)
    PROVE  /\ r = [from \in 0..M |-> p[from].rows \o (IF p[from].more THEN r[p[from].next] ELSE <<>>)]
           /\ \A g : g = [from \in 0..M |-> p[from].rows \o (IF p[from].more THEN g[p[from].next] ELSE <<>>)] => g = r
<1> DEFINE Page(from, x) == p[from].rows \o (IF p[from].more THEN x ELSE <<>>)
           D == 0..M
           Follows(g) == g = [from \in D |-> Page(from, g[p[from].next])]
<1>1. Follows(r)
  <2>1. \A from \in D : r[from] = Page(from, r[p[from].next])
    OBVIOUS
  <2> HIDE DEF Page
  <2> QED
    BY <2>1
<1>2. SUFFICES ASSUME NEW h, Follows(h) PROVE h = r
  BY <1>1
<1>4. /\ DOMAIN h = D /\ h = [from \in D |-> h[from]]
      /\ \A from \in D : h[from] = p[from].rows \o (IF p[from].more THEN h[p[from].next] ELSE <<>>)
  <2> DEFINE k == [from \in D |-> Page(from, h[p[from].next])]
  <2>1. h = k
    BY <1>2
  <2>2. DOMAIN k = D /\ k = [from \in D |-> k[from]] /\ \A from \in D : k[from] = Page(from, h[p[from].next])
    <3> HIDE DEF Page
    <3> QED
      OBVIOUS
  <2>3. \A from \in D : h[from] = Page(from, h[p[from].next])
    <3> HIDE DEF Page, k
    <3> QED
      BY <2>1, <2>2
  <2>4. DOMAIN h = D /\ h = [from \in D |-> h[from]]
    <3> HIDE DEF Page, k
    <3> QED
      BY <2>1, <2>2
  <2> QED
    BY <2>3, <2>4
<1> DEFINE N == {d \in Nat : \A from \in D : M - from <= d => h[from] = r[from]}
<1>5. \A from \in D : p[from].more => p[from].next \in D /\ M - p[from].next < M - from /\ M - from > 0
  <2> SUFFICES ASSUME NEW from \in D, p[from].more
               PROVE  p[from].next \in D /\ M - p[from].next < M - from /\ M - from > 0
    OBVIOUS
  <2>1. p[from].next \in (from + 1)..M
    OBVIOUS
  <2> QED
    BY <2>1
<1>6. \A from \in D : (p[from].more => h[p[from].next] = r[p[from].next]) => h[from] = r[from]
  BY <1>4
<1>7. 0 \in N
  <2>1. \A from \in D : M - from <= 0 => ~p[from].more
    BY <1>5
  <2> QED
    BY <1>6, <2>1
<1>8. \A d \in N : d + 1 \in N
  <2> SUFFICES ASSUME NEW d \in N PROVE d + 1 \in N
    OBVIOUS
  <2>1. ASSUME NEW from \in D, M - from <= d + 1 PROVE h[from] = r[from]
    <3>1. p[from].more => p[from].next \in D /\ M - p[from].next <= d
      BY <1>5, <2>1
    <3> QED
      BY <1>6, <3>1
  <2> QED
    BY <2>1
<1>9. N = Nat
  <2>1. N \in SUBSET Nat
    OBVIOUS
  <2> HIDE DEF N
  <2> QED
    BY <1>7, <1>8, <2>1, EveryNumber
<1>10. \A from \in D : h[from] = r[from]
  <2> SUFFICES ASSUME NEW from \in D PROVE h[from] = r[from]
    OBVIOUS
  <2>1. M - from \in N
    BY <1>9
  <2> QED
    BY <2>1
<1> QED
  BY <1>4, <1>10

\* A list that is paged once per row, whatever its rows.
LEMMA PagedOnce ==
    ASSUME NEW kind, NEW V, Ranked(kind) \in Seq(V)
    PROVE  LET ranking == SubSeq(Ranked(kind), 1, Min({AddrsMaxRows, Len(Ranked(kind))}))
               after[from \in 0..AddrsMaxRows] ==
                   LET sheet == AppAddresses(kind, from, FALSE, 0)
                   IN  sheet.rows \o (IF sheet.more THEN after[sheet.next] ELSE <<>>)
           IN  /\ after[0] = ranking
               /\ \A down \in 0..Len(ranking) - 1 :
                      LET sheet == AppAddresses(kind, 0, TRUE, down)
                      IN  /\ sheet.rows = SubSeq(ranking, 1, Len(sheet.rows))
                          /\ down < AddrsRestoreRows => Len(sheet.rows) > down
                          /\ sheet.rows \o (IF sheet.more THEN after[sheet.next] ELSE <<>>) = ranking
<1> DEFINE R == Ranked(kind)
           M == AddrsMaxRows
           T == Min({M, Len(R)})
           App(from) == AppAddresses(kind, from, FALSE, 0)
           Follows(h) == h = [from \in 0..M |-> App(from).rows \o (IF App(from).more THEN h[App(from).next] ELSE <<>>)]
           after == CHOOSE h : Follows(h)
           p == [from \in 0..M |-> App(from)]
           r == [from \in 0..M |-> SubSeq(R, from + 1, T)]
           ranking == SubSeq(R, 1, T)
<1>0. M \in Nat /\ Len(R) \in Nat /\ R \in Seq(V)
  BY PageType
<1>1. ASSUME NEW from, from >= M, NEW restore, NEW down
      PROVE AppAddresses(kind, from, restore, down) = [rows |-> <<>>, more |-> FALSE, next |-> 0]
  BY <1>1 DEF AppAddresses
<1>2. ASSUME NEW from, ~(from >= M), NEW restore, NEW down
      PROVE  LET a == AppAddresses(kind, from, restore, down)
                 want == Wanted(from, restore, down)
             IN  /\ a.rows = RowsOf(R, from, want) /\ a.more = FollowsOf(R, M, from, want)
                 /\ a.next = from + Len(RowsOf(R, from, want))
  BY <1>2 DEF AppAddresses, RowsOf, FollowsOf
<1>3. ASSUME NEW from \in 0..(M - 1), NEW restore \in BOOLEAN, NEW down \in Nat
      PROVE  /\ Wanted(from, restore, down) \in 1..(M - from)
             /\ restore /\ from = 0 /\ down < AddrsRestoreRows => Wanted(from, restore, down) = M \/ Wanted(from, restore, down) > down
  <2> DEFINE first == IF from = 0 THEN AddrsFirstPage ELSE AddrsPage
             least == Min({down + 1, AddrsRestoreRows})
             deep == IF restore /\ down + 1 > first THEN least ELSE first
  <2>1. first \in Nat /\ first >= 1
    BY PageType
  <2>2. least \in Nat /\ least >= 1 /\ (down < AddrsRestoreRows => least = down + 1)
    <3>1. down + 1 \in Int /\ AddrsRestoreRows \in Int /\ AddrsRestoreRows >= 1
      BY PageType
    <3> QED
      BY <3>1, MinOfTwo
  <2> HIDE DEF first, least
  <2>3. deep \in Nat /\ deep >= 1 /\ (restore /\ down < AddrsRestoreRows => deep > down)
    BY <2>1, <2>2
  <2>4. Wanted(from, restore, down) = Min({deep, M - from})
    BY DEF Wanted, first, least
  <2> HIDE DEF deep
  <2>5. deep \in Int /\ M - from \in Int /\ M - from >= 1
    BY <1>0, <2>3
  <2>6. Wanted(from, restore, down) = IF deep <= M - from THEN deep ELSE M - from
    BY <2>4, <2>5, MinOfTwo
  <2> DEFINE w == Wanted(from, restore, down)
  <2> HIDE DEF w
  <2>7. w = IF deep <= M - from THEN deep ELSE M - from
    BY <2>6 DEF w
  <2>8. w \in 1..(M - from)
    BY <2>3, <2>5, <2>7
  <2>9. ASSUME restore, from = 0, down < AddrsRestoreRows PROVE w = M \/ w > down
    <3>1. deep > down
      BY <2>3, <2>9
    <3> QED
      BY <1>0, <2>3, <2>7, <2>9, <3>1
  <2> QED
    BY <2>8, <2>9 DEF w
<1>4. T = (IF M <= Len(R) THEN M ELSE Len(R)) /\ T \in Nat
  <2>1. M \in Int /\ Len(R) \in Int
    BY <1>0
  <2> HIDE DEF R, M
  <2> QED
    BY <1>0, <2>1, MinOfTwo
<1> HIDE DEF T, R
<1>5. ASSUME NEW from \in 0..M, NEW restore \in BOOLEAN, NEW down \in Nat
      PROVE  LET a == AppAddresses(kind, from, restore, down)
             IN  /\ a.more => a.next \in (from + 1)..M
                 /\ a.rows \o (IF a.more THEN r[a.next] ELSE <<>>) = r[from]
                 /\ from = 0 => a.rows = SubSeq(R, 1, Len(a.rows)) /\ Len(a.rows) \in Nat /\ Len(a.rows) <= T
                 /\ restore /\ from = 0 /\ down < T /\ down < AddrsRestoreRows => Len(a.rows) > down
  <2> DEFINE a == AppAddresses(kind, from, restore, down)
  <2>1. ASSUME from >= M
        PROVE /\ a.more => a.next \in (from + 1)..M
              /\ a.rows \o (IF a.more THEN r[a.next] ELSE <<>>) = r[from]
              /\ from = 0 => a.rows = SubSeq(R, 1, Len(a.rows)) /\ Len(a.rows) \in Nat /\ Len(a.rows) <= T
              /\ restore /\ from = 0 /\ down < T /\ down < AddrsRestoreRows => Len(a.rows) > down
    <3>1. a.rows = <<>> /\ a.more = FALSE
      BY <1>1, <2>1
    <3>2. r[from] = <<>> /\ SubSeq(R, 1, 0) = <<>>
      <4>1. T \in Int /\ from + 1 \in Int /\ T < from + 1 /\ 1 \in Int /\ 0 \in Int /\ 0 < 1
        BY <1>0, <1>4, <2>1
      <4>2. SubSeq(R, from + 1, T) = <<>> /\ SubSeq(R, 1, 0) = <<>>
        BY <4>1, SubSeqEmpty
      <4> QED
        BY <4>2
    <3>3. T = 0 \/ from # 0
      BY <1>0, <1>4, <2>1
    <3> HIDE DEF a, r
    <3> QED
      BY <1>4, <3>1, <3>2, <3>3
  <2>2. ASSUME ~(from >= M)
        PROVE /\ a.more => a.next \in (from + 1)..M
              /\ a.rows \o (IF a.more THEN r[a.next] ELSE <<>>) = r[from]
              /\ from = 0 => a.rows = SubSeq(R, 1, Len(a.rows)) /\ Len(a.rows) \in Nat /\ Len(a.rows) <= T
              /\ restore /\ from = 0 /\ down < T /\ down < AddrsRestoreRows => Len(a.rows) > down
    <3> DEFINE want == Wanted(from, restore, down)
    <3>1. from \in 0..(M - 1)
      BY <1>0, <2>2
    <3>2. want \in 1..(M - from)
          /\ (restore /\ from = 0 /\ down < AddrsRestoreRows => want = M \/ want > down)
      BY <1>3, <3>1
    <3>3. /\ a.rows = RowsOf(R, from, want) /\ a.more = FollowsOf(R, M, from, want)
          /\ a.next = from + Len(RowsOf(R, from, want))
      BY <1>2, <2>2
    <3> HIDE DEF want, a
    <3>4. /\ a.more => a.next \in (from + 1)..M
          /\ a.rows \o (IF a.more THEN SubSeq(R, a.next + 1, T) ELSE <<>>) = SubSeq(R, from + 1, T)
          /\ Len(a.rows) \in Nat /\ a.rows = SubSeq(R, from + 1, from + Len(a.rows))
          /\ Len(a.rows) = IF Len(R) <= from THEN 0 ELSE IF from + want <= Len(R) THEN want ELSE Len(R) - from
      <4> DEFINE w == RowsOf(R, from, want)
                 f == FollowsOf(R, M, from, want)
      <4> HIDE DEF M
      <4>1. /\ f => from + Len(w) \in (from + 1)..M
            /\ w \o (IF f THEN SubSeq(R, (from + Len(w)) + 1, T) ELSE <<>>) = SubSeq(R, from + 1, T)
            /\ Len(w) \in Nat /\ w = SubSeq(R, from + 1, from + Len(w))
            /\ Len(w) = IF Len(R) <= from THEN 0 ELSE IF from + want <= Len(R) THEN want ELSE Len(R) - from
        BY <1>0, <3>1, <3>2, PageIs DEF T
      <4>2. a.rows = w /\ a.more = f /\ a.next = from + Len(w)
        BY <3>3
      <4> HIDE DEF w, f
      <4> QED
        BY <4>1, <4>2
    <3>5. a.rows \o (IF a.more THEN r[a.next] ELSE <<>>) = r[from]
      <4>1. r[from] = SubSeq(R, from + 1, T) /\ (a.more => r[a.next] = SubSeq(R, a.next + 1, T))
        <5>1. a.more => a.next \in 0..M
          BY <3>4
        <5> QED
          BY <5>1
      <4> HIDE DEF r
      <4> QED
        BY <3>4, <4>1
    <3>6. from = 0 => a.rows = SubSeq(R, 1, Len(a.rows)) /\ Len(a.rows) \in Nat /\ Len(a.rows) <= T
      BY <1>0, <1>4, <3>1, <3>2, <3>4
    <3>7. restore /\ from = 0 /\ down < T /\ down < AddrsRestoreRows => Len(a.rows) > down
      BY <1>0, <1>4, <3>1, <3>2, <3>4
    <3> HIDE DEF r
    <3> QED
      BY <3>4, <3>5, <3>6, <3>7
  <2> HIDE DEF r
  <2> QED
    BY <2>1, <2>2 DEF a
<1>6. after = r
  <2>1. \A from \in 0..M : /\ p[from].more => p[from].next \in (from + 1)..M
                           /\ r[from] = p[from].rows \o (IF p[from].more THEN r[p[from].next] ELSE <<>>)
    <3> SUFFICES ASSUME NEW from \in 0..M
                 PROVE  /\ p[from].more => p[from].next \in (from + 1)..M
                        /\ r[from] = p[from].rows \o (IF p[from].more THEN r[p[from].next] ELSE <<>>)
      OBVIOUS
    <3>1. p[from] = AppAddresses(kind, from, FALSE, 0)
      <4> HIDE DEF r, M
      <4> QED
        OBVIOUS
    <3>2. FALSE \in BOOLEAN /\ 0 \in Nat
      OBVIOUS
    <3> HIDE DEF p, r
    <3> QED
      BY <1>5, <3>1, <3>2, ZenonT(60)
  <2>2. \A h : [from \in 0..M |-> p[from].rows \o (IF p[from].more THEN h[p[from].next] ELSE <<>>)]
               = [from \in 0..M |-> App(from).rows \o (IF App(from).more THEN h[App(from).next] ELSE <<>>)]
    <3>1. \A from \in 0..M : p[from] = App(from)
      OBVIOUS
    <3> HIDE DEF p, App
    <3> QED
      BY <3>1
  <2>3. r = [from \in 0..M |-> r[from]]
    OBVIOUS
  <2> HIDE DEF p, r
  <2>4. /\ r = [from \in 0..M |-> p[from].rows \o (IF p[from].more THEN r[p[from].next] ELSE <<>>)]
        /\ \A g : g = [from \in 0..M |-> p[from].rows \o (IF p[from].more THEN g[p[from].next] ELSE <<>>)] => g = r
    <3> HIDE DEF M
    <3> QED
      BY <1>0, <2>1, <2>3, PagesFollow
  <2>5. Follows(r) /\ \A g : Follows(g) => g = r
    <3> HIDE DEF App
    <3> QED
      BY <2>2, <2>4
  <2> HIDE DEF Follows
  <2> QED
    BY <2>5
<1>7. r[0] = ranking /\ ranking = SubSeq(R, 1, T)
  <2>1. 0 \in 0..M /\ 0 + 1 = 1
    BY <1>0
  <2>2. r[0] = SubSeq(R, 0 + 1, T)
    BY <2>1
  <2> QED
    BY <2>1, <2>2
<1> HIDE DEF r
<1>8. Len(ranking) = T /\ \A k \in 0..T : SubSeq(ranking, 1, k) = SubSeq(R, 1, k)
  <2>1. T <= Len(R) /\ \A i \in 1..T : R[i] \in V
    BY <1>0, <1>4
  <2>2. ranking \in Seq(V) /\ Len(ranking) = T
    <3>1. 1 \in Int /\ T \in Int
      BY <1>4
    <3>2. SubSeq(R, 1, T) \in Seq(V) /\ Len(SubSeq(R, 1, T)) = IF 1 <= T THEN T - 1 + 1 ELSE 0
      BY <2>1, <3>1, SubSeqProperties
    <3> HIDE DEF ranking
    <3> QED
      BY <1>4, <1>7, <3>2
  <2>3. ASSUME NEW k \in 0..T PROVE SubSeq(ranking, 1, k) = SubSeq(R, 1, k)
    <3>1. CASE k = 0
      <4>1. 1 \in Int /\ k \in Int /\ k < 1
        BY <3>1
      <4> QED
        BY <4>1, SubSeqEmpty
    <3>2. CASE k # 0
      <4>1. 1 \in 1..Len(R) /\ T \in 1..Len(R) /\ 1 \in 1..(T - 1 + 1) /\ k \in 1..(T - 1 + 1) /\ 1 + 1 - 1 = 1 /\ 1 + k - 1 = k
        BY <1>0, <1>4, <2>1, <3>2
      <4>2. SubSeq(SubSeq(R, 1, T), 1, k) = SubSeq(R, 1 + 1 - 1, 1 + k - 1)
        BY <1>0, <4>1, SubSeqOfSubSeq
      <4> QED
        BY <4>1, <4>2
    <3> QED
      BY <3>1, <3>2
  <2> QED
    BY <2>2, <2>3
<1> HIDE DEF ranking, after
<1>9. after[0] = ranking
  BY <1>6, <1>7
<1>10. ASSUME NEW down \in 0..Len(ranking) - 1
       PROVE  LET sheet == AppAddresses(kind, 0, TRUE, down)
              IN  /\ sheet.rows = SubSeq(ranking, 1, Len(sheet.rows))
                  /\ down < AddrsRestoreRows => Len(sheet.rows) > down
                  /\ sheet.rows \o (IF sheet.more THEN after[sheet.next] ELSE <<>>) = ranking
  <2> DEFINE sheet == AppAddresses(kind, 0, TRUE, down)
  <2>1. down \in Nat /\ down < T /\ 0 \in 0..M
    BY <1>0, <1>4, <1>8
  <2>2. /\ sheet.rows \o (IF sheet.more THEN r[sheet.next] ELSE <<>>) = r[0]
        /\ sheet.rows = SubSeq(R, 1, Len(sheet.rows)) /\ Len(sheet.rows) \in Nat /\ Len(sheet.rows) <= T
        /\ down < AddrsRestoreRows => Len(sheet.rows) > down
    BY <1>5, <2>1
  <2> HIDE DEF sheet
  <2>3. sheet.rows = SubSeq(ranking, 1, Len(sheet.rows))
    <3>1. Len(sheet.rows) \in 0..T
      BY <1>4, <2>2
    <3> QED
      BY <1>8, <2>2, <3>1
  <2> QED
    BY <1>6, <1>7, <2>2, <2>3 DEF sheet
<1> QED
  BY <1>9, <1>10 DEF after, ranking, R, T

-----------------------------------------------------------------------------
(* The rowids, which order rows of one value: each row has one of its own. *)

\* The rowids a table may have: a number for each row, its own.
RowidMaps == {ids \in UNION {[D -> Nat] : D \in SUBSET Payees} :
                 IsFiniteSet(DOMAIN ids) /\ \A a, b \in DOMAIN ids : ids[a] = ids[b] => a = b}

LEMMA RowidsIs ==
    ASSUME NEW ids \in RowidMaps, NEW a \in Payees, NEW E
    PROVE  /\ RowidsAfter(ids, a, E) \in RowidMaps
           /\ DOMAIN RowidsAfter(ids, a, E) = IF a \in E THEN DOMAIN ids \ {a} ELSE DOMAIN ids \cup {a}
<1> DEFINE D == DOMAIN ids
           V == {0} \cup {ids[c] : c \in D}
           m == Max(V)
           less == [b \in D \ {a} |-> ids[b]]
           longer == [b \in D \cup {a} |-> IF b = a THEN m + 1 ELSE ids[b]]
<1>0. /\ IsFiniteSet(D) /\ D \in SUBSET Payees /\ (\A b \in D : ids[b] \in Nat)
      /\ \A b, c \in D : ids[b] = ids[c] => b = c
  BY DEF RowidMaps
<1>1. m \in Nat /\ \A b \in D : ids[b] <= m
  <2>1. IsFiniteSet({ids[c] : c \in D})
    <3> HIDE DEF D
    <3> QED
      BY <1>0, ImageFinite
  <2>2. IsFiniteSet(V)
    BY <2>1, FS_AddElement, FS_Union, FS_Singleton, Zenon
  <2>3. V \in SUBSET Nat /\ V # {}
    BY <1>0
  <2>4. \A b \in D : ids[b] \in V
    OBVIOUS
  <2> HIDE DEF V
  <2>5. m \in V /\ \A y \in V : y <= m
    BY <2>2, <2>3, HighestIn
  <2> QED
    BY <2>3, <2>4, <2>5
<1> HIDE DEF m
<1>2. RowidsAfter(ids, a, E) = IF a \in E THEN less ELSE IF a \in D THEN ids ELSE longer
  BY DEF RowidsAfter, m, V, D
<1>3. less \in RowidMaps /\ DOMAIN less = D \ {a}
  <2>1. DOMAIN less = D \ {a} /\ \A b \in D \ {a} : less[b] = ids[b]
    OBVIOUS
  <2>2. IsFiniteSet(D \ {a}) /\ D \ {a} \in SUBSET Payees
    <3> HIDE DEF D
    <3> QED
      BY <1>0, FS_Subset
  <2>3. less \in [D \ {a} -> Nat]
    BY <1>0
  <2> HIDE DEF less, D
  <2> QED
    BY <1>0, <2>1, <2>2, <2>3 DEF RowidMaps
<1>4. ASSUME a \notin D PROVE longer \in RowidMaps /\ DOMAIN longer = D \cup {a}
  <2>1. DOMAIN longer = D \cup {a} /\ longer[a] = m + 1 /\ \A b \in D : longer[b] = ids[b]
    BY <1>4
  <2>2. IsFiniteSet(D \cup {a}) /\ D \cup {a} \in SUBSET Payees
    <3> HIDE DEF D
    <3> QED
      BY <1>0, FS_AddElement
  <2>3. longer \in [D \cup {a} -> Nat]
    BY <1>0, <1>1
  <2>4. \A b \in D : longer[b] \in Nat /\ longer[b] <= m
    BY <1>0, <1>1, <2>1
  <2> HIDE DEF longer, D
  <2>5. \A b \in D : longer[b] # longer[a]
    BY <1>1, <2>1, <2>4
  <2>6. \A b, c \in D \cup {a} : longer[b] = longer[c] => b = c
    BY <1>0, <2>1, <2>5
  <2> QED
    BY <2>1, <2>2, <2>3, <2>6 DEF RowidMaps
<1>5. D \cup {a} = D \/ a \notin D
  OBVIOUS
<1> HIDE DEF less, longer
<1> QED
  BY <1>2, <1>3, <1>4, <1>5

\* flush's rowids, address by address.
RowidsBy(ids, s, E) == FoldLeft(LAMBDA f, a : RowidsAfter(f, a, E), ids, s)

LEMMA RowidsFolds ==
    ASSUME NEW ids \in RowidMaps, NEW n \in Nat, NEW s \in [1..n -> Payees], NEW E
    PROVE  \E it : /\ it[1..0] = ids
                   /\ \A k \in 1..n : it[1..k] = RowidsAfter(it[1..(k - 1)], s[k], E)
                   /\ RowidsBy(ids, s, E) = it[1..n]
<1> DEFINE H == [i \in 1..n |-> [f \in RowidMaps |-> RowidsAfter(f, s[i], E)]]
           Folds(it) == it = [t \in SUBSET (1..n) |-> IF t = {} THEN ids ELSE RowidsAfter(it[t \ {Max(t)}], s[Max(t)], E)]
           it == CHOOSE it : it = [t \in SUBSET (1..n) |-> IF t = {} THEN ids ELSE RowidsAfter(it[t \ {Max(t)}], s[Max(t)], E)]
<1>1. DOMAIN s = 1..n /\ \A i \in 1..n : s[i] \in Payees
  OBVIOUS
<1>3. H \in [1..n -> [RowidMaps -> RowidMaps]]
  <2>1. \A i \in 1..n : \A f \in RowidMaps : RowidsAfter(f, s[i], E) \in RowidMaps
    BY <1>1, RowidsIs
  <2> QED
    BY <2>1
<1>4. PICK a \in [SUBSET (1..n) -> RowidMaps] : Along(a, H, ids, n)
  <2> HIDE DEF H
  <2> QED
    BY <1>3, AlongExists
<1>5. ASSUME NEW t \in SUBSET (1..n), t # {}
      PROVE  H[Max(t)][a[t \ {Max(t)}]] = RowidsAfter(a[t \ {Max(t)}], s[Max(t)], E)
  <2>1. Max(t) \in t
    <3>1. t \in SUBSET Nat /\ IsFiniteSet(t)
      <4>1. IsFiniteSet(1..n) /\ \A x \in 1..n : x \in Nat
        BY FS_Interval
      <4> QED
        BY <4>1, FS_Subset
    <3> QED
      BY <1>5, <3>1, HighestIn
  <2>2. Max(t) \in 1..n /\ t \ {Max(t)} \in SUBSET (1..n)
    BY <2>1
  <2>3. a[t \ {Max(t)}] \in RowidMaps
    BY <2>2
  <2> QED
    BY <2>2, <2>3
<1>6. Folds(a)
  <2> HIDE DEF H
  <2> QED
    BY <1>4, <1>5 DEF Along
<1>7. Folds(it)
  <2>1. \E b : Folds(b)
    BY <1>6
  <2> HIDE DEF H
  <2> QED
    BY <2>1
<1>8. RowidsBy(ids, s, E) = it[1..n]
  BY <1>1 DEF RowidsBy, FoldLeft, MapThenFoldSet
<1> HIDE DEF it
<1>9. \A t \in SUBSET (1..n) : it[t] = IF t = {} THEN ids ELSE RowidsAfter(it[t \ {Max(t)}], s[Max(t)], E)
  <2> DEFINE r == [t \in SUBSET (1..n) |-> IF t = {} THEN ids ELSE RowidsAfter(it[t \ {Max(t)}], s[Max(t)], E)]
  <2>1. it = r
    BY <1>7
  <2>2. \A t \in SUBSET (1..n) : r[t] = IF t = {} THEN ids ELSE RowidsAfter(it[t \ {Max(t)}], s[Max(t)], E)
    OBVIOUS
  <2> HIDE DEF r
  <2> QED
    BY <2>1, <2>2
<1>10. it[1..0] = ids
  <2>1. 1..0 = {} /\ 1..0 \in SUBSET (1..n)
    OBVIOUS
  <2> QED
    BY <1>9, <2>1
<1>11. ASSUME NEW k \in 1..n PROVE it[1..k] = RowidsAfter(it[1..(k - 1)], s[k], E)
  <2>1. 1..k \in SUBSET (1..n) /\ 1..k # {} /\ (1..k) \ {k} = 1..(k - 1) /\ Max(1..k) = k
    BY UpToIs
  <2> QED
    BY <1>9, <2>1
<1> QED
  BY <1>8, <1>10, <1>11

\* The rows that are left: those that lost theirs go, those that kept or gained one stay.
LEMMA RowidsByIs ==
    ASSUME NEW ids \in RowidMaps, NEW s \in Seq(Payees), NEW E
    PROVE  /\ RowidsBy(ids, s, E) \in RowidMaps
           /\ DOMAIN RowidsBy(ids, s, E) = (DOMAIN ids \ (ToSet(s) \cap E)) \cup (ToSet(s) \ E)
<1> DEFINE n == Len(s)
<1>0. n \in Nat /\ s \in [1..n -> Payees]
  OBVIOUS
<1> HIDE DEF n
<1>1. PICK it : /\ it[1..0] = ids
                /\ \A k \in 1..n : it[1..k] = RowidsAfter(it[1..(k - 1)], s[k], E)
                /\ RowidsBy(ids, s, E) = it[1..n]
  BY <1>0, RowidsFolds
<1> DEFINE D(k) == {s[i] : i \in 1..k}
           P(k) == /\ it[1..k] \in RowidMaps
                   /\ DOMAIN it[1..k] = (DOMAIN ids \ (D(k) \cap E)) \cup (D(k) \ E)
           N == {k \in Nat : k <= n => P(k)}
<1>2. 0 \in N
  <2>1. D(0) = {}
    OBVIOUS
  <2> HIDE DEF D
  <2> QED
    BY <1>1, <2>1
<1>3. ASSUME NEW k \in N PROVE k + 1 \in N
  <2> SUFFICES ASSUME k + 1 <= n PROVE P(k + 1)
    OBVIOUS
  <2>1. k \in Nat /\ k + 1 \in 1..n /\ (k + 1) - 1 = k /\ P(k)
    BY <1>0, <1>3
  <2>2. it[1..(k + 1)] = RowidsAfter(it[1..k], s[k + 1], E) /\ s[k + 1] \in Payees
    BY <1>0, <1>1, <2>1
  <2>3. D(k + 1) = D(k) \cup {s[k + 1]}
    <3>1. 1..(k + 1) = (1..k) \cup {k + 1}
      BY <2>1
    <3> QED
      BY <3>1
  <2> HIDE DEF D
  <2>4. /\ it[1..(k + 1)] \in RowidMaps
        /\ DOMAIN it[1..(k + 1)] = IF s[k + 1] \in E THEN DOMAIN it[1..k] \ {s[k + 1]} ELSE DOMAIN it[1..k] \cup {s[k + 1]}
    <3> DEFINE f == it[1..k]
               a == s[k + 1]
    <3>1. f \in RowidMaps /\ a \in Payees /\ it[1..(k + 1)] = RowidsAfter(f, a, E)
      BY <2>1, <2>2
    <3> HIDE DEF f, a
    <3>2. /\ RowidsAfter(f, a, E) \in RowidMaps
          /\ DOMAIN RowidsAfter(f, a, E) = IF a \in E THEN DOMAIN f \ {a} ELSE DOMAIN f \cup {a}
      BY <3>1, RowidsIs
    <3> QED
      BY <3>1, <3>2 DEF f, a
  <2>5. DOMAIN it[1..k] = (DOMAIN ids \ (D(k) \cap E)) \cup (D(k) \ E)
    BY <2>1
  <2> QED
    BY <2>3, <2>4, <2>5
<1>4. N = Nat
  <2>1. N \in SUBSET Nat
    OBVIOUS
  <2> HIDE DEF N
  <2> QED
    BY <1>2, <1>3, <2>1, EveryNumber
<1>5. P(n)
  <2>1. n \in N
    BY <1>0, <1>4
  <2> HIDE DEF P
  <2> QED
    BY <2>1
<1>6. D(n) = ToSet(s)
  BY <1>0 DEF ToSet
<1> HIDE DEF D
<1> QED
  BY <1>1, <1>5, <1>6

RowidsRight == rowids \in RowidMaps /\ DOMAIN rowids = DOMAIN statRows

\* What is gathered is of finitely many addresses.
LEMMA NamedFinite == ASSUME NEW T, T \subseteq Pairs, NEW m, DeltasOf(m, T) PROVE IsFiniteSet(DOMAIN m) /\ DOMAIN m \subseteq Payees
<1> DEFINE g == [p \in Pairs |-> Named(TxOf(p))]
           S == {g[p] : p \in T}
<1>1. IsFiniteSet(T)
  BY PartFinite
<1>2. IsFiniteSet(S)
  <2> HIDE DEF g
  <2> QED
    BY <1>1, ImageFinite
<1>3. ASSUME NEW p \in Pairs PROVE IsFiniteSet(g[p])
  <2> DEFINE c == TxOf(p).outs \o TxOf(p).ins
             who == [x \in ToSet(c) |-> Payee[x.script]]
  <2>0. DOMAIN c = 1..Len(c) /\ Len(c) \in Nat
    <3> DEFINE P == [script : DOMAIN Payee, sat : Nat]
               o == TxOf(p).outs
               i == TxOf(p).ins
    <3>1. o \in Seq(P) /\ i \in Seq(P)
      BY PairTypes DEF Payments
    <3> HIDE DEF P, o, i
    <3>2. o \o i \in Seq(P)
      BY <3>1
    <3>3. DOMAIN (o \o i) = 1..Len(o \o i) /\ Len(o \o i) \in Nat
      BY <3>2
    <3> QED
      BY <3>3 DEF o, i
  <2>1. IsFiniteSet(ToSet(c))
    <3>5. IsFiniteSet(1..Len(c))
      <4> HIDE DEF c
      <4> QED
        BY <2>0, FS_Interval
    <3>3. ToSet(c) = {c[i] : i \in DOMAIN c}
      BY DEF ToSet
    <3> HIDE DEF c
    <3> QED
      BY <2>0, <3>3, <3>5, ImageFinite
  <2> HIDE DEF c
  <2>2. IsFiniteSet({who[x] : x \in ToSet(c)})
    <3> HIDE DEF who
    <3> QED
      BY <2>1, ImageFinite
  <2>3. Named(TxOf(p)) \subseteq {who[x] : x \in ToSet(c)}
    BY DEF Named, c
  <2>4. IsFiniteSet(Named(TxOf(p)))
    <3> HIDE DEF who
    <3> QED
      BY <2>2, <2>3, FS_Subset
  <2> QED
    BY <2>4
<1>4. IsFiniteSet(UNION S)
  <2>1. \A s \in S : IsFiniteSet(s)
    BY <1>3
  <2> HIDE DEF S
  <2> QED
    BY <1>2, <2>1, FS_UNION
<1>5. DOMAIN m \subseteq UNION S /\ DOMAIN m \subseteq Payees
  <2>1. ASSUME NEW a \in DOMAIN m PROVE \E p \in T : a \in Named(TxOf(p)) /\ a \in Payees
    <3>1. a \in Payees /\ \E p \in T : Names(a, p)
      BY DEF DeltasOf
    <3> QED
      BY <3>1, NamedIs
  <2> QED
    BY <2>1
<1> QED
  BY <1>4, <1>5, FS_Subset

\* flush leaves a rowid to every row and to nothing else.
LEMMA FlushRowids ==
    ASSUME StatInv, RowidsRight, Working, ~failed, \A w \in Workers : worker[w] = "done", Flush
    PROVE  RowidsRight'
<1> DEFINE D == DOMAIN deltas
           kept == {a \in D : Balance(Upserted(a)) # 0}
           emptied == D \ kept
           n == Cardinality(D)
<1>1. IsFiniteSet(D) /\ D \subseteq Payees /\ n \in Nat
  <2>1. DeltasOf(deltas, PairsAt(Merged)) /\ PairsAt(Merged) \subseteq Pairs
    BY DEF StatInv, Gathered, PairsAt
  <2>2. IsFiniteSet(D) /\ D \subseteq Payees
    BY <2>1, NamedFinite
  <2> HIDE DEF D
  <2> QED
    BY <2>2, FS_CardinalityType
<1>2. PICK s \in SetToSeqs(D) : rowids' = RowidsBy(rowids, s, emptied)
  BY DEF Flush, RowidsBy
<1>3. DOMAIN statRows' = (DOMAIN statRows \ emptied) \cup kept
  BY DEF Flush
<1>4. s \in [1..n -> D] /\ \A i, j \in 1..n : s[i] = s[j] => i = j
  BY DEF SetToSeqs, IsInjective
<1>5. ToSet(s) = D
  <2>1. s \in Injection(1..n, D)
    BY <1>4 DEF Injection, IsInjective
  <2>2. IsFiniteSet(1..n) /\ Cardinality(1..n) = n
    <3> HIDE DEF n
    <3> QED
      BY <1>1, FS_Interval
  <2>3. s \in Surjection(1..n, D)
    <3> HIDE DEF D
    <3> QED
      BY <1>1, <2>1, <2>2, FS_Injection
  <2> QED
    <3>1. DOMAIN s = 1..n /\ (\A i \in 1..n : s[i] \in D) /\ \A x \in D : \E i \in 1..n : s[i] = x
      BY <1>4, <2>3 DEF Surjection
    <3> HIDE DEF n, D
    <3> QED
      BY <3>1 DEF ToSet
<1>6. s \in Seq(Payees)
  <2> HIDE DEF n, D
  <2>1. s \in [1..n -> Payees]
    BY <1>1, <1>4
  <2> QED
    BY <1>1, <2>1
<1> HIDE DEF n, D
<1>7. /\ RowidsBy(rowids, s, emptied) \in RowidMaps
      /\ DOMAIN RowidsBy(rowids, s, emptied) = (DOMAIN rowids \ (D \cap emptied)) \cup (D \ emptied)
  <2> HIDE DEF emptied
  <2>1. rowids \in RowidMaps
    BY DEF RowidsRight
  <2> QED
    BY <1>5, <1>6, <2>1, RowidsByIs
<1>8. (DOMAIN rowids \ (D \cap emptied)) \cup (D \ emptied) = (DOMAIN statRows \ emptied) \cup kept
  BY DEF RowidsRight
<1> HIDE DEF kept
<1> QED
  BY <1>2, <1>3, <1>7, <1>8 DEF RowidsRight

LEMMA RowidsStart == StatInit => RowidsRight
<1> SUFFICES ASSUME StatInit PROVE RowidsRight
  OBVIOUS
<1>1. rowids = <<>> /\ DOMAIN rowids = {} /\ DOMAIN statRows = {}
  BY DEF StatInit
<1>2. rowids \in [{} -> Nat] /\ {} \in SUBSET Payees
  BY <1>1
<1>3. IsFiniteSet(DOMAIN rowids)
  BY <1>1, FS_EmptySet
<1> QED
  BY <1>1, <1>2, <1>3 DEF RowidsRight, RowidMaps

LEMMA RowidsKept == ASSUME StatInv, RowidsRight, [StatNext]_statVars PROVE RowidsRight'
<1>1. CASE Merge
  BY <1>1, FlushRowids DEF Merge
<1>2. CASE ~Merge
  <2>1. UNCHANGED <<rowids, statRows>>
    BY <1>2 DEF StatNext, StatUpdate, Abandon, TakeHeight, ReadBlock, ReadFails, TellStop, Pass, table, statVars
  <2> QED
    BY <2>1 DEF RowidsRight
<1> QED
  BY <1>1, <1>2

\* The rows of a kind in the order of its column, equal values by rowid: a list there is,
\* as no two rows are equal in it.
LEMMA RankedIs ==
    ASSUME StatInv, RowidsRight, NEW kind \in Kinds
    PROVE  LET ranked == {a \in DOMAIN statRows : Keep(kind, statRows[a])}
           IN  /\ Ranked(kind) \in Seq(ranked) /\ Len(Ranked(kind)) = Cardinality(ranked)
               /\ \A i, j \in 1..Len(Ranked(kind)) : i # j => Ranked(kind)[i] # Ranked(kind)[j]
               /\ \A i, j \in 1..Len(Ranked(kind)) : i < j =>
                      IF kind = "abandoned" THEN Column(kind, statRows[Ranked(kind)[i]]) <= Column(kind, statRows[Ranked(kind)[j]])
                      ELSE Column(kind, statRows[Ranked(kind)[j]]) <= Column(kind, statRows[Ranked(kind)[i]])
<1> DEFINE S == {a \in DOMAIN statRows : Keep(kind, statRows[a])}
           n == Cardinality(S)
           val(a) == Column(kind, statRows[a])
           before(a, b) == val(a) < val(b) \/ (val(a) = val(b) /\ rowids[a] < rowids[b])
           R == {p \in S \X S : before(p[1], p[2])}
           Orders(s) == \A i, j \in DOMAIN s : i < j => before(s[i], s[j])
<1>1. IsFiniteSet(S) /\ n \in Nat
  <2>1. IsFiniteSet(DOMAIN statRows)
    BY DEF RowidsRight, RowidMaps
  <2>2. IsFiniteSet(S)
    BY <2>1, FS_Subset
  <2> HIDE DEF S
  <2> QED
    BY <2>2, FS_CardinalityType
<1>2. \A a \in S : val(a) \in Int
  <2> SUFFICES ASSUME NEW a \in DOMAIN statRows PROVE val(a) \in Int
    OBVIOUS
  <2>1. a \in Payees /\ StatOf(statRows, a) = statRows[a]
    BY DEF StatInv, RowsRight, StatOf
  <2>2. statRows[a] = WholeOf(a, TxsIn(since[a] + 1, statPlace)) /\ -1 <= since[a] /\ since[a] \in Int
    BY <2>1 DEF StatInv, StatTypes, RowsRight
  <2>3. since[a] + 1 \in Int /\ since[a] + 1 >= 0 /\ statPlace \in Int /\ statPlace <= ChainTop
    BY <2>2, ChainIs DEF StatInv, StatTypes
  <2>4. statRows[a] \in StatRecords
    BY <2>2, <2>3, TxsFinite, WholeType
  <2> QED
    BY <2>4 DEF StatRecords, Column, Balance
<1>3. \A a, b \in S : rowids[a] \in Int /\ (rowids[a] = rowids[b] => a = b)
  BY DEF RowidsRight, RowidMaps
<1>4. \A a, b \in S : <<a, b>> \in R <=> before(a, b)
  OBVIOUS
<1> HIDE DEF S, val
<1>5. \A a \in S : <<a, a>> \notin R
  BY <1>2, <1>3, <1>4
<1>6. \A a, b \in S : a # b => <<a, b>> \in R \/ <<b, a>> \in R
  BY <1>2, <1>3, <1>4
<1>7. \A a, b, c \in S : <<a, b>> \in R /\ <<b, c>> \in R => <<a, c>> \in R
  BY <1>2, <1>3, <1>4
<1>8. PICK s \in [1..Cardinality(S) -> S] : \A i, j \in 1..Cardinality(S) : i < j => s[i] # s[j] /\ <<s[i], s[j]>> \in R
  <2> HIDE DEF R
  <2> QED
    BY <1>1, <1>5, <1>6, <1>7, ListedInOrder
<1>9. s \in SetToSeqs(S) /\ Orders(s)
  <2>0. DOMAIN s = 1..n /\ \A i \in 1..n : s[i] \in S
    OBVIOUS
  <2>1. \A i, j \in 1..n : i # j => s[i] # s[j]
    <3> HIDE DEF n, R
    <3>1. \A i, j \in 1..n : i # j => i < j \/ j < i
      BY <1>1
    <3> QED
      BY <1>8, <3>1 DEF n
  <2>2. s \in SetToSeqs(S)
    BY <2>1 DEF SetToSeqs
  <2>3. \A i, j \in 1..n : i < j => before(s[i], s[j])
    <3> HIDE DEF n, R, before
    <3> QED
      BY <1>4, <1>8, <2>0 DEF n
  <2> HIDE DEF n, before
  <2> QED
    BY <2>0, <2>2, <2>3
<1> DEFINE q == CHOOSE x \in SetToSeqs(S) : Orders(x)
<1>10. Ranked(kind) = IF kind = "abandoned" THEN q ELSE Reverse(q)
  BY DEF Ranked, S, val
<1>11. q \in SetToSeqs(S) /\ Orders(q)
  <2>1. \E x \in SetToSeqs(S) : Orders(x)
    BY <1>9
  <2> HIDE DEF Orders
  <2> QED
    BY <2>1
<1> HIDE DEF q
<1>12. q \in [1..n -> S] /\ \A i, j \in 1..n : q[i] = q[j] => i = j
  BY <1>11 DEF SetToSeqs, IsInjective
<1>13. q \in Seq(S) /\ DOMAIN q = 1..n /\ Len(q) = n
  <2> HIDE DEF n
  <2> QED
    BY <1>1, <1>12
<1>14. \A i, j \in 1..n : i < j => val(q[i]) <= val(q[j])
  <2>1. \A i \in 1..n : q[i] \in S
    BY <1>12
  <2>2. \A i, j \in 1..n : i < j => before(q[i], q[j])
    BY <1>11, <1>13
  <2> HIDE DEF n
  <2> QED
    BY <1>2, <2>1, <2>2
<1> DEFINE b == Reverse(q)
<1> HIDE DEF n
<1>15. b = [i \in 1..n |-> q[(n - i) + 1]] /\ \A i \in 1..n : (n - i) + 1 \in 1..n
  BY <1>1, <1>13 DEF Reverse
<1>16. \A i \in 1..n : b[i] = q[(n - i) + 1] /\ b[i] \in S
  <2> HIDE DEF b
  <2> QED
    BY <1>12, <1>15
<1>17. b \in Seq(S) /\ DOMAIN b = 1..n /\ Len(b) = n
  <2> HIDE DEF b
  <2>1. b \in [1..n -> S]
    BY <1>15, <1>16
  <2> QED
    BY <1>1, <2>1
<1> HIDE DEF b
<1>18. \A i, j \in 1..n : /\ i < j => val(b[j]) <= val(b[i])
                          /\ i # j => b[i] # b[j]
  <2> SUFFICES ASSUME NEW i \in 1..n, NEW j \in 1..n
               PROVE  (i < j => val(b[j]) <= val(b[i])) /\ (i # j => b[i] # b[j])
    OBVIOUS
  <2>1. /\ (n - i) + 1 \in 1..n /\ (n - j) + 1 \in 1..n
        /\ i < j => (n - j) + 1 < (n - i) + 1
        /\ i # j => (n - j) + 1 # (n - i) + 1
    BY <1>1, <1>15
  <2>2. b[i] = q[(n - i) + 1] /\ b[j] = q[(n - j) + 1]
    BY <1>16
  <2> QED
    BY <1>12, <1>14, <2>1, <2>2
<1>19. CASE kind = "abandoned"
  <2>1. Ranked(kind) = q
    BY <1>10, <1>19
  <2> QED
    BY <1>12, <1>13, <1>14, <1>19, <2>1 DEF S, n, val
<1>20. CASE kind # "abandoned"
  <2>1. Ranked(kind) = b
    BY <1>10, <1>20 DEF b
  <2> QED
    BY <1>17, <1>18, <1>20, <2>1 DEF S, n, val
<1> QED
  BY <1>19, <1>20

\* Whatever the table holds, however its values collide and for any sizes of the batches:
\* the batches of a list are the ranking, each row once, and a restored list is the
\* beginning of it, down to the row the reader had scrolled to (addrlists.go appAddresses).
THEOREM ListsAreRankings == StatSpec => []RankedOnce
<1>1. StatInit => StatInv /\ RowidsRight
  BY StatStarts, RowidsStart
<1>2. StatInv /\ RowidsRight /\ [StatNext]_statVars => StatInv' /\ RowidsRight'
  BY StatStep, RowidsKept
<1>3. StatInv /\ RowidsRight => RankedOnce
  <2> SUFFICES ASSUME StatInv, RowidsRight PROVE RankedOnce
    OBVIOUS
  <2>1. ASSUME NEW kind \in Kinds PROVE \E V : Ranked(kind) \in Seq(V)
    BY RankedIs
  <2> QED
    BY <2>1, PagedOnce, Zenon DEF RankedOnce
<1> QED
  BY <1>1, <1>2, <1>3, PTL DEF StatSpec

-----------------------------------------------------------------------------
(* addrbal: what a block moves, by address.                                *)

\* The slots of the addresses, and balances or changes by slot.
AddrKeys == {Slot[a] : a \in Payees}
BalMaps == {m \in UNION {[D -> Int] : D \in SUBSET AddrKeys} : IsFiniteSet(DOMAIN m)}
Move == [script : DOMAIN Payee, sat : Int]
\* What a sequence of payments moves for an address.
Worth(s, a) == SumOn([i \in 1..Len(s) |-> s[i].sat], {i \in 1..Len(s) : Payee[s[i].script] = a})

\* A payment changes what its address is moved by, and no other.
LEMMA AddMoveIs ==
    ASSUME NEW m \in BalMaps, NEW p \in Move
    PROVE  /\ AddMove(m, p) \in BalMaps
           /\ \A a \in Payees : ChangeOf(AddMove(m, p), Slot[a]) = ChangeOf(m, Slot[a]) + (IF Payee[p.script] = a THEN p.sat ELSE 0)
<1>0. /\ IsFiniteSet(DOMAIN m) /\ DOMAIN m \in SUBSET AddrKeys /\ m = [x \in DOMAIN m |-> m[x]]
      /\ (\A x \in DOMAIN m : m[x] \in Int)
      /\ \A x : ChangeOf(m, x) \in Int
  BY DEF BalMaps, ChangeOf
<1>1. ASSUME Payee[p.script] = NoPayee \/ p.sat = 0 PROVE AddMove(m, p) = m
  BY <1>1 DEF AddMove
<1>2. ASSUME ~(Payee[p.script] = NoPayee \/ p.sat = 0)
      PROVE  /\ AddMove(m, p) \in BalMaps
             /\ \A a \in Payees : ChangeOf(AddMove(m, p), Slot[a]) = ChangeOf(m, Slot[a]) + (IF Payee[p.script] = a THEN p.sat ELSE 0)
  <2> DEFINE b == Payee[p.script]
             k == Slot[b]
             r == [x \in DOMAIN m \cup {k} |-> ChangeOf(m, x) + (IF x = k THEN p.sat ELSE 0)]
  <2>1. b \in Payees /\ k \in AddrKeys /\ p.sat \in Int
    BY <1>2 DEF Payees, AddrKeys, Move
  <2>3. AddMove(m, p) = r
    BY <1>2 DEF AddMove
  <2>4. DOMAIN r = DOMAIN m \cup {k} /\ (\A x \in DOMAIN m \cup {k} : r[x] = ChangeOf(m, x) + (IF x = k THEN p.sat ELSE 0))
    OBVIOUS
  <2>5. r \in [DOMAIN m \cup {k} -> Int] /\ DOMAIN m \cup {k} \in SUBSET AddrKeys
    BY <1>0, <2>1
  <2>6. IsFiniteSet(DOMAIN m \cup {k})
    BY <1>0, FS_AddElement
  <2> HIDE DEF r
  <2>7. r \in BalMaps
    BY <2>4, <2>5, <2>6 DEF BalMaps
  <2>8. ASSUME NEW a \in Payees PROVE ChangeOf(r, Slot[a]) = ChangeOf(m, Slot[a]) + (IF b = a THEN p.sat ELSE 0)
    <3>1. Slot[a] = k <=> b = a
      BY <2>1, SlotsApart
    <3>2. ChangeOf(m, Slot[a]) \in Int
      BY <1>0
    <3>3. ASSUME Slot[a] \in DOMAIN m \cup {k} PROVE ChangeOf(r, Slot[a]) = ChangeOf(m, Slot[a]) + (IF b = a THEN p.sat ELSE 0)
      <4>1. ChangeOf(r, Slot[a]) = ChangeOf(m, Slot[a]) + (IF Slot[a] = k THEN p.sat ELSE 0)
        BY <2>4, <3>3 DEF ChangeOf
      <4> QED
        BY <3>1, <4>1
    <3>4. ASSUME Slot[a] \notin DOMAIN m \cup {k} PROVE ChangeOf(r, Slot[a]) = ChangeOf(m, Slot[a]) /\ b # a
      BY <2>4, <3>1, <3>4 DEF ChangeOf
    <3> QED
      BY <3>2, <3>3, <3>4
  <2> QED
    BY <2>3, <2>7, <2>8
<1>3. p.sat \in Int /\ \A a \in Payees : Payee[p.script] = NoPayee => Payee[p.script] # a
  BY DEF Payees, Move
<1>4. ASSUME Payee[p.script] = NoPayee \/ p.sat = 0, NEW a \in Payees
      PROVE  ChangeOf(m, Slot[a]) = ChangeOf(m, Slot[a]) + (IF Payee[p.script] = a THEN p.sat ELSE 0)
  <2>1. ChangeOf(m, Slot[a]) \in Int
    BY <1>0
  <2> QED
    BY <1>3, <1>4, <2>1
<1> QED
  BY <1>1, <1>2, <1>4

\* A block's moves are added one after another.
LEMMA MovesFold ==
    ASSUME NEW m \in BalMaps, NEW n \in Nat, NEW s \in [1..n -> Move]
    PROVE  \E it : /\ it[1..0] = m
                   /\ \A k \in 1..n : it[1..k] = AddMove(it[1..(k - 1)], s[k])
                   /\ FoldLeft(AddMove, m, s) = it[1..n]
<1> DEFINE H == [i \in 1..n |-> [f \in BalMaps |-> AddMove(f, s[i])]]
           Folds(it) == it = [t \in SUBSET (1..n) |-> IF t = {} THEN m ELSE AddMove(it[t \ {Max(t)}], s[Max(t)])]
           it == CHOOSE it : it = [t \in SUBSET (1..n) |-> IF t = {} THEN m ELSE AddMove(it[t \ {Max(t)}], s[Max(t)])]
<1>1. DOMAIN s = 1..n /\ \A i \in 1..n : s[i] \in Move
  OBVIOUS
<1>3. H \in [1..n -> [BalMaps -> BalMaps]]
  <2>1. \A i \in 1..n : \A f \in BalMaps : AddMove(f, s[i]) \in BalMaps
    BY <1>1, AddMoveIs
  <2> QED
    BY <2>1
<1>4. PICK a \in [SUBSET (1..n) -> BalMaps] : Along(a, H, m, n)
  <2> HIDE DEF H
  <2> QED
    BY <1>3, AlongExists
<1>5. ASSUME NEW t \in SUBSET (1..n), t # {}
      PROVE  H[Max(t)][a[t \ {Max(t)}]] = AddMove(a[t \ {Max(t)}], s[Max(t)])
  <2>1. Max(t) \in t
    <3>1. t \in SUBSET Nat /\ IsFiniteSet(t)
      <4>1. IsFiniteSet(1..n) /\ \A x \in 1..n : x \in Nat
        BY FS_Interval
      <4> QED
        BY <4>1, FS_Subset
    <3> QED
      BY <1>5, <3>1, HighestIn
  <2>2. Max(t) \in 1..n /\ t \ {Max(t)} \in SUBSET (1..n)
    BY <2>1
  <2>3. a[t \ {Max(t)}] \in BalMaps
    BY <2>2
  <2> QED
    BY <2>2, <2>3
<1>6. Folds(a)
  <2> HIDE DEF H
  <2> QED
    BY <1>4, <1>5 DEF Along
<1>7. Folds(it)
  <2>1. \E b : Folds(b)
    BY <1>6
  <2> HIDE DEF H
  <2> QED
    BY <2>1
<1>8. FoldLeft(AddMove, m, s) = it[1..n]
  BY <1>1 DEF FoldLeft, MapThenFoldSet
<1> HIDE DEF it
<1>9. \A t \in SUBSET (1..n) : it[t] = IF t = {} THEN m ELSE AddMove(it[t \ {Max(t)}], s[Max(t)])
  <2> DEFINE r == [t \in SUBSET (1..n) |-> IF t = {} THEN m ELSE AddMove(it[t \ {Max(t)}], s[Max(t)])]
  <2>1. it = r
    BY <1>7
  <2>2. \A t \in SUBSET (1..n) : r[t] = IF t = {} THEN m ELSE AddMove(it[t \ {Max(t)}], s[Max(t)])
    OBVIOUS
  <2> HIDE DEF r
  <2> QED
    BY <2>1, <2>2
<1>10. it[1..0] = m
  <2>1. 1..0 = {} /\ 1..0 \in SUBSET (1..n)
    OBVIOUS
  <2> QED
    BY <1>9, <2>1
<1>11. ASSUME NEW k \in 1..n PROVE it[1..k] = AddMove(it[1..(k - 1)], s[k])
  <2>1. 1..k \in SUBSET (1..n) /\ 1..k # {} /\ (1..k) \ {k} = 1..(k - 1) /\ Max(1..k) = k
    BY UpToIs
  <2> QED
    BY <1>9, <2>1
<1> QED
  BY <1>8, <1>10, <1>11

\* What is worth adding up of the first k payments for an address.
Paying(s, a, k) == {i \in 1..k : Payee[s[i].script] = a}
Sats(s) == [i \in 1..Len(s) |-> s[i].sat]

LEMMA PayingOne ==
    ASSUME NEW s \in Seq(Move), NEW a, NEW k \in Nat, k < Len(s)
    PROVE  /\ SumOn(Sats(s), Paying(s, a, k)) \in Int
           /\ SumOn(Sats(s), Paying(s, a, k + 1)) =
                  SumOn(Sats(s), Paying(s, a, k)) + (IF Payee[s[k + 1].script] = a THEN s[k + 1].sat ELSE 0)
<1> DEFINE v == Sats(s)
           P == Paying(s, a, k)
<1>1. \A i \in 1..Len(s) : v[i] \in Int /\ v[i] = s[i].sat
  <2>1. \A p \in Move : p.sat \in Int
    BY DEF Move
  <2>2. \A i \in 1..Len(s) : s[i] \in Move
    OBVIOUS
  <2> QED
    BY <2>1, <2>2 DEF Sats
<1>2. IsFiniteSet(P) /\ k + 1 \notin P /\ P \subseteq 1..Len(s)
  <2>1. IsFiniteSet(1..k)
    BY FS_Interval
  <2>2. P \subseteq 1..k
    BY DEF Paying
  <2> QED
    BY <2>1, <2>2, FS_Subset
<1>3. Paying(s, a, k + 1) = IF Payee[s[k + 1].script] = a THEN P \cup {k + 1} ELSE P
  BY DEF Paying
<1>4. k + 1 \in 1..Len(s)
  OBVIOUS
<1> HIDE DEF P, v
<1>5. SumOn(v, P) \in Int
  BY <1>1, <1>2, SumInt
<1>6. \A y \in P \cup {k + 1} : v[y] \in Int
  BY <1>1, <1>2, <1>4
<1>7. SumOn(v, P \cup {k + 1}) = v[k + 1] + SumOn(v, P)
  BY <1>2, <1>6, SumWith
<1>8. v[k + 1] = s[k + 1].sat /\ v[k + 1] \in Int
  BY <1>1, <1>4
<1> QED
  BY <1>3, <1>5, <1>7, <1>8 DEF v, P

LEMMA WorthIs ==
    ASSUME NEW s \in Seq(Move), NEW a
    PROVE  Worth(s, a) = SumOn(Sats(s), Paying(s, a, Len(s))) /\ Worth(s, a) \in Int
<1>1. Worth(s, a) = SumOn(Sats(s), Paying(s, a, Len(s)))
  BY DEF Worth, Sats, Paying
<1>2. \A i \in 1..Len(s) : Sats(s)[i] \in Int
  <2>1. \A p \in Move : p.sat \in Int
    BY DEF Move
  <2>2. \A i \in 1..Len(s) : s[i] \in Move
    OBVIOUS
  <2> QED
    BY <2>1, <2>2 DEF Sats
<1>3. IsFiniteSet(Paying(s, a, Len(s))) /\ Paying(s, a, Len(s)) \subseteq 1..Len(s)
  <2>1. IsFiniteSet(1..Len(s))
    BY FS_Interval
  <2>2. Paying(s, a, Len(s)) \subseteq 1..Len(s)
    BY DEF Paying
  <2> QED
    BY <2>1, <2>2, FS_Subset
<1>4. \A x \in Paying(s, a, Len(s)) : Sats(s)[x] \in Int
  BY <1>2, <1>3
<1> QED
  BY <1>1, <1>3, <1>4, SumInt

\* Moves added to what is there: each address has what they are worth for it.
LEMMA MovesAdd ==
    ASSUME NEW m \in BalMaps, NEW s \in Seq(Move)
    PROVE  /\ FoldLeft(AddMove, m, s) \in BalMaps
           /\ \A a \in Payees : ChangeOf(FoldLeft(AddMove, m, s), Slot[a]) = ChangeOf(m, Slot[a]) + Worth(s, a)
<1> DEFINE n == Len(s)
<1>0. n \in Nat /\ s \in [1..n -> Move]
  OBVIOUS
<1> HIDE DEF n
<1>1. PICK it : /\ it[1..0] = m
                /\ \A k \in 1..n : it[1..k] = AddMove(it[1..(k - 1)], s[k])
                /\ FoldLeft(AddMove, m, s) = it[1..n]
  BY <1>0, MovesFold
<1> DEFINE R(f, k) == f \in BalMaps /\ \A a \in Payees : ChangeOf(f, Slot[a]) = ChangeOf(m, Slot[a]) + SumOn(Sats(s), Paying(s, a, k))
           N == {k \in Nat : k <= n => R(it[1..k], k)}
<1>a. \A f \in BalMaps : \A x : ChangeOf(f, x) \in Int
  BY DEF BalMaps, ChangeOf
<1>2. 0 \in N
  <2>1. \A a : Paying(s, a, 0) = {}
    BY DEF Paying
  <2>2. \A a : SumOn(Sats(s), Paying(s, a, 0)) = 0
    BY <2>1, SumEmpty
  <2>3. R(m, 0)
    BY <1>a, <2>2
  <2> HIDE DEF R
  <2> QED
    BY <1>1, <2>3
<1>3. ASSUME NEW k \in N PROVE k + 1 \in N
  <2> SUFFICES ASSUME k + 1 <= n PROVE R(it[1..(k + 1)], k + 1)
    <3> HIDE DEF R
    <3> QED
      OBVIOUS
  <2>1. k \in Nat /\ k + 1 \in 1..n /\ (k + 1) - 1 = k /\ k <= n
    BY <1>0, <1>3
  <2>2. it[1..(k + 1)] = AddMove(it[1..k], s[k + 1]) /\ s[k + 1] \in Move
    BY <1>0, <1>1, <2>1
  <2> DEFINE f == it[1..k]
             p == s[k + 1]
  <2>3. R(f, k)
    <3> HIDE DEF R
    <3> QED
      BY <1>3, <2>1
  <2>4. it[1..(k + 1)] = AddMove(f, p) /\ p \in Move
    BY <2>2
  <2> HIDE DEF f
  <2>5. AddMove(f, p) \in BalMaps /\ \A a \in Payees : ChangeOf(AddMove(f, p), Slot[a]) = ChangeOf(f, Slot[a]) + (IF Payee[p.script] = a THEN p.sat ELSE 0)
    <3> HIDE DEF p
    <3> QED
      BY <2>3, <2>4, AddMoveIs
  <2>6. ASSUME NEW a \in Payees
        PROVE  ChangeOf(AddMove(f, p), Slot[a]) = ChangeOf(m, Slot[a]) + SumOn(Sats(s), Paying(s, a, k + 1))
    <3>1. /\ SumOn(Sats(s), Paying(s, a, k)) \in Int
          /\ SumOn(Sats(s), Paying(s, a, k + 1)) = SumOn(Sats(s), Paying(s, a, k)) + (IF Payee[p.script] = a THEN p.sat ELSE 0)
      BY <2>1, PayingOne DEF n
    <3>2. p.sat \in Int
      BY <2>4 DEF Move
    <3>3. ChangeOf(m, Slot[a]) \in Int
      BY <1>a
    <3>4. ChangeOf(AddMove(f, p), Slot[a]) = ChangeOf(f, Slot[a]) + (IF Payee[p.script] = a THEN p.sat ELSE 0)
      BY <2>5
    <3>5. ChangeOf(f, Slot[a]) = ChangeOf(m, Slot[a]) + SumOn(Sats(s), Paying(s, a, k))
      BY <2>3
    <3> HIDE DEF p
    <3> QED
      BY <3>1, <3>2, <3>3, <3>4, <3>5
  <2> QED
    BY <2>4, <2>5, <2>6
<1>4. N = Nat
  <2>1. N \in SUBSET Nat
    OBVIOUS
  <2> HIDE DEF N
  <2> QED
    BY <1>2, <1>3, <2>1, EveryNumber
<1>5. R(it[1..n], n)
  <2>1. n \in N
    BY <1>0, <1>4
  <2> HIDE DEF R
  <2> QED
    BY <1>0, <2>1
<1>6. \A a : Worth(s, a) = SumOn(Sats(s), Paying(s, a, n))
  BY WorthIs DEF n
<1> QED
  BY <1>1, <1>5, <1>6

LEMMA WorthJoin ==
    ASSUME NEW s \in Seq(Move), NEW t \in Seq(Move), NEW a
    PROVE  s \o t \in Seq(Move) /\ Worth(s \o t, a) = Worth(s, a) + Worth(t, a)
<1> DEFINE u == s \o t
           n == Len(s)
           g == [i \in 1..Len(t) |-> i + n]
           P == Paying(s, a, n)
           Q == Paying(t, a, Len(t))
           G == {g[i] : i \in Q}
<1>1. /\ u \in Seq(Move) /\ Len(u) = n + Len(t) /\ n \in Nat /\ Len(t) \in Nat
      /\ \A i \in 1..n : u[i] = s[i]
      /\ \A i \in 1..Len(t) : u[i + n] = t[i]
  OBVIOUS
<1>2. /\ \A x \in 1..Len(s) : Sats(s)[x] = s[x].sat /\ Sats(s)[x] \in Int
      /\ \A x \in 1..Len(t) : Sats(t)[x] = t[x].sat /\ Sats(t)[x] \in Int
      /\ \A x \in 1..Len(u) : Sats(u)[x] = u[x].sat /\ Sats(u)[x] \in Int
  <2>1. \A p \in Move : p.sat \in Int
    BY DEF Move
  <2>2. (\A i \in 1..Len(s) : s[i] \in Move) /\ (\A i \in 1..Len(t) : t[i] \in Move)
    OBVIOUS
  <2>3. \A i \in 1..Len(u) : u[i] \in Move
    <3> HIDE DEF u
    <3> QED
      BY <1>1
  <2> HIDE DEF u
  <2>4. \A x \in 1..Len(s) : Sats(s)[x] = s[x].sat /\ Sats(s)[x] \in Int
    BY <2>1, <2>2 DEF Sats
  <2>5. \A x \in 1..Len(t) : Sats(t)[x] = t[x].sat /\ Sats(t)[x] \in Int
    BY <2>1, <2>2 DEF Sats
  <2>6. \A x \in 1..Len(u) : Sats(u)[x] = u[x].sat /\ Sats(u)[x] \in Int
    BY <2>1, <2>3 DEF Sats
  <2> QED
    BY <2>4, <2>5, <2>6
<1>3. P \subseteq 1..n /\ Q \subseteq 1..Len(t) /\ IsFiniteSet(P) /\ IsFiniteSet(Q)
  <2>0. 1 \in Int /\ n \in Int /\ Len(t) \in Int
    BY <1>1
  <2>1. IsFiniteSet(1..n) /\ IsFiniteSet(1..Len(t))
    BY <2>0, FS_Interval, Zenon
  <2>2. P \subseteq 1..n /\ Q \subseteq 1..Len(t)
    BY DEF Paying
  <2> QED
    BY <2>1, <2>2, FS_Subset
<1>4. Paying(u, a, Len(u)) = P \cup G
  <2>1. ASSUME NEW i \in Paying(u, a, Len(u)) PROVE i \in P \cup G
    <3>1. i \in 1..(n + Len(t)) /\ Payee[u[i].script] = a
      BY <1>1 DEF Paying
    <3>2. ASSUME i \in 1..n PROVE i \in P
      BY <1>1, <3>1, <3>2 DEF Paying
    <3>3. ASSUME i \notin 1..n PROVE i \in G
      <4>1. i - n \in 1..Len(t) /\ (i - n) + n = i
        BY <1>1, <3>1, <3>3
      <4>2. u[i] = t[i - n]
        BY <1>1, <4>1
      <4>3. i - n \in Q
        BY <3>1, <4>1, <4>2 DEF Paying
      <4>4. g[i - n] = i
        BY <4>1
      <4> HIDE DEF g, Q
      <4> QED
        BY <4>3, <4>4
    <3> QED
      BY <3>2, <3>3
  <2>2. ASSUME NEW i \in P PROVE i \in Paying(u, a, Len(u))
    BY <1>1 DEF Paying
  <2>3. ASSUME NEW j \in Q PROVE g[j] \in Paying(u, a, Len(u))
    <3>1. j \in 1..Len(t) /\ Payee[t[j].script] = a
      BY DEF Paying
    <3>2. g[j] = j + n /\ j + n \in 1..(n + Len(t)) /\ u[j + n] = t[j]
      BY <1>1, <3>1
    <3> HIDE DEF g, u
    <3> QED
      BY <1>1, <3>1, <3>2 DEF Paying
  <2> HIDE DEF P, Q, g, u
  <2> QED
    BY <2>1, <2>2, <2>3
<1>5. \A x \in Q : g[x] = x + n /\ Sats(u)[x + n] = Sats(t)[x] /\ x + n \in 1..Len(u) /\ x \in 1..Len(t)
  BY <1>1, <1>2, <1>3
<1>6. \A x \in P : Sats(u)[x] = Sats(s)[x] /\ x \in 1..Len(u) /\ x \in 1..n
  BY <1>1, <1>2, <1>3
<1> HIDE DEF u, P, Q, g, n
<1>7. SumOn(Sats(u), G) = SumOn(Sats(t), Q) /\ IsFiniteSet(G)
  <2>1. \A x, y \in Q : g[x] = g[y] => x = y
    BY <1>1, <1>5
  <2>2. \A x \in Q : Sats(t)[x] \in Int /\ Sats(u)[g[x]] = Sats(t)[x]
    BY <1>2, <1>5
  <2> DEFINE vu == Sats(u)
             vt == Sats(t)
  <2>3. Mapped(g, vt, vu, Q)
    BY <2>1, <2>2 DEF Mapped
  <2> HIDE DEF vu, vt
  <2>4. SumOn(vu, {g[x] : x \in Q}) = SumOn(vt, Q) /\ IsFiniteSet({g[x] : x \in Q})
    BY <1>3, <2>3, SumMoved, ImageFinite
  <2> QED
    BY <2>4 DEF vu, vt
<1>8. SumOn(Sats(u), P) = SumOn(Sats(s), P)
  BY <1>3, <1>6, SumSame
<1>9. P \cap G = {} /\ \A x \in P \cup G : Sats(u)[x] \in Int
  BY <1>1, <1>2, <1>3, <1>5, <1>6
<1>10. SumOn(Sats(u), P \cup G) = SumOn(Sats(u), P) + SumOn(Sats(u), G)
  BY <1>3, <1>7, <1>9, SumApart
<1>11. Worth(s, a) = SumOn(Sats(s), P) /\ Worth(t, a) = SumOn(Sats(t), Q)
  BY WorthIs DEF P, Q, n
<1>12. Worth(u, a) = SumOn(Sats(u), Paying(u, a, Len(u)))
  BY <1>1, WorthIs
<1> QED
  BY <1>1, <1>4, <1>7, <1>8, <1>10, <1>11, <1>12 DEF u

\* What is spent is worth as much, taken.
LEMMA WorthTaken ==
    ASSUME NEW s \in Seq(Move), NEW a
    PROVE  LET t == [i \in DOMAIN s |-> [s[i] EXCEPT !.sat = -@]]
           IN  t \in Seq(Move) /\ Worth(t, a) = -Worth(s, a)
<1> DEFINE t == [i \in DOMAIN s |-> [s[i] EXCEPT !.sat = -@]]
           P == Paying(s, a, Len(s))
<1>1. /\ Len(s) \in Nat /\ DOMAIN s = 1..Len(s) /\ \A i \in 1..Len(s) : s[i] \in Move
  OBVIOUS
<1>2. \A p \in Move : /\ [p EXCEPT !.sat = -@] \in Move /\ [p EXCEPT !.sat = -@].sat = -p.sat
                      /\ [p EXCEPT !.sat = -@].script = p.script /\ p.sat \in Int
  BY DEF Move
<1>3. \A i \in 1..Len(s) : t[i] \in Move /\ t[i].sat = -s[i].sat /\ t[i].script = s[i].script /\ s[i].sat \in Int
  BY <1>1, <1>2
<1>4. DOMAIN t = 1..Len(s) /\ t = [i \in 1..Len(s) |-> t[i]]
  BY <1>1
<1> HIDE DEF t
<1>5. t \in Seq(Move) /\ Len(t) = Len(s)
  BY <1>1, <1>3, <1>4
<1>6. Paying(t, a, Len(t)) = P
  BY <1>3, <1>5 DEF Paying
<1>7. IsFiniteSet(P) /\ P \subseteq 1..Len(s)
  <2>1. IsFiniteSet(1..Len(s))
    BY <1>1, FS_Interval
  <2>2. P \subseteq 1..Len(s)
    BY DEF Paying
  <2> QED
    BY <2>1, <2>2, FS_Subset
<1>8. \A x \in P : Sats(t)[x] = -Sats(s)[x] /\ Sats(s)[x] \in Int
  BY <1>3, <1>5, <1>7 DEF Sats
<1> DEFINE z == [x \in P |-> 0]
<1> HIDE DEF P
<1>9. \A x \in P : Sats(t)[x] \in Int /\ Sats(s)[x] \in Int /\ z[x] = Sats(t)[x] + Sats(s)[x]
  BY <1>8
<1>10. \A x \in P : z[x] \in Int /\ z[x] = 0
  OBVIOUS
<1> HIDE DEF z
<1>11. SumOn(z, P) = SumOn(Sats(t), P) + SumOn(Sats(s), P) /\ SumOn(Sats(t), P) \in Int /\ SumOn(Sats(s), P) \in Int
  <2> DEFINE vt == Sats(t)
             vs == Sats(s)
  <2>1. \A x \in P : vt[x] \in Int /\ vs[x] \in Int /\ z[x] = vt[x] + vs[x]
    BY <1>9
  <2> HIDE DEF vt, vs
  <2>2. SumOn(z, P) = SumOn(vt, P) + SumOn(vs, P)
    <3>1. AddUp(z, vt, vs, P)
      BY <2>1 DEF AddUp
    <3> QED
      BY <1>7, <3>1, SumPlus
  <2>3. SumOn(vt, P) \in Int /\ SumOn(vs, P) \in Int
    BY <1>7, <2>1, SumInt
  <2> QED
    BY <2>2, <2>3 DEF vt, vs
<1>12. SumOn(z, P) = SumOn(z, {})
  <2>1. {} \subseteq P /\ P \ {} = P
    OBVIOUS
  <2> QED
    BY <1>7, <1>10, <2>1, SumNoughts
<1>13. SumOn(z, {}) = 0
  BY SumEmpty
<1>14. Worth(s, a) = SumOn(Sats(s), P) /\ Worth(t, a) = SumOn(Sats(t), P)
  BY <1>5, <1>6, WorthIs DEF P
<1> QED
  BY <1>5, <1>11, <1>12, <1>13, <1>14 DEF t

LEMMA WorthOfPayments ==
    ASSUME NEW ps \in Payments, NEW a
    PROVE  ps \in Seq(Move) /\ Worth(ps, a) = Amount(ps, To(ps, a))
<1> DEFINE V == [script : DOMAIN Payee, sat : Nat]
<1>1. \A p \in V : p \in Move
  BY DEF Move
<1>2. ps \in Seq(V)
  BY DEF Payments
<1> HIDE DEF V
<1>3. ps \in Seq(Move) /\ DOMAIN ps = 1..Len(ps)
  BY <1>1, <1>2
<1> DEFINE P == Paying(ps, a, Len(ps))
           v == [i \in P |-> ps[i].sat]
<1>4. To(ps, a) = P
  BY <1>3 DEF To, Paying
<1>5. Amount(ps, P) = SumOn(v, P)
  BY DEF Amount, SumFunction, SumFunctionOnSet, SumOn
<1>6. Worth(ps, a) = SumOn(Sats(ps), P)
  BY <1>3, WorthIs
<1>7. IsFiniteSet(P) /\ P \subseteq 1..Len(ps)
  <2>0. Len(ps) \in Nat
    BY <1>3
  <2>1. IsFiniteSet(1..Len(ps))
    BY <2>0, FS_Interval
  <2>2. P \subseteq 1..Len(ps)
    BY DEF Paying
  <2> QED
    BY <2>1, <2>2, FS_Subset
<1>8. \A x \in P : v[x] = Sats(ps)[x]
  BY <1>7 DEF Sats
<1> HIDE DEF P, v
<1>9. SumOn(v, P) = SumOn(Sats(ps), P)
  BY <1>7, <1>8, SumSame
<1> QED
  BY <1>3, <1>4, <1>5, <1>6, <1>9

Worths(b, a) == [i \in 1..Len(b) |-> Worth(b[i], a)]

\* The payments of a block, transaction after transaction.
LEMMA WorthFlat ==
    ASSUME NEW b \in Seq(Seq(Move)), NEW a
    PROVE  /\ FlattenSeq(b) \in Seq(Move) /\ Worth(FlattenSeq(b), a) = SumOn(Worths(b, a), 1..Len(b))
           /\ \A i \in 1..Len(b) : Worths(b, a)[i] \in Int
<1> DEFINE n == Len(b)
           v == Worths(b, a)
<1>0. n \in Nat /\ \A i \in 1..n : b[i] \in Seq(Move)
  OBVIOUS
<1>1. \A i \in 1..n : v[i] = Worth(b[i], a) /\ v[i] \in Int
  BY <1>0, WorthIs DEF Worths
<1>2. CASE n = 0
  <2>1. b = <<>>
    BY <1>2
  <2>2. FlattenSeq(b) = <<>>
    BY <1>2, <2>1 DEF FlattenSeq
  <2>3. <<>> \in Seq(Move) /\ Len(<<>>) = 0
    OBVIOUS
  <2>4. Paying(<<>>, a, 0) = {} /\ 1..n = {}
    BY <1>2 DEF Paying
  <2>5. Worth(<<>>, a) = SumOn(Sats(<<>>), {})
    BY <2>3, <2>4, WorthIs
  <2>6. SumOn(Sats(<<>>), {}) = 0 /\ SumOn(v, {}) = 0
    BY SumEmpty
  <2> QED
    BY <1>1, <2>2, <2>3, <2>4, <2>5, <2>6
<1>3. CASE n > 0
  <2>1. PICK f \in [1..n -> Seq(Move)] : Joins(f, b, n) /\ FlattenSeq(b) = f[n]
    BY <1>3, FlattenIs
  <2>2. \A i \in 1..n : f[i] = (IF i = 1 THEN b[i] ELSE f[i - 1] \o b[i]) /\ f[i] \in Seq(Move)
    <3>1. Joins(f, b, n) /\ \A i \in 1..n : f[i] \in Seq(Move)
      BY <2>1
    <3> HIDE DEF n
    <3>2. \A i \in 1..n : f[i] = JoinedAt(f, b, i)
      BY <1>0, <3>1, JoinsAt
    <3> QED
      BY <3>1, <3>2 DEF JoinedAt
  <2> DEFINE P(k) == Worth(f[k], a) = SumOn(v, 1..k) /\ SumOn(v, 1..k) \in Int
             N == {k \in Nat : k + 1 <= n => P(k + 1)}
  <2> HIDE DEF n, v
  <2>3. \A k \in Nat : k + 1 <= n => /\ 1..(k + 1) = (1..k) \cup {k + 1} /\ k + 1 \notin 1..k
                                     /\ IsFiniteSet(1..k) /\ k + 1 \in 1..n
                                     /\ \A i \in (1..k) \cup {k + 1} : v[i] \in Int
    <3> TAKE k \in Nat
    <3> HAVE k + 1 <= n
    <3>1. 1..(k + 1) = (1..k) \cup {k + 1} /\ k + 1 \notin 1..k /\ k + 1 \in 1..n /\ 1..k \subseteq 1..n
      BY <1>0, SMTT(30)
    <3>2. IsFiniteSet(1..k)
      BY FS_Interval
    <3> QED
      BY <1>1, <3>1, <3>2
  <2>4. \A k \in Nat : k + 1 <= n => SumOn(v, 1..(k + 1)) = v[k + 1] + SumOn(v, 1..k)
    <3> TAKE k \in Nat
    <3> HAVE k + 1 <= n
    <3> DEFINE S == 1..k
               x == k + 1
    <3>1. /\ 1..(k + 1) = S \cup {x} /\ x \notin S /\ IsFiniteSet(S)
          /\ \A i \in S \cup {x} : v[i] \in Int
      BY <2>3
    <3> HIDE DEF S, x
    <3>2. SumOn(v, S \cup {x}) = v[x] + SumOn(v, S)
      BY <3>1, SumWith
    <3> QED
      BY <3>1, <3>2 DEF S, x
  <2>5. 0 \in N
    <3> SUFFICES ASSUME 0 + 1 <= n PROVE P(1)
      OBVIOUS
    <3>1. SumOn(v, 1..(0 + 1)) = v[0 + 1] + SumOn(v, 1..0)
      BY <2>4
    <3>2. 1..0 = {} /\ 0 + 1 = 1
      OBVIOUS
    <3>3. SumOn(v, 1..0) = 0
      BY <3>2, SumEmpty
    <3>0. 1 \in 1..n
      BY <1>0
    <3>4. f[1] = b[1] /\ v[1] = Worth(b[1], a) /\ v[1] \in Int
      BY <1>1, <2>2, <3>0
    <3> QED
      BY <3>1, <3>2, <3>3, <3>4
  <2>6. ASSUME NEW k \in N PROVE k + 1 \in N
    <3> SUFFICES ASSUME (k + 1) + 1 <= n PROVE P((k + 1) + 1)
      <4> HIDE DEF P
      <4> QED
        OBVIOUS
    <3> DEFINE j == (k + 1) + 1
    <3>1. k + 1 \in Nat /\ k \in Nat /\ k + 1 <= n /\ j - 1 = k + 1 /\ j # 1 /\ j \in 1..n /\ k + 1 \in 1..n
      BY <1>0
    <3>2. P(k + 1)
      BY <3>1
    <3>3. f[j] = f[k + 1] \o b[j] /\ f[k + 1] \in Seq(Move) /\ b[j] \in Seq(Move)
      BY <1>0, <2>2, <3>1
    <3>4. Worth(f[j], a) = Worth(f[k + 1], a) + Worth(b[j], a)
      BY <3>3, WorthJoin
    <3>5. SumOn(v, 1..j) = v[j] + SumOn(v, 1..(k + 1))
      BY <2>4, <3>1
    <3>6. v[j] = Worth(b[j], a) /\ v[j] \in Int
      BY <1>1, <3>1
    <3> HIDE DEF j, N
    <3> QED
      BY <3>2, <3>4, <3>5, <3>6 DEF j
  <2>7. N = Nat
    <3>1. N \in SUBSET Nat
      OBVIOUS
    <3> HIDE DEF N
    <3> QED
      BY <2>5, <2>6, <3>1, EveryNumber
  <2>8. n - 1 \in N /\ (n - 1) + 1 = n /\ n \in 1..n
    <3> HIDE DEF N
    <3> QED
      BY <1>0, <1>3, <2>7
  <2>9. P(n)
    <3> HIDE DEF P
    <3> QED
      BY <1>0, <2>8
  <2> QED
    BY <1>1, <2>1, <2>2, <2>8, <2>9 DEF v, n
<1> QED
  BY <1>0, <1>2, <1>3

\* What a block's payments are worth for an address.
LEMMA BlockWorth ==
    ASSUME NEW h \in 0..ChainTop, NEW a
    PROVE  /\ Balances(BlockOf(h)) \in Seq(Move)
           /\ Worth(Balances(BlockOf(h)), a) = Balance(WholeOf(a, TxsIn(h, h)))
<1> DEFINE txs == BlockOf(h).txs
           n == Len(txs)
           I == 1..n
           os == [i \in DOMAIN txs |-> txs[i].outs]
           ns == [i \in DOMAIN txs |-> txs[i].ins]
           outs == FlattenSeq(os)
           ins == FlattenSeq(ns)
           back == [i \in DOMAIN ins |-> [ins[i] EXCEPT !.sat = -@]]
           T == TxsIn(h, h)
           g == [i \in I |-> <<h, i>>]
<1>0. n \in Nat /\ DOMAIN txs = I /\ (\A i \in I : txs[i] \in Transactions) /\ h \in Int /\ h >= 0 /\ h <= ChainTop
  BY ChainIs
<1>1. \A i \in I : txs[i].outs \in Payments /\ txs[i].ins \in Payments
  BY <1>0 DEF Transactions
<1>2. \A i \in I : /\ os[i] \in Seq(Move) /\ Worth(os[i], a) = Amount(txs[i].outs, To(txs[i].outs, a))
                   /\ ns[i] \in Seq(Move) /\ Worth(ns[i], a) = Amount(txs[i].ins, To(txs[i].ins, a))
  <2>1. \A i \in I : os[i] = txs[i].outs /\ ns[i] = txs[i].ins
    BY <1>0
  <2> HIDE DEF os, ns, txs, I
  <2> QED
    BY <1>1, <2>1, WorthOfPayments
<1>3. os \in Seq(Seq(Move)) /\ ns \in Seq(Seq(Move)) /\ Len(os) = n /\ Len(ns) = n
  <2>1. os = [i \in 1..n |-> os[i]] /\ ns = [i \in 1..n |-> ns[i]]
    BY <1>0
  <2> DEFINE X == Seq(Move)
  <2>2. \A i \in 1..n : os[i] \in X /\ ns[i] \in X
    BY <1>2
  <2>3. n \in Nat
    BY <1>0
  <2> HIDE DEF os, ns, n, X
  <2>4. os \in Seq(X) /\ Len(os) = n
    BY <2>1, <2>2, <2>3
  <2>5. ns \in Seq(X) /\ Len(ns) = n
    BY <2>1, <2>2, <2>3
  <2> QED
    BY <2>4, <2>5 DEF X
<1>4. Balances(BlockOf(h)) = outs \o back
  BY DEF Balances
<1> HIDE DEF txs, os, ns, n
<1>5. outs \in Seq(Move) /\ Worth(outs, a) = SumOn(Worths(os, a), I) /\ \A i \in I : Worths(os, a)[i] \in Int
  BY <1>3, WorthFlat
<1>6. ins \in Seq(Move) /\ Worth(ins, a) = SumOn(Worths(ns, a), I) /\ \A i \in I : Worths(ns, a)[i] \in Int
  BY <1>3, WorthFlat
<1> HIDE DEF outs, ins
<1>7. back \in Seq(Move) /\ Worth(back, a) = -Worth(ins, a)
  BY <1>6, WorthTaken
<1> HIDE DEF back
<1>8. Balances(BlockOf(h)) \in Seq(Move) /\ Worth(Balances(BlockOf(h)), a) = Worth(outs, a) + Worth(back, a)
  BY <1>4, <1>5, <1>7, WorthJoin
<1>9. IsFiniteSet(I)
  BY <1>0, FS_Interval
<1>10. T = {g[i] : i \in I} /\ T \subseteq Pairs
  <2>1. h..h = {h}
    BY <1>0
  <2>2. T = {<<h, i>> : i \in I}
    BY <1>0, <2>1 DEF TxsIn, txs
  <2>3. T \subseteq Pairs
    BY <1>0, TxsFinite
  <2> QED
    BY <2>2, <2>3
<1>11. \A i \in I : /\ TxOf(g[i]) = txs[i] /\ g[i] \in Pairs
                    /\ Recvs(a)[g[i]] = Worths(os, a)[i] /\ Sents(a)[g[i]] = Worths(ns, a)[i]
  <2> SUFFICES ASSUME NEW i \in I
               PROVE  /\ TxOf(g[i]) = txs[i] /\ g[i] \in Pairs
                      /\ Recvs(a)[g[i]] = Worths(os, a)[i] /\ Sents(a)[g[i]] = Worths(ns, a)[i]
    OBVIOUS
  <2>1. TxOf(g[i]) = txs[i]
    BY DEF TxOf, txs
  <2>2. g[i] \in Pairs
    BY <1>10
  <2>3. Worths(os, a)[i] = Worth(os[i], a) /\ Worths(ns, a)[i] = Worth(ns[i], a)
    BY <1>3 DEF Worths
  <2> HIDE DEF g
  <2>4. Recvs(a)[g[i]] = Amount(txs[i].outs, To(txs[i].outs, a)) /\ Sents(a)[g[i]] = Amount(txs[i].ins, To(txs[i].ins, a))
    BY <2>1, <2>2 DEF Recvs, Sents
  <2> QED
    BY <1>2, <2>1, <2>2, <2>3, <2>4
<1>12. \A i, j \in I : g[i] = g[j] => i = j
  OBVIOUS
<1> HIDE DEF g, T, I
<1>13. SumOn(Recvs(a), T) = SumOn(Worths(os, a), I)
  <2> DEFINE v == Worths(os, a)
             w == Recvs(a)
  <2>1. Mapped(g, v, w, I)
    BY <1>5, <1>11, <1>12 DEF Mapped
  <2> HIDE DEF v, w
  <2>2. SumOn(w, {g[i] : i \in I}) = SumOn(v, I)
    BY <1>9, <2>1, SumMoved
  <2> QED
    BY <1>10, <2>2 DEF v, w
<1>14. SumOn(Sents(a), T) = SumOn(Worths(ns, a), I)
  <2> DEFINE v == Worths(ns, a)
             w == Sents(a)
  <2>1. Mapped(g, v, w, I)
    BY <1>6, <1>11, <1>12 DEF Mapped
  <2> HIDE DEF v, w
  <2>2. SumOn(w, {g[i] : i \in I}) = SumOn(v, I)
    BY <1>9, <2>1, SumMoved
  <2> QED
    BY <1>10, <2>2 DEF v, w
<1>15. Worth(outs, a) \in Int /\ Worth(ins, a) \in Int
  BY <1>5, <1>6, WorthIs
<1>16. Balance(WholeOf(a, T)) = SumOn(Recvs(a), T) - SumOn(Sents(a), T)
  BY DEF Balance, WholeOf
<1> QED
  BY <1>5, <1>6, <1>7, <1>8, <1>13, <1>14, <1>15, <1>16 DEF T

\* What is gathered of the transactions T.
ChangesOf(m, T) == m \in BalMaps /\ \A a \in Payees : ChangeOf(m, Slot[a]) = Balance(WholeOf(a, T))

\* A block read adds its transactions to what is gathered.
LEMMA MovedIs ==
    ASSUME NEW T, T \subseteq Pairs, NEW m, ChangesOf(m, T), NEW h \in 0..ChainTop, T \cap TxsIn(h, h) = {}
    PROVE  ChangesOf(Moved(m, BlockOf(h)), T \cup TxsIn(h, h))
<1> DEFINE U == TxsIn(h, h)
           s == Balances(BlockOf(h))
<1>1. U \subseteq Pairs
  BY ChainIs, TxsFinite
<1>2. s \in Seq(Move) /\ \A a : Worth(s, a) = Balance(WholeOf(a, U))
  BY BlockWorth
<1>3. Moved(m, BlockOf(h)) = FoldLeft(AddMove, m, s)
  BY DEF Moved
<1> HIDE DEF s, U
<1>4. /\ FoldLeft(AddMove, m, s) \in BalMaps
      /\ \A a \in Payees : ChangeOf(FoldLeft(AddMove, m, s), Slot[a]) = ChangeOf(m, Slot[a]) + Worth(s, a)
  BY <1>2, MovesAdd DEF ChangesOf
<1>5. \A a \in Payees : Balance(WholeOf(a, T \cup U)) = Balance(WholeOf(a, T)) + Balance(WholeOf(a, U))
  <2> TAKE a \in Payees
  <2>1. WholeOf(a, T \cup U) = Join(WholeOf(a, T), WholeOf(a, U))
    BY <1>1, WholeJoin DEF U
  <2>2. WholeOf(a, T) \in StatRecords /\ WholeOf(a, U) \in StatRecords
    BY <1>1, WholeType
  <2> QED
    BY <2>1, <2>2 DEF Join, Balance, StatRecords
<1> QED
  BY <1>2, <1>3, <1>4, <1>5 DEF ChangesOf, U

-----------------------------------------------------------------------------
(* merge: one turn of its loop after another.                              *)

ShardEntries == [rem : Nat, bal : Int]
\* In order, each address once; and each with what f says, which is not nothing.
Ascends(d) == \A i, j \in 1..Len(d) : i < j => d[i].rem < d[j].rem
Fits(d, f) == \A j \in 1..Len(d) : d[j].bal = f[d[j].rem] /\ d[j].bal # 0
\* The entries of a shard whose balances are f.
ListOf(d, f) == /\ d \in Seq(ShardEntries) /\ Ascends(d) /\ Fits(d, f)
                /\ \A r \in Nat : f[r] # 0 => \E j \in 1..Len(d) : d[j].rem = r
\* The sorted keys of a shard whose changes are g.
KeysOf(keys, m, g) == /\ keys \in Seq(Nat \X Nat)
                      /\ \A i, j \in 1..Len(keys) : i < j => keys[i][2] < keys[j][2]
                      /\ \A j \in 1..Len(keys) : m[keys[j]] = g[keys[j][2]] /\ g[keys[j][2]] # 0
                      /\ \A r \in Nat : g[r] # 0 => \E j \in 1..Len(keys) : keys[j][2] = r
\* A shard of balances f, and the changes g to it, which make h.
Merges(data, keys, m, f, g, h) == /\ ListOf(data, f) /\ KeysOf(keys, m, g)
                                  /\ f \in [Nat -> Int] /\ g \in [Nat -> Int] /\ \A r \in Nat : h[r] = f[r] + g[r]

MergeStates == [i : Nat \ {0}, k : Nat \ {0}, out : Seq(ShardEntries), change : Int]
\* What lies ahead of the loop is above all that is behind it.
Behind(s, data, keys) ==
    /\ s.i <= Len(data) => /\ \A j \in 1..s.k - 1 : keys[j][2] < data[s.i].rem
                           /\ \A j \in 1..Len(s.out) : s.out[j].rem < data[s.i].rem
    /\ s.k <= Len(keys) => /\ \A j \in 1..s.i - 1 : data[j].rem < keys[s.k][2]
                           /\ \A j \in 1..Len(s.out) : s.out[j].rem < keys[s.k][2]
\* The loop after n turns: what is out is right and counted, and nothing is left out.
Merging(s, n, data, keys, h) ==
    /\ s \in MergeStates /\ s.i <= Len(data) + 1 /\ s.k <= Len(keys) + 1
    /\ n + 2 <= s.i + s.k \/ (s.i = Len(data) + 1 /\ s.k = Len(keys) + 1)
    /\ s.change = Len(s.out) - (s.i - 1)
    /\ Ascends(s.out) /\ Fits(s.out, h) /\ Behind(s, data, keys)
    /\ \A r \in Nat : h[r] # 0 => \/ \E j \in 1..Len(s.out) : s.out[j].rem = r
                                  \/ \E j \in s.i..Len(data) : data[j].rem = r
                                  \/ \E j \in s.k..Len(keys) : keys[j][2] = r

LEMMA OutGrows ==
    ASSUME NEW out \in Seq(ShardEntries), NEW e \in ShardEntries, NEW h, Ascends(out), Fits(out, h),
           \A j \in 1..Len(out) : out[j].rem < e.rem, e.bal = h[e.rem], e.bal # 0
    PROVE  /\ Append(out, e) \in Seq(ShardEntries) /\ Len(Append(out, e)) = Len(out) + 1
           /\ Ascends(Append(out, e)) /\ Fits(Append(out, e), h)
           /\ Append(out, e)[Len(out) + 1] = e /\ \A j \in 1..Len(out) : Append(out, e)[j] = out[j]
<1> DEFINE d == Append(out, e)
           n == Len(out)
<1>1. /\ n \in Nat /\ d \in Seq(ShardEntries) /\ Len(d) = n + 1 /\ d[n + 1] = e
      /\ \A j \in 1..n : d[j] = out[j]
  OBVIOUS
<1> HIDE DEF d
<1>2. \A j \in 1..(n + 1) : j = n + 1 \/ j \in 1..n
  BY <1>1
<1>3. Ascends(d)
  <2> SUFFICES ASSUME NEW i \in 1..(n + 1), NEW j \in 1..(n + 1), i < j PROVE d[i].rem < d[j].rem
    BY <1>1 DEF Ascends
  <2>1. i \in 1..n
    BY <1>1
  <2>2. CASE j = n + 1
    BY <1>1, <2>1, <2>2
  <2>3. CASE j \in 1..n
    BY <1>1, <2>1, <2>3 DEF Ascends
  <2> QED
    BY <1>2, <2>2, <2>3
<1>4. Fits(d, h)
  <2> SUFFICES ASSUME NEW j \in 1..(n + 1) PROVE d[j].bal = h[d[j].rem] /\ d[j].bal # 0
    BY <1>1 DEF Fits
  <2>2. CASE j = n + 1
    BY <1>1, <2>2
  <2>3. CASE j \in 1..n
    BY <1>1, <2>3 DEF Fits
  <2> QED
    BY <1>2, <2>2, <2>3
<1> QED
  BY <1>1, <1>3, <1>4 DEF d

\* What a turn takes.
TakesData(s, data, keys) == s.i <= Len(data) /\ (s.k > Len(keys) \/ data[s.i].rem < keys[s.k][2])
TakesKey(s, data, keys) == s.k <= Len(keys) /\ ~(s.i <= Len(data) /\ data[s.i].rem < keys[s.k][2])

LEMMA MergeTypes ==
    ASSUME NEW data, NEW keys, NEW m, NEW f, NEW g, NEW h, Merges(data, keys, m, f, g, h)
    PROVE  /\ data \in Seq(ShardEntries) /\ Len(data) \in Nat /\ Len(keys) \in Nat
           /\ \A j \in 1..Len(data) : data[j] \in ShardEntries /\ data[j].rem \in Nat /\ data[j].bal \in Int
           /\ \A j \in 1..Len(keys) : keys[j][2] \in Nat /\ m[keys[j]] \in Int
<1>1. data \in Seq(ShardEntries) /\ keys \in Seq(Nat \X Nat)
  BY DEF Merges, ListOf, KeysOf
<1>2. Len(data) \in Nat /\ Len(keys) \in Nat /\ \A j \in 1..Len(data) : data[j] \in ShardEntries
  BY <1>1
<1>3. \A e \in ShardEntries : e.rem \in Nat /\ e.bal \in Int
  BY DEF ShardEntries
<1>4. \A j \in 1..Len(keys) : keys[j][2] \in Nat
  <2> TAKE j \in 1..Len(keys)
  <2>1. keys[j] \in Nat \X Nat
    BY <1>1
  <2> QED
    BY <2>1
<1>5. \A j \in 1..Len(keys) : m[keys[j]] \in Int
  <2>1. g \in [Nat -> Int] /\ \A j \in 1..Len(keys) : m[keys[j]] = g[keys[j][2]]
    BY DEF Merges, KeysOf
  <2> QED
    BY <1>4, <2>1
<1> QED
  BY <1>1, <1>2, <1>3, <1>4, <1>5

TurnIs(s, data, keys, m) ==
    /\ TakesData(s, data, keys) => MergeStep(s, data, keys, m) =
           [i |-> s.i + 1, k |-> s.k, out |-> Append(s.out, data[s.i]), change |-> s.change]
    /\ TakesKey(s, data, keys) =>
           LET rem == keys[s.k][2]
               same == s.i <= Len(data) /\ data[s.i].rem = rem
               bal == m[keys[s.k]] + (IF same THEN data[s.i].bal ELSE 0)
           IN  MergeStep(s, data, keys, m) =
                   [i |-> IF same THEN s.i + 1 ELSE s.i, k |-> s.k + 1,
                    out |-> IF bal = 0 THEN s.out ELSE Append(s.out, [rem |-> rem, bal |-> bal]),
                    change |-> s.change + (IF ~same THEN 1 ELSE IF bal = 0 THEN -1 ELSE 0)]
    /\ ~TakesData(s, data, keys) /\ ~TakesKey(s, data, keys) => MergeStep(s, data, keys, m) = s

LEMMA StepTakes ==
    ASSUME NEW data, NEW keys, NEW m, NEW f, NEW g, NEW h, Merges(data, keys, m, f, g, h), NEW s \in MergeStates
    PROVE  MergeStep(s, data, keys, m) \in MergeStates /\ TurnIs(s, data, keys, m)
<1> DEFINE rem == keys[s.k][2]
           same == s.i <= Len(data) /\ data[s.i].rem = rem
           bal == m[keys[s.k]] + (IF same THEN data[s.i].bal ELSE 0)
           less == s.i <= Len(data) /\ data[s.i].rem < rem
           more2 == [i |-> s.i + 1, k |-> s.k, out |-> Append(s.out, data[s.i]), change |-> s.change]
           both == [i |-> IF same THEN s.i + 1 ELSE s.i, k |-> s.k + 1,
                    out |-> IF bal = 0 THEN s.out ELSE Append(s.out, [rem |-> rem, bal |-> bal]),
                    change |-> s.change + (IF ~same THEN 1 ELSE IF bal = 0 THEN -1 ELSE 0)]
<1>0. s.i \in Nat \ {0} /\ s.k \in Nat \ {0} /\ s.out \in Seq(ShardEntries) /\ s.change \in Int
  BY DEF MergeStates
<1>1. MergeStep(s, data, keys, m) = IF s.k > Len(keys) \/ less THEN (IF s.i > Len(data) THEN s ELSE more2) ELSE both
  BY DEF MergeStep
<1>3. ASSUME s.i <= Len(data) PROVE more2 \in MergeStates
  <2>1. data[s.i] \in ShardEntries
    BY <1>0, <1>3, MergeTypes
  <2>2. Append(s.out, data[s.i]) \in Seq(ShardEntries)
    BY <1>0, <2>1
  <2> QED
    BY <1>0, <2>2 DEF MergeStates
<1>4. ASSUME s.k <= Len(keys) PROVE both \in MergeStates
  <2>1. rem \in Nat /\ m[keys[s.k]] \in Int
    BY <1>0, <1>4, MergeTypes
  <2>2. bal \in Int
    <3>1. s.i <= Len(data) => data[s.i].bal \in Int
      BY <1>0, MergeTypes
    <3> HIDE DEF rem
    <3> QED
      BY <2>1, <3>1
  <2> HIDE DEF bal, same, rem
  <2>3. [rem |-> rem, bal |-> bal] \in ShardEntries
    BY <2>1, <2>2 DEF ShardEntries
  <2>4. Append(s.out, [rem |-> rem, bal |-> bal]) \in Seq(ShardEntries)
    <3> DEFINE e == [rem |-> rem, bal |-> bal]
    <3>1. e \in ShardEntries
      BY <2>3
    <3> HIDE DEF e
    <3>2. Append(s.out, e) \in Seq(ShardEntries)
      BY <1>0, <3>1
    <3> QED
      BY <3>2 DEF e
  <2>5. (IF bal = 0 THEN s.out ELSE Append(s.out, [rem |-> rem, bal |-> bal])) \in Seq(ShardEntries)
    BY <1>0, <2>4
  <2>6. (IF same THEN s.i + 1 ELSE s.i) \in Nat \ {0} /\ s.k + 1 \in Nat \ {0}
    BY <1>0
  <2>7. s.change + (IF ~same THEN 1 ELSE IF bal = 0 THEN -1 ELSE 0) \in Int
    BY <1>0
  <2> QED
    BY <2>5, <2>6, <2>7 DEF MergeStates
<1>5. Len(data) \in Nat /\ Len(keys) \in Nat
  BY MergeTypes
<1>6. /\ TakesData(s, data, keys) <=> s.i <= Len(data) /\ (s.k > Len(keys) \/ less)
      /\ TakesKey(s, data, keys) <=> s.k <= Len(keys) /\ ~less
  BY DEF TakesData, TakesKey
<1> HIDE DEF more2, both, less
<1>7. /\ TakesData(s, data, keys) => MergeStep(s, data, keys, m) = more2
      /\ TakesKey(s, data, keys) => MergeStep(s, data, keys, m) = both
      /\ ~TakesData(s, data, keys) /\ ~TakesKey(s, data, keys) => MergeStep(s, data, keys, m) = s
  <2>1. ASSUME TakesData(s, data, keys) PROVE MergeStep(s, data, keys, m) = more2
    BY <1>0, <1>1, <1>5, <1>6, <2>1
  <2>2. ASSUME TakesKey(s, data, keys) PROVE MergeStep(s, data, keys, m) = both
    BY <1>0, <1>1, <1>5, <1>6, <2>2
  <2>3. ASSUME ~TakesData(s, data, keys), ~TakesKey(s, data, keys) PROVE MergeStep(s, data, keys, m) = s
    BY <1>0, <1>1, <1>5, <1>6, <2>3 DEF less
  <2> QED
    BY <2>1, <2>2, <2>3
<1>8. MergeStep(s, data, keys, m) \in MergeStates
  BY <1>0, <1>3, <1>4, <1>5, <1>6, <1>7
<1>9. TurnIs(s, data, keys, m)
  BY <1>7 DEF TurnIs, more2, both
<1> QED
  BY <1>8, <1>9

\* A turn's step past rem, in the shard's entries, the keys or both.
Passes(s, i1, k1, rem, data, keys) ==
    /\ rem \in Nat /\ i1 \in {s.i, s.i + 1} /\ k1 \in {s.k, s.k + 1} /\ (i1 = s.i + 1 \/ k1 = s.k + 1)
    /\ i1 = s.i + 1 => s.i <= Len(data) /\ data[s.i].rem = rem
    /\ k1 = s.k + 1 => s.k <= Len(keys) /\ keys[s.k][2] = rem
    /\ i1 = s.i /\ s.i <= Len(data) => rem < data[s.i].rem
    /\ k1 = s.k /\ s.k <= Len(keys) => rem < keys[s.k][2]
\* A balance of zero is left out of the shard.
PutOut(out, rem, h) == IF h[rem] = 0 THEN out ELSE Append(out, [rem |-> rem, bal |-> h[rem]])

LEMMA PassesOrder ==
    ASSUME NEW data, NEW keys, NEW m, NEW f, NEW g, NEW h, Merges(data, keys, m, f, g, h), NEW n \in Nat, NEW s,
           Merging(s, n, data, keys, h), NEW i1, NEW k1, NEW rem, Passes(s, i1, k1, rem, data, keys)
    PROVE  /\ \A j \in 1..Len(s.out) : s.out[j].rem < rem
           /\ \A j \in 1..k1 - 1 : keys[j][2] <= rem
           /\ \A j \in 1..i1 - 1 : data[j].rem <= rem
           /\ k1 <= Len(keys) => rem < keys[k1][2]
           /\ i1 <= Len(data) => rem < data[i1].rem
<1>1. s \in MergeStates /\ s.i <= Len(data) + 1 /\ s.k <= Len(keys) + 1 /\ Behind(s, data, keys)
  BY DEF Merging
<1>2. s.i \in Nat \ {0} /\ s.k \in Nat \ {0} /\ s.out \in Seq(ShardEntries)
  BY <1>1 DEF MergeStates
<1>3. /\ Len(data) \in Nat /\ Len(keys) \in Nat
      /\ \A j \in 1..Len(data) : data[j].rem \in Nat
      /\ \A j \in 1..Len(keys) : keys[j][2] \in Nat
  BY MergeTypes
<1>4. /\ \A i, j \in 1..Len(data) : i < j => data[i].rem < data[j].rem
      /\ \A i, j \in 1..Len(keys) : i < j => keys[i][2] < keys[j][2]
  BY DEF Merges, ListOf, KeysOf, Ascends
<1>5. /\ s.i <= Len(data) => /\ \A j \in 1..s.k - 1 : keys[j][2] < data[s.i].rem
                             /\ \A j \in 1..Len(s.out) : s.out[j].rem < data[s.i].rem
      /\ s.k <= Len(keys) => /\ \A j \in 1..s.i - 1 : data[j].rem < keys[s.k][2]
                             /\ \A j \in 1..Len(s.out) : s.out[j].rem < keys[s.k][2]
  BY <1>1 DEF Behind
<1>6. /\ rem \in Nat /\ i1 \in {s.i, s.i + 1} /\ k1 \in {s.k, s.k + 1} /\ (i1 = s.i + 1 \/ k1 = s.k + 1)
      /\ i1 = s.i + 1 => s.i <= Len(data) /\ data[s.i].rem = rem
      /\ k1 = s.k + 1 => s.k <= Len(keys) /\ keys[s.k][2] = rem
      /\ i1 = s.i /\ s.i <= Len(data) => rem < data[s.i].rem
      /\ k1 = s.k /\ s.k <= Len(keys) => rem < keys[s.k][2]
  BY DEF Passes
<1>7. \A j \in 1..Len(s.out) : s.out[j].rem < rem
  BY <1>5, <1>6
<1>8. ASSUME NEW j \in 1..k1 - 1 PROVE keys[j][2] <= rem
  <2>1. j \in 1..Len(keys) /\ keys[j][2] \in Nat
    BY <1>1, <1>2, <1>3, <1>6
  <2>2. CASE j = s.k
    BY <1>2, <1>6, <2>1, <2>2
  <2>3. CASE j \in 1..s.k - 1
    <3>1. CASE k1 = s.k + 1
      <4>1. s.k \in 1..Len(keys) /\ j < s.k
        BY <1>2, <1>3, <1>6, <2>3, <3>1
      <4>2. keys[j][2] < keys[s.k][2]
        BY <1>4, <2>1, <4>1
      <4> QED
        BY <1>6, <2>1, <3>1, <4>2
    <3>2. CASE i1 = s.i + 1
      <4>1. keys[j][2] < data[s.i].rem
        BY <1>5, <1>6, <2>3, <3>2
      <4> QED
        BY <1>6, <2>1, <3>2, <4>1
    <3> QED
      BY <1>6, <3>1, <3>2
  <2> QED
    BY <1>2, <1>6, <2>2, <2>3
<1>9. ASSUME NEW j \in 1..i1 - 1 PROVE data[j].rem <= rem
  <2>1. j \in 1..Len(data) /\ data[j].rem \in Nat
    BY <1>1, <1>2, <1>3, <1>6
  <2>2. CASE j = s.i
    BY <1>2, <1>6, <2>1, <2>2
  <2>3. CASE j \in 1..s.i - 1
    <3>1. CASE i1 = s.i + 1
      <4>1. s.i \in 1..Len(data) /\ j < s.i
        BY <1>2, <1>3, <1>6, <2>3, <3>1
      <4>2. data[j].rem < data[s.i].rem
        BY <1>4, <2>1, <4>1
      <4> QED
        BY <1>6, <2>1, <3>1, <4>2
    <3>2. CASE k1 = s.k + 1
      <4>1. data[j].rem < keys[s.k][2]
        BY <1>5, <1>6, <2>3, <3>2
      <4> QED
        BY <1>6, <2>1, <3>2, <4>1
    <3> QED
      BY <1>6, <3>1, <3>2
  <2> QED
    BY <1>2, <1>6, <2>2, <2>3
<1>10. ASSUME k1 <= Len(keys) PROVE rem < keys[k1][2]
  <2>1. CASE k1 = s.k
    BY <1>6, <1>10, <2>1
  <2>2. CASE k1 = s.k + 1
    <3>1. s.k \in 1..Len(keys) /\ k1 \in 1..Len(keys) /\ s.k < k1
      BY <1>2, <1>3, <1>10, <2>2
    <3> QED
      BY <1>4, <1>6, <2>2, <3>1
  <2> QED
    BY <1>6, <2>1, <2>2
<1>11. ASSUME i1 <= Len(data) PROVE rem < data[i1].rem
  <2>1. CASE i1 = s.i
    BY <1>6, <1>11, <2>1
  <2>2. CASE i1 = s.i + 1
    <3>1. s.i \in 1..Len(data) /\ i1 \in 1..Len(data) /\ s.i < i1
      BY <1>2, <1>3, <1>11, <2>2
    <3> QED
      BY <1>4, <1>6, <2>2, <3>1
  <2> QED
    BY <1>6, <2>1, <2>2
<1> QED
  BY <1>7, <1>8, <1>9, <1>10, <1>11

Under(out, rem) == \A j \in 1..Len(out) : out[j].rem < rem
UpTo(out, rem) == \A j \in 1..Len(out) : out[j].rem <= rem
Rems(out, d) == \A j \in 1..Len(out) : \E l \in 1..Len(d) : d[l].rem = out[j].rem

LEMMA EntryRems ==
    ASSUME NEW out \in Seq(ShardEntries)
    PROVE  Len(out) \in Nat /\ \A j \in 1..Len(out) : out[j].rem \in Nat
<1>1. \A j \in 1..Len(out) : out[j] \in ShardEntries
  OBVIOUS
<1> QED
  BY <1>1 DEF ShardEntries

LEMMA PutOutIs ==
    ASSUME NEW out \in Seq(ShardEntries), NEW rem \in Nat, NEW h, h[rem] \in Int, Ascends(out), Fits(out, h), Under(out, rem)
    PROVE  /\ PutOut(out, rem, h) \in Seq(ShardEntries)
           /\ Len(PutOut(out, rem, h)) = Len(out) + (IF h[rem] = 0 THEN 0 ELSE 1)
           /\ Ascends(PutOut(out, rem, h)) /\ Fits(PutOut(out, rem, h), h)
           /\ UpTo(PutOut(out, rem, h), rem) /\ Rems(out, PutOut(out, rem, h))
           /\ h[rem] # 0 => \E l \in 1..Len(PutOut(out, rem, h)) : PutOut(out, rem, h)[l].rem = rem
<1>0. \A j \in 1..Len(out) : out[j].rem \in Nat
  <2>1. \A j \in 1..Len(out) : out[j] \in ShardEntries
    OBVIOUS
  <2> QED
    BY <2>1 DEF ShardEntries
<1>1. CASE h[rem] = 0
  <2>1. PutOut(out, rem, h) = out
    BY <1>1 DEF PutOut
  <2>2. UpTo(out, rem) /\ Rems(out, out)
    BY <1>0 DEF Under, UpTo, Rems
  <2>3. Len(out) = Len(out) + 0
    OBVIOUS
  <2> QED
    BY <1>1, <2>1, <2>2, <2>3
<1>2. CASE h[rem] # 0
  <2> DEFINE e == [rem |-> rem, bal |-> h[rem]]
             d == Append(out, e)
             n == Len(out)
  <2>1. PutOut(out, rem, h) = d
    BY <1>2 DEF PutOut
  <2>2. e \in ShardEntries /\ e.rem = rem /\ e.bal = h[e.rem] /\ e.bal # 0
    BY <1>2 DEF ShardEntries
  <2> HIDE DEF e
  <2>3. /\ d \in Seq(ShardEntries) /\ Len(d) = n + 1 /\ Ascends(d) /\ Fits(d, h)
        /\ d[n + 1] = e /\ \A j \in 1..n : d[j] = out[j]
    <3>1. \A j \in 1..Len(out) : out[j].rem < e.rem
      BY <2>2 DEF Under
    <3> QED
      BY <2>2, <3>1, OutGrows
  <2>4. n \in Nat
    OBVIOUS
  <2> HIDE DEF d, n
  <2>5. \A j \in 1..(n + 1) : d[j].rem <= rem
    BY <1>0, <2>2, <2>3, <2>4 DEF n, Under
  <2>6. \A j \in 1..n : \E l \in 1..(n + 1) : d[l].rem = out[j].rem
    <3> TAKE j \in 1..n
    <3>1. j \in 1..(n + 1) /\ d[j].rem = out[j].rem
      BY <2>3, <2>4
    <3> QED
      BY <3>1
  <2>7. \E l \in 1..(n + 1) : d[l].rem = rem
    <3>1. n + 1 \in 1..(n + 1) /\ d[n + 1].rem = rem
      BY <2>2, <2>3, <2>4
    <3> QED
      BY <3>1
  <2> QED
    BY <1>2, <2>1, <2>3, <2>5, <2>6, <2>7 DEF n, UpTo, Rems
<1> QED
  BY <1>1, <1>2

\* Past rem, the loop is where it should be: what h says of rem is out.
LEMMA Passed ==
    ASSUME NEW data, NEW keys, NEW m, NEW f, NEW g, NEW h, Merges(data, keys, m, f, g, h), NEW n \in Nat, NEW s,
           Merging(s, n, data, keys, h), NEW i1, NEW k1, NEW rem, Passes(s, i1, k1, rem, data, keys)
    PROVE  Merging([i |-> i1, k |-> k1, out |-> PutOut(s.out, rem, h),
                    change |-> s.change + (IF h[rem] = 0 THEN 0 ELSE 1) - (i1 - s.i)], n + 1, data, keys, h)
<1> DEFINE out == PutOut(s.out, rem, h)
           c == s.change + (IF h[rem] = 0 THEN 0 ELSE 1) - (i1 - s.i)
           t == [i |-> i1, k |-> k1, out |-> out, change |-> c]
<1>1. /\ s \in MergeStates /\ s.i <= Len(data) + 1 /\ s.k <= Len(keys) + 1
      /\ n + 2 <= s.i + s.k \/ (s.i = Len(data) + 1 /\ s.k = Len(keys) + 1)
      /\ s.change = Len(s.out) - (s.i - 1)
      /\ Ascends(s.out) /\ Fits(s.out, h)
      /\ \A r \in Nat : h[r] # 0 => \/ \E j \in 1..Len(s.out) : s.out[j].rem = r
                                    \/ \E j \in s.i..Len(data) : data[j].rem = r
                                    \/ \E j \in s.k..Len(keys) : keys[j][2] = r
  BY DEF Merging
<1>2. s.i \in Nat \ {0} /\ s.k \in Nat \ {0} /\ s.out \in Seq(ShardEntries) /\ s.change \in Int
  BY <1>1 DEF MergeStates
<1>3. /\ Len(data) \in Nat /\ Len(keys) \in Nat
      /\ \A j \in 1..Len(data) : data[j].rem \in Nat
      /\ \A j \in 1..Len(keys) : keys[j][2] \in Nat
  BY MergeTypes
<1>4. /\ rem \in Nat /\ i1 \in {s.i, s.i + 1} /\ k1 \in {s.k, s.k + 1} /\ (i1 = s.i + 1 \/ k1 = s.k + 1)
      /\ i1 = s.i + 1 => s.i <= Len(data) /\ data[s.i].rem = rem
      /\ k1 = s.k + 1 => s.k <= Len(keys) /\ keys[s.k][2] = rem
  BY DEF Passes
<1>5. \A r \in Nat : h[r] \in Int
  BY DEF Merges
<1>6. /\ \A j \in 1..Len(s.out) : s.out[j].rem < rem
      /\ \A j \in 1..k1 - 1 : keys[j][2] <= rem
      /\ \A j \in 1..i1 - 1 : data[j].rem <= rem
      /\ k1 <= Len(keys) => rem < keys[k1][2]
      /\ i1 <= Len(data) => rem < data[i1].rem
  BY PassesOrder
<1> DEFINE so == s.out
<1>7. /\ out \in Seq(ShardEntries) /\ Len(out) = Len(so) + (IF h[rem] = 0 THEN 0 ELSE 1)
      /\ Ascends(out) /\ Fits(out, h) /\ UpTo(out, rem) /\ Rems(so, out)
      /\ h[rem] # 0 => \E l \in 1..Len(out) : out[l].rem = rem
  <2>1. so \in Seq(ShardEntries) /\ Ascends(so) /\ Fits(so, h) /\ rem \in Nat /\ h[rem] \in Int /\ Under(so, rem)
    BY <1>1, <1>2, <1>4, <1>5, <1>6 DEF Under
  <2>2. out = PutOut(so, rem, h)
    OBVIOUS
  <2> HIDE DEF so, out
  <2> QED
    BY <2>1, <2>2, PutOutIs
<1> HIDE DEF out
<1>7a. out \in Seq(ShardEntries)
  BY <1>7
<1>8. \A j \in 1..Len(out) : out[j].rem \in Nat
  BY <1>7a, EntryRems
<1>8a. /\ \A j \in 1..Len(out) : out[j].rem <= rem
       /\ \A j \in 1..Len(so) : \E l \in 1..Len(out) : out[l].rem = so[j].rem
  BY <1>7 DEF UpTo, Rems
<1>9. Len(so) \in Nat /\ Len(out) \in Nat
  <2> HIDE DEF so
  <2>1. so \in Seq(ShardEntries)
    BY <1>2 DEF so
  <2> QED
    BY <1>7a, <2>1
<1>10. /\ i1 \in Nat \ {0} /\ k1 \in Nat \ {0} /\ i1 <= Len(data) + 1 /\ k1 <= Len(keys) + 1
       /\ (n + 1) + 2 <= i1 + k1 \/ (i1 = Len(data) + 1 /\ k1 = Len(keys) + 1)
  <2> DEFINE si == s.i
             sk == s.k
             nd == Len(data)
             nk == Len(keys)
  <2>1. /\ si \in Nat \ {0} /\ sk \in Nat \ {0} /\ nd \in Nat /\ nk \in Nat
        /\ si <= nd + 1 /\ sk <= nk + 1 /\ (n + 2 <= si + sk \/ (si = nd + 1 /\ sk = nk + 1))
        /\ (i1 = si \/ i1 = si + 1) /\ (k1 = sk \/ k1 = sk + 1) /\ (i1 = si + 1 \/ k1 = sk + 1)
        /\ (i1 = si + 1 => si <= nd) /\ (k1 = sk + 1 => sk <= nk)
    BY <1>1, <1>2, <1>3, <1>4
  <2> HIDE DEF si, sk, nd, nk
  <2>2. i1 \in Nat \ {0} /\ k1 \in Nat \ {0} /\ i1 <= nd + 1 /\ k1 <= nk + 1
    BY <2>1
  <2>3. (n + 1) + 2 <= i1 + k1 \/ (i1 = nd + 1 /\ k1 = nk + 1)
    <3>1. CASE si = nd + 1 /\ sk = nk + 1
      BY <2>1, <3>1
    <3>2. CASE n + 2 <= si + sk
      <4>1. i1 + k1 >= (si + sk) + 1
        BY <2>1
      <4> QED
        BY <2>1, <2>2, <3>2, <4>1
    <3> QED
      BY <2>1, <3>1, <3>2
  <2> QED
    BY <2>2, <2>3 DEF nd, nk
<1> HIDE DEF so
<1>11. c \in Int /\ c = Len(out) - (i1 - 1)
  <2> DEFINE si == s.i
             sc == s.change
             ls == Len(so)
             lo == Len(out)
             one == IF h[rem] = 0 THEN 0 ELSE 1
  <2>1. si \in Nat /\ sc \in Int /\ ls \in Nat /\ lo \in Nat /\ sc = ls - (si - 1) /\ lo = ls + one /\ one \in Int
    <3>1. si \in Nat /\ sc \in Int /\ sc = ls - (si - 1)
      BY <1>1, <1>2 DEF so
    <3>2. one \in Int
      OBVIOUS
    <3>3. lo = ls + one
      BY <1>7
    <3> QED
      BY <1>9, <3>1, <3>2, <3>3
  <2>2. c = sc + one - (i1 - si) /\ i1 \in Int
    BY <1>10
  <2> HIDE DEF si, sc, ls, one, c, lo
  <2>3. c \in Int /\ c = lo - (i1 - 1)
    BY <2>1, <2>2
  <2> QED
    BY <2>3 DEF lo
<1> HIDE DEF c
<1>12. t \in MergeStates
  BY <1>7, <1>10, <1>11 DEF MergeStates
<1>13. t.i = i1 /\ t.k = k1 /\ t.out = out /\ t.change = c
  OBVIOUS
<1> HIDE DEF t
<1>14. Behind(t, data, keys)
  <2>1. ASSUME i1 <= Len(data)
        PROVE  /\ \A j \in 1..k1 - 1 : keys[j][2] < data[i1].rem
               /\ \A j \in 1..Len(out) : out[j].rem < data[i1].rem
    <3>1. i1 \in 1..Len(data) /\ data[i1].rem \in Nat /\ rem < data[i1].rem
      BY <1>3, <1>6, <1>10, <2>1
    <3>2. \A j \in 1..k1 - 1 : j \in 1..Len(keys)
      BY <1>3, <1>10
    <3> QED
      BY <1>3, <1>4, <1>6, <1>8, <1>8a, <3>1, <3>2, SMTT(30)
  <2>2. ASSUME k1 <= Len(keys)
        PROVE  /\ \A j \in 1..i1 - 1 : data[j].rem < keys[k1][2]
               /\ \A j \in 1..Len(out) : out[j].rem < keys[k1][2]
    <3>1. k1 \in 1..Len(keys) /\ keys[k1][2] \in Nat /\ rem < keys[k1][2]
      BY <1>3, <1>6, <1>10, <2>2
    <3>2. \A j \in 1..i1 - 1 : j \in 1..Len(data)
      BY <1>3, <1>10
    <3> QED
      BY <1>3, <1>4, <1>6, <1>8, <1>8a, <3>1, <3>2, SMTT(30)
  <2> QED
    BY <1>13, <2>1, <2>2 DEF Behind
<1>15. ASSUME NEW r \in Nat, h[r] # 0
       PROVE  \/ \E j \in 1..Len(out) : out[j].rem = r
              \/ \E j \in i1..Len(data) : data[j].rem = r
              \/ \E j \in k1..Len(keys) : keys[j][2] = r
  <2>1. CASE \E j \in 1..Len(s.out) : s.out[j].rem = r
    BY <1>8a, <2>1 DEF so
  <2>2. CASE \E j \in s.i..Len(data) : data[j].rem = r
    <3>1. PICK j \in s.i..Len(data) : data[j].rem = r
      BY <2>2
    <3>2. CASE j \in i1..Len(data)
      BY <3>1, <3>2
    <3>3. CASE j \notin i1..Len(data)
      <4>1. j = s.i /\ i1 = s.i + 1
        BY <1>2, <1>3, <1>4, <3>3
      <4> QED
        BY <1>4, <1>7, <1>15, <3>1, <4>1
    <3> QED
      BY <3>2, <3>3
  <2>3. CASE \E j \in s.k..Len(keys) : keys[j][2] = r
    <3>1. PICK j \in s.k..Len(keys) : keys[j][2] = r
      BY <2>3
    <3>2. CASE j \in k1..Len(keys)
      BY <3>1, <3>2
    <3>3. CASE j \notin k1..Len(keys)
      <4>1. j = s.k /\ k1 = s.k + 1
        BY <1>2, <1>3, <1>4, <3>3
      <4> QED
        BY <1>4, <1>7, <1>15, <3>1, <4>1
    <3> QED
      BY <3>2, <3>3
  <2> QED
    BY <1>1, <1>15, <2>1, <2>2, <2>3
<1>16. Merging(t, n + 1, data, keys, h)
  BY <1>7, <1>10, <1>11, <1>12, <1>13, <1>14, <1>15 DEF Merging
<1> QED
  BY <1>16 DEF t, out, c

\* A turn of the loop, whichever of its cases it takes.
LEMMA MergeTurn ==
    ASSUME NEW data, NEW keys, NEW m, NEW f, NEW g, NEW h, Merges(data, keys, m, f, g, h), NEW n \in Nat, NEW s,
           Merging(s, n, data, keys, h)
    PROVE  Merging(MergeStep(s, data, keys, m), n + 1, data, keys, h)
<1>1. /\ s \in MergeStates /\ s.i <= Len(data) + 1 /\ s.k <= Len(keys) + 1 /\ Behind(s, data, keys)
      /\ n + 2 <= s.i + s.k \/ (s.i = Len(data) + 1 /\ s.k = Len(keys) + 1)
  BY DEF Merging
<1>2. s.i \in Nat \ {0} /\ s.k \in Nat \ {0} /\ s.out \in Seq(ShardEntries) /\ s.change \in Int
  BY <1>1 DEF MergeStates
<1>3. /\ Len(data) \in Nat /\ Len(keys) \in Nat
      /\ \A j \in 1..Len(data) : data[j] \in ShardEntries /\ data[j].rem \in Nat /\ data[j].bal \in Int
      /\ \A j \in 1..Len(keys) : keys[j][2] \in Nat /\ m[keys[j]] \in Int
  BY MergeTypes
<1>4. /\ \A i, j \in 1..Len(data) : i < j => data[i].rem < data[j].rem
      /\ \A i, j \in 1..Len(keys) : i < j => keys[i][2] < keys[j][2]
  BY DEF Merges, ListOf, KeysOf, Ascends
<1>5. /\ s.i <= Len(data) => /\ \A j \in 1..s.k - 1 : keys[j][2] < data[s.i].rem
      /\ s.k <= Len(keys) => /\ \A j \in 1..s.i - 1 : data[j].rem < keys[s.k][2]
  BY <1>1 DEF Behind
<1>6. /\ ListOf(data, f) /\ KeysOf(keys, m, g)
      /\ \A r \in Nat : f[r] \in Int /\ g[r] \in Int /\ h[r] = f[r] + g[r]
      /\ \A j \in 1..Len(data) : data[j].bal = f[data[j].rem] /\ data[j].bal # 0
      /\ \A j \in 1..Len(keys) : m[keys[j]] = g[keys[j][2]] /\ g[keys[j][2]] # 0
  BY DEF Merges, ListOf, KeysOf, Fits
<1>6a. /\ \A r \in Nat : f[r] # 0 => \E j \in 1..Len(data) : data[j].rem = r
       /\ \A r \in Nat : g[r] # 0 => \E j \in 1..Len(keys) : keys[j][2] = r
  BY <1>6 DEF ListOf, KeysOf
<1>6b. /\ TakesData(s, data, keys) => MergeStep(s, data, keys, m) =
              [i |-> s.i + 1, k |-> s.k, out |-> Append(s.out, data[s.i]), change |-> s.change]
       /\ ~TakesData(s, data, keys) /\ ~TakesKey(s, data, keys) => MergeStep(s, data, keys, m) = s
  <2>1. TurnIs(s, data, keys, m)
    BY <1>1, StepTakes
  <2> QED
    BY <2>1 DEF TurnIs
<1>7. CASE TakesData(s, data, keys)
  <2> DEFINE rem == data[s.i].rem
             t == [i |-> s.i + 1, k |-> s.k, out |-> Append(s.out, data[s.i]), change |-> s.change]
  <2>1. MergeStep(s, data, keys, m) = t
    BY <1>6b, <1>7
  <2>2. s.i \in 1..Len(data) /\ (s.k > Len(keys) \/ rem < keys[s.k][2]) /\ rem \in Nat
    BY <1>2, <1>3, <1>7 DEF TakesData
  <2>3. \A j \in 1..Len(keys) : keys[j][2] # rem
    <3> SUFFICES ASSUME NEW j \in 1..Len(keys) PROVE keys[j][2] # rem
      OBVIOUS
    <3>1. CASE j \in 1..s.k - 1
      BY <1>3, <1>5, <2>2, <3>1
    <3>2. CASE j = s.k
      BY <1>3, <2>2, <3>2
    <3>3. CASE s.k < j
      <4>1. s.k \in 1..Len(keys) /\ rem < keys[s.k][2]
        BY <1>2, <1>3, <2>2, <3>3
      <4>2. keys[s.k][2] < keys[j][2]
        BY <1>4, <3>3, <4>1
      <4> QED
        BY <1>3, <2>2, <4>1, <4>2
    <3> QED
      BY <1>2, <3>1, <3>2, <3>3
  <2>4. h[rem] = data[s.i].bal /\ h[rem] # 0
    <3>1. g[rem] = 0
      BY <1>6a, <2>2, <2>3
    <3>2. data[s.i].bal = f[rem] /\ data[s.i].bal # 0
      BY <1>6, <2>2
    <3> QED
      BY <1>6, <2>2, <3>1, <3>2
  <2>5. Passes(s, s.i + 1, s.k, rem, data, keys)
    BY <1>2, <1>3, <2>2 DEF Passes
  <2>6. PutOut(s.out, rem, h) = Append(s.out, data[s.i])
    <3>1. data[s.i] = [rem |-> rem, bal |-> data[s.i].bal]
      BY <1>3, <2>2 DEF ShardEntries
    <3> QED
      BY <2>4, <3>1 DEF PutOut
  <2>7. s.change + (IF h[rem] = 0 THEN 0 ELSE 1) - ((s.i + 1) - s.i) = s.change
    BY <1>2, <2>4
  <2>8. Merging([i |-> s.i + 1, k |-> s.k, out |-> PutOut(s.out, rem, h),
                 change |-> s.change + (IF h[rem] = 0 THEN 0 ELSE 1) - ((s.i + 1) - s.i)], n + 1, data, keys, h)
    BY <2>5, Passed
  <2> QED
    BY <2>1, <2>6, <2>7, <2>8
<1>8. CASE TakesKey(s, data, keys)
  <2> DEFINE rem == keys[s.k][2]
             same == s.i <= Len(data) /\ data[s.i].rem = rem
             bal == m[keys[s.k]] + (IF same THEN data[s.i].bal ELSE 0)
             i1 == IF same THEN s.i + 1 ELSE s.i
             c1 == s.change + (IF ~same THEN 1 ELSE IF bal = 0 THEN -1 ELSE 0)
             out1 == IF bal = 0 THEN s.out ELSE Append(s.out, [rem |-> rem, bal |-> bal])
  <2>1. MergeStep(s, data, keys, m) = [i |-> i1, k |-> s.k + 1, out |-> out1, change |-> c1]
    <3>1. TurnIs(s, data, keys, m)
      BY <1>1, StepTakes
    <3> QED
      BY <1>8, <3>1 DEF TurnIs
  <2>2. /\ s.k \in 1..Len(keys) /\ ~(s.i <= Len(data) /\ data[s.i].rem < rem) /\ rem \in Nat
        /\ m[keys[s.k]] = g[rem] /\ g[rem] # 0
    BY <1>2, <1>3, <1>6, <1>8 DEF TakesKey
  <2>3. ASSUME ~same PROVE (s.i <= Len(data) => rem < data[s.i].rem) /\ f[rem] = 0
    <3>1. s.i <= Len(data) => rem < data[s.i].rem
      <4>1. s.i <= Len(data) => s.i \in 1..Len(data)
        BY <1>2, <1>3
      <4> QED
        BY <1>3, <2>2, <2>3, <4>1
    <3>2. \A j \in 1..Len(data) : data[j].rem # rem
      <4> SUFFICES ASSUME NEW j \in 1..Len(data) PROVE data[j].rem # rem
        OBVIOUS
      <4>1. CASE j \in 1..s.i - 1
        BY <1>3, <1>5, <2>2, <4>1
      <4>2. CASE j = s.i
        BY <1>3, <2>2, <3>1, <4>2
      <4>3. CASE s.i < j
        <5>1. s.i \in 1..Len(data) /\ rem < data[s.i].rem
          BY <1>2, <1>3, <3>1, <4>3
        <5>2. data[s.i].rem < data[j].rem
          BY <1>4, <4>3, <5>1
        <5> QED
          BY <1>3, <2>2, <5>1, <5>2
      <4> QED
        BY <1>2, <4>1, <4>2, <4>3
    <3>3. f[rem] = 0
      BY <1>6a, <2>2, <3>2
    <3> QED
      BY <3>1, <3>3
  <2>4. same => s.i \in 1..Len(data) /\ data[s.i].bal = f[rem]
    BY <1>2, <1>3, <1>6
  <2>5. bal = h[rem] /\ (~same => h[rem] # 0)
    <3>1. f[rem] \in Int /\ g[rem] \in Int /\ h[rem] = f[rem] + g[rem]
      BY <1>6, <2>2
    <3> HIDE DEF same, rem
    <3> QED
      BY <2>2, <2>3, <2>4, <3>1
  <2>6. Passes(s, i1, s.k + 1, rem, data, keys)
    <3>1. s.i + 1 # s.i /\ s.k + 1 # s.k
      BY <1>2
    <3> QED
      BY <1>2, <1>3, <2>2, <2>3, <3>1 DEF Passes
  <2>7. c1 = s.change + (IF h[rem] = 0 THEN 0 ELSE 1) - (i1 - s.i)
    <3> HIDE DEF bal, rem, same
    <3>1. CASE same
      BY <1>2, <2>5, <3>1
    <3>2. CASE ~same
      BY <1>2, <2>5, <3>2
    <3> QED
      BY <3>1, <3>2
  <2>8. out1 = PutOut(s.out, rem, h)
    BY <2>5 DEF PutOut
  <2>9. Merging([i |-> i1, k |-> s.k + 1, out |-> PutOut(s.out, rem, h),
                 change |-> s.change + (IF h[rem] = 0 THEN 0 ELSE 1) - (i1 - s.i)], n + 1, data, keys, h)
    BY <2>6, Passed
  <2> QED
    BY <2>1, <2>7, <2>8, <2>9
<1>9. CASE ~TakesData(s, data, keys) /\ ~TakesKey(s, data, keys)
  <2>1. MergeStep(s, data, keys, m) = s
    BY <1>6b, <1>9
  <2>2. s.k > Len(keys)
    <3> SUFFICES ASSUME s.k <= Len(keys) PROVE FALSE
      BY <1>2, <1>3
    <3>1. s.i <= Len(data) /\ data[s.i].rem < keys[s.k][2]
      BY <1>9 DEF TakesKey
    <3> QED
      BY <1>9, <3>1 DEF TakesData
  <2>3. s.i > Len(data)
    BY <1>2, <1>3, <1>9, <2>2 DEF TakesData
  <2>4. s.i = Len(data) + 1 /\ s.k = Len(keys) + 1
    BY <1>1, <1>2, <1>3, <2>2, <2>3
  <2> QED
    BY <2>1, <2>4 DEF Merging
<1> QED
  BY <1>7, <1>8, <1>9

MergeStart == [i |-> 1, k |-> 1, out |-> <<>>, change |-> 0]

LEMMA MergeFolds ==
    ASSUME NEW data, NEW keys, NEW m, NEW f, NEW g, NEW h, Merges(data, keys, m, f, g, h)
    PROVE  LET n == Len(data) + Len(keys)
           IN  \E it : /\ it[1..0] = MergeStart
                       /\ \A k \in 1..n : it[1..k] = MergeStep(it[1..(k - 1)], data, keys, m)
                       /\ MergeShard(data, keys, m) = it[1..n]
<1> DEFINE n == Len(data) + Len(keys)
           s == [j \in 1..n |-> j]
           H == [i \in 1..n |-> [z \in MergeStates |-> MergeStep(z, data, keys, m)]]
           Folds(it) == it = [t \in SUBSET (1..n) |-> IF t = {} THEN MergeStart ELSE MergeStep(it[t \ {Max(t)}], data, keys, m)]
           it == CHOOSE it : it = [t \in SUBSET (1..n) |-> IF t = {} THEN MergeStart ELSE MergeStep(it[t \ {Max(t)}], data, keys, m)]
<1>0. n \in Nat
  BY MergeTypes
<1>1. DOMAIN s = 1..n
  OBVIOUS
<1>2. MergeStart \in MergeStates
  BY DEF MergeStart, MergeStates
<1>3. H \in [1..n -> [MergeStates -> MergeStates]]
  <2>1. \A z \in MergeStates : MergeStep(z, data, keys, m) \in MergeStates
    BY StepTakes
  <2> QED
    BY <2>1
<1> HIDE DEF n
<1>4. PICK a \in [SUBSET (1..n) -> MergeStates] : Along(a, H, MergeStart, n)
  <2> HIDE DEF H
  <2> QED
    BY <1>0, <1>2, <1>3, AlongExists
<1>5. ASSUME NEW t \in SUBSET (1..n), t # {}
      PROVE  H[Max(t)][a[t \ {Max(t)}]] = MergeStep(a[t \ {Max(t)}], data, keys, m)
  <2>1. Max(t) \in t
    <3>1. t \in SUBSET Nat /\ IsFiniteSet(t)
      <4>1. IsFiniteSet(1..n) /\ \A x \in 1..n : x \in Nat
        BY <1>0, FS_Interval
      <4> QED
        BY <4>1, FS_Subset
    <3> QED
      BY <1>5, <3>1, HighestIn
  <2>2. Max(t) \in 1..n /\ t \ {Max(t)} \in SUBSET (1..n)
    BY <2>1
  <2>3. a[t \ {Max(t)}] \in MergeStates
    BY <2>2
  <2> QED
    BY <2>2, <2>3
<1>6. Folds(a)
  <2> HIDE DEF H
  <2> QED
    BY <1>4, <1>5 DEF Along
<1>7. Folds(it)
  <2>1. \E b : Folds(b)
    BY <1>6
  <2> HIDE DEF H
  <2> QED
    BY <2>1
<1>8. MergeShard(data, keys, m) = it[1..n]
  BY <1>1 DEF MergeShard, FoldLeft, MapThenFoldSet, MergeStart, n
<1> HIDE DEF it
<1>9. \A t \in SUBSET (1..n) : it[t] = IF t = {} THEN MergeStart ELSE MergeStep(it[t \ {Max(t)}], data, keys, m)
  <2> DEFINE r == [t \in SUBSET (1..n) |-> IF t = {} THEN MergeStart ELSE MergeStep(it[t \ {Max(t)}], data, keys, m)]
  <2>1. it = r
    BY <1>7
  <2>2. \A t \in SUBSET (1..n) : r[t] = IF t = {} THEN MergeStart ELSE MergeStep(it[t \ {Max(t)}], data, keys, m)
    OBVIOUS
  <2> HIDE DEF r
  <2> QED
    BY <2>1, <2>2
<1>10. it[1..0] = MergeStart
  <2>1. 1..0 = {} /\ 1..0 \in SUBSET (1..n)
    OBVIOUS
  <2> QED
    BY <1>9, <2>1
<1>11. ASSUME NEW k \in 1..n PROVE it[1..k] = MergeStep(it[1..(k - 1)], data, keys, m)
  <2>1. 1..k \in SUBSET (1..n) /\ 1..k # {} /\ (1..k) \ {k} = 1..(k - 1) /\ Max(1..k) = k
    BY <1>0, UpToIs
  <2> QED
    BY <1>9, <2>1
<1> QED
  BY <1>8, <1>10, <1>11 DEF n

LEMMA MergeStarts ==
    ASSUME NEW data, NEW keys, NEW m, NEW f, NEW g, NEW h, Merges(data, keys, m, f, g, h)
    PROVE  Merging(MergeStart, 0, data, keys, h)
<1>1. Len(data) \in Nat /\ Len(keys) \in Nat
  BY MergeTypes
<1>2. MergeStart \in MergeStates
  BY DEF MergeStart, MergeStates
<1>3. MergeStart.i = 1 /\ MergeStart.k = 1 /\ MergeStart.out = <<>> /\ MergeStart.change = 0
  BY DEF MergeStart
<1>4. Len(<<>>) = 0 /\ 1..0 = {} /\ 1..1 - 1 = {}
  OBVIOUS
<1>5. Ascends(<<>>) /\ Fits(<<>>, h)
  BY <1>4 DEF Ascends, Fits
<1>6. Behind(MergeStart, data, keys)
  BY <1>3, <1>4 DEF Behind
<1>7. ASSUME NEW r \in Nat, h[r] # 0
      PROVE  (\E j \in 1..Len(data) : data[j].rem = r) \/ (\E j \in 1..Len(keys) : keys[j][2] = r)
  <2>1. f[r] \in Int /\ g[r] \in Int /\ h[r] = f[r] + g[r]
    BY DEF Merges
  <2>2. f[r] # 0 \/ g[r] # 0
    BY <1>7, <2>1
  <2>3. f[r] # 0 => \E j \in 1..Len(data) : data[j].rem = r
    BY DEF Merges, ListOf
  <2>4. g[r] # 0 => \E j \in 1..Len(keys) : keys[j][2] = r
    BY DEF Merges, KeysOf
  <2> QED
    BY <2>2, <2>3, <2>4
<1>8. MergeStart.change = Len(MergeStart.out) - (MergeStart.i - 1) /\ 0 + 2 <= MergeStart.i + MergeStart.k
  BY <1>3, <1>4
<1> QED
  BY <1>1, <1>2, <1>3, <1>5, <1>6, <1>7, <1>8 DEF Merging

\* A merged shard lists the sums of what it held and of what changed; its change is the
\* change of its length.
LEMMA MergeIs ==
    ASSUME NEW data, NEW keys, NEW m, NEW f, NEW g, NEW h, Merges(data, keys, m, f, g, h)
    PROVE  /\ ListOf(MergeShard(data, keys, m).out, h)
           /\ MergeShard(data, keys, m).change = Len(MergeShard(data, keys, m).out) - Len(data)
<1> DEFINE n == Len(data) + Len(keys)
<1>0. Len(data) \in Nat /\ Len(keys) \in Nat /\ n \in Nat
  BY MergeTypes
<1>1. PICK it : /\ it[1..0] = MergeStart
                /\ \A k \in 1..n : it[1..k] = MergeStep(it[1..(k - 1)], data, keys, m)
                /\ MergeShard(data, keys, m) = it[1..n]
  BY MergeFolds
<1> DEFINE P(k) == Merging(it[1..k], k, data, keys, h)
           N == {k \in Nat : k <= n => P(k)}
<1> HIDE DEF n
<1>2. 0 \in N
  BY <1>1, MergeStarts
<1>3. ASSUME NEW k \in N PROVE k + 1 \in N
  <2> SUFFICES ASSUME k + 1 <= n PROVE P(k + 1)
    <3> HIDE DEF P
    <3> QED
      OBVIOUS
  <2>1. k \in Nat /\ k + 1 \in 1..n /\ (k + 1) - 1 = k /\ k <= n
    BY <1>0, <1>3
  <2>2. it[1..(k + 1)] = MergeStep(it[1..k], data, keys, m)
    BY <1>1, <2>1
  <2>3. Merging(it[1..k], k, data, keys, h)
    BY <1>3, <2>1
  <2>4. Merging(MergeStep(it[1..k], data, keys, m), k + 1, data, keys, h)
    BY <2>1, <2>3, MergeTurn
  <2> QED
    BY <2>2, <2>4
<1>4. N = Nat
  <2>1. N \in SUBSET Nat
    OBVIOUS
  <2> HIDE DEF N
  <2> QED
    BY <1>2, <1>3, <2>1, EveryNumber
<1>5. P(n)
  <2>1. n \in N
    BY <1>0, <1>4
  <2> HIDE DEF P
  <2> QED
    BY <1>0, <2>1
<1> DEFINE s == MergeShard(data, keys, m)
<1>6. Merging(s, n, data, keys, h)
  BY <1>1, <1>5
<1> HIDE DEF s
<1>7. /\ s.i \in Nat /\ s.k \in Nat /\ s.out \in Seq(ShardEntries) /\ s.i <= Len(data) + 1 /\ s.k <= Len(keys) + 1
      /\ n + 2 <= s.i + s.k \/ (s.i = Len(data) + 1 /\ s.k = Len(keys) + 1)
      /\ s.change = Len(s.out) - (s.i - 1) /\ Ascends(s.out) /\ Fits(s.out, h)
      /\ \A r \in Nat : h[r] # 0 => \/ \E j \in 1..Len(s.out) : s.out[j].rem = r
                                    \/ \E j \in s.i..Len(data) : data[j].rem = r
                                    \/ \E j \in s.k..Len(keys) : keys[j][2] = r
  BY <1>6 DEF Merging, MergeStates
<1>8. s.i = Len(data) + 1 /\ s.k = Len(keys) + 1
  <2> DEFINE si == s.i
             sk == s.k
             nd == Len(data)
             nk == Len(keys)
  <2>1. /\ si \in Nat /\ sk \in Nat /\ nd \in Nat /\ nk \in Nat /\ si <= nd + 1 /\ sk <= nk + 1
        /\ (nd + nk) + 2 <= si + sk \/ (si = nd + 1 /\ sk = nk + 1)
    BY <1>0, <1>7 DEF n
  <2> HIDE DEF si, sk, nd, nk
  <2>2. si = nd + 1 /\ sk = nk + 1
    BY <2>1
  <2> QED
    BY <2>2 DEF si, sk, nd, nk
<1>9. s.change = Len(s.out) - Len(data)
  <2>1. Len(s.out) \in Nat
    BY <1>7
  <2>2. (Len(data) + 1) - 1 = Len(data)
    BY <1>0
  <2> QED
    BY <1>7, <1>8, <2>2
<1>10. \A r \in Nat : h[r] # 0 => \E j \in 1..Len(s.out) : s.out[j].rem = r
  <2>1. s.i..Len(data) = {} /\ s.k..Len(keys) = {}
    BY <1>0, <1>8
  <2> QED
    BY <1>7, <2>1
<1>11. ListOf(s.out, h)
  BY <1>7, <1>10 DEF ListOf
<1> QED
  BY <1>9, <1>11 DEF s

-----------------------------------------------------------------------------
(* A flush: the shards it touches, and the number of their entries.        *)

\* flush sorts the keys of a shard.
LEMMA InOrderIs ==
    ASSUME NEW S, IsFiniteSet(S), \A x \in S : x[2] \in Nat, \A x, y \in S : x[2] = y[2] => x = y
    PROVE  LET q == InOrder(S)
           IN  /\ q \in Seq(S) /\ \A i, j \in 1..Len(q) : i < j => q[i][2] < q[j][2]
               /\ \A x \in S : \E j \in 1..Len(q) : q[j] = x
<1> DEFINE n == Cardinality(S)
           R == {p \in S \X S : p[1][2] < p[2][2]}
           Orders(s) == \A i, j \in DOMAIN s : i < j => s[i][2] < s[j][2]
<1>1. n \in Nat
  BY FS_CardinalityType
<1>4. \A a, b \in S : <<a, b>> \in R <=> a[2] < b[2]
  OBVIOUS
<1> HIDE DEF R
<1>5. \A a \in S : <<a, a>> \notin R
  BY <1>4
<1>6. \A a, b \in S : a # b => <<a, b>> \in R \/ <<b, a>> \in R
  BY <1>4
<1>7. \A a, b, c \in S : <<a, b>> \in R /\ <<b, c>> \in R => <<a, c>> \in R
  BY <1>4
<1>8. PICK s \in [1..Cardinality(S) -> S] : \A i, j \in 1..Cardinality(S) : i < j => s[i] # s[j] /\ <<s[i], s[j]>> \in R
  BY <1>5, <1>6, <1>7, ListedInOrder
<1>9. s \in SetToSeqs(S) /\ Orders(s)
  <2>0. DOMAIN s = 1..n /\ \A i \in 1..n : s[i] \in S
    OBVIOUS
  <2>1. \A i, j \in 1..n : i # j => s[i] # s[j]
    <3> HIDE DEF n
    <3>1. \A i, j \in 1..n : i # j => i < j \/ j < i
      BY <1>1
    <3> QED
      BY <1>8, <3>1 DEF n
  <2>2. s \in SetToSeqs(S)
    BY <2>1 DEF SetToSeqs
  <2>3. \A i, j \in 1..n : i < j => s[i][2] < s[j][2]
    <3> HIDE DEF n
    <3> QED
      BY <1>4, <1>8, <2>0 DEF n
  <2> HIDE DEF n
  <2> QED
    BY <2>0, <2>2, <2>3
<1> DEFINE q == CHOOSE x \in SetToSeqs(S) : Orders(x)
<1>10. InOrder(S) = q
  BY DEF InOrder
<1>11. q \in SetToSeqs(S) /\ Orders(q)
  <2>1. \E x \in SetToSeqs(S) : Orders(x)
    BY <1>9
  <2> HIDE DEF Orders
  <2> QED
    BY <2>1
<1> HIDE DEF q
<1>12. q \in [1..n -> S] /\ \A i, j \in 1..n : i # j => q[i] # q[j]
  BY <1>11 DEF SetToSeqs
<1>13. q \in Seq(S) /\ DOMAIN q = 1..n /\ Len(q) = n
  <2> HIDE DEF n
  <2> QED
    BY <1>1, <1>12
<1>14. \A i, j \in 1..n : i < j => q[i][2] < q[j][2]
  BY <1>11, <1>13
<1>15. \A x \in S : \E j \in 1..n : q[j] = x
  <2> HIDE DEF n
  <2>1. q \in Injection(1..n, S)
    BY <1>12 DEF Injection, IsInjective
  <2>2. IsFiniteSet(1..n) /\ Cardinality(1..n) = n
    BY <1>1, FS_Interval
  <2>3. q \in Surjection(1..n, S)
    BY <2>1, <2>2, FS_Injection DEF n
  <2> QED
    BY <2>3 DEF Surjection
<1> QED
  BY <1>10, <1>13, <1>14, <1>15

\* What is gathered of a shard's addresses, by the rest of their slots.
ShardChange(m, i) == [r \in Nat |-> ChangeOf(m, <<i, r>>)]

\* The keys of a shard with a change, in order: all of them, once.
LEMMA KeysRight ==
    ASSUME NEW m \in BalMaps, NEW i \in Nat
    PROVE  KeysOf(KeysIn(m, i), m, ShardChange(m, i)) /\ ShardChange(m, i) \in [Nat -> Int]
<1> DEFINE S == {k \in DOMAIN m : k[1] = i /\ m[k] # 0}
           keys == KeysIn(m, i)
           g == ShardChange(m, i)
<1>1. /\ IsFiniteSet(DOMAIN m) /\ (\A x \in DOMAIN m : m[x] \in Int)
      /\ \A x \in DOMAIN m : x \in Nat \X Nat
  BY ScanType DEF BalMaps, AddrKeys
<1>2. IsFiniteSet(S)
  BY <1>1, FS_Subset
<1>3. \A x \in S : x \in DOMAIN m /\ x[2] \in Nat /\ x = <<i, x[2]>> /\ m[x] # 0
  BY <1>1
<1>4. keys = InOrder(S)
  BY DEF KeysIn
<1>4a. \A r \in Nat : <<i, r>> \in DOMAIN m /\ m[<<i, r>>] # 0 => <<i, r>> \in S
  OBVIOUS
<1> HIDE DEF S, keys
<1>5. /\ keys \in Seq(S) /\ \A a, b \in 1..Len(keys) : a < b => keys[a][2] < keys[b][2]
      /\ \A x \in S : \E j \in 1..Len(keys) : keys[j] = x
  BY <1>2, <1>3, <1>4, InOrderIs
<1>6. keys \in Seq(Nat \X Nat)
  <2>1. \A x \in S : x \in Nat \X Nat
    BY <1>1, <1>3
  <2> QED
    BY <1>5, <2>1
<1>7. \A r \in Nat : g[r] = ChangeOf(m, <<i, r>>) /\ g[r] \in Int
  BY <1>1 DEF ShardChange, ChangeOf
<1>7a. g \in [Nat -> Int]
  BY <1>7 DEF ShardChange
<1> HIDE DEF g
<1>8. ASSUME NEW j \in 1..Len(keys) PROVE m[keys[j]] = g[keys[j][2]] /\ g[keys[j][2]] # 0
  <2>1. keys[j] \in S
    BY <1>5
  <2> DEFINE x == keys[j]
  <2>2. x \in DOMAIN m /\ x[2] \in Nat /\ x = <<i, x[2]>> /\ m[x] # 0
    BY <1>3, <2>1
  <2> HIDE DEF x
  <2>3. g[x[2]] = ChangeOf(m, x)
    BY <1>7, <2>2
  <2>4. g[x[2]] = m[x]
    BY <2>2, <2>3 DEF ChangeOf
  <2> QED
    BY <2>2, <2>4 DEF x
<1>9. ASSUME NEW r \in Nat, g[r] # 0 PROVE \E j \in 1..Len(keys) : keys[j][2] = r
  <2>1. <<i, r>> \in DOMAIN m /\ m[<<i, r>>] # 0
    BY <1>7, <1>9 DEF ChangeOf
  <2>2. PICK j \in 1..Len(keys) : keys[j] = <<i, r>>
    BY <1>4a, <1>5, <2>1
  <2> QED
    BY <2>2
<1>10. KeysOf(keys, m, g)
  BY <1>5, <1>6, <1>8, <1>9 DEF KeysOf
<1> QED
  BY <1>7a, <1>10 DEF keys, g

\* What a shard's addresses hold after block t, by the rest of their slots.
AddrAt(x) == CHOOSE a \in Payees : Slot[a] = x
HeldAt(i, t) == [r \in Nat |-> IF <<i, r>> \in AddrKeys THEN Holds(AddrAt(<<i, r>>), t) ELSE 0]

ListsRight == \A i \in Nat : ListOf(ShardNow(i), HeldAt(i, balPlace))
\* Every shard lists what its addresses hold as of the cursor, and none is empty.
StoredRight ==
    /\ IsFiniteSet(DOMAIN shards) /\ DOMAIN shards \subseteq Nat
    /\ \A i \in DOMAIN shards : shards[i] # <<>>
    /\ ListsRight

LEMMA AddrAtIs == ASSUME NEW x \in AddrKeys PROVE AddrAt(x) \in Payees /\ Slot[AddrAt(x)] = x
BY DEF AddrAt, AddrKeys

\* What was held, and what was gathered since.
LEMMA HeldGrows ==
    ASSUME NEW m, NEW s \in -1..ChainTop, NEW t \in -1..ChainTop, s <= t, ChangesOf(m, TxsIn(s + 1, t)), NEW i \in Nat
    PROVE  /\ HeldAt(i, s) \in [Nat -> Int] /\ HeldAt(i, t) \in [Nat -> Int]
           /\ \A r \in Nat : HeldAt(i, t)[r] = HeldAt(i, s)[r] + ShardChange(m, i)[r]
<1>0. \A a : Holds(a, s) \in Int /\ Holds(a, t) \in Int
  BY HoldsIs
<1>1. HeldAt(i, s) \in [Nat -> Int] /\ HeldAt(i, t) \in [Nat -> Int]
  <2>1. \A r \in Nat : (IF <<i, r>> \in AddrKeys THEN Holds(AddrAt(<<i, r>>), s) ELSE 0) \in Int
    BY <1>0
  <2>2. \A r \in Nat : (IF <<i, r>> \in AddrKeys THEN Holds(AddrAt(<<i, r>>), t) ELSE 0) \in Int
    BY <1>0
  <2> QED
    BY <2>1, <2>2 DEF HeldAt
<1>2. ASSUME NEW r \in Nat PROVE HeldAt(i, t)[r] = HeldAt(i, s)[r] + ShardChange(m, i)[r]
  <2> DEFINE x == <<i, r>>
             a == AddrAt(x)
  <2>1. ShardChange(m, i)[r] = ChangeOf(m, x)
    BY DEF ShardChange
  <2>2. CASE x \in AddrKeys
    <3>1. a \in Payees /\ Slot[a] = x
      BY <2>2, AddrAtIs
    <3>2. HeldAt(i, t)[r] = Holds(a, t) /\ HeldAt(i, s)[r] = Holds(a, s)
      BY <2>2 DEF HeldAt
    <3>3. ChangeOf(m, x) = Balance(WholeOf(a, TxsIn(s + 1, t)))
      BY <3>1 DEF ChangesOf
    <3>4. Holds(a, t) = Holds(a, s) + Balance(WholeOf(a, TxsIn(s + 1, t)))
      BY HoldsOn
    <3> QED
      BY <2>1, <3>2, <3>3, <3>4
  <2>3. CASE x \notin AddrKeys
    <3>1. HeldAt(i, t)[r] = 0 /\ HeldAt(i, s)[r] = 0
      BY <2>3 DEF HeldAt
    <3>2. DOMAIN m \subseteq AddrKeys
      BY DEF ChangesOf, BalMaps
    <3>3. ChangeOf(m, x) = 0
      BY <2>3, <3>2 DEF ChangeOf
    <3> QED
      BY <2>1, <3>1, <3>3
  <2> QED
    BY <2>2, <2>3
<1> QED
  BY <1>1, <1>2

\* A shard that a flush touches.
ShardMerged(i) == MergeShard(ShardNow(i), KeysIn(gathered, i), gathered)

LEMMA MergedIs ==
    ASSUME StoredRight, ChangesOf(gathered, TxsIn(balPlace + 1, holding)),
           balPlace \in -1..ChainTop, holding \in -1..ChainTop, balPlace <= holding, NEW i \in Nat
    PROVE  /\ ListOf(ShardMerged(i).out, HeldAt(i, holding))
           /\ ShardMerged(i).change = Len(ShardMerged(i).out) - Len(ShardNow(i))
           /\ Len(ShardMerged(i).out) \in Nat /\ Len(ShardNow(i)) \in Nat
<1> DEFINE f == HeldAt(i, balPlace)
           g == ShardChange(gathered, i)
           h == HeldAt(i, holding)
           data == ShardNow(i)
           keys == KeysIn(gathered, i)
<1>1. gathered \in BalMaps
  BY DEF ChangesOf
<1>2. KeysOf(keys, gathered, g) /\ g \in [Nat -> Int]
  BY <1>1, KeysRight
<1>3. f \in [Nat -> Int] /\ \A r \in Nat : h[r] = f[r] + g[r]
  BY HeldGrows
<1>4. ListOf(data, f)
  BY DEF StoredRight, ListsRight
<1>5. ShardMerged(i) = MergeShard(data, keys, gathered)
  BY DEF ShardMerged
<1> HIDE DEF f, g, h, data, keys
<1>6. Merges(data, keys, gathered, f, g, h)
  BY <1>2, <1>3, <1>4 DEF Merges
<1>7. /\ ListOf(MergeShard(data, keys, gathered).out, h)
      /\ MergeShard(data, keys, gathered).change = Len(MergeShard(data, keys, gathered).out) - Len(data)
  BY <1>6, MergeIs
<1>8. ListOf(ShardMerged(i).out, h) /\ ShardMerged(i).change = Len(ShardMerged(i).out) - Len(data)
  BY <1>5, <1>7
<1>9. ShardMerged(i).out \in Seq(ShardEntries) /\ data \in Seq(ShardEntries)
  BY <1>4, <1>8 DEF ListOf
<1>10. Len(ShardMerged(i).out) \in Nat /\ Len(data) \in Nat
  BY <1>9
<1> QED
  BY <1>8, <1>10 DEF h, data

\* A shard that a flush does not touch.
LEMMA Untouched ==
    ASSUME StoredRight, ChangesOf(gathered, TxsIn(balPlace + 1, holding)),
           balPlace \in -1..ChainTop, holding \in -1..ChainTop, balPlace <= holding,
           NEW i \in Nat, i \notin DOMAIN shards, \A k \in DOMAIN gathered : k[1] # i
    PROVE  ListOf(<<>>, HeldAt(i, holding))
<1> DEFINE f == HeldAt(i, balPlace)
           g == ShardChange(gathered, i)
           h == HeldAt(i, holding)
<1>1. f \in [Nat -> Int] /\ \A r \in Nat : h[r] = f[r] + g[r]
  BY HeldGrows, ZenonT(60)
<1>2. ListOf(<<>>, f)
  <2>1. ShardNow(i) = <<>>
    BY DEF ShardNow
  <2>2. ListOf(ShardNow(i), f)
    BY DEF StoredRight, ListsRight
  <2> QED
    BY <2>1, <2>2
<1>3. \A r \in Nat : g[r] = 0
  <2> TAKE r \in Nat
  <2>1. <<i, r>> \notin DOMAIN gathered
    OBVIOUS
  <2>2. g[r] = ChangeOf(gathered, <<i, r>>)
    BY DEF ShardChange
  <2> QED
    BY <2>1, <2>2 DEF ChangeOf
<1> HIDE DEF f, g, h
<1>4. Len(<<>>) = 0 /\ 1..0 = {} /\ <<>> \in Seq(ShardEntries)
  OBVIOUS
<1>5. \A r \in Nat : f[r] = 0
  BY <1>2, <1>4 DEF ListOf
<1>6. \A r \in Nat : h[r] = 0
  BY <1>1, <1>3, <1>5
<1>7. Ascends(<<>>) /\ Fits(<<>>, h)
  BY <1>4 DEF Ascends, Fits
<1>8. ListOf(<<>>, h)
  BY <1>4, <1>6, <1>7 DEF ListOf
<1> QED
  BY <1>8 DEF h

LEMMA EntriesIs == ASSUME IsFiniteSet(DOMAIN shards) PROVE Entries = SumOn([i \in DOMAIN shards |-> Len(shards[i])], DOMAIN shards)
BY DEF Entries, SumFunction, SumFunctionOnSet, SumOn

\* After a flush the shards are right as of its height, and the count is theirs.
LEMMA FlushRight ==
    ASSUME StoredRight, ChangesOf(gathered, TxsIn(balPlace + 1, holding)),
           balPlace \in -1..ChainTop, holding \in -1..ChainTop, balPlace <= holding, FlushBalances
    PROVE  StoredRight' /\ Entries' = Entries + change' /\ change' \in Int /\ Entries \in Int
<1> DEFINE D == DOMAIN shards \cup {k[1] : k \in DOMAIN gathered}
           merged == [i \in D |-> ShardMerged(i)]
           B == {j \in D : merged[j].out # <<>>}
           u == [i \in D |-> Len(ShardMerged(i).out)]
           v == [i \in D |-> Len(ShardNow(i))]
           w == [i \in D |-> ShardMerged(i).change]
<1>1. /\ shards' = [i \in B |-> merged[i].out]
      /\ change' = SumFunction([i \in D |-> merged[i].change])
      /\ balPlace' = holding
  BY DEF FlushBalances, ShardMerged
<1>2. IsFiniteSet(D) /\ D \subseteq Nat
  <2>1. gathered \in BalMaps
    BY DEF ChangesOf
  <2>2. IsFiniteSet(DOMAIN gathered) /\ \A k \in DOMAIN gathered : k \in Nat \X Nat
    BY <2>1, ScanType DEF BalMaps, AddrKeys
  <2> DEFINE p == [k \in DOMAIN gathered |-> k[1]]
  <2>3. {k[1] : k \in DOMAIN gathered} = {p[k] : k \in DOMAIN gathered}
    OBVIOUS
  <2>4. {k[1] : k \in DOMAIN gathered} \subseteq Nat
    BY <2>2
  <2> HIDE DEF p
  <2>5. IsFiniteSet({p[k] : k \in DOMAIN gathered})
    BY <2>2, ImageFinite
  <2>6. IsFiniteSet({k[1] : k \in DOMAIN gathered})
    BY <2>3, <2>5
  <2> QED
    BY <2>4, <2>6, FS_Union DEF StoredRight
<1>3. \A i \in D : merged[i] = ShardMerged(i)
  OBVIOUS
<1>4. \A i \in Nat : /\ ListOf(ShardMerged(i).out, HeldAt(i, holding))
                     /\ ShardMerged(i).change = Len(ShardMerged(i).out) - Len(ShardNow(i))
                     /\ Len(ShardMerged(i).out) \in Nat /\ Len(ShardNow(i)) \in Nat
  BY MergedIs
<1>5. B \subseteq D /\ IsFiniteSet(B) /\ DOMAIN shards' = B /\ \A i \in B : shards'[i] = ShardMerged(i).out /\ shards'[i] # <<>>
  <2>1. B \subseteq D
    OBVIOUS
  <2>2. IsFiniteSet(B)
    BY <1>2, <2>1, FS_Subset
  <2>3. DOMAIN shards' = B /\ \A i \in B : shards'[i] = merged[i].out
    BY <1>1
  <2>4. \A i \in B : merged[i].out # <<>>
    OBVIOUS
  <2> HIDE DEF B, D
  <2> QED
    BY <1>3, <2>1, <2>2, <2>3, <2>4
<1>6. \A i \in D : i \in B <=> ShardMerged(i).out # <<>>
  OBVIOUS
<1>7. \A i \in Nat : i \notin D => ListOf(<<>>, HeldAt(i, holding))
  <2> TAKE i \in Nat
  <2> HAVE i \notin D
  <2>1. i \notin DOMAIN shards /\ \A k \in DOMAIN gathered : k[1] # i
    OBVIOUS
  <2> HIDE DEF D
  <2> QED
    BY <2>1, Untouched
<1>8. DOMAIN shards \subseteq D
  OBVIOUS
<1>8a. DOMAIN u = D /\ DOMAIN v = D /\ DOMAIN w = D /\ \A i \in D : u[i] = Len(ShardMerged(i).out) /\ v[i] = Len(ShardNow(i)) /\ w[i] = ShardMerged(i).change
  OBVIOUS
<1>8b. change' = SumOn(w, D)
  <2>1. change' = SumFunction(w)
    BY <1>1
  <2> HIDE DEF w
  <2> QED
    BY <1>8a, <2>1 DEF SumFunction, SumFunctionOnSet, SumOn
<1> HIDE DEF D, B, merged, u, v, w
<1>9. StoredRight'
  <2>1. \A i \in Nat : ListOf((ShardNow(i))', HeldAt(i, holding))
    <3> TAKE i \in Nat
    <3>0. (ShardNow(i))' = IF i \in DOMAIN shards' THEN shards'[i] ELSE <<>>
      BY DEF ShardNow
    <3>1. CASE i \in B
      <4>1. (ShardNow(i))' = ShardMerged(i).out
        BY <1>5, <3>0, <3>1
      <4> QED
        BY <1>4, <4>1
    <3>2. CASE i \in D /\ i \notin B
      <4>1. (ShardNow(i))' = <<>> /\ ShardMerged(i).out = <<>>
        BY <1>5, <1>6, <3>0, <3>2
      <4> QED
        BY <1>4, <4>1
    <3>3. CASE i \notin D
      <4>1. (ShardNow(i))' = <<>>
        BY <1>5, <3>0, <3>3
      <4> QED
        BY <1>7, <3>3, <4>1
    <3> QED
      BY <3>1, <3>2, <3>3
  <2>2. ListsRight'
    <3>1. \A i \in Nat : (HeldAt(i, balPlace))' = HeldAt(i, holding)
      BY <1>1 DEF HeldAt, AddrAt, Holds, Received, Spent, TxsIn, Amount, TxOf, BlockOf, To
    <3> QED
      BY <2>1, <3>1 DEF ListsRight
  <2> QED
    BY <1>2, <1>5, <2>2 DEF StoredRight
<1>10. SumOn(u, D) = SumOn(v, D) + SumOn(w, D) /\ SumOn(w, D) \in Int /\ SumOn(v, D) \in Int
  <2>1. \A x \in D : v[x] \in Int /\ w[x] \in Int /\ u[x] = v[x] + w[x]
    <3> TAKE x \in D
    <3>1. x \in Nat
      BY <1>2
    <3>2. w[x] = u[x] - v[x] /\ u[x] \in Nat /\ v[x] \in Nat
      BY <1>4, <1>8a, <3>1
    <3> QED
      BY <3>2
  <2>2. AddUp(u, v, w, D)
    BY <2>1 DEF AddUp
  <2>3. SumOn(u, D) = SumOn(v, D) + SumOn(w, D)
    BY <1>2, <2>2, SumPlus
  <2>4. SumOn(w, D) \in Int /\ SumOn(v, D) \in Int
    BY <1>2, <2>1, SumInt
  <2> QED
    BY <2>3, <2>4
<1>11. Entries = SumOn(v, D)
  <2> DEFINE S == DOMAIN shards
             z == [i \in S |-> Len(shards[i])]
  <2>1. IsFiniteSet(S)
    BY DEF StoredRight
  <2>2. Entries = SumOn(z, S)
    BY <2>1, EntriesIs
  <2>3. \A i \in S : v[i] = z[i]
    BY <1>8, <1>8a DEF ShardNow
  <2>4. \A i \in D \ S : v[i] = 0
    <3> TAKE i \in D \ S
    <3>1. ShardNow(i) = <<>>
      BY DEF ShardNow
    <3> QED
      BY <1>8a, <3>1
  <2>5. \A i \in D : v[i] \in Int
    BY <1>2, <1>4, <1>8a
  <2> HIDE DEF S, z
  <2>6. SumOn(v, S) = SumOn(z, S)
    BY <2>1, <2>3, SumSame
  <2>7. SumOn(v, D) = SumOn(v, S)
    BY <1>2, <1>8, <2>4, <2>5, SumNoughts DEF S
  <2> QED
    BY <2>2, <2>6, <2>7
<1>12. Entries' = SumOn(u, D)
  <2> DEFINE z == [i \in B |-> Len(shards'[i])]
  <2>0. Entries' = SumFunction(z)
    BY <1>5 DEF Entries
  <2>2. Entries' = SumOn(z, B)
    <3>1. DOMAIN z = B
      OBVIOUS
    <3> HIDE DEF z
    <3> QED
      BY <2>0, <3>1 DEF SumFunction, SumFunctionOnSet, SumOn
  <2>3. \A i \in B : u[i] = z[i]
    BY <1>5, <1>8a
  <2>4. \A i \in D \ B : u[i] = 0
    <3> TAKE i \in D \ B
    <3>1. ShardMerged(i).out = <<>>
      BY <1>6
    <3> QED
      BY <1>8a, <3>1
  <2>5. \A i \in D : u[i] \in Int
    BY <1>2, <1>4, <1>8a
  <2> HIDE DEF z
  <2>6. SumOn(u, B) = SumOn(z, B)
    BY <1>5, <2>3, SumSame
  <2>7. SumOn(u, D) = SumOn(u, B)
    BY <1>2, <1>5, <2>4, <2>5, SumNoughts
  <2> QED
    BY <2>2, <2>6, <2>7
<1> QED
  BY <1>8b, <1>9, <1>10, <1>11, <1>12

-----------------------------------------------------------------------------
(* scan: the slots that are queued, and those that it takes.               *)

\* The heights queued so far end before this one, and those taken before Upcoming.
Queued == IF producer = "acquire" THEN toQueue + 1 ELSE toQueue
Upcoming == Queued - Len(slots)
BalTypes ==
    /\ balStep \in {"idle", "range", "wait", "flush", "count"} /\ producer \in {"queue", "acquire", "ended"}
    /\ balPlace \in -1..ChainTop /\ target \in Int /\ lastOfScan \in Int /\ toQueue \in Int /\ holding \in Int
    /\ slots \in Seq(Int) /\ count \in Int /\ change \in Int /\ target <= ChainTop
\* The count is of the stored entries, but for the change a flush is about to add.
CountRight == (loaded => count + change = Entries) /\ (balStep # "count" => change = 0)
\* The slots are the heights that follow those taken, and the scan is where it says.
Queueing ==
    /\ balPlace < Upcoming /\ Queued <= lastOfScan + 1 /\ lastOfScan <= target /\ balPlace <= lastOfScan
    /\ \A j \in 1..Len(slots) : slots[j] = Upcoming + j - 1
    /\ producer = "ended" => toQueue = lastOfScan + 1 \/ expired
\* What is gathered is what the blocks taken since the cursor move.
Gathering ==
    /\ balStep = "range" => /\ ChangesOf(gathered, TxsIn(balPlace + 1, Upcoming - 1))
                            /\ Upcoming - 1 = lastOfScan => balPlace = lastOfScan
    /\ balStep = "wait" => /\ holding = Upcoming - 1 /\ balPlace < holding
                           /\ ChangesOf(gathered, TxsIn(balPlace + 1, holding - 1))
    /\ balStep = "flush" => /\ holding = Upcoming - 1 /\ balPlace < holding
                            /\ ChangesOf(gathered, TxsIn(balPlace + 1, holding))
    /\ balStep = "count" => balPlace = Upcoming - 1
\* After a chunk that the deadline cut short, nothing that is queued can be fetched any
\* more: the blocks left unread are never passed over by a merge.
Doomed ==
    /\ expired /\ balStep \in {"range", "wait"}
    /\ \A h \in DOMAIN fetch : fetch[h] \notin {"ok", "fetching"}
    /\ \A j \in 1..Len(slots) : slots[j] \in DOMAIN fetch
    /\ balStep = "wait" => holding \in DOMAIN fetch
BalInv == BalTypes /\ StoredRight /\ CountRight /\ (balStep # "idle" => Queueing /\ (Gathering \/ Doomed))

LEMMA NoChanges == ChangesOf(<<>>, {})
<1>1. <<>> \in BalMaps
  <2>1. <<>> \in [{} -> Int] /\ DOMAIN <<>> = {} /\ {} \in SUBSET AddrKeys
    OBVIOUS
  <2> QED
    BY <2>1, FS_EmptySet DEF BalMaps
<1>2. ASSUME NEW a \in Payees PROVE ChangeOf(<<>>, Slot[a]) = Balance(WholeOf(a, {}))
  <2>1. ChangeOf(<<>>, Slot[a]) = 0
    BY DEF ChangeOf
  <2>2. SumOn(Recvs(a), {}) = 0 /\ SumOn(Sents(a), {}) = 0
    BY SumEmpty
  <2> QED
    BY <2>1, <2>2 DEF Balance, WholeOf
<1> QED
  BY <1>1, <1>2 DEF ChangesOf

LEMMA HoldingsAre == ASSUME BalInv PROVE HoldingsOfChain
<1>0. /\ DOMAIN shards \subseteq Nat /\ \A i \in DOMAIN shards : shards[i] # <<>>
      /\ \A i \in Nat : ListOf(ShardNow(i), HeldAt(i, balPlace))
  BY DEF BalInv, StoredRight, ListsRight
<1>1. ASSUME NEW i \in DOMAIN shards
      PROVE  /\ i \in Nat /\ shards[i] \in Seq(ShardEntries) /\ Ascends(shards[i]) /\ Fits(shards[i], HeldAt(i, balPlace))
             /\ \A r \in Nat : HeldAt(i, balPlace)[r] # 0 => \E j \in 1..Len(shards[i]) : shards[i][j].rem = r
  <2>1. ShardNow(i) = shards[i] /\ i \in Nat
    BY <1>0 DEF ShardNow
  <2>2. ListOf(shards[i], HeldAt(i, balPlace))
    BY <1>0, <2>1
  <2> QED
    BY <2>1, <2>2 DEF ListOf
<1>2. ASSUME NEW i \in DOMAIN shards
      PROVE  shards[i] # <<>> /\ \A j \in 1..Len(shards[i]) - 1 : shards[i][j].rem < shards[i][j + 1].rem
  <2>1. shards[i] \in Seq(ShardEntries) /\ Ascends(shards[i])
    BY <1>1
  <2>2. Len(shards[i]) \in Nat
    BY <2>1
  <2>3. \A j \in 1..Len(shards[i]) - 1 : j \in 1..Len(shards[i]) /\ j + 1 \in 1..Len(shards[i]) /\ j < j + 1
    BY <2>2
  <2> QED
    BY <1>0, <2>1, <2>3 DEF Ascends
<1>3. ASSUME NEW i \in DOMAIN shards, NEW j \in 1..Len(shards[i])
      PROVE  \E a \in Payees : /\ Holds(a, balPlace) # 0
                               /\ <<i, shards[i][j].rem, shards[i][j].bal>> = <<Slot[a][1], Slot[a][2], Holds(a, balPlace)>>
  <2> DEFINE e == shards[i][j]
             x == <<i, e.rem>>
  <2>1. e \in ShardEntries /\ e.bal = HeldAt(i, balPlace)[e.rem] /\ e.bal # 0
    BY <1>1 DEF Fits
  <2>2. e.rem \in Nat
    BY <2>1 DEF ShardEntries
  <2> HIDE DEF e
  <2>3. e.bal = IF x \in AddrKeys THEN Holds(AddrAt(x), balPlace) ELSE 0
    BY <2>1, <2>2 DEF HeldAt
  <2>4. x \in AddrKeys /\ e.bal = Holds(AddrAt(x), balPlace)
    BY <2>1, <2>3
  <2>5. AddrAt(x) \in Payees /\ Slot[AddrAt(x)] = x
    BY <2>4, AddrAtIs
  <2>6. <<i, e.rem, e.bal>> = <<Slot[AddrAt(x)][1], Slot[AddrAt(x)][2], Holds(AddrAt(x), balPlace)>> /\ Holds(AddrAt(x), balPlace) # 0
    BY <2>1, <2>4, <2>5
  <2> QED
    BY <2>5, <2>6 DEF e
<1>4. ASSUME NEW a \in Payees, Holds(a, balPlace) # 0
      PROVE  \E i \in DOMAIN shards : \E j \in 1..Len(shards[i]) :
                 <<i, shards[i][j].rem, shards[i][j].bal>> = <<Slot[a][1], Slot[a][2], Holds(a, balPlace)>>
  <2> DEFINE i == Slot[a][1]
             r == Slot[a][2]
  <2>1. i \in Nat /\ r \in Nat /\ Slot[a] = <<i, r>> /\ <<i, r>> \in AddrKeys
    BY ScanType DEF AddrKeys
  <2>2. AddrAt(<<i, r>>) = a
    <3>1. AddrAt(<<i, r>>) \in Payees /\ Slot[AddrAt(<<i, r>>)] = <<i, r>>
      BY <2>1, AddrAtIs
    <3> QED
      BY <2>1, <3>1, SlotsApart
  <2> HIDE DEF i, r
  <2>3. HeldAt(i, balPlace)[r] = Holds(a, balPlace)
    BY <2>1, <2>2 DEF HeldAt
  <2>4. i \in DOMAIN shards
    <3> SUFFICES ASSUME i \notin DOMAIN shards PROVE FALSE
      OBVIOUS
    <3>1. ShardNow(i) = <<>> /\ Len(<<>>) = 0
      BY DEF ShardNow
    <3>2. ListOf(<<>>, HeldAt(i, balPlace))
      BY <1>0, <2>1, <3>1
    <3>3. \E j \in 1..0 : TRUE
      BY <1>4, <2>1, <2>3, <3>1, <3>2 DEF ListOf
    <3> QED
      BY <3>3
  <2>5. PICK j \in 1..Len(shards[i]) : shards[i][j].rem = r
    BY <1>1, <1>4, <2>1, <2>3, <2>4
  <2>6. shards[i][j].bal = HeldAt(i, balPlace)[r]
    BY <1>1, <2>4, <2>5 DEF Fits
  <2>7. <<i, shards[i][j].rem, shards[i][j].bal>> = <<Slot[a][1], Slot[a][2], Holds(a, balPlace)>>
    BY <2>1, <2>3, <2>5, <2>6
  <2> QED
    BY <2>4, <2>7
<1>5. UNION {{<<i, e.rem, e.bal>> : e \in ToSet(shards[i])} : i \in DOMAIN shards} =
           {<<Slot[a][1], Slot[a][2], Holds(a, balPlace)>> : a \in {b \in Payees : Holds(b, balPlace) # 0}}
  <2> DEFINE L == UNION {{<<i, e.rem, e.bal>> : e \in ToSet(shards[i])} : i \in DOMAIN shards}
             R == {<<Slot[a][1], Slot[a][2], Holds(a, balPlace)>> : a \in {b \in Payees : Holds(b, balPlace) # 0}}
  <2>1. \A i \in DOMAIN shards : ToSet(shards[i]) = {shards[i][j] : j \in 1..Len(shards[i])}
    <3> TAKE i \in DOMAIN shards
    <3>1. DOMAIN shards[i] = 1..Len(shards[i])
      BY <1>1
    <3> QED
      BY <3>1 DEF ToSet
  <2>2. \A y : y \in L <=> \E i \in DOMAIN shards : \E j \in 1..Len(shards[i]) : y = <<i, shards[i][j].rem, shards[i][j].bal>>
    BY <2>1
  <2>3. \A y : y \in R <=> \E a \in Payees : Holds(a, balPlace) # 0 /\ y = <<Slot[a][1], Slot[a][2], Holds(a, balPlace)>>
    OBVIOUS
  <2> HIDE DEF L, R
  <2>4. \A y : y \in L => y \in R
    BY <1>3, <2>2, <2>3
  <2>5. \A y : y \in R => y \in L
    BY <1>4, <2>2, <2>3
  <2>6. L = R
    BY <2>4, <2>5
  <2> QED
    BY <2>6 DEF L, R
<1>6. loaded => count + change = Entries
  BY DEF BalInv, CountRight
<1> QED
  BY <1>2, <1>5, <1>6 DEF HoldingsOfChain

LEMMA BalStarts == BalInit => BalInv
<1> SUFFICES ASSUME BalInit PROVE BalInv
  OBVIOUS
<1> USE DEF BalInit
<1>1. BalTypes
  BY ChainIs DEF BalTypes
<1>2. DOMAIN shards = {}
  OBVIOUS
<1>3. ListsRight
  <2> SUFFICES ASSUME NEW i \in Nat PROVE ListOf(<<>>, HeldAt(i, -1))
    BY <1>2 DEF ListsRight, ShardNow
  <2>1. \A a : Holds(a, -1) = 0
    <3>1. -1 \in -1..ChainTop
      BY ChainIs
    <3> QED
      BY <3>1, HoldsIs
  <2>2. \A r \in Nat : HeldAt(i, -1)[r] = 0
    BY <2>1 DEF HeldAt
  <2>3. <<>> \in Seq(ShardEntries) /\ Len(<<>>) = 0 /\ 1..0 = {}
    OBVIOUS
  <2> QED
    BY <2>2, <2>3 DEF ListOf, Ascends, Fits
<1>4. StoredRight
  BY <1>2, <1>3, FS_EmptySet DEF StoredRight
<1>5. CountRight
  BY DEF CountRight
<1> QED
  BY <1>1, <1>4, <1>5 DEF BalInv

\* The variables that a step which does not flush leaves as they are.
LEMMA ListsStay == ASSUME UNCHANGED <<shards, balPlace>> PROVE StoredRight' = StoredRight /\ Entries' = Entries
BY DEF StoredRight, ListsRight, ShardNow, HeldAt, AddrAt, Entries, Holds, Received, Spent, TxsIn, Amount, TxOf, BlockOf, To

LEMMA ScanStarts ==
    ASSUME NEW from \in Int, NEW to \in Int, from = balPlace + 1 \/ (balPlace < from /\ expired'),
           balPlace \in -1..ChainTop, to <= ChainTop, NextScan(from, to), balPlace' = balPlace, target' = to
    PROVE  /\ balStep' \in {"idle", "range"} /\ producer' \in {"queue", "ended"}
           /\ slots' \in Seq(Int) /\ toQueue' \in Int /\ lastOfScan' \in Int /\ holding' \in Int
           /\ balStep' # "idle" => Queueing' /\ (Gathering' \/ Doomed')
<1>0. balPlace \in Int /\ BalChunk \in Nat \ {0} /\ ChainTop \in Int
  BY BalType, ChainIs
<1>1. gathered' = <<>> /\ holding' = -1 /\ slots' = <<>> /\ toQueue' = from
  BY DEF NextScan
<1>2. CASE from > to
  BY <1>1, <1>2 DEF NextScan
<1>3. CASE ~(from > to)
  <2>1. balStep' = "range" /\ producer' = "queue" /\ lastOfScan' = Min({from + BalChunk - 1, to})
    BY <1>3 DEF NextScan
  <2>2. lastOfScan' \in Int /\ lastOfScan' <= to /\ from <= lastOfScan'
    <3>1. from + BalChunk - 1 \in Int /\ from <= from + BalChunk - 1
      BY <1>0
    <3>2. Min({from + BalChunk - 1, to}) = IF from + BalChunk - 1 <= to THEN from + BalChunk - 1 ELSE to
      BY <3>1, MinOfTwo
    <3> QED
      BY <1>3, <2>1, <3>1, <3>2
  <2>3. Queued' = from /\ Upcoming' = from /\ Len(slots') = 0
    BY <1>1, <2>1 DEF Queued, Upcoming
  <2>4. Queueing'
    BY <1>0, <1>1, <2>1, <2>2, <2>3 DEF Queueing
  <2>5. ASSUME from = balPlace + 1 PROVE ChangesOf(<<>>, TxsIn(balPlace + 1, from - 1))
    <3>1. TxsIn(balPlace + 1, from - 1) = {}
      BY <1>0, <2>5, TxsNone
    <3> QED
      BY <3>1, NoChanges
  <2>5a. slots' \in Seq(Int)
    BY <1>1
  <2>6. CASE from = balPlace + 1
    <3>1. (ChangesOf(gathered, TxsIn(balPlace + 1, Upcoming - 1)))' = ChangesOf(<<>>, TxsIn(balPlace + 1, from - 1))
      BY <1>1, <2>3 DEF ChangesOf, TxsIn, BlockOf, Balance, WholeOf, Recvs, Sents, Names, Spends, Fees, FirstOf, LastOf, DatesOf
    <3>2. Upcoming' - 1 # lastOfScan'
      <4>1. from - 1 # lastOfScan'
        BY <2>2
      <4> QED
        BY <2>3, <4>1
    <3>3. Gathering'
      BY <2>1, <2>5, <2>6, <3>1, <3>2 DEF Gathering
    <3> QED
      BY <1>1, <2>1, <2>2, <2>4, <2>5a, <3>3
  <2>7. CASE expired'
    <3>1. fetch' = <<>> /\ DOMAIN fetch' = {}
      BY DEF NextScan
    <3>2. Doomed'
      BY <2>1, <2>3, <2>7, <3>1 DEF Doomed
    <3> QED
      BY <1>1, <2>1, <2>2, <2>4, <2>5a, <3>2
  <2> QED
    BY <2>6, <2>7
<1> QED
  BY <1>2, <1>3

LEMMA BalUpdateKeeps == ASSUME BalInv, NEW tip \in 0..ChainTop + Confirmations, BalUpdate(tip) PROVE BalInv'
<1>0. BalTypes /\ StoredRight /\ CountRight
  BY DEF BalInv
<1>1. UNCHANGED <<shards, balPlace, change>> /\ balStep = "idle"
  BY DEF BalUpdate
<1>2. StoredRight' /\ Entries' = Entries
  BY <1>0, <1>1, ListsStay
<1>3. balPlace \in -1..ChainTop /\ balPlace \in Int
  BY <1>0, ChainIs DEF BalTypes
<1>4. target' = tip - Confirmations /\ target' \in Int /\ target' <= ChainTop
  BY BalType, ChainIs DEF BalUpdate
<1>5. NextScan(balPlace + 1, target')
  BY DEF BalUpdate
<1>6. /\ balStep' \in {"idle", "range"} /\ producer' \in {"queue", "ended"}
      /\ slots' \in Seq(Int) /\ toQueue' \in Int /\ lastOfScan' \in Int /\ holding' \in Int
      /\ balStep' # "idle" => Queueing' /\ (Gathering' \/ Doomed')
  <2> DEFINE from == balPlace + 1
             to == target'
  <2>1. from \in Int /\ to \in Int /\ from = balPlace + 1 /\ to <= ChainTop /\ NextScan(from, to) /\ balPlace' = balPlace /\ target' = to
    BY <1>1, <1>3, <1>4, <1>5
  <2> HIDE DEF from, to
  <2> QED
    BY <1>3, <2>1, ScanStarts
<1>7. loaded' = TRUE /\ count' = (IF loaded THEN count ELSE Entries)
  BY DEF BalUpdate
<1>8. Entries \in Int
  <2>1. IsFiniteSet(DOMAIN shards)
    BY <1>0 DEF StoredRight
  <2>2. \A i \in DOMAIN shards : [j \in DOMAIN shards |-> Len(shards[j])][i] \in Int
    <3> TAKE i \in DOMAIN shards
    <3>1. shards[i] \in Seq(ShardEntries)
      BY <1>0 DEF StoredRight, ListsRight, ListOf, ShardNow
    <3> QED
      BY <3>1
  <2> QED
    BY <2>1, <2>2, EntriesIs, SumInt
<1>9. CountRight'
  <2>1. change = 0 /\ (loaded => count + change = Entries) /\ count \in Int
    BY <1>0, <1>1 DEF CountRight, BalTypes
  <2> QED
    BY <1>1, <1>2, <1>7, <1>8, <2>1 DEF CountRight
<1>10. BalTypes'
  BY <1>0, <1>1, <1>3, <1>4, <1>6, <1>7, <1>8 DEF BalTypes
<1> QED
  BY <1>2, <1>6, <1>9, <1>10 DEF BalInv

LEMMA GatheringThen ==
    ASSUME balStep' = "range" => /\ ChangesOf(gathered', TxsIn(balPlace' + 1, Upcoming' - 1))
                                 /\ Upcoming' - 1 = lastOfScan' => balPlace' = lastOfScan',
           balStep' = "wait" => /\ holding' = Upcoming' - 1 /\ balPlace' < holding'
                                /\ ChangesOf(gathered', TxsIn(balPlace' + 1, holding' - 1)),
           balStep' = "flush" => /\ holding' = Upcoming' - 1 /\ balPlace' < holding'
                                 /\ ChangesOf(gathered', TxsIn(balPlace' + 1, holding')),
           balStep' = "count" => balPlace' = Upcoming' - 1
    PROVE  Gathering'
<1>1. /\ (ChangesOf(gathered, TxsIn(balPlace + 1, Upcoming - 1)))' = ChangesOf(gathered', TxsIn(balPlace' + 1, Upcoming' - 1))
      /\ (ChangesOf(gathered, TxsIn(balPlace + 1, holding - 1)))' = ChangesOf(gathered', TxsIn(balPlace' + 1, holding' - 1))
      /\ (ChangesOf(gathered, TxsIn(balPlace + 1, holding)))' = ChangesOf(gathered', TxsIn(balPlace' + 1, holding'))
  BY DEF ChangesOf, TxsIn, BlockOf, Balance, WholeOf, Recvs, Sents, Names, Spends, Fees, FirstOf, LastOf, DatesOf
<1> QED
  BY <1>1 DEF Gathering

\* A step that moves no slot past the scan.
LEMMA QueueKeeps ==
    ASSUME BalInv, UNCHANGED <<stored, balStep, target, lastOfScan, gathered, holding, change>>,
           producer' \in {"queue", "acquire", "ended"}, toQueue' \in Int, slots' \in Seq(Int),
           balStep # "idle" => Queueing' /\ Upcoming' = Upcoming /\ (Doomed => Doomed')
    PROVE  BalInv'
<1>1. UNCHANGED <<shards, balPlace, count, loaded, balStep, target, lastOfScan, gathered, holding, change>>
  BY DEF stored
<1>2. StoredRight' /\ Entries' = Entries
  BY <1>1, ListsStay DEF BalInv
<1>3. BalTypes' /\ CountRight'
  BY <1>1, <1>2 DEF BalInv, BalTypes, CountRight
<1>4. ASSUME balStep' # "idle" PROVE Queueing' /\ (Gathering' \/ Doomed')
  <2>1. (Gathering \/ Doomed') /\ Upcoming' = Upcoming /\ Queueing'
    BY <1>1, <1>4 DEF BalInv
  <2>2. CASE Gathering
    <3>1. Gathering'
      BY <1>1, <2>1, <2>2, GatheringThen DEF Gathering
    <3> QED
      BY <2>1, <3>1
  <2> QED
    BY <2>1, <2>2
<1> QED
  BY <1>2, <1>3, <1>4 DEF BalInv

LEMMA QueueSlotKeeps == ASSUME BalInv, QueueSlot PROVE BalInv'
<1>0. /\ UNCHANGED <<stored, balStep, target, lastOfScan, gathered, holding, change>> /\ producer = "queue"
      /\ UNCHANGED <<balPlace, lastOfScan, target, expired>>
  BY DEF QueueSlot, Scanner, stored
<1>1. toQueue \in Int /\ slots \in Seq(Int) /\ Len(slots) \in Nat /\ lastOfScan \in Int /\ balPlace \in Int
  <2>1. toQueue \in Int /\ slots \in Seq(Int) /\ lastOfScan \in Int /\ balPlace \in Int
    BY ChainIs DEF BalInv, BalTypes
  <2> QED
    BY <2>1
<1>2. Queued = toQueue /\ Upcoming = toQueue - Len(slots)
  BY <1>0 DEF Queued, Upcoming
<1>3. CASE producer' = "ended" /\ UNCHANGED <<slots, fetch, toQueue>> /\ (toQueue > lastOfScan \/ Cancelled \/ expired)
  <2>1. Queued' = toQueue /\ Upcoming' = Upcoming
    BY <1>2, <1>3 DEF Queued, Upcoming
  <2>2. ASSUME balStep # "idle" PROVE Queueing'
    <3>1. Queueing /\ (toQueue > lastOfScan \/ expired)
      BY <1>3, <2>2 DEF BalInv, Cancelled
    <3>2. toQueue = lastOfScan + 1 \/ expired
      BY <1>1, <1>2, <3>1 DEF Queueing
    <3> QED
      BY <1>0, <1>2, <1>3, <2>1, <3>1, <3>2 DEF Queueing
  <2>3. Doomed => Doomed'
    BY <1>0, <1>3 DEF Doomed
  <2> QED
    BY <1>0, <1>1, <1>3, <2>1, <2>2, <2>3, QueueKeeps
<1>4. CASE /\ toQueue <= lastOfScan /\ slots' = Append(slots, toQueue) /\ producer' = "acquire" /\ UNCHANGED toQueue
           /\ fetch' = [h \in DOMAIN fetch \cup {toQueue} |-> IF h = toQueue THEN "waiting" ELSE fetch[h]]
  <2>1. Len(slots') = Len(slots) + 1 /\ slots' \in Seq(Int) /\ slots'[Len(slots) + 1] = toQueue
        /\ \A j \in 1..Len(slots) : slots'[j] = slots[j]
    BY <1>1, <1>4
  <2>2. Queued' = toQueue + 1
    BY <1>4 DEF Queued
  <2>3. Upcoming' = Upcoming
    <3>1. Upcoming' = (toQueue + 1) - (Len(slots) + 1)
      BY <2>1, <2>2 DEF Upcoming
    <3> QED
      BY <1>1, <1>2, <3>1
  <2>4. ASSUME balStep # "idle" PROVE Queueing'
    <3>1. Queueing
      BY <2>4 DEF BalInv
    <3>2. \A j \in 1..Len(slots') : slots'[j] = Upcoming' + j - 1
      <4> SUFFICES ASSUME NEW j \in 1..(Len(slots) + 1) PROVE slots'[j] = Upcoming + j - 1
        BY <2>1, <2>3
      <4>1. CASE j \in 1..Len(slots)
        BY <2>1, <3>1, <4>1 DEF Queueing
      <4>2. CASE j = Len(slots) + 1
        <5>1. slots'[j] = toQueue /\ Upcoming + j - 1 = toQueue
          BY <1>1, <1>2, <2>1, <4>2
        <5> QED
          BY <5>1
      <4> QED
        BY <1>1, <4>1, <4>2
    <3>3. Queued' <= lastOfScan' + 1
      BY <1>0, <1>1, <1>4, <2>2
    <3> QED
      BY <1>0, <1>4, <2>3, <3>1, <3>2, <3>3 DEF Queueing
  <2>5. ASSUME Doomed PROVE Doomed'
    <3>1. \A h \in DOMAIN fetch' : fetch'[h] \notin {"ok", "fetching"}
      BY <1>4, <2>5 DEF Doomed
    <3>2. \A j \in 1..Len(slots') : slots'[j] \in DOMAIN fetch'
      <4> SUFFICES ASSUME NEW j \in 1..(Len(slots) + 1) PROVE slots'[j] \in DOMAIN fetch'
        BY <2>1
      <4>1. CASE j \in 1..Len(slots)
        BY <1>4, <2>1, <2>5, <4>1 DEF Doomed
      <4>2. CASE j = Len(slots) + 1
        BY <1>4, <2>1, <4>2
      <4> QED
        BY <1>1, <4>1, <4>2
    <3>3. balStep = "wait" => holding \in DOMAIN fetch'
      BY <1>4, <2>5 DEF Doomed
    <3>4. expired' /\ balStep' \in {"range", "wait"}
      BY <1>0, <2>5 DEF Doomed
    <3> QED
      BY <1>0, <3>1, <3>2, <3>3, <3>4 DEF Doomed
  <2> QED
    BY <1>0, <1>1, <1>4, <2>1, <2>3, <2>4, <2>5, QueueKeeps
<1> QED
  BY <1>3, <1>4 DEF QueueSlot

LEMMA StartFetchKeeps == ASSUME BalInv, StartFetch PROVE BalInv'
<1>0. /\ UNCHANGED <<stored, balStep, target, lastOfScan, gathered, holding, change>> /\ producer = "acquire"
      /\ UNCHANGED <<balPlace, lastOfScan, target, slots, expired>> /\ producer' = "queue" /\ toQueue' = toQueue + 1
  BY DEF StartFetch, Scanner, stored
<1>1. toQueue \in Int /\ slots \in Seq(Int)
  BY DEF BalInv, BalTypes
<1>2. Queued' = Queued /\ Upcoming' = Upcoming
  BY <1>0 DEF Queued, Upcoming
<1>3. balStep # "idle" => Queueing'
  BY <1>0, <1>2 DEF BalInv, Queueing
<1>4. Doomed => Doomed'
  <2>1. expired => DOMAIN fetch' = DOMAIN fetch /\ \A h \in DOMAIN fetch : fetch'[h] = IF h = toQueue THEN "late" ELSE fetch[h]
    BY DEF StartFetch
  <2> QED
    BY <1>0, <2>1 DEF Doomed
<1> QED
  BY <1>0, <1>1, <1>2, <1>3, <1>4, QueueKeeps

LEMMA FetchEndsKeeps == ASSUME BalInv, NEW h, FetchEnds(h) PROVE BalInv'
<1>0. /\ UNCHANGED <<stored, balStep, target, lastOfScan, gathered, holding, change>>
      /\ UNCHANGED <<balPlace, lastOfScan, target, slots, producer, toQueue, expired>>
  BY DEF FetchEnds, Scanner, stored
<1>1. toQueue' \in Int /\ slots' \in Seq(Int) /\ producer' \in {"queue", "acquire", "ended"}
  BY <1>0 DEF BalInv, BalTypes
<1>2. Queued' = Queued /\ Upcoming' = Upcoming
  BY <1>0 DEF Queued, Upcoming
<1>3. balStep # "idle" => Queueing'
  BY <1>0, <1>2 DEF BalInv, Queueing
<1>4. Doomed => Doomed'
  <2>1. h \in DOMAIN fetch /\ (fetch[h] # "fetching" => fetch' = [fetch EXCEPT ![h] = "failed"])
    BY DEF FetchEnds, Fetching
  <2> QED
    BY <1>0, <2>1 DEF Doomed
<1> QED
  BY <1>0, <1>1, <1>2, <1>3, <1>4, QueueKeeps

\* The deadline finds a pass that has left out nothing.
LEMMA ExpiresKeeps == ASSUME BalInv, Expires PROVE BalInv'
<1>0. /\ UNCHANGED <<stored, balStep, target, lastOfScan, gathered, holding, change>> /\ ~expired
      /\ UNCHANGED <<balPlace, lastOfScan, target, slots, producer, toQueue>>
  BY DEF Expires, Scanner, scanning, stored
<1>1. toQueue' \in Int /\ slots' \in Seq(Int) /\ producer' \in {"queue", "acquire", "ended"}
  BY <1>0 DEF BalInv, BalTypes
<1>2. Queued' = Queued /\ Upcoming' = Upcoming
  BY <1>0 DEF Queued, Upcoming
<1>3. balStep # "idle" => Queueing'
  BY <1>0, <1>2 DEF BalInv, Queueing
<1>4. ~Doomed
  BY <1>0 DEF Doomed
<1> QED
  BY <1>0, <1>1, <1>2, <1>3, <1>4, QueueKeeps

\* A step to where no scan runs.
LEMMA IdleKeeps ==
    ASSUME BalInv, UNCHANGED <<shards, balPlace, target, lastOfScan>>, balStep' = "idle",
           producer' \in {"queue", "acquire", "ended"}, toQueue' \in Int, slots' \in Seq(Int), holding' \in Int,
           change' = 0, count' \in Int, loaded' => loaded /\ count' = count /\ change = 0
    PROVE  BalInv'
<1>1. StoredRight' /\ Entries' = Entries
  BY ListsStay DEF BalInv
<1>2. BalTypes' /\ CountRight'
  BY <1>1 DEF BalInv, BalTypes, CountRight
<1> QED
  BY <1>1, <1>2 DEF BalInv

LEMMA FlushFailsKeeps == ASSUME BalInv, FlushFails PROVE BalInv'
<1>1. /\ UNCHANGED <<shards, balPlace, target, lastOfScan, count, loaded, producer, toQueue, slots, holding, change>>
      /\ balStep = "flush" /\ balStep' = "idle"
  BY DEF FlushFails, stored, scanning
<1>2. change = 0 /\ producer \in {"queue", "acquire", "ended"} /\ toQueue \in Int /\ slots \in Seq(Int) /\ holding \in Int /\ count \in Int
  BY <1>1 DEF BalInv, BalTypes, CountRight
<1> QED
  BY <1>1, <1>2, IdleKeeps

LEMMA BalCrashKeeps == ASSUME BalInv, BalCrash PROVE BalInv'
<1>1. /\ UNCHANGED <<shards, balPlace, target, lastOfScan, toQueue>> /\ balStep' = "idle" /\ loaded' = FALSE /\ count' = 0
      /\ slots' = <<>> /\ producer' = "ended" /\ holding' = -1 /\ change' = 0
  BY DEF BalCrash
<1>2. toQueue \in Int /\ <<>> \in Seq(Int)
  BY DEF BalInv, BalTypes
<1> QED
  BY <1>1, <1>2, IdleKeeps

LEMMA TakeSlotKeeps == ASSUME BalInv, TakeSlot PROVE BalInv'
<1>0. /\ UNCHANGED <<shards, balPlace, count, loaded, target, change, expired>> /\ balStep = "range"
      /\ BalTypes /\ StoredRight /\ CountRight /\ Queueing /\ (Gathering \/ Doomed)
  BY DEF TakeSlot, BalInv
<1>1. StoredRight' /\ Entries' = Entries
  BY <1>0, ListsStay
<1>2. /\ toQueue \in Int /\ slots \in Seq(Int) /\ lastOfScan \in Int /\ balPlace \in Int /\ target \in Int
      /\ balPlace \in -1..ChainTop /\ target <= ChainTop /\ producer \in {"queue", "acquire", "ended"}
  BY <1>0, ChainIs DEF BalTypes
<1>2a. Len(slots) \in Nat /\ Queued \in Int /\ Upcoming \in Int /\ Upcoming = Queued - Len(slots)
  BY <1>2 DEF Queued, Upcoming
<1>2b. CountRight'
  BY <1>0, <1>1 DEF CountRight
<1>3. CASE /\ slots # <<>> /\ holding' = Head(slots) /\ slots' = Tail(slots) /\ balStep' = "wait"
           /\ UNCHANGED <<caughtUp, lastOfScan, fetch, producer, toQueue, gathered>>
  <2>1. /\ Len(slots') = Len(slots) - 1 /\ slots' \in Seq(Int) /\ holding' = slots[1] /\ 1 \in 1..Len(slots)
        /\ Len(slots) >= 1 /\ \A j \in 1..Len(slots) - 1 : slots'[j] = slots[j + 1] /\ j + 1 \in 1..Len(slots)
    BY <1>2, <1>3
  <2>2. Queued' = Queued
    BY <1>3 DEF Queued
  <2>3. Upcoming' = Upcoming + 1
    <3>1. Upcoming' = Queued - (Len(slots) - 1)
      BY <2>1, <2>2 DEF Upcoming
    <3> QED
      BY <1>2a, <3>1
  <2>4. holding' = Upcoming
    <3>1. slots[1] = Upcoming + 1 - 1
      BY <1>0, <2>1 DEF Queueing
    <3> QED
      BY <1>2a, <2>1, <3>1
  <2>5. Queueing'
    <3>1. \A j \in 1..Len(slots') : slots'[j] = Upcoming' + j - 1
      <4> SUFFICES ASSUME NEW j \in 1..Len(slots) - 1 PROVE slots'[j] = (Upcoming + 1) + j - 1
        BY <2>1, <2>3
      <4>1. slots'[j] = slots[j + 1] /\ slots[j + 1] = Upcoming + (j + 1) - 1 /\ j \in Int
        BY <1>0, <1>2a, <2>1 DEF Queueing
      <4> QED
        BY <1>2a, <4>1
    <3>2. balPlace < Upcoming'
      BY <1>0, <1>2, <1>2a, <2>3 DEF Queueing
    <3> QED
      BY <1>0, <1>3, <2>2, <3>1, <3>2 DEF Queueing
  <2>6. ASSUME Gathering PROVE Gathering'
    <3>1. holding' = Upcoming' - 1 /\ balPlace < Upcoming /\ holding' - 1 = Upcoming - 1
      BY <1>0, <1>2, <1>2a, <2>3, <2>4 DEF Queueing
    <3>2. ChangesOf(gathered, TxsIn(balPlace + 1, Upcoming - 1))
      BY <1>0, <2>6 DEF Gathering
    <3> QED
      BY <1>0, <1>3, <2>4, <3>1, <3>2, GatheringThen
  <2>7. BalTypes'
    BY <1>0, <1>2a, <1>3, <2>1, <2>4 DEF BalTypes
  <2>8. ASSUME Doomed PROVE Doomed'
    <3>1. \A j \in 1..Len(slots') : slots'[j] \in DOMAIN fetch'
      BY <1>3, <2>1, <2>8 DEF Doomed
    <3>2. holding' \in DOMAIN fetch'
      BY <1>3, <2>1, <2>8 DEF Doomed
    <3>3. expired' /\ balStep' \in {"range", "wait"} /\ fetch' = fetch
      BY <1>0, <1>3, <2>8 DEF Doomed
    <3> QED
      BY <2>8, <3>1, <3>2, <3>3 DEF Doomed
  <2> QED
    BY <1>0, <1>1, <1>2b, <2>5, <2>6, <2>7, <2>8 DEF BalInv
<1>4. CASE slots = <<>> /\ producer = "ended" /\ NextScan(lastOfScan + 1, target)
  <2>1. Len(slots) = 0 /\ (toQueue = lastOfScan + 1 \/ expired) /\ balPlace <= lastOfScan
    BY <1>0, <1>4 DEF Queueing
  <2>2. balPlace = lastOfScan \/ expired
    <3>1. CASE toQueue = lastOfScan + 1 /\ Gathering
      <4>1. Upcoming - 1 = lastOfScan
        BY <1>2, <1>2a, <1>4, <2>1, <3>1 DEF Queued
      <4> QED
        BY <1>0, <3>1, <4>1 DEF Gathering
    <3>2. CASE expired \/ Doomed
      BY <3>2 DEF Doomed
    <3> QED
      BY <1>0, <2>1, <3>1, <3>2
  <2> DEFINE from == lastOfScan + 1
             to == target
  <2>3. from \in Int /\ to \in Int /\ to <= ChainTop /\ NextScan(from, to) /\ balPlace' = balPlace /\ target' = to
        /\ (from = balPlace + 1 \/ (balPlace < from /\ expired'))
    BY <1>0, <1>2, <1>4, <2>1, <2>2
  <2> HIDE DEF from, to
  <2>4. /\ balStep' \in {"idle", "range"} /\ producer' \in {"queue", "ended"}
        /\ slots' \in Seq(Int) /\ toQueue' \in Int /\ lastOfScan' \in Int /\ holding' \in Int
        /\ balStep' # "idle" => Queueing' /\ (Gathering' \/ Doomed')
    BY <1>2, <2>3, ScanStarts
  <2>5. BalTypes'
    BY <1>0, <2>4 DEF BalTypes
  <2> QED
    BY <1>1, <1>2b, <2>4, <2>5 DEF BalInv
<1> QED
  BY <1>3, <1>4 DEF TakeSlot

LEMMA ReadSlotKeeps == ASSUME BalInv, ReadSlot PROVE BalInv'
<1>0. /\ UNCHANGED <<shards, balPlace, count, loaded, target, lastOfScan, slots, producer, toQueue, holding, change, expired>>
      /\ balStep = "wait" /\ BalTypes /\ StoredRight /\ CountRight /\ Queueing /\ (Gathering \/ Doomed)
  BY DEF ReadSlot, BalInv, stored, scanning
<1>1. StoredRight' /\ Entries' = Entries
  BY <1>0, ListsStay
<1>2. CASE fetch[holding] = "failed"
  <2>1. balStep' = "idle"
    BY <1>2 DEF ReadSlot
  <2>2. change = 0 /\ producer \in {"queue", "acquire", "ended"} /\ toQueue \in Int /\ slots \in Seq(Int) /\ holding \in Int /\ count \in Int
    BY <1>0 DEF BalTypes, CountRight
  <2> QED
    BY <1>0, <2>1, <2>2, IdleKeeps
<1>3. CASE fetch[holding] # "failed"
  <2>1. gathered' = Moved(gathered, BlockOf(holding)) /\ balStep' = (IF Full(gathered') \/ holding = lastOfScan THEN "flush" ELSE "range")
    BY <1>3 DEF ReadSlot
  <2>2. Queued' = Queued /\ Upcoming' = Upcoming
    BY <1>0 DEF Queued, Upcoming
  <2>3. holding = Upcoming - 1 /\ balPlace < holding /\ ChangesOf(gathered, TxsIn(balPlace + 1, holding - 1))
    <3>1. fetch[holding] = "ok"
      BY <1>3 DEF ReadSlot
    <3>2. ~Doomed
      BY <1>0, <3>1 DEF Doomed
    <3> QED
      BY <1>0, <3>2 DEF Gathering
  <2>4. /\ toQueue \in Int /\ slots \in Seq(Int) /\ lastOfScan \in Int /\ balPlace \in Int /\ target \in Int /\ holding \in Int
        /\ balPlace \in -1..ChainTop /\ target <= ChainTop /\ ChainTop \in Int /\ -1 <= balPlace
    BY <1>0, ChainIs DEF BalTypes
  <2>5. Len(slots) \in Nat /\ Queued \in Int /\ Upcoming \in Int /\ Upcoming = Queued - Len(slots)
    BY <2>4 DEF Queued, Upcoming
  <2>6. holding \in 0..ChainTop
    <3>1. Queued <= lastOfScan + 1 /\ lastOfScan <= target
      BY <1>0 DEF Queueing
    <3> QED
      BY <2>3, <2>4, <2>5, <3>1
  <2>7. ChangesOf(gathered', TxsIn(balPlace + 1, holding))
    <3> DEFINE T == TxsIn(balPlace + 1, holding - 1)
               U == TxsIn(holding, holding)
    <3>1. T \subseteq Pairs
      <4>1. balPlace + 1 \in Int /\ balPlace + 1 >= 0 /\ holding - 1 \in Int /\ holding - 1 <= ChainTop
        BY <2>4, <2>6
      <4> QED
        BY <4>1, TxsFinite
    <3>2. TxsIn(balPlace + 1, holding) = T \cup U /\ T \cap U = {}
      <4> DEFINE f == balPlace + 1
                 s == holding - 1
      <4>1. f \in Int /\ s \in Int /\ f <= s + 1 /\ s <= holding /\ s + 1 = holding
        BY <2>3, <2>4
      <4> HIDE DEF f, s
      <4>2. TxsIn(f, holding) = TxsIn(f, s) \cup TxsIn(s + 1, holding) /\ TxsIn(f, s) \cap TxsIn(s + 1, holding) = {}
        BY <2>4, <4>1, TxsFollow
      <4> QED
        BY <4>1, <4>2 DEF f, s
    <3>3. ChangesOf(gathered, T)
      BY <2>3
    <3> HIDE DEF T
    <3>4. ChangesOf(Moved(gathered, BlockOf(holding)), T \cup TxsIn(holding, holding))
      BY <2>6, <3>1, <3>2, <3>3, MovedIs
    <3> QED
      BY <2>1, <3>2, <3>4
  <2>8. Gathering'
    <3>1. holding' = Upcoming' - 1 /\ balPlace' < holding' /\ balPlace' = balPlace /\ lastOfScan' = lastOfScan /\ holding' = holding
      BY <1>0, <2>2, <2>3
    <3>2. ChangesOf(gathered', TxsIn(balPlace' + 1, holding'))
      BY <1>0, <2>7
    <3>3. ChangesOf(gathered', TxsIn(balPlace' + 1, Upcoming' - 1))
      BY <3>1, <3>2
    <3>4. balStep' = "range" => Upcoming' - 1 # lastOfScan'
      BY <2>1, <3>1
    <3>5. balStep' \in {"range", "flush"}
      BY <2>1
    <3> QED
      BY <3>1, <3>2, <3>3, <3>4, <3>5, GatheringThen
  <2>9. Queueing'
    BY <1>0, <2>2 DEF Queueing
  <2>10. BalTypes' /\ CountRight'
    BY <1>0, <1>1, <2>1 DEF BalTypes, CountRight
  <2> QED
    BY <1>1, <2>8, <2>9, <2>10 DEF BalInv
<1> QED
  BY <1>2, <1>3

LEMMA FlushBalancesKeeps == ASSUME BalInv, FlushBalances PROVE BalInv'
<1>0. /\ UNCHANGED <<count, loaded, target, lastOfScan, slots, producer, toQueue, gathered, holding, expired>>
      /\ balStep = "flush" /\ balPlace' = holding /\ balStep' = "count"
      /\ BalTypes /\ StoredRight /\ CountRight /\ Queueing /\ Gathering
  BY DEF FlushBalances, BalInv, Doomed, scanning
<1>1. holding = Upcoming - 1 /\ balPlace < holding /\ ChangesOf(gathered, TxsIn(balPlace + 1, holding))
  BY <1>0 DEF Gathering
<1>2. /\ toQueue \in Int /\ slots \in Seq(Int) /\ lastOfScan \in Int /\ balPlace \in Int /\ target \in Int /\ holding \in Int
      /\ balPlace \in -1..ChainTop /\ target <= ChainTop /\ ChainTop \in Int /\ -1 <= balPlace
  BY <1>0, ChainIs DEF BalTypes
<1>3. Len(slots) \in Nat /\ Queued \in Int /\ Upcoming \in Int /\ Upcoming = Queued - Len(slots)
  BY <1>2 DEF Queued, Upcoming
<1>4. holding \in -1..ChainTop /\ balPlace <= holding /\ holding <= lastOfScan
  <2>1. Queued <= lastOfScan + 1 /\ lastOfScan <= target
    BY <1>0 DEF Queueing
  <2> QED
    BY <1>1, <1>2, <1>3, <2>1
<1>5. StoredRight' /\ Entries' = Entries + change' /\ change' \in Int /\ Entries \in Int
  BY <1>0, <1>1, <1>2, <1>4, FlushRight
<1>6. Queued' = Queued /\ Upcoming' = Upcoming
  BY <1>0 DEF Queued, Upcoming
<1>7. Queueing'
  <2>1. holding < Upcoming
    BY <1>1, <1>3
  <2> QED
    BY <1>0, <1>4, <1>6, <2>1 DEF Queueing
<1>8. Gathering'
  BY <1>0, <1>1, <1>6, GatheringThen
<1>9. CountRight'
  <2>1. change = 0 /\ (loaded => count + change = Entries) /\ count \in Int
    BY <1>0 DEF CountRight, BalTypes
  <2> QED
    BY <1>0, <1>5, <2>1 DEF CountRight
<1>10. BalTypes'
  BY <1>0, <1>4, <1>5 DEF BalTypes
<1> QED
  BY <1>5, <1>7, <1>8, <1>9, <1>10 DEF BalInv

LEMMA AddChangeKeeps == ASSUME BalInv, AddChange PROVE BalInv'
<1>0. /\ UNCHANGED <<shards, balPlace, loaded, target, lastOfScan, slots, producer, toQueue, holding, expired>>
      /\ balStep = "count" /\ count' = count + change /\ change' = 0 /\ gathered' = <<>> /\ balStep' = "range"
      /\ BalTypes /\ StoredRight /\ CountRight /\ Queueing /\ Gathering
  BY DEF AddChange, BalInv, Doomed, scanning
<1>1. StoredRight' /\ Entries' = Entries
  BY <1>0, ListsStay
<1>2. Queued' = Queued /\ Upcoming' = Upcoming
  BY <1>0 DEF Queued, Upcoming
<1>3. balPlace = Upcoming - 1 /\ balPlace \in Int
  BY <1>0, ChainIs DEF Gathering, BalTypes
<1>4. ChangesOf(gathered', TxsIn(balPlace' + 1, Upcoming' - 1))
  <2>1. TxsIn(balPlace + 1, balPlace) = {}
    BY <1>3, TxsNone
  <2>2. ChangesOf(<<>>, TxsIn(balPlace + 1, balPlace))
    BY <2>1, NoChanges
  <2> QED
    BY <1>0, <1>2, <1>3, <2>2
<1>5. Gathering'
  BY <1>0, <1>2, <1>3, <1>4, GatheringThen
<1>6. Queueing'
  BY <1>0, <1>2 DEF Queueing
<1>7. count \in Int /\ change \in Int
  BY <1>0 DEF BalTypes
<1>8. CountRight'
  BY <1>0, <1>1, <1>7 DEF CountRight
<1>9. BalTypes'
  BY <1>0, <1>7 DEF BalTypes
<1> QED
  BY <1>1, <1>5, <1>6, <1>8, <1>9 DEF BalInv

LEMMA BalNextKeeps == ASSUME BalInv, [BalNext]_balVars PROVE BalInv'
<1>1. ASSUME UNCHANGED balVars PROVE BalInv'
  <2>1. UNCHANGED <<stored, balStep, target, lastOfScan, slots, fetch, producer, toQueue, gathered, holding, change, expired>>
    BY <1>1 DEF balVars, scanning
  <2>2. toQueue' \in Int /\ slots' \in Seq(Int) /\ producer' \in {"queue", "acquire", "ended"}
    BY <2>1 DEF BalInv, BalTypes
  <2>3. Queued' = Queued /\ Upcoming' = Upcoming
    BY <2>1 DEF Queued, Upcoming
  <2>4. balStep # "idle" => Queueing'
    BY <2>1, <2>3 DEF BalInv, Queueing, stored
  <2>5. Doomed => Doomed'
    BY <2>1 DEF Doomed
  <2> QED
    BY <2>1, <2>2, <2>3, <2>4, <2>5, QueueKeeps
<1>2. ASSUME BalNext PROVE BalInv'
  <2>1. CASE \E tip \in 0..ChainTop + Confirmations : BalUpdate(tip)
    BY <2>1, BalUpdateKeeps
  <2>2. CASE \E h \in 0..ChainTop : FetchEnds(h)
    BY <2>2, FetchEndsKeeps
  <2> QED
    BY <1>2, <2>1, <2>2, QueueSlotKeeps, StartFetchKeeps, TakeSlotKeeps, ReadSlotKeeps, FlushBalancesKeeps,
       AddChangeKeeps, ExpiresKeeps, FlushFailsKeeps, BalCrashKeeps DEF BalNext, BalStep
<1> QED
  BY <1>1, <1>2

\* For any chain, sizes of a chunk and of a flush and number of fetches, whatever
\* fails and wherever a pass stops or the process ends: every funded address is
\* in its shard once, in order, with what the chain says it holds as of the
\* cursor, and the count is the number of the entries (addrbal.go Update, scan,
\* flush, merge).
THEOREM HoldingsAreOfChain == BalSpec => []HoldingsOfChain
<1>1. BalInv => HoldingsOfChain
  BY HoldingsAre
<1>2. BalInv /\ [BalNext]_balVars => BalInv'
  BY BalNextKeeps
<1> QED
  BY <1>1, <1>2, BalStarts, PTL DEF BalSpec

-----------------------------------------------------------------------------
(* The parts together: a step is of one of them, and leaves the others     *)
(* where they are.                                                          *)

LEMMA StepOfPart ==
    [Next]_vars => \/ UNCHANGED priceVars
                   \/ RatesNext /\ UNCHANGED <<feesVars, poolVars, networkVars>>
                   \/ FeesNext /\ UNCHANGED <<ratesVars, poolVars, networkVars>>
                   \/ PoolNext /\ UNCHANGED <<ratesVars, feesVars, networkVars>>
                   \/ CardsNext /\ UNCHANGED <<ratesVars, feesVars, poolVars>>
<1>1. Next => \/ InStat \/ InBal \/ InIndex \/ InHistory
              \/ InRates /\ RatesNext
              \/ InFees /\ FeesNext
              \/ InFeed /\ PoolNext
              \/ InFlow /\ PoolNext
              \/ InCards /\ CardsNext
  BY Zenon DEF Next, InFeed, RatesNext, UpdaterStep, FeesNext, PoolNext, Refresher, Summer, CardsNext
<1>2. InStat \/ InBal \/ InIndex \/ InHistory => UNCHANGED priceVars
  BY DEF InStat, InBal, InIndex, InHistory, Only
<1>3. InRates => UNCHANGED <<feesVars, poolVars, networkVars>>
  BY DEF InRates, Only
<1>4. InFees => UNCHANGED <<ratesVars, poolVars, networkVars>>
  BY DEF InFees, Only
<1>5. InFeed \/ InFlow => UNCHANGED <<ratesVars, feesVars, networkVars>>
  BY DEF InFeed, InFlow, InPool, InSums, InPart, Only
<1>6. InCards => UNCHANGED <<ratesVars, feesVars, poolVars>>
  BY DEF InCards, Only
<1>7. UNCHANGED vars => UNCHANGED priceVars
  BY DEF vars
<1> QED
  BY <1>1, <1>2, <1>3, <1>4, <1>5, <1>6, <1>7, Zenon

LEMMA PartsRun == Spec => RatesSpec /\ FeesSpec /\ PoolSpec /\ CardsSpec
<1>1. Init => RatesInit /\ FeesInit /\ PoolInit /\ CardsInit
  BY DEF Init
<1>2. UNCHANGED priceVars => UNCHANGED ratesVars /\ UNCHANGED feesVars /\ UNCHANGED poolVars /\ UNCHANGED networkVars
  BY DEF priceVars
<1>3. [Next]_vars => [RatesNext]_ratesVars /\ [FeesNext]_feesVars /\ [PoolNext]_poolVars /\ [CardsNext]_networkVars
  BY <1>2, StepOfPart
<1> QED
  BY <1>1, <1>3, PTL DEF Spec, RatesSpec, FeesSpec, PoolSpec, CardsSpec

\* Whatever the chart, the sources and the node answer, in which order and with which
\* failures, for any sizes of a block, times of trust and windows: the rates and the
\* prices, the fees and the projected blocks, the mempool's count and flow and the funded
\* addresses are what their sources make them.
THEOREM FiguresAreOfSources == Spec => []FiguresOfSources
<1>1. Spec => [](NearestRate /\ RatesOfAnswers) /\ []BlocksOfMempool /\ []FeesNeverInvert
              /\ []CountOfNode /\ []FlowOfArrivals /\ []FundedIsShown
  BY PartsRun, RatesAreNearest, BlocksAreOfMempool, FeesAreOrdered, CountIsNodes, FlowIsOfAll, FundedShown, PTL
<1>2. PricePrinted
  BY PricesPrinted DEF PricePrinted
<1>3. NearestRate /\ RatesOfAnswers /\ BlocksOfMempool /\ FeesNeverInvert /\ CountOfNode /\ FlowOfArrivals /\ FundedIsShown
      => FiguresOfSources
  BY <1>2, Zenon DEF FiguresOfSources
<1> QED
  BY <1>1, <1>3, PTL

LEMMA ScansStep == [Next]_vars => [StatNext]_statVars /\ [BalNext]_balVars
<1>1. ASSUME InStat PROVE UNCHANGED balVars
  BY <1>1 DEF InStat, Only
<1>2. ASSUME InBal PROVE UNCHANGED statVars
  BY <1>2 DEF InBal, Only
<1>3. ASSUME InIndex \/ InHistory \/ InRates \/ InFees \/ InFeed \/ InFlow \/ InCards PROVE UNCHANGED statVars /\ UNCHANGED balVars
  BY <1>3 DEF InIndex, InHistory, InRates, InFees, InFeed, InFlow, InCards, InPool, InSums, InPart, Only, tableVars
<1>4. UNCHANGED vars => UNCHANGED statVars /\ UNCHANGED balVars
  BY DEF vars, tableVars
<1>5. ASSUME NEW t \in Tips PROVE t \in 0..ChainTop /\ t + Confirmations \in 0..ChainTop + Confirmations
  BY <1>5, TipsType, BalType, ChainIs
<1>6. Next => \/ InStat /\ StatNext
              \/ InBal /\ BalNext
              \/ InIndex \/ InHistory \/ InRates \/ InFees \/ InFeed \/ InFlow \/ InCards
  <2>1. (\E t \in Tips : StatUpdate(t)) => StatNext
    BY <1>5 DEF StatNext
  <2>2. (\E t \in Tips : BalUpdate(t + Confirmations)) => BalNext
    BY <1>5 DEF BalNext
  <2> QED
    BY <2>1, <2>2, ZenonT(40) DEF Next, StatNext, BalNext, BalStep, InFeed
<1> QED
  BY <1>1, <1>2, <1>3, <1>4, <1>6, Zenon

LEMMA ScansRun == Spec => StatSpec /\ BalSpec
<1>1. Init => StatInit /\ BalInit
  BY DEF Init
<1> QED
  BY <1>1, ScansStep, PTL DEF Spec, StatSpec, BalSpec

\* In the parts' specification too: the statistics, the lists drawn from them and
\* the balances are the chain's, in every state of a scan.
THEOREM TablesAreOfChain == Spec => []TablesOfChain
<1>1. StatsOfChain /\ RankedOnce /\ HoldingsOfChain => TablesOfChain
  BY DEF TablesOfChain
<1> QED
  BY <1>1, ScansRun, StatsAreOfChain, ListsAreRankings, HoldingsAreOfChain, PTL
=============================================================================
