---------------------------- MODULE BuildsProofs ----------------------------
(***************************************************************************)
(* The builds of tools/addrindex for any chain, reorganisations, scripts,  *)
(* flags, failures and block files: the state holds what its blocks left,  *)
(* the answer is the one its flags select, and the counted addresses are   *)
(* those the files pay.                                                    *)
(***************************************************************************)
EXTENDS Tools, Sums

-----------------------------------------------------------------------------
(* What a chain of blocks leaves a script, one block at a time.            *)

Branches == 1..MaxBranch

LEMMA MovedInt ==
    ASSUME NEW h \in 0..MaxTop, NEW b \in Branches, NEW s
    PROVE  Moved(h, b, s) \in Int
<1> DEFINE body == Body[h][b]
<1>1. /\ \A x \in DOMAIN body.moves : body.moves[x] \in Int
      /\ \A x \in DOMAIN body.first : body.first[x] \in Int
  BY BodyType DEF Branches
<1> HIDE DEF body
<1>2. Moved(h, b, s) = IF s \notin DOMAIN body.moves THEN 0
                       ELSE body.moves[s] - (IF h \in Voided /\ s \in DOMAIN body.first THEN body.first[s] ELSE 0)
  BY DEF Moved, body
<1> QED
  BY <1>1, <1>2

MovedOf(c, s) == [i \in DOMAIN c |-> Moved(i - 1, c[i], s)]

LEMMA HeldSum ==
    ASSUME NEW c \in Seq(Branches), NEW s
    PROVE  HeldIn(c, s) = SumOn(MovedOf(c, s), 1..Len(c))
<1>1. DOMAIN MovedOf(c, s) = 1..Len(c)
  BY DEF MovedOf
<1> QED
  BY <1>1 DEF HeldIn, MovedOf, SumFunction, SumFunctionOnSet, SumOn

LEMMA HeldInt ==
    ASSUME NEW c \in Seq(Branches), Len(c) <= MaxTop + 1, NEW s
    PROVE  HeldIn(c, s) \in Int
<1>1. ASSUME NEW i \in 1..Len(c) PROVE MovedOf(c, s)[i] \in Int
  <2>1. c[i] \in Branches /\ i - 1 \in 0..MaxTop
    BY BuildType
  <2>2. MovedOf(c, s)[i] = Moved(i - 1, c[i], s)
    BY DEF MovedOf
  <2> QED
    BY <2>1, <2>2, MovedInt
<1>2. IsFiniteSet(1..Len(c))
  BY FS_Interval
<1> QED
  BY <1>1, <1>2, HeldSum, SumInt

LEMMA HeldNothing == ASSUME NEW s PROVE HeldIn(<<>>, s) = 0
<1>1. <<>> \in Seq(Branches) /\ 1..Len(<<>>) = {}
  OBVIOUS
<1> QED
  BY <1>1, HeldSum, SumEmpty

LEMMA HeldStep ==
    ASSUME NEW c \in Seq(Branches), Len(c) <= MaxTop, NEW b \in Branches, NEW s
    PROVE  HeldIn(Append(c, b), s) = HeldIn(c, s) + Moved(Len(c), b, s)
<1> DEFINE d == Append(c, b)
           n == Len(c)
           v == MovedOf(d, s)
<1>0. n \in Nat /\ n <= MaxTop /\ MaxTop \in Nat
  BY BuildType
<1>1. d \in Seq(Branches) /\ Len(d) = n + 1 /\ d[n + 1] = b /\ \A i \in 1..n : d[i] = c[i]
  OBVIOUS
<1>2. \A i \in 1..(n + 1) : v[i] = Moved(i - 1, d[i], s)
  BY <1>1 DEF MovedOf
<1> HIDE DEF d, v
<1>3. \A i \in 1..(n + 1) : v[i] \in Int
  <2> SUFFICES ASSUME NEW i \in 1..(n + 1) PROVE v[i] \in Int
    OBVIOUS
  <2>1. d[i] \in Branches /\ i - 1 \in 0..MaxTop
    BY <1>0, <1>1
  <2> QED
    BY <1>2, <2>1, MovedInt
<1>4. IsFiniteSet(1..n) /\ n + 1 \notin 1..n /\ 1..(n + 1) = 1..n \cup {n + 1}
  <2> HIDE DEF n
  <2>1. IsFiniteSet(1..n)
    BY <1>0, FS_Interval
  <2>2. n + 1 \notin 1..n /\ 1..(n + 1) = 1..n \cup {n + 1}
    BY <1>0
  <2> QED
    BY <2>1, <2>2
<1>5. SumOn(v, 1..n \cup {n + 1}) = v[n + 1] + SumOn(v, 1..n)
  BY <1>3, <1>4, SumWith
<1>6. SumOn(v, 1..n) = SumOn(MovedOf(c, s), 1..n)
  <2>1. \A i \in 1..n : v[i] = MovedOf(c, s)[i]
    BY <1>0, <1>1, <1>2 DEF MovedOf
  <2> QED
    BY <1>4, <2>1, SumSame
<1>7. HeldIn(d, s) = SumOn(v, 1..(n + 1)) /\ HeldIn(c, s) = SumOn(MovedOf(c, s), 1..n)
  BY <1>1, HeldSum DEF v
<1>8. v[n + 1] = Moved(n, b, s)
  <2>1. (n + 1) - 1 = n /\ n + 1 \in 1..(n + 1)
    BY <1>0
  <2> QED
    BY <1>1, <1>2, <2>1
<1>9. HeldIn(c, s) \in Int /\ Moved(n, b, s) \in Int
  <2>1. Len(c) <= MaxTop + 1 /\ n \in 0..MaxTop
    BY <1>0
  <2> QED
    BY <2>1, HeldInt, MovedInt
<1>10. HeldIn(d, s) = HeldIn(c, s) + Moved(n, b, s)
  <2> HIDE DEF n
  <2>1. HeldIn(d, s) = Moved(n, b, s) + HeldIn(c, s)
    BY <1>4, <1>5, <1>6, <1>7, <1>8
  <2> QED
    BY <1>9, <2>1
<1> QED
  BY <1>10 DEF d

\* The blocks of a chain that move a script, and their times.
MoversOf(c, s) == {i \in DOMAIN c : s \in DOMAIN Body[i - 1][c[i]].moves}
TimeOf(c, i) == Body[i - 1][c[i]].time

LEMMA DatedIs ==
    ASSUME NEW c, NEW s, NEW t
    PROVE  Dated(c, s, t) <=> /\ \E i \in MoversOf(c, s) : t = TimeOf(c, i)
                              /\ \A i \in MoversOf(c, s) : (\A j \in MoversOf(c, s) : j <= i) => TimeOf(c, i) <= t
BY DEF Dated, MoversOf, TimeOf

LEMMA BodyTime ==
    ASSUME NEW c \in Seq(Branches), Len(c) <= MaxTop + 1, NEW i \in 1..Len(c)
    PROVE  TimeOf(c, i) \in Nat
<1>1. c[i] \in Branches /\ i - 1 \in 0..MaxTop
  BY BuildType
<1> QED
  BY <1>1, BodyType DEF TimeOf, Branches

\* A block that moves the script dates it, or leaves it dated later; one that does not
\* leaves its date.
LEMMA DatedStep ==
    ASSUME NEW c \in Seq(Branches), Len(c) <= MaxTop, NEW b \in Branches, NEW s, NEW t \in Nat
    PROVE  IF s \in DOMAIN Body[Len(c)][b].moves
           THEN t = 0 \/ Dated(c, s, t) => Dated(Append(c, b), s, Later(t, Body[Len(c)][b].time))
           ELSE Dated(c, s, t) => Dated(Append(c, b), s, t)
<1> DEFINE d == Append(c, b)
           n == Len(c)
           M == MoversOf(c, s)
           N == MoversOf(d, s)
<1>0. n \in Nat /\ n <= MaxTop /\ MaxTop \in Nat
  BY BuildType
<1>1. d \in Seq(Branches) /\ Len(d) = n + 1 /\ d[n + 1] = b /\ \A i \in 1..n : d[i] = c[i]
  OBVIOUS
<1> HIDE DEF d
<1>2. \A i \in 1..n : TimeOf(d, i) = TimeOf(c, i) /\ (i \in N <=> i \in M)
  BY <1>0, <1>1 DEF TimeOf, MoversOf
<1>3. M \subseteq 1..n /\ N \subseteq 1..(n + 1)
  BY <1>1 DEF MoversOf
<1>4. \A i \in 1..(n + 1) : TimeOf(d, i) \in Nat
  BY <1>0, <1>1, BodyTime
<1>5. TimeOf(d, n + 1) = Body[n][b].time /\ (n + 1 \in N <=> s \in DOMAIN Body[n][b].moves)
  <2>1. (n + 1) - 1 = n /\ n + 1 \in DOMAIN d
    BY <1>0, <1>1
  <2> QED
    BY <1>1, <2>1 DEF TimeOf, MoversOf
<1> HIDE DEF M, N, n
<1>6. \A i \in 1..(n + 1) : i \in 1..n \/ i = n + 1
  BY <1>0
<1>7. \A i \in 1..n : i < n + 1 /\ i \in 1..(n + 1)
  BY <1>0
<1>8. ASSUME n + 1 \in N, t = 0 \/ Dated(c, s, t) PROVE Dated(d, s, Later(t, TimeOf(d, n + 1)))
  <2> DEFINE u == TimeOf(d, n + 1)
             w == Later(t, u)
  <2>1. n + 1 \in 1..(n + 1) /\ u \in Nat
    BY <1>0, <1>4
  <2>2. w \in Nat /\ t <= w /\ u <= w /\ (w = t \/ w = u) /\ (t = 0 => w = u)
    BY <2>1 DEF Later
  <2> HIDE DEF w, u
  <2>3. \E i \in N : w = TimeOf(d, i)
    <3>1. CASE w = u
      BY <1>8, <3>1 DEF u
    <3>2. CASE w # u
      <4>1. w = t /\ Dated(c, s, t)
        BY <1>8, <2>2, <3>2
      <4>2. PICK i \in M : t = TimeOf(c, i)
        BY <4>1, DatedIs DEF M
      <4> QED
        BY <1>2, <1>3, <4>1, <4>2
    <3> QED
      BY <3>1, <3>2
  <2>4. ASSUME NEW i \in N, \A j \in N : j <= i PROVE TimeOf(d, i) <= w
    <3>1. n + 1 <= i
      BY <1>8, <2>4
    <3>2. i = n + 1
      <4>1. i \in 1..(n + 1)
        BY <1>3
      <4> QED
        BY <1>0, <3>1, <4>1
    <3> QED
      BY <2>2, <3>2 DEF u
  <2> QED
    BY <2>3, <2>4, DatedIs DEF N, w, u
<1>9. ASSUME n + 1 \notin N, Dated(c, s, t) PROVE Dated(d, s, t)
  <2>1. N = M
    BY <1>2, <1>3, <1>6, <1>7, <1>9
  <2>2. \A i \in N : TimeOf(d, i) = TimeOf(c, i)
    BY <1>2, <1>3, <2>1
  <2>3. /\ \E i \in M : t = TimeOf(c, i)
        /\ \A i \in M : (\A j \in M : j <= i) => TimeOf(c, i) <= t
    BY <1>9, DatedIs DEF M
  <2>4. /\ \E i \in N : t = TimeOf(d, i)
        /\ \A i \in N : (\A j \in N : j <= i) => TimeOf(d, i) <= t
    BY <2>1, <2>2, <2>3
  <2> QED
    BY <2>4, DatedIs DEF N
<1> QED
  BY <1>5, <1>8, <1>9 DEF d, n

-----------------------------------------------------------------------------
(* The buffer and the shard files.                                         *)

Buffer(f) == DOMAIN f \subseteq Scripts /\ \A s \in DOMAIN f : f[s].sat \in Int /\ f[s].last \in Nat
Files(fs) == \A i \in 0..Shards - 1 : Buffer(fs[i]) /\ \A s \in DOMAIN fs[i] : ShardOf[s] = i

LEMMA OfType == ASSUME NEW f, Buffer(f), NEW s PROVE Of(f, s).sat \in Int /\ Of(f, s).last \in Nat
BY DEF Buffer, Of

LEMMA AtIs ==
    ASSUME NEW m, NEW sat, NEW when
    PROVE  At(m, sat, when).sat = m.sat + sat /\ At(m, sat, when).last = Later(m.last, when)
BY DEF At

LEMMA LaterIs ==
    ASSUME NEW t \in Nat, NEW u \in Nat
    PROVE  Later(t, u) \in Nat /\ Later(t, u) = Later(u, t) /\ Later(t, 0) = t /\ Later(0, t) = t
BY DEF Later

LEMMA LaterTwice ==
    ASSUME NEW t \in Nat, NEW u \in Nat, NEW w \in Nat
    PROVE  Later(t, Later(u, w)) = Later(Later(t, u), w)
BY DEF Later

LEMMA MovesIs ==
    ASSUME NEW f, Buffer(f), NEW h \in 0..MaxTop, NEW b \in Branches
    PROVE  /\ Buffer(Moves(f, h, b))
           /\ DOMAIN Moves(f, h, b) = DOMAIN f \cup DOMAIN Body[h][b].moves
           /\ \A s \in Scripts :
                /\ Of(Moves(f, h, b), s).sat = Of(f, s).sat + Moved(h, b, s)
                /\ s \in DOMAIN Body[h][b].moves =>
                     Of(Moves(f, h, b), s).last = Later(Of(f, s).last, Body[h][b].time)
                /\ s \notin DOMAIN Body[h][b].moves => Of(Moves(f, h, b), s).last = Of(f, s).last
<1> DEFINE body == Body[h][b]
           void == IF h \in Voided THEN body.first ELSE [s \in {} |-> 0]
           dom == DOMAIN f \cup DOMAIN body.moves
           M(s) == IF s \in DOMAIN body.moves THEN At(Of(f, s), body.moves[s], body.time) ELSE f[s]
           g == [s \in dom |-> IF s \in DOMAIN void THEN [M(s) EXCEPT !.sat = @ - void[s]] ELSE M(s)]
<1>1. Moves(f, h, b) = g
  BY DEF Moves
<1>2. /\ body.time \in Nat /\ DOMAIN body.moves \subseteq Scripts
      /\ \A s \in DOMAIN body.moves : body.moves[s] \in Int
      /\ DOMAIN body.first \subseteq DOMAIN body.moves
      /\ \A s \in DOMAIN body.first : body.first[s] \in Int
  BY BodyType DEF Branches
<1>3. DOMAIN void \subseteq DOMAIN body.moves /\ \A s \in DOMAIN void : void[s] \in Int
  BY <1>2
<1>4. \A s : Moved(h, b, s) = IF s \notin DOMAIN body.moves THEN 0
                              ELSE body.moves[s] - (IF s \in DOMAIN void THEN void[s] ELSE 0)
  BY DEF Moved
<1>5. DOMAIN g = dom
  OBVIOUS
<1>6. ASSUME NEW s, s \in DOMAIN body.moves
      PROVE  /\ g[s].sat = Of(f, s).sat + Moved(h, b, s)
             /\ g[s].last = Later(Of(f, s).last, body.time)
  <2> DEFINE m == At(Of(f, s), body.moves[s], body.time)
  <2>1. M(s) = m
    BY <1>6
  <2>2. m = [sat |-> Of(f, s).sat + body.moves[s], last |-> Later(Of(f, s).last, body.time)]
    BY DEF At
  <2>3. g[s] = IF s \in DOMAIN void THEN [m EXCEPT !.sat = @ - void[s]] ELSE m
    BY <1>6, <2>1
  <2> DEFINE x == Of(f, s).sat
             y == body.moves[s]
             l == Later(Of(f, s).last, body.time)
             mv == Moved(h, b, s)
  <2>4. x \in Int /\ y \in Int
    BY <1>2, <1>6, OfType
  <2>5. mv = y - (IF s \in DOMAIN void THEN void[s] ELSE 0)
    BY <1>4, <1>6
  <2>6. m = [sat |-> x + y, last |-> l]
    BY <2>2
  <2> HIDE DEF x, y, l, m, g, void, mv
  <2>7. CASE s \in DOMAIN void
    <3>1. void[s] \in Int
      BY <1>3, <2>7
    <3>2. g[s].sat = (x + y) - void[s] /\ g[s].last = l
      BY <2>3, <2>6, <2>7
    <3>3. g[s].sat = x + mv
      BY <2>4, <2>5, <2>7, <3>1, <3>2
    <3> QED
      BY <3>2, <3>3 DEF x, l, mv
  <2>8. CASE s \notin DOMAIN void
    <3>1. g[s].sat = x + y /\ g[s].last = l
      BY <2>3, <2>6, <2>8
    <3>2. g[s].sat = x + mv
      BY <2>4, <2>5, <2>8, <3>1
    <3> QED
      BY <3>1, <3>2 DEF x, l, mv
  <2> QED
    BY <2>7, <2>8
<1>7. ASSUME NEW s \in DOMAIN f, s \notin DOMAIN body.moves PROVE g[s] = f[s]
  BY <1>3, <1>7
<1> HIDE DEF g, void
<1>8. ASSUME NEW s
      PROVE  /\ Of(g, s).sat = Of(f, s).sat + Moved(h, b, s)
             /\ Of(g, s).last = IF s \in DOMAIN body.moves THEN Later(Of(f, s).last, body.time) ELSE Of(f, s).last
  <2>1. CASE s \in DOMAIN body.moves
    <3>1. Of(g, s) = g[s]
      BY <1>5, <2>1 DEF Of
    <3> QED
      BY <1>6, <2>1, <3>1
  <2>2. CASE s \notin DOMAIN body.moves
    <3>1. Of(g, s) = Of(f, s)
      BY <1>5, <1>7, <2>2 DEF Of
    <3>2. Of(f, s).sat + Moved(h, b, s) = Of(f, s).sat
      BY <1>4, <2>2, OfType
    <3> QED
      BY <2>2, <3>1, <3>2
  <2> QED
    BY <2>1, <2>2
<1>9. Buffer(g)
  <2>1. DOMAIN g \subseteq Scripts
    BY <1>2, <1>5 DEF Buffer
  <2>2. ASSUME NEW s \in DOMAIN g PROVE g[s].sat \in Int /\ g[s].last \in Nat
    <3>1. Of(g, s) = g[s]
      BY DEF Of
    <3>2. Of(f, s).sat \in Int /\ Of(f, s).last \in Nat
      BY OfType
    <3>3. Moved(h, b, s) \in Int
      BY MovedInt
    <3>4. Of(g, s).sat \in Int
      BY <1>8, <3>2, <3>3
    <3>5. Of(g, s).last \in Nat
      BY <1>2, <1>8, <3>2, LaterIs
    <3> QED
      BY <3>1, <3>4, <3>5
  <2> QED
    BY <2>1, <2>2 DEF Buffer
<1> QED
  BY <1>1, <1>5, <1>8, <1>9

LEMMA PutIs ==
    ASSUME NEW fs, Files(fs), NEW g, Buffer(g)
    PROVE  /\ Files(Put(fs, g))
           /\ \A s \in Scripts : LET i == ShardOf[s] IN
                /\ s \in DOMAIN Put(fs, g)[i] <=> s \in DOMAIN fs[i] \cup DOMAIN g
                /\ Of(Put(fs, g)[i], s).sat = Of(fs[i], s).sat + Of(g, s).sat
                /\ Of(Put(fs, g)[i], s).last = Later(Of(fs[i], s).last, Of(g, s).last)
<1> DEFINE ps == Put(fs, g)
           In(i) == {x \in DOMAIN g : ShardOf[x] = i}
<1>1. \A i \in 0..Shards - 1 : ps[i] = [s \in DOMAIN fs[i] \cup In(i) |->
         IF s \in DOMAIN g THEN At(Of(fs[i], s), g[s].sat, g[s].last) ELSE fs[i][s]]
  BY DEF Put
<1> HIDE DEF ps
<1>2. ASSUME NEW i \in 0..Shards - 1, NEW s, ShardOf[s] = i
      PROVE  /\ s \in DOMAIN ps[i] <=> s \in DOMAIN fs[i] \cup DOMAIN g
             /\ Of(ps[i], s).sat = Of(fs[i], s).sat + Of(g, s).sat
             /\ Of(ps[i], s).last = Later(Of(fs[i], s).last, Of(g, s).last)
  <2>1. DOMAIN ps[i] = DOMAIN fs[i] \cup In(i)
    BY <1>1
  <2>2. Buffer(fs[i])
    BY DEF Files
  <2>3. Of(fs[i], s).sat \in Int /\ Of(fs[i], s).last \in Nat
    BY <2>2, OfType
  <2>4. CASE s \in DOMAIN g
    <3>1. s \in DOMAIN ps[i] /\ ps[i][s] = At(Of(fs[i], s), g[s].sat, g[s].last) /\ Of(g, s) = g[s]
      BY <1>1, <1>2, <2>1, <2>4 DEF Of
    <3>2. Of(ps[i], s) = ps[i][s]
      BY <3>1 DEF Of
    <3> QED
      BY <2>4, <3>1, <3>2, AtIs
  <2>5. CASE s \notin DOMAIN g
    <3>1. s \in DOMAIN ps[i] <=> s \in DOMAIN fs[i]
      BY <2>1, <2>5
    <3>2. s \in DOMAIN fs[i] => ps[i][s] = fs[i][s]
      <4>1. ps[i] = [x \in DOMAIN fs[i] \cup In(i) |->
                       IF x \in DOMAIN g THEN At(Of(fs[i], x), g[x].sat, g[x].last) ELSE fs[i][x]]
        BY <1>1
      <4> HIDE DEF In
      <4> QED
        BY <2>5, <4>1
    <3>3. Of(ps[i], s) = Of(fs[i], s)
      BY <3>1, <3>2 DEF Of
    <3>4. Of(g, s).sat = 0 /\ Of(g, s).last = 0
      BY <2>5 DEF Of
    <3>5. Later(Of(fs[i], s).last, 0) = Of(fs[i], s).last
      BY <2>3, LaterIs
    <3>6. Of(fs[i], s).sat + 0 = Of(fs[i], s).sat
      BY <2>3
    <3> QED
      BY <2>5, <3>1, <3>3, <3>4, <3>5, <3>6
  <2> QED
    BY <2>4, <2>5
<1>3. ASSUME NEW i \in 0..Shards - 1 PROVE Buffer(ps[i]) /\ \A s \in DOMAIN ps[i] : ShardOf[s] = i
  <2>1. Buffer(fs[i]) /\ \A s \in DOMAIN fs[i] : ShardOf[s] = i
    BY DEF Files
  <2>2. DOMAIN ps[i] = DOMAIN fs[i] \cup In(i)
    BY <1>1
  <2>3. DOMAIN ps[i] \subseteq Scripts /\ \A s \in DOMAIN ps[i] : ShardOf[s] = i
    BY <2>1, <2>2 DEF Buffer
  <2>4. ASSUME NEW s \in DOMAIN ps[i] PROVE ps[i][s].sat \in Int /\ ps[i][s].last \in Nat
    <3>1. Of(ps[i], s) = ps[i][s]
      BY DEF Of
    <3>2. /\ Of(fs[i], s).sat \in Int /\ Of(fs[i], s).last \in Nat
          /\ Of(g, s).sat \in Int /\ Of(g, s).last \in Nat
      BY <2>1, OfType
    <3>3. Of(fs[i], s).sat + Of(g, s).sat \in Int
      BY <3>2
    <3>5. Later(Of(fs[i], s).last, Of(g, s).last) \in Nat
      BY <3>2, LaterIs
    <3> QED
      BY <1>2, <2>3, <3>1, <3>3, <3>5
  <2> QED
    BY <2>3, <2>4 DEF Buffer
<1>4. Files(ps)
  BY <1>3 DEF Files
<1>5. \A s \in Scripts : ShardOf[s] \in 0..Shards - 1
  BY BuildType
<1> QED
  BY <1>2, <1>4, <1>5 DEF ps

LEMMA SpillIs ==
    ASSUME NEW f, Buffer(f)
    PROVE  /\ Buffer(Spill(f)) /\ (Timed => Spill(f) = f)
           /\ \A s : Of(Spill(f), s).sat = Of(f, s).sat
<1>1. Buffer(RichFlush(f)) /\ \A s : Of(RichFlush(f), s).sat = Of(f, s).sat
  BY DEF Buffer, RichFlush, Of
<1> QED
  BY <1>1 DEF Spill

-----------------------------------------------------------------------------
(* The invariant of richbuild and ababuild.                                *)

BuildTypes ==
    /\ cmd \in {"richbuild", "ababuild"}
    /\ step \in {"idle", "scan", "sum", "drop", "fill", "mark", "done"} /\ flags \in Flags
    /\ forks \in Seq(Nat) /\ Len(forks) \in Branches /\ forks[1] = 0
    /\ node \in Seq(1..Len(forks)) /\ Len(node) \in 1..MaxTop + 1
    /\ counted \in Seq(1..Len(forks)) /\ read \in Seq(1..Len(forks))
    /\ slot \in Seq(1..Len(forks) \cup {Never})
    /\ meta \in [height : Nat \cup {Never}, hash : 1..Len(forks) \cup {Never},
                 list : Nat \cup {Never}, flags : Flags \cup {Never}]
    /\ from \in Nat /\ tip \in Nat /\ tip < Len(node)
    /\ next \in 0..Shards /\ busy \subseteq 0..next - 1 /\ bad \in Nat
    /\ Buffer(buf) /\ Files(files) /\ DOMAIN files = 0..Shards - 1

\* The state is of the height and the block it says, and the answer's markers are no
\* later than the state's.
MarkersOf ==
    /\ IF Built THEN Len(counted) = meta.height + 1 /\ counted[Len(counted)] = meta.hash
       ELSE counted = <<>> /\ meta.list = Never
    /\ meta.list # Never => Built /\ meta.flags \in Flags /\ meta.list <= meta.height
    /\ step \in {"drop", "fill", "mark", "done"} => Built

\* The branch of height i, counted from 1, in a chain whose highest branch is top.
Highest(c, i, top) == c \in 1..top /\ forks[c] < i /\ \A b \in 1..top : forks[b] < i => b <= c
OneChainOf(chain) == \A i \in 1..Len(chain) : Highest(chain[i], i, chain[Len(chain)])
NodeChain == /\ \A i \in 1..Len(node) : Highest(node[i], i, Len(forks))
             /\ \A b \in 1..Len(forks) : forks[b] < Len(node)
FromNode ==
    /\ \A i \in 1..Len(counted) : counted[i] = node[i]
    /\ \A i \in 1..Len(read) : read[i] = node[from + i]
    /\ \A i \in 1..Len(slot) : slot[i] # Never => slot[i] = node[from + Len(read) + i]

\* What a run reads carries on from what is counted, and all of it is the node's chain
\* unless the chain was reorganised meanwhile.
Carries ==
    /\ NodeChain /\ (~mixed => OneChainOf(counted)) /\ Len(counted) <= Len(node)
    /\ step \in {"scan", "sum"} => from = Len(counted)
    /\ step = "scan" => /\ from + Len(read) <= tip /\ from + Len(read) + Len(slot) <= tip + 1
                        /\ ~moved /\ ~mixed => FromNode
    /\ step = "sum" => /\ read # <<>> /\ from + Len(read) = tip + 1
                       /\ ~moved /\ ~mixed => OneChainOf(counted \o read)

\* The balances are what the counted blocks left.
Exact(f, chain) ==
    /\ DOMAIN f = {s \in Scripts : HeldIn(chain, s) > 0}
    /\ \A s \in DOMAIN f : f[s].sat = HeldIn(chain, s) /\ f[s].last \in Nat /\ (Timed => Dated(chain, s, f[s].last))
Solvent(chain) == \A s \in Scripts : HeldIn(chain, s) >= 0

\* While a run reads, the files and the buffer together hold what the blocks so far left.
FileOf(s) == files[ShardOf[s]]
Buffered(s) == s \in DOMAIN FileOf(s) \cup DOMAIN buf
ScannedRight == step = "scan" => \A s \in Scripts :
    /\ Of(FileOf(s), s).sat + Of(buf, s).sat = HeldIn(counted \o read, s)
    /\ Timed /\ Buffered(s) => Dated(counted \o read, s, Later(Of(FileOf(s), s).last, Of(buf, s).last))

\* While the shards are summed, each holds that or has its rows stored.
Stored(s) == ShardOf[s] < next /\ ShardOf[s] \notin busy
RowRight(s) == IF s \in DOMAIN fresh
    THEN /\ fresh[s].sat = HeldIn(counted \o read, s) /\ fresh[s].sat > 0
         /\ fresh[s].last \in Nat /\ (Timed => Dated(counted \o read, s, fresh[s].last))
    ELSE bad = 0 => HeldIn(counted \o read, s) = 0
SumRight(s) ==
    /\ s \notin DOMAIN fresh
    /\ Of(FileOf(s), s).sat = HeldIn(counted \o read, s)
    /\ Timed /\ s \in DOMAIN FileOf(s) => Dated(counted \o read, s, FileOf(s)[s].last)
SummedRight == step = "sum" =>
    /\ DOMAIN fresh \subseteq Scripts
    /\ \A s \in Scripts : IF Stored(s) THEN RowRight(s) ELSE SumRight(s)

\* No shard is summed before the scan is over.
ScanFresh == step = "scan" => next = 0 /\ busy = {} /\ fresh = Nothing /\ bad = 0

Totals == Exact(balances, counted) /\ Solvent(counted) /\ ScannedRight /\ SummedRight /\ ScanFresh

\* The answer is selected from the state, unless it is being made or was torn.
AnswerRight ==
    /\ step = "mark" => answer \in Selected(balances, flags)
    /\ step = "done" => answer \in Selected(balances, flags) \/ torn
    /\ meta.list # Never /\ meta.list = meta.height =>
          torn \/ step \in {"fill", "mark"} \/ answer \in Selected(balances, meta.flags)

BuildInv == BuildTypes /\ MarkersOf /\ Carries /\ Totals /\ AnswerRight


LEMMA SeqWider == ASSUME NEW A, NEW B, A \subseteq B, NEW c \in Seq(A) PROVE c \in Seq(B)
<1>1. \A i \in 1..Len(c) : c[i] \in B
  OBVIOUS
<1> QED
  BY <1>1

\* Every chain there is, is one of the branches that may be.
LEMMA ChainTypes ==
    ASSUME BuildInv
    PROVE  /\ counted \in Seq(Branches) /\ Len(counted) \in 0..MaxTop + 1
           /\ read \in Seq(Branches) /\ 1..Len(forks) \subseteq Branches
           /\ step \in {"scan", "sum"} => /\ counted \o read \in Seq(Branches)
                                          /\ Len(counted \o read) = from + Len(read)
                                          /\ from + Len(read) <= tip + 1 /\ tip <= MaxTop
<1>1. 1..Len(forks) \subseteq Branches
  BY BuildType DEF BuildInv, BuildTypes, Branches
<1>2. counted \in Seq(Branches) /\ read \in Seq(Branches)
  BY <1>1, SeqWider DEF BuildInv, BuildTypes
<1>3. Len(counted) \in 0..MaxTop + 1
  BY <1>2, BuildType DEF BuildInv, BuildTypes, Carries
<1>4. ASSUME step \in {"scan", "sum"}
      PROVE  /\ counted \o read \in Seq(Branches)
             /\ Len(counted \o read) = from + Len(read)
             /\ from + Len(read) <= tip + 1 /\ tip <= MaxTop
  <2>1. counted \o read \in Seq(Branches) /\ Len(counted \o read) = Len(counted) + Len(read)
    BY <1>2
  <2>2. from = Len(counted) /\ from + Len(read) <= tip + 1
    BY <1>2, <1>4 DEF BuildInv, BuildTypes, Carries
  <2>3. tip <= MaxTop
    BY BuildType DEF BuildInv, BuildTypes
  <2> QED
    BY <2>1, <2>2, <2>3
<1> QED
  BY <1>1, <1>2, <1>3, <1>4

LEMMA BalancesBuffer == ASSUME BuildInv PROVE Buffer(balances)
<1>1. \A s \in DOMAIN balances : s \in Scripts /\ balances[s].sat = HeldIn(counted, s) /\ balances[s].last \in Nat
  BY DEF BuildInv, Totals, Exact
<1>2. \A s : HeldIn(counted, s) \in Int
  <2>1. counted \in Seq(Branches) /\ Len(counted) <= MaxTop + 1
    BY ChainTypes, BuildType
  <2> QED
    BY <2>1, HeldInt
<1> QED
  BY <1>1, <1>2 DEF Buffer

LEMMA EmptyFiles == Buffer(Nothing) /\ Files([i \in 0..Shards - 1 |-> Nothing])
BY DEF Buffer, Files, Nothing

\* A scan takes the block of the next height.
LEMMA ScanAt ==
    ASSUME BuildInv, Scan
    PROVE  /\ from + Len(read) \in 0..MaxTop /\ slot[1] \in 1..Len(forks) /\ slot[1] \in Branches
           /\ slot \in Seq(1..Len(forks) \cup {Never}) /\ Len(slot) > 0
           /\ from = Len(counted) /\ from + Len(read) <= tip
<1>1. slot \in Seq(1..Len(forks) \cup {Never}) /\ slot # <<>> /\ slot[1] # Never /\ step = "scan"
  BY DEF BuildInv, BuildTypes, Scan
<1>2. Len(slot) > 0 /\ slot[1] \in 1..Len(forks)
  BY <1>1
<1>3. from = Len(counted) /\ from + Len(read) <= tip /\ from + Len(read) \in Nat /\ tip <= MaxTop
  BY <1>1, BuildType, SMTT(40) DEF BuildInv, BuildTypes, Carries
<1>4. slot[1] \in Branches
  BY <1>2, ChainTypes
<1>5. from + Len(read) \in 0..MaxTop
  <2>1. tip \in Nat /\ MaxTop \in Nat
    BY BuildType DEF BuildInv, BuildTypes
  <2> QED
    BY <1>3, <2>1
<1> QED
  BY <1>1, <1>2, <1>3, <1>4, <1>5

LEMMA BuildInitOK == BuildInit => BuildInv
<1> SUFFICES ASSUME BuildInit PROVE BuildInv
  OBVIOUS
<1>0. Never \notin Nat /\ MaxTop \in Nat /\ MaxBranch \in Nat \ {0} /\ Shards \in Nat \ {0}
  BY BuildType
<1>1. BuildTypes
  <2>1. node = <<1>> /\ forks = <<0>> /\ Len(node) = 1 /\ Len(forks) = 1 /\ 1..1 = {1}
    BY DEF BuildInit
  <2>2. node \in Seq(1..1) /\ forks \in Seq(Nat) /\ Len(forks) \in Branches /\ Len(node) \in 1..MaxTop + 1 /\ forks[1] = 0
    BY <1>0, <2>1 DEF Branches
  <2>3. meta \in [height : Nat \cup {Never}, hash : 1..Len(forks) \cup {Never},
                  list : Nat \cup {Never}, flags : Flags \cup {Never}]
    BY DEF BuildInit
  <2>4. Buffer(buf) /\ Files(files) /\ DOMAIN files = 0..Shards - 1
    BY EmptyFiles DEF BuildInit
  <2>5. busy \subseteq 0..next - 1 /\ next \in 0..Shards /\ bad \in Nat
    BY <1>0 DEF BuildInit
  <2>6. counted \in Seq(1..Len(forks)) /\ read \in Seq(1..Len(forks)) /\ slot \in Seq(1..Len(forks) \cup {Never})
    BY DEF BuildInit
  <2> QED
    BY <2>1, <2>2, <2>3, <2>4, <2>5, <2>6 DEF BuildInit, BuildTypes
<1>2. MarkersOf
  BY DEF BuildInit, MarkersOf, Built
<1>3. Carries
  <2>1. NodeChain
    BY DEF BuildInit, NodeChain, Highest
  <2> QED
    BY <2>1 DEF BuildInit, Carries, OneChainOf
<1>4. Totals
  <2>1. counted = <<>> /\ balances = Nothing /\ step = "idle"
    BY DEF BuildInit
  <2>2. \A s : HeldIn(counted, s) = 0
    BY <2>1, HeldNothing
  <2>3. DOMAIN balances = {} /\ {s \in Scripts : HeldIn(counted, s) > 0} = {}
    BY <2>1, <2>2 DEF Nothing
  <2>4. Exact(balances, counted)
    BY <2>3 DEF Exact
  <2> QED
    BY <2>1, <2>2, <2>4 DEF Totals, Solvent, ScannedRight, SummedRight, ScanFresh
<1>5. AnswerRight
  BY DEF BuildInit, AnswerRight
<1> QED
  BY <1>1, <1>2, <1>3, <1>4, <1>5 DEF BuildInv

\* The types.
LEMMA TypesMine == ASSUME BuildInv, Mine PROVE BuildTypes'
<1>1. node' \in Seq(1..Len(forks)) /\ Len(node') = Len(node) + 1 /\ Len(node) \in Nat
  BY DEF BuildInv, BuildTypes, Mine
<1>2. Len(node') \in 1..MaxTop + 1
  BY <1>1, BuildType DEF BuildInv, BuildTypes, Mine, Top
<1>3. tip' < Len(node')
  BY <1>1 DEF BuildInv, BuildTypes, Mine, reading
<1> QED
  BY <1>1, <1>2, <1>3 DEF BuildInv, BuildTypes, Mine, database, reading, summing

LEMMA ReorgForks ==
    ASSUME BuildInv, Reorg
    PROVE  /\ forks' \in Seq(Nat) /\ Len(forks') = Len(forks) + 1 /\ Len(forks') \in Branches
           /\ \A b \in 1..Len(forks) : forks'[b] = forks[b]
           /\ Len(node') = Len(node) /\ node' \in Seq(1..Len(forks'))
           /\ \E h \in 1..Len(node) - 1 :
                /\ forks'[Len(forks')] = h
                /\ \A i \in 1..Len(node) : node'[i] = IF i > h THEN Len(forks') ELSE node[i]
<1>1. PICK h \in 1..Len(node) - 1 :
        /\ node' = [i \in 1..Len(node) |-> IF i > h THEN Len(forks) + 1 ELSE node[i]]
        /\ forks' = Append(forks, h)
  BY DEF Reorg, Top
<1>2. forks \in Seq(Nat) /\ Len(forks) \in 1..MaxBranch /\ MaxBranch \in Nat /\ Len(forks) < MaxBranch
      /\ node \in Seq(1..Len(forks)) /\ Len(node) \in Nat
  BY BuildType DEF BuildInv, BuildTypes, Branches, Reorg
<1>3. forks' \in Seq(Nat) /\ Len(forks') = Len(forks) + 1 /\ forks'[Len(forks')] = h
      /\ \A b \in 1..Len(forks) : forks'[b] = forks[b]
  BY <1>1, <1>2
<1>4. Len(forks') \in Branches
  BY <1>2, <1>3 DEF Branches
<1>5. ASSUME NEW i \in 1..Len(node) PROVE node'[i] \in 1..Len(forks')
  <2>1. node[i] \in 1..Len(forks)
    BY <1>2
  <2>2. node'[i] = IF i > h THEN Len(forks) + 1 ELSE node[i]
    BY <1>1
  <2>3. Len(forks) + 1 \in 1..Len(forks') /\ 1..Len(forks) \subseteq 1..Len(forks')
    BY <1>2, <1>3
  <2> QED
    BY <2>1, <2>2, <2>3
<1>6. Len(node') = Len(node) /\ node' \in Seq(1..Len(forks'))
  BY <1>1, <1>2, <1>5
<1> QED
  BY <1>1, <1>3, <1>4, <1>6

LEMMA TypesReorg == ASSUME BuildInv, Reorg PROVE BuildTypes'
<1>1. /\ forks' \in Seq(Nat) /\ Len(forks') = Len(forks) + 1 /\ Len(forks') \in Branches
      /\ \A b \in 1..Len(forks) : forks'[b] = forks[b]
      /\ Len(node') = Len(node) /\ node' \in Seq(1..Len(forks'))
  BY ReorgForks
<1>2. Len(forks) \in Nat /\ 1 \in 1..Len(forks) /\ forks[1] = 0
  BY DEF BuildInv, BuildTypes, Branches
<1>3. 1..Len(forks) \subseteq 1..Len(forks')
  BY <1>1, <1>2
<1>4. counted' \in Seq(1..Len(forks')) /\ read' \in Seq(1..Len(forks'))
  BY <1>3, SeqWider DEF BuildInv, BuildTypes, Reorg, database
<1>5. slot' \in Seq(1..Len(forks') \cup {Never})
  <2>1. 1..Len(forks) \cup {Never} \subseteq 1..Len(forks') \cup {Never}
    BY <1>3
  <2>2. slot \in Seq(1..Len(forks) \cup {Never}) /\ slot' = slot
    BY DEF BuildInv, BuildTypes, Reorg
  <2> QED
    BY <2>1, <2>2, SeqWider
<1>6. meta' \in [height : Nat \cup {Never}, hash : 1..Len(forks') \cup {Never},
                 list : Nat \cup {Never}, flags : Flags \cup {Never}]
  BY <1>3 DEF BuildInv, BuildTypes, Reorg, database
<1>7. forks'[1] = 0
  BY <1>1, <1>2
<1> QED
  BY <1>1, <1>4, <1>5, <1>6, <1>7 DEF BuildInv, BuildTypes, Reorg, database, summing

LEMMA TypesStart == ASSUME BuildInv, NEW f \in Flags, Start(f) PROVE BuildTypes'
<1>1. from' \in Nat
  BY DEF BuildInv, BuildTypes, MarkersOf, Start, Built
<1>2. tip' \in Nat /\ tip' < Len(node)
  BY DEF BuildInv, BuildTypes, Start, Top
<1>3. Buffer(buf') /\ buf' = Nothing
  BY EmptyFiles DEF Start
<1>4. Files(files') /\ DOMAIN files' = 0..Shards - 1
  <2>1. files' = files \/ files' = Put([i \in 0..Shards - 1 |-> Nothing], balances)
    BY DEF Start
  <2>2. DOMAIN Put([i \in 0..Shards - 1 |-> Nothing], balances) = 0..Shards - 1
    BY DEF Put
  <2>3. Files(Put([i \in 0..Shards - 1 |-> Nothing], balances))
    BY BalancesBuffer, EmptyFiles, PutIs
  <2> QED
    BY <2>1, <2>2, <2>3 DEF BuildInv, BuildTypes
<1>5. step' \in {"idle", "done", "drop", "scan"}
  BY DEF Start
<1>6. next' = 0 /\ busy' = {} /\ bad' = 0 /\ 0 \in 0..Shards
  BY BuildType DEF Start
<1>7. slot' = <<>> /\ read' = <<>> /\ <<>> \in Seq(1..Len(forks)) /\ <<>> \in Seq(1..Len(forks) \cup {Never})
  BY DEF Start
<1> QED
  BY <1>1, <1>2, <1>3, <1>4, <1>5, <1>6, <1>7 DEF BuildInv, BuildTypes, Start, database

LEMMA TypesFetch == ASSUME BuildInv, FetchNext \/ (\E i \in 1..Fetch + 2 : FetchBlock(i)) PROVE BuildTypes'
<1>0. slot \in Seq(1..Len(forks) \cup {Never}) /\ node \in Seq(1..Len(forks))
  BY DEF BuildInv, BuildTypes
<1>1. slot' \in Seq(1..Len(forks) \cup {Never})
  <2>1. CASE FetchNext
    BY <1>0, <2>1 DEF FetchNext
  <2>2. ASSUME NEW i \in 1..Fetch + 2, FetchBlock(i) PROVE slot' \in Seq(1..Len(forks) \cup {Never})
    <3> DEFINE h == from + Len(read) + i - 1
    <3>1. i \in DOMAIN slot /\ h <= Top /\ slot' = [slot EXCEPT ![i] = node[h + 1]]
      BY <2>2 DEF FetchBlock, BlockAt
    <3>2. from + Len(read) \in Nat /\ Len(node) \in Nat /\ i \in Nat /\ i >= 1
      <4>1. from \in Nat /\ Len(read) \in Nat /\ Len(node) \in Nat
        BY <1>0 DEF BuildInv, BuildTypes
      <4>2. i \in Nat /\ i >= 1
        BY BuildType
      <4> QED
        BY <4>1, <4>2
    <3>3. h + 1 \in 1..Len(node)
      BY <3>1, <3>2 DEF Top
    <3>4. node[h + 1] \in 1..Len(forks) \cup {Never}
      BY <1>0, <3>3
    <3> HIDE DEF h
    <3> QED
      BY <1>0, <3>1, <3>4
  <2> QED
    BY <1>0, <2>1, <2>2
<1> QED
  BY <1>1 DEF BuildInv, BuildTypes, FetchNext, FetchBlock, Work, database, summing

LEMMA TypesScan == ASSUME BuildInv, Scan PROVE BuildTypes'
<1> DEFINE h == from + Len(read)
           f == Moves(buf, h, slot[1])
<1>1. h \in 0..MaxTop /\ slot[1] \in Branches /\ slot[1] \in 1..Len(forks)
      /\ slot \in Seq(1..Len(forks) \cup {Never}) /\ Len(slot) > 0
  BY ScanAt
<1>2. Buffer(f) /\ Buffer(Spill(f))
  <2>1. Buffer(buf)
    BY DEF BuildInv, BuildTypes
  <2>2. Buffer(f)
    BY <1>1, <2>1, MovesIs
  <2> QED
    BY <2>2, SpillIs
<1>3. buf' \in {Nothing, f} /\ files' \in {files, Put(files, Spill(f))}
      /\ read' = Append(read, slot[1]) /\ slot' = Tail(slot) /\ step' \in {"sum", "scan"}
  BY DEF Scan
<1> HIDE DEF f, h
<1>4. Buffer(buf')
  BY <1>2, <1>3, EmptyFiles
<1>5. Files(files') /\ DOMAIN files' = 0..Shards - 1
  <2>1. Files(files) /\ DOMAIN files = 0..Shards - 1
    BY DEF BuildInv, BuildTypes
  <2>2. Files(Put(files, Spill(f)))
    BY <1>2, <2>1, PutIs
  <2>3. DOMAIN Put(files, Spill(f)) = 0..Shards - 1
    BY DEF Put
  <2> QED
    BY <1>3, <2>1, <2>2, <2>3
<1>6. read' \in Seq(1..Len(forks)) /\ slot' \in Seq(1..Len(forks) \cup {Never})
  <2>1. read \in Seq(1..Len(forks))
    BY DEF BuildInv, BuildTypes
  <2>2. Append(read, slot[1]) \in Seq(1..Len(forks))
    BY <1>1, <2>1
  <2>3. Tail(slot) \in Seq(1..Len(forks) \cup {Never})
    BY <1>1
  <2> QED
    BY <1>3, <2>2, <2>3
<1> QED
  BY <1>3, <1>4, <1>5, <1>6 DEF BuildInv, BuildTypes, Scan, Work, database, summing

LEMMA NegativeFinite ==
    ASSUME NEW f, Buffer(f)
    PROVE  /\ Cardinality(Negative(f)) \in Nat
           /\ Cardinality(Negative(f)) = 0 => \A s \in DOMAIN f : f[s].sat >= 0
<1>1. IsFiniteSet(Negative(f))
  <2>1. Negative(f) \subseteq Scripts /\ IsFiniteSet(Scripts)
    BY BuildType DEF Negative, Buffer
  <2> QED
    BY <2>1, FS_Subset
<1>2. ASSUME Cardinality(Negative(f)) = 0, NEW s \in DOMAIN f PROVE f[s].sat >= 0
  <2>1. Negative(f) = {}
    BY <1>1, <1>2, FS_EmptySet
  <2>2. ~(f[s].sat < 0) /\ f[s].sat \in Int
    BY <2>1 DEF Negative, Buffer
  <2> QED
    BY <2>2
<1> QED
  BY <1>1, <1>2, FS_CardinalityType

LEMMA TypesStore == ASSUME BuildInv, NEW i \in 0..Shards - 1, StoreShard(i) PROVE BuildTypes'
<1>1. Files(files) /\ DOMAIN files = 0..Shards - 1 /\ bad \in Nat /\ busy \subseteq 0..next - 1
  BY DEF BuildInv, BuildTypes
<1>2. bad' = bad + Cardinality(Negative(files[i])) /\ files' = [files EXCEPT ![i] = Nothing] /\ busy' = busy \ {i}
  BY DEF StoreShard
<1>3. bad' \in Nat
  <2>1. Buffer(files[i])
    BY <1>1 DEF Files
  <2>2. Cardinality(Negative(files[i])) \in Nat
    BY <2>1, NegativeFinite
  <2> QED
    BY <1>1, <1>2, <2>2
<1>4. Files(files') /\ DOMAIN files' = 0..Shards - 1
  <2>1. \A j \in 0..Shards - 1 : files'[j] = files[j] \/ files'[j] = Nothing
    BY <1>1, <1>2
  <2>2. DOMAIN Nothing = {}
    BY DEF Nothing
  <2> QED
    BY <1>1, <1>2, <2>1, <2>2, EmptyFiles DEF Files
<1>5. busy' \subseteq 0..next - 1
  BY <1>1, <1>2
<1> QED
  BY <1>3, <1>4, <1>5 DEF BuildInv, BuildTypes, StoreShard, Work, database, reading

LEMMA TypesCommit == ASSUME BuildInv, Commit PROVE BuildTypes'
<1>1. step = "sum" /\ read # <<>> /\ read \in Seq(1..Len(forks)) /\ counted \in Seq(1..Len(forks))
  BY DEF BuildInv, BuildTypes, Carries, Commit, Summed
<1>2. read[Len(read)] \in 1..Len(forks)
  <2>1. Len(read) \in 1..Len(read)
    BY <1>1
  <2> QED
    BY <1>1, <2>1
<1>3. meta' = [meta EXCEPT !.height = tip, !.hash = read[Len(read)]]
  BY DEF Commit
<1>4. meta' \in [height : Nat \cup {Never}, hash : 1..Len(forks) \cup {Never},
                 list : Nat \cup {Never}, flags : Flags \cup {Never}]
  BY <1>2, <1>3 DEF BuildInv, BuildTypes
<1>5. counted' \in Seq(1..Len(forks))
  <2>1. counted' = counted \o read
    BY DEF Commit
  <2> QED
    BY <1>1, <2>1
<1> QED
  BY <1>4, <1>5 DEF BuildInv, BuildTypes, Commit, Work, reading, summing

LEMMA TypesStep == ASSUME BuildInv, [BuildNext]_buildVars PROVE BuildTypes'
<1>1. CASE UNCHANGED buildVars
  BY <1>1 DEF BuildInv, BuildTypes, buildVars, database, reading, summing
<1>2. CASE Claim
  <2>1. next' = next + 1 /\ busy' = busy \cup {next} /\ next < Shards /\ next \in Nat /\ Shards \in Nat
        /\ busy \subseteq 0..next - 1
    BY <1>2, BuildType DEF BuildInv, BuildTypes, Claim
  <2>2. next' \in 0..Shards /\ busy' \subseteq 0..next' - 1
    BY <2>1
  <2> QED
    BY <1>2, <2>2 DEF BuildInv, BuildTypes, Claim, Work, database, reading
<1>3. CASE Refuse
  BY <1>3 DEF BuildInv, BuildTypes, Refuse, Work, database, reading, summing
<1>4. CASE DropAnswer
  BY <1>4 DEF BuildInv, BuildTypes, DropAnswer, Work, reading, summing
<1>5. CASE FillAnswer
  BY <1>5 DEF BuildInv, BuildTypes, FillAnswer, Work, reading, summing
<1>6. CASE MarkAnswer
  <2>1. meta' = [meta EXCEPT !.list = meta.height, !.flags = flags]
    BY <1>6 DEF MarkAnswer
  <2>2. meta' \in [height : Nat \cup {Never}, hash : 1..Len(forks) \cup {Never},
                   list : Nat \cup {Never}, flags : Flags \cup {Never}]
    BY <2>1 DEF BuildInv, BuildTypes
  <2> QED
    BY <1>6, <2>2 DEF BuildInv, BuildTypes, MarkAnswer, Work, reading, summing
<1>7. CASE Stop
  BY <1>7 DEF BuildInv, BuildTypes, Stop, Work, reading, summing
<1> QED
  BY <1>1, <1>2, <1>3, <1>4, <1>5, <1>6, <1>7, TypesMine, TypesReorg, TypesStart, TypesFetch, TypesScan,
     TypesStore, TypesCommit DEF BuildNext

-----------------------------------------------------------------------------
(* The chain that is counted.                                              *)

LEMMA MarkersStep == ASSUME BuildInv, [BuildNext]_buildVars PROVE MarkersOf'
<1>0. MarkersOf /\ Never \notin Nat
  BY BuildType DEF BuildInv
<1>1. CASE Mine \/ Reorg \/ FetchNext \/ (\E i \in 1..Fetch + 2 : FetchBlock(i)) \/ Scan \/ Claim
           \/ (\E i \in 0..Shards - 1 : StoreShard(i)) \/ Refuse \/ Stop \/ UNCHANGED buildVars
  <2>1. meta' = meta /\ counted' = counted /\ (step' = step \/ step' \notin {"drop", "fill", "mark", "done"})
    BY <1>1 DEF Mine, Reorg, FetchNext, FetchBlock, Scan, Claim, StoreShard, Refuse, Stop, buildVars,
       Work, database, reading, summing
  <2> QED
    BY <1>0, <2>1 DEF MarkersOf, Built
<1>2. CASE DropAnswer \/ FillAnswer
  <2>1. meta' = meta /\ counted' = counted /\ step \in {"drop", "fill"}
    BY <1>2 DEF DropAnswer, FillAnswer, reading, summing
  <2> QED
    BY <1>0, <2>1 DEF MarkersOf, Built
<1>3. ASSUME NEW f \in Flags, Start(f) PROVE MarkersOf'
  <2>1. meta' = meta /\ counted' = counted
    BY <1>3 DEF Start, database
  <2>2. step' \in {"drop", "fill", "mark", "done"} => Built
    <3>1. ~Built => from' = 0 /\ Top >= 0
      BY <1>3 DEF Start, BuildInv, BuildTypes, Top
    <3>2. step' \in {"drop", "fill", "mark", "done"} => from' > Top
      BY <1>3 DEF Start
    <3>3. Top \in Int
      BY DEF BuildInv, BuildTypes, Top
    <3> QED
      BY <3>1, <3>2, <3>3
  <2> QED
    BY <1>0, <2>1, <2>2 DEF MarkersOf, Built
<1>4. CASE MarkAnswer
  <2>1. /\ meta' = [meta EXCEPT !.list = meta.height, !.flags = flags] /\ counted' = counted
        /\ step = "mark" /\ step' = "done" /\ flags \in Flags
    BY <1>4 DEF MarkAnswer, BuildInv, BuildTypes
  <2>2. meta.height \in Nat \cup {Never}
        /\ meta'.height = meta.height /\ meta'.hash = meta.hash /\ meta'.list = meta.height /\ meta'.flags = flags
    BY <2>1 DEF BuildInv, BuildTypes
  <2>3. Built /\ meta.height \in Nat
    BY <1>0, <2>1, <2>2 DEF MarkersOf, Built
  <2>4. meta.height <= meta.height
    BY <2>3
  <2> QED
    BY <1>0, <2>1, <2>2, <2>3, <2>4 DEF MarkersOf, Built
<1>5. CASE Commit
  <2>1. /\ step = "sum" /\ step' = "drop" /\ counted' = counted \o read
        /\ meta' = [meta EXCEPT !.height = tip, !.hash = read[Len(read)]]
    BY <1>5 DEF Commit, Summed
  <2>2. /\ meta'.height = tip /\ meta'.hash = read[Len(read)] /\ meta'.list = meta.list /\ meta'.flags = meta.flags
        /\ tip \in Nat /\ meta.list \in Nat \cup {Never} /\ meta.height \in Nat \cup {Never}
    BY <2>1 DEF BuildInv, BuildTypes
  <2>3. read # <<>> /\ from = Len(counted) /\ from + Len(read) = tip + 1
        /\ counted \in Seq(1..Len(forks)) /\ read \in Seq(1..Len(forks))
    BY <2>1 DEF BuildInv, BuildTypes, Carries
  <2>4. Len(counted') = tip + 1 /\ counted'[Len(counted')] = read[Len(read)]
    BY <2>1, <2>3
  <2>5. Built' /\ tip # Never
    BY <1>0, <2>2 DEF Built
  <2>6. ASSUME meta.list # Never PROVE meta.flags \in Flags /\ meta.list <= tip
    <3>1. Built /\ meta.flags \in Flags /\ meta.list <= meta.height /\ Len(counted) = meta.height + 1
      BY <1>0, <2>6 DEF MarkersOf
    <3>2. meta.height \in Nat /\ meta.list \in Nat /\ Len(read) \in Nat /\ Len(read) > 0
      BY <2>2, <2>3, <2>6, <3>1 DEF Built
    <3>3. meta.height < tip
      BY <2>2, <2>3, <3>1, <3>2
    <3> QED
      BY <2>2, <3>1, <3>2, <3>3
  <2> QED
    BY <2>1, <2>2, <2>4, <2>5, <2>6 DEF MarkersOf
<1> QED
  BY <1>1, <1>2, <1>3, <1>4, <1>5 DEF BuildNext

LEMMA ForksNat ==
    ASSUME BuildTypes
    PROVE  Len(forks) \in Nat /\ Len(node) \in Nat /\ \A b \in 1..Len(forks) : forks[b] \in Nat
<1>1. forks \in Seq(Nat) /\ node \in Seq(1..Len(forks))
  BY DEF BuildTypes
<1>2. \A b \in 1..Len(forks) : forks[b] \in Nat
  BY <1>1
<1> QED
  BY <1>1, <1>2

\* Of the node's chain, the blocks up to a height are of one chain, that height's.
LEMMA OfNode ==
    ASSUME BuildTypes, NodeChain, NEW n \in 1..Len(node), NEW i \in 1..n
    PROVE  Highest(node[i], i, node[n])
<1>1. Highest(node[i], i, Len(forks)) /\ Highest(node[n], n, Len(forks)) /\ i <= n /\ i \in 1..Len(node)
  BY DEF NodeChain, BuildTypes
<1>2. \A b \in 1..Len(forks) : forks[b] \in Nat
  BY ForksNat
<1>3. node[i] \in 1..Len(forks) /\ node[n] \in 1..Len(forks) /\ Len(forks) \in Nat
  BY <1>1 DEF BuildTypes, Highest, Branches
<1>4. forks[node[i]] < i /\ forks[node[i]] \in Nat
  BY <1>1, <1>2, <1>3 DEF Highest
<1>5. forks[node[i]] < n
  BY <1>1, <1>4
<1>6. node[i] <= node[n]
  BY <1>1, <1>3, <1>5 DEF Highest
<1>7. node[i] \in 1..node[n] /\ \A b \in 1..node[n] : b \in 1..Len(forks)
  BY <1>3, <1>6
<1> QED
  BY <1>1, <1>4, <1>7 DEF Highest

LEMMA PrefixOfNode ==
    ASSUME BuildTypes, NodeChain, NEW c \in Seq(1..Len(forks)), Len(c) <= Len(node),
           \A i \in 1..Len(c) : c[i] = node[i]
    PROVE  OneChainOf(c)
<1> SUFFICES ASSUME NEW i \in 1..Len(c) PROVE Highest(c[i], i, c[Len(c)])
  BY DEF OneChainOf
<1>1. Len(c) \in 1..Len(node) /\ i \in 1..Len(c) /\ Len(c) \in 1..Len(c)
  BY DEF BuildTypes
<1>2. Highest(node[i], i, node[Len(c)])
  BY <1>1, OfNode
<1> QED
  BY <1>1, <1>2

\* sameChain compares the last block alone, and it is enough: a chain that ends in the
\* node's block is the node's.
LEMMA SameToTheEnd ==
    ASSUME BuildTypes, NodeChain, NEW c \in Seq(1..Len(forks)), OneChainOf(c),
           Len(c) \in 1..Len(node), c[Len(c)] = node[Len(c)], NEW i \in 1..Len(c)
    PROVE  c[i] = node[i]
<1>1. Highest(c[i], i, node[Len(c)]) /\ Highest(node[i], i, node[Len(c)])
  BY OfNode DEF OneChainOf
<1>2. node[Len(c)] \in Nat
  <2>1. node \in Seq(1..Len(forks))
    BY DEF BuildTypes
  <2>2. \A k \in 1..Len(node) : node[k] \in Nat
    BY <2>1
  <2> QED
    BY <2>2
<1> QED
  BY <1>1, <1>2 DEF Highest

\* A reorganisation leaves what was one chain one chain.
LEMMA StaysOneChain ==
    ASSUME BuildInv, Reorg, NEW c \in Seq(1..Len(forks)), OneChainOf(c)
    PROVE  OneChainOf(c)'
<1> SUFFICES ASSUME NEW i \in 1..Len(c) PROVE Highest(c[i], i, c[Len(c)])'
  BY DEF OneChainOf
<1>1. Highest(c[i], i, c[Len(c)])
  BY DEF OneChainOf
<1>2. c[Len(c)] \in 1..Len(forks)
  <2>1. Len(c) \in 1..Len(c)
    OBVIOUS
  <2> QED
    BY <2>1
<1>3. \A b \in 1..c[Len(c)] : forks'[b] = forks[b]
  <2>1. \A b \in 1..Len(forks) : forks'[b] = forks[b]
    BY ReorgForks
  <2>2. Len(forks) \in Nat
    BY DEF BuildInv, BuildTypes, Branches
  <2>3. 1..c[Len(c)] \subseteq 1..Len(forks)
    BY <1>2, <2>2
  <2> QED
    BY <2>1, <2>3
<1> QED
  BY <1>1, <1>3 DEF Highest

LEMMA NodeStep == ASSUME BuildInv, [BuildNext]_buildVars PROVE NodeChain'
<1>0. NodeChain /\ BuildTypes
  BY DEF BuildInv, Carries
<1>1. CASE Mine
  <2> DEFINE n == Len(node)
  <2>1. node' = Append(node, node[n]) /\ forks' = forks /\ n \in Nat /\ n >= 1
    BY <1>0, <1>1 DEF Mine, BuildTypes
  <2>2. Len(node') = n + 1 /\ node'[n + 1] = node[n] /\ \A i \in 1..n : node'[i] = node[i]
    BY <1>0, <2>1 DEF BuildTypes
  <2>3. \A b \in 1..Len(forks) : forks[b] \in Nat /\ forks[b] < n
    BY <1>0, SMTT(40) DEF NodeChain, BuildTypes
  <2>4. Highest(node[n], n, Len(forks))
    BY <1>0, <2>1 DEF NodeChain
  <2> HIDE DEF n
  <2>5. Highest(node[n], n + 1, Len(forks))
    BY <2>1, <2>3, <2>4 DEF Highest
  <2>6. \A i \in 1..n + 1 : i \in 1..n \/ i = n + 1
    BY <2>1
  <2>7. \A i \in 1..n : Highest(node[i], i, Len(forks))
    BY <1>0 DEF NodeChain, n
  <2>8. ASSUME NEW i \in 1..Len(node') PROVE Highest(node[i], i, Len(forks))'
    BY <2>1, <2>2, <2>5, <2>6, <2>7 DEF Highest
  <2>9. ASSUME NEW b \in 1..Len(forks') PROVE forks'[b] < Len(node')
    BY <2>1, <2>2, <2>3
  <2> QED
    BY <2>8, <2>9 DEF NodeChain
<1>2. CASE Reorg
  <2>1. PICK h \in 1..Len(node) - 1 :
          /\ forks'[Len(forks')] = h
          /\ \A i \in 1..Len(node) : node'[i] = IF i > h THEN Len(forks') ELSE node[i]
    BY <1>2, ReorgForks
  <2>2. /\ Len(forks') = Len(forks) + 1 /\ Len(forks) \in Nat /\ Len(node') = Len(node) /\ Len(node) \in Nat
        /\ \A b \in 1..Len(forks) : forks'[b] = forks[b] /\ forks[b] \in Nat /\ forks[b] < Len(node)
    <3>1. /\ Len(forks') = Len(forks) + 1 /\ Len(node') = Len(node)
          /\ \A b \in 1..Len(forks) : forks'[b] = forks[b]
      BY <1>2, ReorgForks
    <3>2. Len(forks) \in Nat /\ Len(node) \in Nat /\ \A b \in 1..Len(forks) : forks[b] \in Nat /\ forks[b] < Len(node)
      BY <1>0, ForksNat DEF NodeChain
    <3> QED
      BY <3>1, <3>2
  <2>3. \A b \in 1..Len(forks') : b \in 1..Len(forks) \/ b = Len(forks')
    BY <2>2
  <2>4. ASSUME NEW i \in 1..Len(node') PROVE Highest(node[i], i, Len(forks))'
    <3>1. Highest(node[i], i, Len(forks)) /\ i \in 1..Len(node) /\ i \in Nat /\ h \in Nat
      BY <1>0, <2>2 DEF NodeChain
    <3>2. CASE i > h
      <4>1. node'[i] = Len(forks') /\ Len(forks') \in 1..Len(forks') /\ forks'[Len(forks')] < i
        BY <2>1, <2>2, <3>1, <3>2
      <4>2. \A b \in 1..Len(forks') : b <= Len(forks')
        BY <2>2
      <4> QED
        BY <4>1, <4>2 DEF Highest
    <3>3. CASE ~(i > h)
      <4>1. node'[i] = node[i] /\ ~(forks'[Len(forks')] < i)
        BY <2>1, <3>1, <3>3
      <4>2. node[i] \in 1..Len(forks) /\ node[i] \in 1..Len(forks') /\ forks[node[i]] < i
        BY <2>2, <3>1 DEF Highest
      <4>3. \A b \in 1..Len(forks') : forks'[b] < i => b <= node[i]
        BY <2>2, <2>3, <3>1, <4>1 DEF Highest
      <4> QED
        BY <2>2, <4>1, <4>2, <4>3 DEF Highest
    <3> QED
      BY <3>2, <3>3
  <2>5. ASSUME NEW b \in 1..Len(forks') PROVE forks'[b] < Len(node')
    BY <2>1, <2>2, <2>3
  <2> QED
    BY <2>4, <2>5 DEF NodeChain
<1>3. CASE UNCHANGED <<node, forks>>
  BY <1>0, <1>3 DEF NodeChain, Highest
<1>4. Mine \/ Reorg \/ UNCHANGED <<node, forks>>
  BY DEF BuildNext, buildVars, Start, FetchNext, FetchBlock, Scan, Claim, StoreShard, Refuse, Commit,
     DropAnswer, FillAnswer, MarkAnswer, Stop, Work
<1> QED
  BY <1>1, <1>2, <1>3, <1>4

LEMMA CarriesMine == ASSUME BuildInv, Mine PROVE Carries'
<1>0. BuildTypes /\ Carries /\ NodeChain'
  BY NodeStep DEF BuildInv, BuildNext
<1>1. node' = Append(node, node[Len(node)]) /\ forks' = forks /\ node \in Seq(1..Len(forks))
  BY <1>0 DEF Mine, BuildTypes
<1>2. Len(node') = Len(node) + 1 /\ Len(node) \in Nat /\ \A k \in 1..Len(node) : node'[k] = node[k]
  BY <1>1
<1>3. UNCHANGED <<counted, read, slot, step, from, tip, moved, mixed>>
  BY DEF Mine, database, reading
<1>4. \A c : OneChainOf(c) => OneChainOf(c)'
  BY <1>1 DEF OneChainOf, Highest
<1>5. Len(counted) <= Len(node) /\ Len(counted) \in Nat
  BY <1>0 DEF Carries, BuildTypes
<1>6. ASSUME step = "scan", FromNode PROVE FromNode'
  <2>1. from + Len(read) <= tip /\ from + Len(read) + Len(slot) <= tip + 1 /\ tip < Len(node)
        /\ from \in Nat /\ tip \in Nat /\ Len(read) \in Nat /\ Len(slot) \in Nat
    BY <1>0, <1>6 DEF Carries, BuildTypes
  <2>2. \A k \in 1..Len(counted) : k \in 1..Len(node)
    BY <1>5, <1>2
  <2>3. \A k \in 1..Len(read) : from + k \in 1..Len(node)
    BY <1>2, <2>1
  <2>4. \A k \in 1..Len(slot) : from + Len(read) + k \in 1..Len(node)
    BY <1>2, <2>1
  <2> QED
    BY <1>2, <1>3, <1>6, <2>2, <2>3, <2>4 DEF FromNode
<1>7. Len(counted) <= Len(node')
  BY <1>2, <1>5
<1>8. mixed' \/ OneChainOf(counted)'
  BY <1>0, <1>3, <1>4 DEF Carries
<1>9. step = "sum" /\ ~moved /\ ~mixed => OneChainOf(counted \o read)'
  BY <1>0, <1>3, <1>4 DEF Carries
<1> QED
  BY <1>0, <1>3, <1>6, <1>7, <1>8, <1>9 DEF Carries

LEMMA CarriesReorg == ASSUME BuildInv, Reorg PROVE Carries'
<1>0. BuildTypes /\ Carries /\ NodeChain'
  BY NodeStep DEF BuildInv, BuildNext
<1>1. UNCHANGED <<counted, read, slot, step, from, tip, mixed>> /\ moved' = (moved \/ step = "scan")
      /\ Len(node') = Len(node)
  BY ReorgForks DEF Reorg, database
<1>2. mixed' \/ OneChainOf(counted)'
  BY <1>0, <1>1, StaysOneChain DEF Carries, BuildTypes
<1>3. ASSUME step = "sum", ~moved, ~mixed PROVE OneChainOf(counted \o read)'
  <2>1. counted \o read \in Seq(1..Len(forks)) /\ OneChainOf(counted \o read)
    BY <1>0, <1>3 DEF BuildTypes, Carries
  <2> QED
    BY <1>1, <2>1, StaysOneChain
<1> QED
  BY <1>0, <1>1, <1>2, <1>3 DEF Carries

LEMMA CarriesStart == ASSUME BuildInv, NEW f \in Flags, Start(f) PROVE Carries'
<1>0. BuildTypes /\ MarkersOf /\ Carries /\ NodeChain'
  BY NodeStep DEF BuildInv, BuildNext
<1>1. UNCHANGED <<node, forks, counted, mixed, meta>> /\ read' = <<>> /\ slot' = <<>> /\ tip' = Top
      /\ from' = (IF Built THEN meta.height + 1 ELSE 0)
  BY DEF Start, database
<1>2. step' \in {"idle", "done", "drop", "scan"} /\ (step' = "scan" => (Built => SameChain) /\ ~(from' > Top))
  BY DEF Start
<1>3. Len(node) \in Nat /\ Len(node) >= 1 /\ Top = Len(node) - 1 /\ Len(counted) \in Nat /\ Len(counted) <= Len(node)
  BY <1>0 DEF BuildTypes, Carries, Top
<1>4. from' = Len(counted)
  BY <1>0, <1>1 DEF MarkersOf
<1>5. \A c : OneChainOf(c) => OneChainOf(c)'
  BY <1>1 DEF OneChainOf, Highest
<1>6. ASSUME step' = "scan" PROVE from' + Len(read') <= tip' /\ from' + Len(read') + Len(slot') <= tip' + 1
  <2>1. from' <= Top /\ from' \in Nat /\ Len(<<>>) = 0
    BY <1>2, <1>3, <1>4, <1>6
  <2> QED
    BY <1>1, <1>3, <2>1
<1>7. ASSUME step' = "scan", ~mixed, NEW i \in 1..Len(counted) PROVE counted[i] = node[i]
  <2>1. Built
    <3>1. ~Built => counted = <<>>
      BY <1>0 DEF MarkersOf
    <3> QED
      BY <1>3, <1>7, <3>1
  <2>2. node[meta.height + 1] = meta.hash /\ Len(counted) = meta.height + 1 /\ counted[Len(counted)] = meta.hash
    BY <1>0, <1>2, <1>7, <2>1 DEF SameChain, BlockAt, MarkersOf
  <2>3. OneChainOf(counted) /\ NodeChain /\ counted \in Seq(1..Len(forks))
    BY <1>0, <1>7 DEF Carries, BuildTypes
  <2>4. Len(counted) \in 1..Len(node)
    BY <1>3, <1>7
  <2> QED
    BY <1>0, <2>2, <2>3, <2>4, SameToTheEnd
<1>8. step' = "scan" /\ ~mixed => FromNode'
  BY <1>1, <1>7 DEF FromNode
<1> QED
  BY <1>0, <1>1, <1>2, <1>3, <1>4, <1>5, <1>6, <1>8 DEF Carries

LEMMA CarriesFetch == ASSUME BuildInv, FetchNext \/ (\E i \in 1..Fetch + 2 : FetchBlock(i)) PROVE Carries'
<1>0. BuildTypes /\ Carries /\ NodeChain'
  BY NodeStep DEF BuildInv, BuildNext
<1>1. UNCHANGED <<node, forks, counted, read, step, from, tip, moved, mixed>> /\ step = "scan"
  BY DEF FetchNext, FetchBlock, Work, database
<1>2. \A c : OneChainOf(c) => OneChainOf(c)'
  BY <1>1 DEF OneChainOf, Highest
<1>3. from \in Nat /\ tip \in Nat /\ Len(read) \in Nat /\ Len(slot) \in Nat /\ slot \in Seq(1..Len(forks) \cup {Never})
      /\ from + Len(read) + Len(slot) <= tip + 1
  BY <1>0, <1>1 DEF BuildTypes, Carries
<1>4. CASE FetchNext
  <2>1. slot' = Append(slot, Never) /\ from + Len(read) + Len(slot) <= tip
    BY <1>4 DEF FetchNext
  <2>2. Len(slot') = Len(slot) + 1 /\ slot'[Len(slot) + 1] = Never /\ \A k \in 1..Len(slot) : slot'[k] = slot[k]
    BY <1>3, <2>1
  <2>3. from + Len(read) + Len(slot') <= tip + 1
    BY <1>3, <2>1, <2>2
  <2>4. \A k \in 1..Len(slot') : k \in 1..Len(slot) \/ k = Len(slot) + 1
    BY <1>3, <2>2
  <2>5. FromNode => FromNode'
    BY <1>1, <2>2, <2>4 DEF FromNode
  <2> QED
    BY <1>0, <1>1, <1>2, <2>3, <2>5 DEF Carries
<1>5. ASSUME NEW i \in 1..Fetch + 2, FetchBlock(i) PROVE Carries'
  <2>1. slot' = [slot EXCEPT ![i] = node[from + Len(read) + i - 1 + 1]] /\ i \in DOMAIN slot /\ i \in Int
    BY <1>5, BuildType DEF FetchBlock, BlockAt
  <2>2. Len(slot') = Len(slot) /\ \A k \in 1..Len(slot) : slot'[k] = slot[k] \/ k = i
    BY <1>3, <2>1
  <2>3. slot'[i] = node[from + Len(read) + i]
    <3>1. from + Len(read) + i - 1 + 1 = from + Len(read) + i
      BY <1>3, <2>1
    <3>2. slot'[i] = node[from + Len(read) + i - 1 + 1]
      BY <2>1
    <3> QED
      BY <3>1, <3>2
  <2>4. FromNode => FromNode'
    BY <1>1, <2>2, <2>3 DEF FromNode
  <2> QED
    BY <1>0, <1>1, <1>2, <1>3, <2>2, <2>4 DEF Carries
<1> QED
  BY <1>4, <1>5

LEMMA CarriesScan == ASSUME BuildInv, Scan PROVE Carries'
<1>0. BuildTypes /\ Carries /\ NodeChain'
  BY NodeStep DEF BuildInv, BuildNext
<1> DEFINE h == from + Len(read)
<1>1. UNCHANGED <<node, forks, counted, from, tip, moved, mixed>> /\ step = "scan"
      /\ read' = Append(read, slot[1]) /\ slot' = Tail(slot)
      /\ step' = (IF h = tip THEN "sum" ELSE "scan")
  BY DEF Scan, Work, database
<1>2. /\ from \in Nat /\ tip \in Nat /\ read \in Seq(1..Len(forks)) /\ counted \in Seq(1..Len(forks))
      /\ slot \in Seq(1..Len(forks) \cup {Never}) /\ Len(slot) > 0 /\ slot[1] \in 1..Len(forks) /\ slot[1] # Never
      /\ h <= tip /\ h + Len(slot) <= tip + 1 /\ from = Len(counted) /\ tip < Len(node) /\ Len(node) \in Nat
  BY <1>0, <1>1, ScanAt DEF BuildTypes, Carries, Scan
<1>3. /\ Len(read') = Len(read) + 1 /\ Len(slot') = Len(slot) - 1 /\ Len(read) \in Nat /\ Len(slot) \in Nat
      /\ \A k \in 1..Len(read) : read'[k] = read[k]
      /\ read'[Len(read) + 1] = slot[1]
      /\ \A k \in 1..Len(slot') : slot'[k] = slot[k + 1]
  BY <1>1, <1>2
<1>4. read' \in Seq(1..Len(forks))
  BY <1>1, <1>2
<1>5. \A k \in 1..Len(read') : k \in 1..Len(read) \/ k = Len(read) + 1
  BY <1>3
<1>6. FromNode => FromNode'
  <2> SUFFICES ASSUME FromNode PROVE FromNode'
    OBVIOUS
  <2>1. slot[1] = node[h + 1]
    BY <1>2 DEF FromNode
  <2>2. h + 1 = from + (Len(read) + 1)
    BY <1>2, <1>3
  <2>3. \A k \in 1..Len(read') : read'[k] = node[from + k]
    BY <1>3, <1>5, <2>1, <2>2 DEF FromNode
  <2>4. ASSUME NEW k \in 1..Len(slot'), slot'[k] # Never PROVE slot'[k] = node[from + Len(read') + k]
    <3>1. k + 1 \in 1..Len(slot) /\ slot[k + 1] # Never
      BY <1>3, <2>4
    <3>2. slot[k + 1] = node[from + Len(read) + (k + 1)]
      BY <3>1 DEF FromNode
    <3>3. from + Len(read) + (k + 1) = from + Len(read') + k
      BY <1>2, <1>3
    <3> QED
      BY <1>3, <3>2, <3>3
  <2> QED
    BY <1>1, <2>3, <2>4 DEF FromNode
<1>7. \A c : OneChainOf(c) => OneChainOf(c)'
  BY <1>1 DEF OneChainOf, Highest
<1> HIDE DEF h
<1>8. CASE h # tip
  <2>1. from + Len(read') <= tip /\ from + Len(read') + Len(slot') <= tip + 1
    BY <1>2, <1>3, <1>8 DEF h
  <2>2. step' = "scan"
    BY <1>1, <1>8
  <2> QED
    BY <1>0, <1>1, <1>2, <1>6, <1>7, <2>1, <2>2 DEF Carries
<1>9. CASE h = tip
  <2> DEFINE c == counted \o read'
  <2>1. read' # <<>> /\ from + Len(read') = tip + 1
    BY <1>2, <1>3, <1>9 DEF h
  <2>2. ASSUME ~moved, ~mixed PROVE OneChainOf(c)
    <3>1. FromNode'
      BY <1>0, <1>1, <1>6, <2>2 DEF Carries
    <3>2. c \in Seq(1..Len(forks)) /\ Len(c) = Len(counted) + Len(read') /\ Len(c) <= Len(node)
      BY <1>2, <1>4, <2>1
    <3>3. ASSUME NEW k \in 1..Len(c) PROVE c[k] = node[k]
      <4>1. CASE k <= Len(counted)
        <5>1. c[k] = counted[k] /\ k \in 1..Len(counted)
          BY <1>2, <1>4, <3>2, <4>1
        <5> QED
          BY <1>1, <3>1, <5>1 DEF FromNode
      <4>2. CASE ~(k <= Len(counted))
        <5>1. k - Len(counted) \in 1..Len(read') /\ c[k] = read'[k - Len(counted)]
          BY <1>2, <1>4, <3>2, <4>2, SMTT(40)
        <5>2. read'[k - Len(counted)] = node[from + (k - Len(counted))]
          BY <1>1, <3>1, <5>1 DEF FromNode
        <5>3. from + (k - Len(counted)) = k
          BY <1>2, <3>2
        <5> QED
          BY <5>1, <5>2, <5>3
      <4> QED
        BY <4>1, <4>2
    <3>4. NodeChain
      BY <1>0 DEF Carries
    <3> HIDE DEF c
    <3> QED
      BY <1>0, <3>2, <3>3, <3>4, PrefixOfNode
  <2>3. ~moved' /\ ~mixed' => OneChainOf(counted \o read)'
    BY <1>1, <1>7, <2>2
  <2>4. step' = "sum"
    BY <1>1, <1>9
  <2> QED
    BY <1>0, <1>1, <1>2, <1>7, <2>1, <2>3, <2>4 DEF Carries
<1> QED
  BY <1>8, <1>9

LEMMA CarriesCommit == ASSUME BuildInv, Commit PROVE Carries'
<1>0. BuildTypes /\ Carries /\ NodeChain'
  BY NodeStep DEF BuildInv, BuildNext
<1>1. /\ step = "sum" /\ step' = "drop" /\ counted' = counted \o read /\ mixed' = (mixed \/ moved)
      /\ UNCHANGED <<node, forks>>
  BY DEF Commit, Summed, Work
<1>2. /\ counted \in Seq(1..Len(forks)) /\ read \in Seq(1..Len(forks)) /\ from = Len(counted)
      /\ from + Len(read) = tip + 1 /\ tip < Len(node) /\ tip \in Nat /\ Len(node) \in Nat
      /\ (~moved /\ ~mixed => OneChainOf(counted \o read))
  BY <1>0, <1>1 DEF BuildTypes, Carries
<1>3. Len(counted') <= Len(node)
  BY <1>1, <1>2
<1>4. \A c : OneChainOf(c) => OneChainOf(c)'
  BY <1>1 DEF OneChainOf, Highest
<1>5. ~mixed' => OneChainOf(counted')
  BY <1>1, <1>2
<1> QED
  BY <1>0, <1>1, <1>3, <1>4, <1>5 DEF Carries

LEMMA CarriesStep == ASSUME BuildInv, [BuildNext]_buildVars PROVE Carries'
<1>0. Carries /\ NodeChain'
  BY NodeStep DEF BuildInv
<1>1. CASE Claim \/ (\E i \in 0..Shards - 1 : StoreShard(i)) \/ Refuse \/ DropAnswer \/ FillAnswer \/ MarkAnswer
           \/ Stop \/ UNCHANGED buildVars
  <2>1. UNCHANGED <<node, forks, counted, read, slot, from, tip, moved, mixed>>
        /\ (step' = step \/ step' \notin {"scan", "sum"})
    BY <1>1 DEF Claim, StoreShard, Refuse, DropAnswer, FillAnswer, MarkAnswer, Stop, buildVars, Work, database, reading
  <2>2. \A c : OneChainOf(c) => OneChainOf(c)'
    BY <2>1 DEF OneChainOf, Highest
  <2>3. FromNode => FromNode'
    BY <2>1 DEF FromNode
  <2> QED
    BY <1>0, <2>1, <2>2, <2>3 DEF Carries
<1> QED
  BY <1>1, CarriesMine, CarriesReorg, CarriesStart, CarriesFetch, CarriesScan, CarriesCommit DEF BuildNext

-----------------------------------------------------------------------------
(* What the scripts hold.                                                  *)

LEMMA ShardIs == ASSUME NEW s \in Scripts PROVE ShardOf[s] \in 0..Shards - 1
BY BuildType

LEMMA OfBalances ==
    ASSUME BuildInv, NEW s \in Scripts
    PROVE  /\ Of(balances, s).sat = HeldIn(counted, s)
           /\ Timed /\ s \in DOMAIN balances => Dated(counted, s, Of(balances, s).last)
<1>1. Exact(balances, counted) /\ HeldIn(counted, s) >= 0
  BY DEF BuildInv, Totals, Solvent
<1>2. HeldIn(counted, s) \in Int
  <2>1. counted \in Seq(Branches) /\ Len(counted) <= MaxTop + 1
    BY ChainTypes, BuildType
  <2> QED
    BY <2>1, HeldInt
<1>3. CASE s \in DOMAIN balances
  BY <1>1, <1>3 DEF Exact, Of
<1>4. CASE s \notin DOMAIN balances
  <2>1. ~(HeldIn(counted, s) > 0)
    BY <1>1, <1>4 DEF Exact
  <2>2. HeldIn(counted, s) = 0
    BY <1>1, <1>2, <2>1
  <2> QED
    BY <1>4, <2>2 DEF Of
<1> QED
  BY <1>3, <1>4

LEMMA TotalsStart == ASSUME BuildInv, NEW f \in Flags, Start(f) PROVE Totals'
<1>1. UNCHANGED <<cmd, balances, counted>> /\ read' = <<>> /\ buf' = Nothing /\ step' # "sum"
  BY DEF Start, database
<1>2. Totals /\ counted \in Seq(Branches)
  BY ChainTypes DEF BuildInv
<1>3. ASSUME step' = "scan", NEW s \in Scripts
      PROVE  /\ Of(files'[ShardOf[s]], s).sat + Of(buf', s).sat = HeldIn(counted \o <<>>, s)
             /\ Timed /\ s \in DOMAIN files'[ShardOf[s]] \cup DOMAIN buf' =>
                  Dated(counted \o <<>>, s, Later(Of(files'[ShardOf[s]], s).last, Of(buf', s).last))
  <2> DEFINE e == [j \in 0..Shards - 1 |-> Nothing]
             k == ShardOf[s]
             p == Put(e, balances)[k]
  <2>1. files' = Put(e, balances)
    BY <1>3 DEF Start
  <2>2. k \in 0..Shards - 1
    BY ShardIs
  <2>3. e[k] = Nothing
    BY <2>2
  <2>4. Files(e) /\ Buffer(balances)
    BY EmptyFiles, BalancesBuffer
  <2> HIDE DEF e
  <2>5. /\ s \in DOMAIN p <=> s \in DOMAIN e[k] \cup DOMAIN balances
        /\ Of(p, s).sat = Of(e[k], s).sat + Of(balances, s).sat
        /\ Of(p, s).last = Later(Of(e[k], s).last, Of(balances, s).last)
    BY <2>4, PutIs
  <2>6. Of(Nothing, s).sat = 0 /\ Of(Nothing, s).last = 0 /\ DOMAIN Nothing = {}
    BY DEF Of, Nothing
  <2>7. Of(balances, s).sat \in Int /\ Of(balances, s).last \in Nat
    BY <2>4, OfType
  <2>8. Of(p, s).sat + 0 = Of(balances, s).sat
    BY <2>3, <2>5, <2>6, <2>7
  <2>9. Later(Of(p, s).last, 0) = Of(balances, s).last
    BY <2>3, <2>5, <2>6, <2>7, LaterIs
  <2>10. counted \o <<>> = counted
    BY <1>2
  <2>11. files'[k] = p
    BY <2>1
  <2> HIDE DEF p, k
  <2> QED
    BY <1>1, <2>3, <2>5, <2>6, <2>8, <2>9, <2>10, <2>11, OfBalances DEF k
<1>4. ScannedRight'
  BY <1>1, <1>3 DEF ScannedRight, FileOf, Buffered, Timed
<1>5. ScanFresh'
  BY DEF Start, ScanFresh
<1> QED
  BY <1>1, <1>2, <1>4, <1>5 DEF Totals, Exact, Solvent, SummedRight, Timed

\* What the files and the buffer hold together goes on being what the blocks left, when
\* the block's movements are buffered and when the buffer is written.
LEMMA TotalsScan == ASSUME BuildInv, Scan PROVE Totals'
<1> DEFINE h == from + Len(read)
           b == slot[1]
           f == Moves(buf, h, b)
           c == counted \o read
           d == Append(c, b)
           full == Cardinality(DOMAIN f) >= Batch \/ h = tip
<1>1. /\ step = "scan" /\ UNCHANGED <<cmd, balances, counted, next, busy, fresh, bad>>
      /\ buf' = (IF full THEN Nothing ELSE f) /\ files' = (IF full THEN Put(files, Spill(f)) ELSE files)
      /\ read' = Append(read, b) /\ step' = (IF h = tip THEN "sum" ELSE "scan")
  BY DEF Scan, Work, database, summing
<1>2. h \in 0..MaxTop /\ b \in Branches /\ Buffer(buf) /\ Files(files) /\ MaxTop \in Nat
  BY ScanAt, BuildType DEF BuildInv, BuildTypes
<1>3. c \in Seq(Branches) /\ Len(c) = h /\ counted \in Seq(Branches) /\ read \in Seq(Branches)
  BY <1>1, ChainTypes
<1>4. counted \o read' = d
  BY <1>1, <1>2, <1>3
<1>5. Buffer(f) /\ Buffer(Spill(f)) /\ (Timed => Spill(f) = f) /\ (\A s : Of(Spill(f), s).sat = Of(f, s).sat)
  BY <1>2, MovesIs, SpillIs
<1> DEFINE m(s) == s \in DOMAIN Body[h][b].moves
<1>6. \A s \in Scripts :
        /\ Of(f, s).sat = Of(buf, s).sat + Moved(h, b, s)
        /\ m(s) => Of(f, s).last = Later(Of(buf, s).last, Body[h][b].time)
        /\ ~m(s) => Of(f, s).last = Of(buf, s).last
        /\ s \in DOMAIN f <=> s \in DOMAIN buf \/ m(s)
  <2> HIDE DEF h, b
  <2>1. f = Moves(buf, h, b)
    OBVIOUS
  <2> HIDE DEF f, m
  <2>2. DOMAIN f = DOMAIN buf \cup DOMAIN Body[h][b].moves
    BY <1>2, <2>1, MovesIs
  <2>3. ASSUME NEW s \in Scripts
        PROVE  /\ Of(f, s).sat = Of(buf, s).sat + Moved(h, b, s)
               /\ s \in DOMAIN Body[h][b].moves => Of(f, s).last = Later(Of(buf, s).last, Body[h][b].time)
               /\ s \notin DOMAIN Body[h][b].moves => Of(f, s).last = Of(buf, s).last
    BY <1>2, <2>1, MovesIs, ZenonT(40)
  <2> QED
    BY <2>2, <2>3 DEF m
<1>7. Body[h][b].time \in Nat
  BY <1>2, BodyType DEF Branches
<1> HIDE DEF f, c, d, full, h, b, m
\* What the files and the buffer of the block hold.
<1>8. ASSUME NEW s \in Scripts
      PROVE  /\ Of(FileOf(s), s).sat + Of(f, s).sat = HeldIn(d, s)
             /\ Timed /\ s \in DOMAIN FileOf(s) \cup DOMAIN f => Dated(d, s, Later(Of(FileOf(s), s).last, Of(f, s).last))
  <2> DEFINE x == Of(FileOf(s), s)
             y == Of(buf, s)
             t == Later(x.last, y.last)
  <2>1. Buffer(FileOf(s))
    BY <1>2, ShardIs DEF Files, FileOf
  <2>2. x.sat \in Int /\ x.last \in Nat /\ y.sat \in Int /\ y.last \in Nat
    BY <1>2, <2>1, OfType
  <2>3. x.sat + y.sat = HeldIn(c, s) /\ (Timed /\ s \in DOMAIN FileOf(s) \cup DOMAIN buf => Dated(c, s, t))
    BY <1>1 DEF BuildInv, Totals, ScannedRight, Buffered, c
  <2>4. HeldIn(d, s) = HeldIn(c, s) + Moved(h, b, s)
    BY <1>2, <1>3, HeldStep DEF d
  <2>5. Moved(h, b, s) \in Int
    BY <1>2, MovedInt
  <2>6. t \in Nat
    BY <2>2, LaterIs
  <2>7. IF m(s) THEN t = 0 \/ Dated(c, s, t) => Dated(d, s, Later(t, Body[h][b].time))
        ELSE Dated(c, s, t) => Dated(d, s, t)
    <3>1. Len(c) = h /\ Len(c) <= MaxTop
      BY <1>2, <1>3
    <3>2. IF s \in DOMAIN Body[Len(c)][b].moves
          THEN t = 0 \/ Dated(c, s, t) => Dated(Append(c, b), s, Later(t, Body[Len(c)][b].time))
          ELSE Dated(c, s, t) => Dated(Append(c, b), s, t)
      BY <1>2, <1>3, <2>6, <3>1, DatedStep
    <3> QED
      BY <3>1, <3>2 DEF d, m
  <2>8. s \notin DOMAIN FileOf(s) \cup DOMAIN buf => t = 0
    <3>1. s \notin DOMAIN FileOf(s) \cup DOMAIN buf => x.last = 0 /\ y.last = 0
      BY DEF Of
    <3> QED
      BY <3>1 DEF Later
  <2>9. Later(x.last, Later(y.last, Body[h][b].time)) = Later(t, Body[h][b].time)
    BY <1>7, <2>2, LaterTwice
  <2> DEFINE xs == x.sat
             ys == y.sat
             mv == Moved(h, b, s)
             hc == HeldIn(c, s)
  <2>10. xs + (ys + mv) = hc + mv
    <3>1. xs \in Int /\ ys \in Int /\ mv \in Int /\ xs + ys = hc
      BY <2>2, <2>3, <2>5
    <3> HIDE DEF xs, ys, mv, hc
    <3> QED
      BY <3>1
  <2>11. x.sat + Of(f, s).sat = HeldIn(d, s)
    BY <1>6, <2>4, <2>10
  <2>12. ASSUME Timed, s \in DOMAIN FileOf(s) \cup DOMAIN f PROVE Dated(d, s, Later(x.last, Of(f, s).last))
    <3>1. CASE m(s)
      <4>1. Of(f, s).last = Later(y.last, Body[h][b].time)
        BY <1>6, <3>1
      <4>2. t = 0 \/ Dated(c, s, t)
        BY <2>3, <2>8, <2>12
      <4>3. Dated(d, s, Later(t, Body[h][b].time))
        BY <2>7, <3>1, <4>2
      <4> QED
        BY <2>9, <4>1, <4>3
    <3>2. CASE ~m(s)
      <4>1. Of(f, s).last = y.last /\ s \in DOMAIN FileOf(s) \cup DOMAIN buf
        BY <1>6, <2>12, <3>2
      <4>2. Dated(d, s, t)
        BY <2>3, <2>7, <2>12, <3>2, <4>1
      <4> QED
        BY <4>1, <4>2
    <3> QED
      BY <3>1, <3>2
  <2> QED
    BY <2>11, <2>12
\* The same, when the buffer was written.
<1>9. ASSUME full, NEW s \in Scripts
      PROVE  /\ Of(files'[ShardOf[s]], s).sat = HeldIn(d, s)
             /\ Timed /\ s \in DOMAIN files'[ShardOf[s]] => Dated(d, s, Of(files'[ShardOf[s]], s).last)
             /\ Of(files'[ShardOf[s]], s).sat \in Int /\ Of(files'[ShardOf[s]], s).last \in Nat
  <2> DEFINE p == Put(files, Spill(f))[ShardOf[s]]
  <2>1. /\ s \in DOMAIN p <=> s \in DOMAIN FileOf(s) \cup DOMAIN Spill(f)
        /\ Of(p, s).sat = Of(FileOf(s), s).sat + Of(Spill(f), s).sat
        /\ Of(p, s).last = Later(Of(FileOf(s), s).last, Of(Spill(f), s).last)
    BY <1>2, <1>5, PutIs DEF FileOf
  <2>2. files'[ShardOf[s]] = p
    BY <1>1, <1>9
  <2>3. Of(p, s).sat \in Int /\ Of(p, s).last \in Nat
    <3>1. Files(Put(files, Spill(f)))
      BY <1>2, <1>5, PutIs
    <3>2. Buffer(p)
      BY <3>1, ShardIs DEF Files
    <3> QED
      BY <3>2, OfType
  <2> HIDE DEF p
  <2>4. Of(p, s).sat = HeldIn(d, s)
    BY <1>5, <1>8, <2>1
  <2>5. Timed /\ s \in DOMAIN p => Dated(d, s, Of(p, s).last)
    BY <1>5, <1>8, <2>1
  <2> QED
    BY <2>2, <2>3, <2>4, <2>5
<1>10. ScannedRight'
  <2> SUFFICES ASSUME step' = "scan", NEW s \in Scripts
               PROVE  /\ Of(files'[ShardOf[s]], s).sat + Of(buf', s).sat = HeldIn(d, s)
                      /\ Timed /\ s \in DOMAIN files'[ShardOf[s]] \cup DOMAIN buf' =>
                            Dated(d, s, Later(Of(files'[ShardOf[s]], s).last, Of(buf', s).last))
    BY <1>1, <1>4 DEF ScannedRight, FileOf, Buffered, Timed
  <2>1. CASE full
    <3>1. Of(Nothing, s).sat = 0 /\ Of(Nothing, s).last = 0 /\ DOMAIN Nothing = {} /\ buf' = Nothing
      BY <1>1, <2>1 DEF Of, Nothing
    <3>2. Later(Of(files'[ShardOf[s]], s).last, 0) = Of(files'[ShardOf[s]], s).last
      BY <1>9, <2>1, LaterIs
    <3>3. Of(files'[ShardOf[s]], s).sat + 0 = Of(files'[ShardOf[s]], s).sat
      BY <1>9, <2>1
    <3> QED
      BY <1>9, <2>1, <3>1, <3>2, <3>3
  <2>2. CASE ~full
    <3>1. buf' = f /\ files' = files
      BY <1>1, <2>2
    <3> QED
      BY <1>8, <3>1 DEF FileOf
  <2> QED
    BY <2>1, <2>2
<1>11. ASSUME step' = "sum" PROVE SummedRight'
  <2>1. full
    BY <1>1, <1>11 DEF full
  <2>2. next = 0 /\ busy = {} /\ fresh = Nothing
    BY <1>1 DEF BuildInv, Totals, ScanFresh
  <2>3. DOMAIN fresh' = {} /\ \A s \in Scripts : ~(ShardOf[s] < next')
    BY <1>1, <2>2, ShardIs, BuildType DEF Nothing
  <2>4. \A s \in Scripts : s \in DOMAIN files'[ShardOf[s]] => files'[ShardOf[s]][s] = Of(files'[ShardOf[s]], s)
    BY DEF Of
  <2> QED
    BY <1>1, <1>4, <1>9, <2>1, <2>3, <2>4 DEF SummedRight, Stored, SumRight, FileOf, Timed
<1>12. ScanFresh'
  BY <1>1 DEF ScanFresh, BuildInv, Totals
<1> QED
  BY <1>1, <1>10, <1>11, <1>12 DEF BuildInv, Totals, Exact, Solvent, Timed, SummedRight

LEMMA TotalsClaim == ASSUME BuildInv, Claim PROVE Totals'
<1>1. UNCHANGED <<cmd, balances, counted, read, buf, files, fresh, bad, step>> /\ step = "sum"
      /\ next' = next + 1 /\ busy' = busy \cup {next}
  BY DEF Claim, Work, database, reading
<1>2. next \in Nat
  BY DEF BuildInv, BuildTypes
<1>3. \A s \in Scripts : Stored(s)' <=> Stored(s)
  <2> SUFFICES ASSUME NEW s \in Scripts PROVE Stored(s)' <=> Stored(s)
    OBVIOUS
  <2>1. ShardOf[s] \in Int
    BY ShardIs, BuildType
  <2>2. ShardOf[s] < next + 1 /\ ShardOf[s] # next <=> ShardOf[s] < next
    BY <1>2, <2>1
  <2> QED
    BY <1>1, <2>2 DEF Stored
<1>4. SummedRight'
  <2>1. DOMAIN fresh \subseteq Scripts /\ \A s \in Scripts : IF Stored(s) THEN RowRight(s) ELSE SumRight(s)
    BY <1>1 DEF BuildInv, Totals, SummedRight
  <2>2. \A s \in Scripts : (RowRight(s) => RowRight(s)') /\ (SumRight(s) => SumRight(s)')
    BY <1>1 DEF RowRight, SumRight, FileOf, Timed
  <2>3. \A s \in Scripts : IF Stored(s)' THEN RowRight(s)' ELSE SumRight(s)'
    BY <1>3, <2>1, <2>2
  <2> QED
    BY <1>1, <2>1, <2>3 DEF SummedRight
<1> QED
  BY <1>1, <1>4 DEF BuildInv, Totals, Exact, Solvent, ScannedRight, ScanFresh, Timed

LEMMA TotalsStore == ASSUME BuildInv, NEW i \in 0..Shards - 1, StoreShard(i) PROVE Totals'
<1> DEFINE f == files[i]
           rows == Funded(f)
<1>1. /\ UNCHANGED <<cmd, balances, counted, read, buf, next, step>> /\ step = "sum" /\ i \in busy
      /\ busy' = busy \ {i} /\ bad' = bad + Cardinality(Negative(f)) /\ files' = [files EXCEPT ![i] = Nothing]
      /\ fresh' = [s \in DOMAIN fresh \cup DOMAIN rows |-> IF s \in DOMAIN rows THEN rows[s] ELSE fresh[s]]
  BY DEF StoreShard, Work, database, reading
<1>2. /\ Buffer(f) /\ (\A s \in DOMAIN f : ShardOf[s] = i)
      /\ DOMAIN files = 0..Shards - 1 /\ bad \in Nat /\ i < next /\ next \in Nat
  <2>1. Files(files) /\ DOMAIN files = 0..Shards - 1 /\ bad \in Nat /\ busy \subseteq 0..next - 1 /\ next \in 0..Shards
    BY DEF BuildInv, BuildTypes
  <2>2. i < next /\ next \in Nat
    BY <1>1, <2>1
  <2> QED
    BY <2>1, <2>2 DEF Files
<1>3. /\ Cardinality(Negative(f)) \in Nat
      /\ Cardinality(Negative(f)) = 0 => \A s \in DOMAIN f : f[s].sat >= 0
  BY <1>2, NegativeFinite
<1>4. bad' = 0 => bad = 0 /\ \A s \in DOMAIN f : f[s].sat >= 0
  BY <1>1, <1>2, <1>3
<1>5. DOMAIN rows = {x \in DOMAIN f : f[x].sat > 0} /\ \A s \in DOMAIN rows : rows[s] = f[s]
  BY DEF Funded
<1> HIDE DEF rows
<1>6. DOMAIN fresh \subseteq Scripts /\ \A s \in Scripts : IF Stored(s) THEN RowRight(s) ELSE SumRight(s)
  BY <1>1 DEF BuildInv, Totals, SummedRight
<1>7. DOMAIN fresh' \subseteq Scripts
  BY <1>1, <1>2, <1>5, <1>6 DEF Buffer
<1>8. ASSUME NEW s \in Scripts, ShardOf[s] = i PROVE Stored(s)' /\ RowRight(s)'
  <2>1. ~Stored(s) /\ Stored(s)'
    BY <1>1, <1>2, <1>8 DEF Stored
  <2>2. /\ s \notin DOMAIN fresh /\ Of(f, s).sat = HeldIn(counted \o read, s)
        /\ Timed /\ s \in DOMAIN f => Dated(counted \o read, s, f[s].last)
    BY <1>6, <1>8, <2>1 DEF SumRight, FileOf
  <2>3. CASE s \in DOMAIN rows
    <3>1. s \in DOMAIN f /\ s \in DOMAIN fresh' /\ fresh'[s] = f[s] /\ Of(f, s) = f[s] /\ f[s].sat > 0 /\ f[s].last \in Nat
      BY <1>1, <1>2, <1>5, <2>3 DEF Of, Buffer
    <3> HIDE DEF f
    <3>2. RowRight(s)'
      BY <1>1, <2>2, <3>1 DEF RowRight, Timed
    <3> QED
      BY <2>1, <3>2
  <2>4. CASE s \notin DOMAIN rows
    <3>1. s \notin DOMAIN fresh'
      BY <1>1, <2>2, <2>4
    <3>2. ASSUME bad' = 0 PROVE Of(f, s).sat = 0
      <4>1. CASE s \in DOMAIN f
        <5>1. f[s].sat \in Int /\ f[s].sat >= 0 /\ ~(f[s].sat > 0)
          BY <1>2, <1>4, <1>5, <2>4, <3>2, <4>1 DEF Buffer
        <5>2. f[s].sat = 0
          BY <5>1
        <5> QED
          BY <4>1, <5>2 DEF Of
      <4>2. CASE s \notin DOMAIN f
        BY <4>2 DEF Of
      <4> QED
        BY <4>1, <4>2
    <3> HIDE DEF f
    <3>3. RowRight(s)'
      BY <1>1, <2>2, <3>1, <3>2 DEF RowRight
    <3> QED
      BY <2>1, <3>3
  <2> QED
    BY <2>3, <2>4
<1>9. ASSUME NEW s \in Scripts, ShardOf[s] # i PROVE IF Stored(s)' THEN RowRight(s)' ELSE SumRight(s)'
  <2>1. Stored(s)' <=> Stored(s)
    BY <1>1, <1>9 DEF Stored
  <2>2. s \notin DOMAIN rows
    BY <1>2, <1>5, <1>9
  <2>3. (s \in DOMAIN fresh' <=> s \in DOMAIN fresh) /\ (s \in DOMAIN fresh => fresh'[s] = fresh[s])
    BY <1>1, <2>2
  <2>4. FileOf(s)' = FileOf(s)
    BY <1>1, <1>2, <1>9, ShardIs DEF FileOf
  <2>5. RowRight(s) => RowRight(s)'
    BY <1>1, <1>4, <2>3 DEF RowRight, Timed
  <2>6. SumRight(s) => SumRight(s)'
    BY <1>1, <2>3, <2>4 DEF SumRight, Timed
  <2> QED
    BY <1>6, <2>1, <2>5, <2>6
<1>10. SummedRight'
  BY <1>7, <1>8, <1>9 DEF SummedRight
<1> QED
  BY <1>1, <1>10 DEF BuildInv, Totals, Exact, Solvent, ScannedRight, ScanFresh, Timed

LEMMA TotalsCommit == ASSUME BuildInv, Commit PROVE Totals'
<1> DEFINE c == counted \o read
<1>1. /\ step = "sum" /\ next = Shards /\ busy = {} /\ bad = 0 /\ step' = "drop" /\ cmd' = cmd
      /\ balances' = fresh /\ counted' = c
  BY DEF Commit, Summed, Work
<1>2. DOMAIN fresh \subseteq Scripts /\ \A s \in Scripts : IF Stored(s) THEN RowRight(s) ELSE SumRight(s)
  BY <1>1 DEF BuildInv, Totals, SummedRight
<1>3. \A s \in Scripts : Stored(s)
  <2> SUFFICES ASSUME NEW s \in Scripts PROVE Stored(s)
    OBVIOUS
  <2>1. ShardOf[s] \in 0..Shards - 1 /\ Shards \in Nat
    BY ShardIs, BuildType
  <2>2. ShardOf[s] < Shards
    BY <2>1
  <2> QED
    BY <1>1, <2>2 DEF Stored
<1>4. ASSUME NEW s \in Scripts
      PROVE  /\ s \in DOMAIN fresh <=> HeldIn(c, s) > 0
             /\ HeldIn(c, s) >= 0
             /\ s \in DOMAIN fresh => /\ fresh[s].sat = HeldIn(c, s) /\ fresh[s].last \in Nat
                                      /\ Timed => Dated(c, s, fresh[s].last)
  <2>1. RowRight(s)
    BY <1>2, <1>3
  <2>2. HeldIn(c, s) \in Int
    <3>1. c \in Seq(Branches) /\ Len(c) <= MaxTop + 1
      <4>1. c \in Seq(Branches) /\ Len(c) = from + Len(read) /\ from + Len(read) <= tip + 1 /\ tip <= MaxTop
        BY <1>1, ChainTypes
      <4>2. tip \in Nat /\ MaxTop \in Nat /\ from \in Nat /\ Len(read) \in Nat
        BY BuildType DEF BuildInv, BuildTypes
      <4> QED
        BY <4>1, <4>2
    <3> HIDE DEF c
    <3> QED
      BY <3>1, HeldInt
  <2>3. CASE s \in DOMAIN fresh
    <3>1. fresh[s].sat = HeldIn(c, s) /\ fresh[s].sat > 0 /\ fresh[s].last \in Nat /\ (Timed => Dated(c, s, fresh[s].last))
      BY <2>1, <2>3 DEF RowRight
    <3>2. HeldIn(c, s) > 0
      BY <3>1
    <3>3. HeldIn(c, s) >= 0
      BY <2>2, <3>2
    <3> QED
      BY <2>3, <3>1, <3>2, <3>3
  <2>4. CASE s \notin DOMAIN fresh
    <3>1. HeldIn(c, s) = 0
      BY <1>1, <2>1, <2>4 DEF RowRight
    <3> QED
      BY <2>4, <3>1
  <2> QED
    BY <2>3, <2>4
<1> HIDE DEF c
<1>5. Exact(balances, counted)' /\ Solvent(counted)'
  BY <1>1, <1>2, <1>4 DEF Exact, Solvent, Timed
<1> QED
  BY <1>1, <1>5 DEF Totals, ScannedRight, SummedRight, ScanFresh

LEMMA TotalsStep == ASSUME BuildInv, [BuildNext]_buildVars PROVE Totals'
<1>1. CASE Mine \/ Reorg \/ FetchNext \/ (\E i \in 1..Fetch + 2 : FetchBlock(i)) \/ Refuse \/ DropAnswer
           \/ FillAnswer \/ MarkAnswer \/ Stop \/ UNCHANGED buildVars
  <2>1. /\ UNCHANGED <<cmd, balances, counted, read, buf, files, next, busy, fresh, bad>>
        /\ (step' = step \/ step' \notin {"scan", "sum"})
    BY <1>1 DEF Mine, Reorg, FetchNext, FetchBlock, Refuse, DropAnswer, FillAnswer, MarkAnswer, Stop, buildVars,
       Work, database, reading, summing
  <2>2. Totals
    BY DEF BuildInv
  <2>3. Exact(balances, counted)' /\ Solvent(counted)' /\ ScanFresh'
    BY <2>1, <2>2 DEF Totals, Exact, Solvent, Timed, ScanFresh
  <2>4. ScannedRight'
    BY <2>1, <2>2 DEF Totals, ScannedRight, Buffered, FileOf, Timed
  <2>5. SummedRight'
    BY <2>1, <2>2 DEF Totals, SummedRight, Stored, RowRight, SumRight, FileOf, Timed
  <2> QED
    BY <2>3, <2>4, <2>5 DEF Totals
<1> QED
  BY <1>1, TotalsStart, TotalsScan, TotalsClaim, TotalsStore, TotalsCommit DEF BuildNext

-----------------------------------------------------------------------------
(* The answer.                                                             *)

\* richbuild looks at the least balance alone, and so does what it selects.
LEMMA SelectedAlike ==
    ASSUME NEW b, NEW f, NEW g, f.min = g.min, Timed => f.top = g.top
    PROVE  Selected(b, f) = Selected(b, g)
BY ZenonT(40) DEF Selected, Shortlisted, Materialized

LEMMA AnswerStep == ASSUME BuildInv, [BuildNext]_buildVars PROVE AnswerRight'
<1>0. AnswerRight /\ MarkersOf
  BY DEF BuildInv
<1>1. CASE Mine \/ Reorg \/ FetchNext \/ (\E i \in 1..Fetch + 2 : FetchBlock(i)) \/ Scan \/ Claim
           \/ (\E i \in 0..Shards - 1 : StoreShard(i)) \/ Refuse \/ UNCHANGED buildVars
  <2>1. /\ UNCHANGED <<cmd, balances, meta, answer, flags, torn>>
        /\ step' = step \/ step' \in {"idle", "sum"}
    <3>1. CASE Mine \/ Reorg \/ FetchNext \/ (\E i \in 1..Fetch + 2 : FetchBlock(i)) \/ Scan
      BY <3>1 DEF Mine, Reorg, FetchNext, FetchBlock, Scan, Work, database
    <3>2. CASE Claim \/ Refuse \/ UNCHANGED buildVars
      BY <3>2 DEF Claim, Refuse, Summed, buildVars, Work, database
    <3>3. ASSUME NEW i \in 0..Shards - 1, StoreShard(i)
          PROVE  UNCHANGED <<cmd, balances, meta, answer, flags, torn>> /\ step' = step
      BY <3>3 DEF StoreShard, Work, database
    <3> QED
      BY <1>1, <3>1, <3>2, <3>3
  <2>2. /\ Selected(balances, flags)' = Selected(balances, flags)
        /\ Selected(balances, meta.flags)' = Selected(balances, meta.flags)
    BY <2>1 DEF Selected, Timed
  <2>3. step' \in {"fill", "mark"} => step' = step
    BY <2>1
  <2>4. step \in {"fill", "mark"} => step' = step
    BY <1>1 DEF Mine, Reorg, FetchNext, FetchBlock, Scan, Claim, StoreShard, Refuse, Summed, buildVars,
       Work, database
  <2> QED
    BY <1>0, <2>1, <2>2, <2>3, <2>4 DEF AnswerRight
<1>2. ASSUME NEW f \in Flags, Start(f) PROVE AnswerRight'
  <2>1. /\ UNCHANGED <<cmd, balances, meta, answer, torn>> /\ flags' = f /\ step \in {"idle", "done"}
        /\ step' \in {"idle", "done", "drop", "scan"}
    BY <1>2 DEF Start, database
  <2>2. ASSUME step' = "done" PROVE torn \/ answer \in Selected(balances, f)
    <3>1. step' = "done" => UpToDate(f) /\ from' > Top
      BY <1>2 DEF Start
    <3>2. MarkersOf'
      BY <1>2, MarkersStep DEF BuildNext
    <3>3. Built
      BY <2>1, <2>2, <3>2 DEF MarkersOf, Built
    <3>4. meta.list = meta.height /\ meta.flags.min = f.min /\ (Timed => meta.flags.top = f.top)
      BY <2>2, <3>1 DEF UpToDate, AtTip, AlreadyBuilt, SameFlags
    <3>5. torn \/ answer \in Selected(balances, meta.flags)
      BY <1>0, <2>1, <3>3, <3>4 DEF AnswerRight, Built
    <3>6. Selected(balances, meta.flags) = Selected(balances, f)
      BY <3>4, SelectedAlike
    <3> QED
      BY <3>5, <3>6
  <2> QED
    BY <1>0, <2>1, <2>2 DEF AnswerRight, Selected, Timed
<1>3. CASE Commit
  <2>1. /\ step' = "drop" /\ meta' = [meta EXCEPT !.height = tip, !.hash = read[Len(read)]] /\ step = "sum"
    BY <1>3 DEF Commit, Summed
  <2>2. meta'.list = meta.list /\ meta'.height = tip
    BY <2>1 DEF BuildInv, BuildTypes
  <2>3. ASSUME meta.list # Never PROVE meta.list # tip
    <3>1. Built /\ meta.list <= meta.height /\ Len(counted) = meta.height + 1
      BY <1>0, <2>3 DEF MarkersOf
    <3>2. /\ meta.height \in Nat /\ meta.list \in Nat /\ Len(read) \in Nat /\ read # <<>> /\ read \in Seq(1..Len(forks))
          /\ from = Len(counted) /\ from + Len(read) = tip + 1 /\ tip \in Nat
      BY <2>1, <2>3, <3>1 DEF BuildInv, BuildTypes, Carries, Built
    <3>3. Len(read) > 0
      BY <3>2
    <3> QED
      BY <3>1, <3>2, <3>3
  <2> QED
    BY <2>1, <2>2, <2>3 DEF AnswerRight
<1>4. CASE DropAnswer
  BY <1>4 DEF DropAnswer, AnswerRight
<1>5. CASE FillAnswer
  BY <1>5 DEF FillAnswer, AnswerRight, Work, Selected, Timed
<1>6. CASE MarkAnswer
  <2>1. /\ step = "mark" /\ step' = "done" /\ UNCHANGED <<cmd, balances, answer, flags>>
        /\ meta' = [meta EXCEPT !.list = meta.height, !.flags = flags]
    BY <1>6 DEF MarkAnswer, Work
  <2>2. meta'.flags = flags
    BY <2>1 DEF BuildInv, BuildTypes
  <2>3. answer \in Selected(balances, flags)
    BY <1>0, <2>1 DEF AnswerRight
  <2>4. Selected(balances, flags)' = Selected(balances, flags)
    BY <2>1 DEF Selected, Timed
  <2>5. Selected(balances, meta.flags)' = Selected(balances, flags)
    BY <2>1, <2>2 DEF Selected, Timed
  <2> QED
    BY <2>1, <2>3, <2>4, <2>5 DEF AnswerRight
<1>7. CASE Stop
  <2>1. /\ step' = "idle" /\ torn' = (torn \/ step \in {"fill", "mark"}) /\ UNCHANGED <<cmd, balances, meta, answer>>
    BY <1>7 DEF Stop, Work
  <2> QED
    BY <1>0, <2>1 DEF AnswerRight, Selected, Timed
<1> QED
  BY <1>1, <1>2, <1>3, <1>4, <1>5, <1>6, <1>7 DEF BuildNext

LEMMA BuildInvariant == BuildSpec => []BuildInv
<1>1. BuildInv /\ [BuildNext]_buildVars => BuildInv'
  <2> SUFFICES ASSUME BuildInv, [BuildNext]_buildVars PROVE BuildInv'
    OBVIOUS
  <2>1. BuildTypes'
    BY TypesStep
  <2>2. MarkersOf' /\ Carries'
    BY MarkersStep, CarriesStep
  <2>3. Totals' /\ AnswerRight'
    BY TotalsStep, AnswerStep
  <2> QED
    BY <2>1, <2>2, <2>3 DEF BuildInv
<1> QED
  BY <1>1, BuildInitOK, PTL DEF BuildSpec

\* The branch of a block is the highest that begins at or below it.
LEMMA HighestIsMax ==
    ASSUME BuildInv, NEW h \in Nat, NEW top, top \in 1..Len(forks), NEW c, Highest(c, h + 1, top)
    PROVE  c = Max({b \in 1..top : forks[b] <= h})
<1> DEFINE S == {b \in 1..top : forks[b] <= h}
<1>1. \A b \in 1..top : forks[b] \in Nat /\ (forks[b] < h + 1 <=> forks[b] <= h)
  <2> SUFFICES ASSUME NEW b \in 1..top PROVE forks[b] \in Nat /\ (forks[b] < h + 1 <=> forks[b] <= h)
    OBVIOUS
  <2>1. forks \in Seq(Nat) /\ b \in 1..Len(forks)
    BY DEF BuildInv, BuildTypes
  <2>2. forks[b] \in Nat
    BY <2>1
  <2> QED
    BY <2>2
<1>2. c \in S /\ \A b \in S : b \in Nat /\ b <= c
  BY <1>1 DEF Highest
<1> HIDE DEF S
<1>3. c \in Nat /\ \A b \in S : c >= b
  BY <1>2
<1>4. Max(S) \in S /\ \A y \in S : Max(S) >= y
  BY <1>2, <1>3 DEF Max
<1>5. Max(S) <= c /\ Max(S) >= c /\ Max(S) \in Nat
  BY <1>2, <1>4
<1>6. c = Max(S)
  BY <1>3, <1>5
<1> QED
  BY <1>6 DEF S

LEMMA StateRight == BuildInv => StateOfChain
<1> SUFFICES ASSUME BuildInv, meta.height # Never
             PROVE  /\ Len(counted) = meta.height + 1 /\ counted[Len(counted)] = meta.hash
                    /\ DOMAIN balances = {s \in Scripts : Held(s) > 0}
                    /\ \A s \in DOMAIN balances : balances[s].sat = Held(s)
                    /\ Timed => \A s \in DOMAIN balances : Dated(counted, s, balances[s].last)
                    /\ OneChain \/ mixed
  BY DEF StateOfChain
<1>1. Len(counted) = meta.height + 1 /\ counted[Len(counted)] = meta.hash
  BY DEF BuildInv, MarkersOf, Built
<1>2. Exact(balances, counted)
  BY DEF BuildInv, Totals
<1>3. /\ DOMAIN balances = {s \in Scripts : Held(s) > 0}
      /\ \A s \in DOMAIN balances : balances[s].sat = Held(s)
      /\ Timed => \A s \in DOMAIN balances : Dated(counted, s, balances[s].last)
  BY <1>2 DEF Exact, Held
<1>4. ASSUME ~mixed PROVE OneChain
  <2>1. OneChainOf(counted)
    BY <1>4 DEF BuildInv, Carries
  <2>2. meta.height \in Nat /\ counted \in Seq(1..Len(forks)) /\ Len(forks) \in Nat
    BY DEF BuildInv, BuildTypes, Branches
  <2>3. meta.hash \in 1..Len(forks)
    BY <1>1, <2>2
  <2> SUFFICES ASSUME NEW h \in 0..Len(counted) - 1
               PROVE  counted[h + 1] = Max({b \in 1..meta.hash : forks[b] <= h})
    BY DEF OneChain
  <2>4. h \in Nat /\ h + 1 \in 1..Len(counted)
    BY <2>2
  <2>5. Highest(counted[h + 1], h + 1, meta.hash)
    BY <1>1, <2>1, <2>4 DEF OneChainOf
  <2> QED
    BY <2>3, <2>4, <2>5, HighestIsMax
<1> QED
  BY <1>1, <1>3, <1>4

LEMMA SelectedRight == BuildInv => AnswerOfState
BY DEF BuildInv, AnswerRight, AnswerOfState

-----------------------------------------------------------------------------
(* The invariant of actbuild.                                              *)

\* The transactions that pay a script and that the scan has come past: a transaction of
\* whose outputs only some are behind counts once one of those pays the script.
InRecord(p, s) == p[3] < tx \/ (p[3] = tx /\ s \in Seen(disk[p[1]][p[2]][p[3]], output))
InFile(p, s) == p[2] < record \/ (p[2] = record /\ InRecord(p, s))
Passed(p, s) == p[1] < file \/ (p[1] = file /\ InFile(p, s))
SoFar(s) == {p \in PaidBy(s) : Passed(p, s)}
Count(s) == Cardinality(SoFar(s))
Capped(n) == IF n > MaxCount THEN MaxCount ELSE n

\* The scan is in a file whose padding is still ahead.
ActTypes ==
    /\ disk \in Disks /\ file \in 1..(Len(disk) + 1)
    /\ record \in Nat \ {0} /\ tx \in Nat \ {0} /\ output \in Nat \ {0}
    /\ phase \in {"scan", "done"} /\ cut \in BOOLEAN /\ (phase = "scan" => active = Empty)
    /\ phase = "done" => file > Len(disk)
    /\ file <= Len(disk) => \A j \in 1..(record - 1) : j <= Len(disk[file]) /\ disk[file][j] # Padding

CountTypes ==
    /\ DOMAIN run \subseteq Outputs /\ DOMAIN pending \subseteq Outputs /\ DOMAIN run \cap DOMAIN pending = {}
    /\ \A s \in DOMAIN run : run[s] \in 0..MaxCount
    /\ \A s \in DOMAIN pending : pending[s] \in Nat
    /\ qualified \subseteq DOMAIN run \cup DOMAIN pending

\* A script has one count, in the run or in the buffer, and it is that of the transactions
\* come past; the scripts past the threshold are kept.
CountRight(s) ==
    /\ s \in DOMAIN run => run[s] = Capped(Count(s))
    /\ s \in DOMAIN pending => pending[s] = Count(s) /\ Count(s) <= MaxCount
    /\ s \notin DOMAIN run \cup DOMAIN pending => Count(s) = 0
    /\ Capped(Count(s)) > ActiveMin => s \in qualified
CountsRight == phase = "scan" => \A s \in Outputs : IsFiniteSet(SoFar(s)) /\ (~cut => CountRight(s))

ActInv == ActTypes /\ CountTypes /\ CountsRight /\ ActiveIsCounted

LEMMA PaidIs ==
    ASSUME NEW s, NEW p
    PROVE  p \in PaidBy(s) <=> \E f \in DOMAIN disk : \E i \in Blocks(disk[f]) : \E t \in TxsOf(f, i, s) : p = <<f, i, t>>
BY DEF PaidBy

\* A place on the disk is of a block, a transaction of it and outputs of that.
LEMMA DiskIs ==
    ASSUME disk \in Disks, NEW f \in 1..Len(disk), NEW i \in 1..Len(disk[f]), disk[f][i] \notin {Broken, Padding}
    PROVE  /\ disk[f][i] \in Seq(Txs) /\ DOMAIN disk[f][i] = 1..Len(disk[f][i])
           /\ \A t \in 1..Len(disk[f][i]) : /\ disk[f][i][t] \in Seq(Outputs \cup {NoScript})
                                            /\ DOMAIN disk[f][i][t] = 1..Len(disk[f][i][t])
<1>1. disk \in Seq(Seq(Records))
  BY DiskType
<1>2. disk[f] \in Seq(Records)
  BY <1>1
<1>3. disk[f][i] \in Records
  BY <1>2
<1>4. disk[f][i] \in Seq(Seq(Outputs \cup {NoScript}))
  BY <1>3 DEF Records, Txs
<1> DEFINE block == disk[f][i]
<1> HIDE DEF block
<1>5. block \in Seq(Seq(Outputs \cup {NoScript}))
  BY <1>4 DEF block
<1>6. /\ DOMAIN block = 1..Len(block)
      /\ \A t \in 1..Len(block) : block[t] \in Seq(Outputs \cup {NoScript}) /\ DOMAIN block[t] = 1..Len(block[t])
  BY <1>5
<1> QED
  BY <1>4, <1>6 DEF block, Txs

LEMMA PaidAt ==
    ASSUME disk \in Disks, NEW s, NEW p \in PaidBy(s)
    PROVE  \E f, i, t \in Nat :
               /\ p[1] = f /\ p[2] = i /\ p[3] = t /\ f >= 1 /\ i >= 1 /\ t >= 1
               /\ f \in 1..Len(disk) /\ i \in 1..Len(disk[f]) /\ t \in 1..Len(disk[f][i])
               /\ i \in Blocks(disk[f]) /\ disk[f][i] \notin {Broken, Padding}
               /\ \E k \in 1..Len(disk[f][i][t]) : disk[f][i][t][k] = s
<1>1. PICK f \in DOMAIN disk : \E i \in Blocks(disk[f]) : \E t \in TxsOf(f, i, s) : p = <<f, i, t>>
  BY PaidIs
<1>2. PICK i \in Blocks(disk[f]) : \E t \in TxsOf(f, i, s) : p = <<f, i, t>>
  BY <1>1
<1>3. PICK t \in TxsOf(f, i, s) : p = <<f, i, t>>
  BY <1>2
<1>4. disk \in Seq(Seq(Records))
  BY DiskType
<1>5. f \in 1..Len(disk) /\ Len(disk) \in Nat /\ disk[f] \in Seq(Records)
  BY <1>1, <1>4
<1>6. i \in 1..Len(disk[f]) /\ Len(disk[f]) \in Nat /\ disk[f][i] \notin {Broken, Padding}
  <2>1. i \in 1..Len(disk[f]) /\ disk[f][i] # Broken /\ (\A j \in 1..i : disk[f][j] # Padding)
    BY <1>2 DEF Blocks
  <2>2. i \in 1..i
    BY <2>1
  <2> QED
    BY <1>5, <2>1, <2>2
<1>7. /\ disk[f][i] \in Seq(Txs) /\ DOMAIN disk[f][i] = 1..Len(disk[f][i])
      /\ \A u \in 1..Len(disk[f][i]) : DOMAIN disk[f][i][u] = 1..Len(disk[f][i][u])
  BY <1>5, <1>6, DiskIs
<1>8. t \in 1..Len(disk[f][i]) /\ Len(disk[f][i]) \in Nat /\ \E k \in DOMAIN disk[f][i][t] : disk[f][i][t][k] = s
  BY <1>3, <1>7 DEF TxsOf
<1>9. \E k \in 1..Len(disk[f][i][t]) : disk[f][i][t][k] = s
  BY <1>7, <1>8
<1>10. /\ f \in Nat /\ i \in Nat /\ t \in Nat /\ f >= 1 /\ i >= 1 /\ t >= 1
       /\ p[1] = f /\ p[2] = i /\ p[3] = t
  BY <1>3, <1>5, <1>6, <1>8
<1> QED
  BY <1>2, <1>5, <1>6, <1>8, <1>9, <1>10

LEMMA SeenNone == ASSUME NEW outs PROVE Seen(outs, 1) = {}
BY DEF Seen

\* The record under the reader, when it is a block, is one the property counts.
LEMMA HereIs ==
    ASSUME ActTypes, file <= Len(disk), Here \notin {Broken, Padding}
    PROVE  /\ file \in 1..Len(disk) /\ record \in 1..Len(disk[file]) /\ Here = disk[file][record]
           /\ record \in Blocks(disk[file])
<1>1. disk \in Seq(Seq(Records))
  BY DiskType DEF ActTypes
<1>2. file \in 1..Len(disk) /\ file \in Nat /\ Len(disk) \in Nat
  BY <1>1 DEF ActTypes
<1>3. Len(disk[file]) \in Nat
  BY <1>1, <1>2
<1>4. record <= Len(disk[file]) /\ Here = disk[file][record]
  BY DEF Here
<1>5. record \in 1..Len(disk[file])
  BY <1>3, <1>4 DEF ActTypes
<1>6. \A j \in 1..record : disk[file][j] # Padding
  <2> SUFFICES ASSUME NEW j \in 1..record PROVE disk[file][j] # Padding
    OBVIOUS
  <2>1. j = record \/ j \in 1..(record - 1)
    BY <1>5
  <2> QED
    BY <1>2, <1>4, <2>1 DEF ActTypes
<1> QED
  BY <1>2, <1>4, <1>5, <1>6 DEF Blocks

LEMMA ActInitOK == ActInit => ActInv
<1> SUFFICES ASSUME ActInit PROVE ActInv
  OBVIOUS
<1>0. /\ disk \in Disks /\ file = 1 /\ record = 1 /\ tx = 1 /\ output = 1 /\ run = Empty /\ pending = Empty
      /\ qualified = {} /\ cut = FALSE /\ active = Empty /\ phase = "scan"
  BY DEF ActInit
<1>1. Len(disk) \in Nat
  BY <1>0, DiskType
<1>2. ActTypes
  <2>1. \A j \in 1..(record - 1) : FALSE
    BY <1>0
  <2>2. file \in 1..(Len(disk) + 1) /\ record \in Nat \ {0} /\ tx \in Nat \ {0} /\ output \in Nat \ {0}
    BY <1>0, <1>1
  <2>3. phase # "done"
    BY <1>0
  <2> QED
    BY <1>0, <2>1, <2>2, <2>3 DEF ActTypes
<1>3. DOMAIN Empty = {}
  BY DEF Empty
<1>4. CountTypes
  BY <1>0, <1>3 DEF CountTypes
<1>5. ASSUME NEW s \in Outputs PROVE SoFar(s) = {}
  <2> SUFFICES ASSUME NEW p \in PaidBy(s), Passed(p, s) PROVE FALSE
    BY DEF SoFar
  <2>1. PICK f, i, u \in Nat : p[1] = f /\ p[2] = i /\ p[3] = u /\ f >= 1 /\ i >= 1 /\ u >= 1
    BY <1>0, PaidAt
  <2>4. ~InRecord(p, s)
    BY <1>0, <2>1, SeenNone DEF InRecord
  <2> QED
    BY <1>0, <1>1, <2>1, <2>4 DEF Passed, InFile
<1>6. CountsRight
  <2>1. IsFiniteSet({}) /\ Cardinality({}) = 0 /\ Capped(0) = 0
    BY FS_EmptySet, CounterType DEF Capped
  <2>2. ~(0 > ActiveMin)
    BY CounterType
  <2> QED
    BY <1>0, <1>3, <1>5, <2>1, <2>2 DEF CountsRight, CountRight, Count
<1> QED
  BY <1>0, <1>2, <1>4, <1>6 DEF ActInv, ActiveIsCounted

\* What moves the reader over a record, a file or a transaction that has been counted
\* comes past nothing more.
LEMMA NothingMore ==
    ASSUME ActTypes, NextFile \/ SkipBlock \/ BlockDone \/ TxDone, NEW s
    PROVE  SoFar(s)' = SoFar(s)
<1>0. disk' = disk /\ disk \in Disks /\ PaidBy(s)' = PaidBy(s)
  BY DEF NextFile, SkipBlock, BlockDone, TxDone, ActTypes, PaidBy, TxsOf
<1>1. file \in Nat /\ record \in Nat /\ tx \in Nat /\ output \in Nat /\ file <= Len(disk) /\ file \in 1..Len(disk)
  <2>1. Len(disk) \in Nat
    BY <1>0, DiskType
  <2> QED
    BY <2>1 DEF ActTypes, NextFile, SkipBlock, BlockDone, TxDone, InTx
<1> SUFFICES ASSUME NEW p \in PaidBy(s) PROVE Passed(p, s)' <=> Passed(p, s)
  BY <1>0 DEF SoFar
<1>2. PICK f, i, u \in Nat :
          /\ p[1] = f /\ p[2] = i /\ p[3] = u /\ f >= 1 /\ i >= 1 /\ u >= 1
          /\ f \in 1..Len(disk) /\ i \in 1..Len(disk[f]) /\ u \in 1..Len(disk[f][i])
          /\ i \in Blocks(disk[f]) /\ disk[f][i] \notin {Broken, Padding}
          /\ \E k \in 1..Len(disk[f][i][u]) : disk[f][i][u][k] = s
  BY <1>0, PaidAt
<1>3. p[1] = f /\ p[2] = i /\ p[3] = u /\ i >= 1 /\ u >= 1
  BY <1>2
<1>4. CASE NextFile
  <2>1. file' = file + 1 /\ record' = 1 /\ tx' = 1 /\ output' = 1 /\ Here = Padding
    BY <1>4 DEF NextFile
  <2>2. ASSUME f = file PROVE i < record
    <3>1. \A j \in 1..i : disk[f][j] # Padding
      BY <1>2 DEF Blocks
    <3>2. i <= Len(disk[f]) /\ Len(disk[f]) \in Nat
      BY <1>0, <1>2, DiskType
    <3> SUFFICES ASSUME record <= i PROVE FALSE
      BY <1>1, <1>2
    <3>3. record <= Len(disk[file]) /\ record \in 1..i
      BY <1>1, <1>2, <2>2, <3>2 DEF ActTypes
    <3> QED
      BY <2>1, <2>2, <3>1, <3>3 DEF Here
  <2>3. ~InFile(p, s)'
    BY <1>0, <1>2, <1>3, <2>1, SeenNone DEF InFile, InRecord
  <2>4. Passed(p, s)' <=> f < file + 1
    BY <1>3, <2>1, <2>3 DEF Passed
  <2>5. Passed(p, s) <=> f <= file
    BY <1>1, <1>2, <1>3, <2>2 DEF Passed, InFile
  <2> QED
    BY <1>1, <1>2, <2>4, <2>5
<1>5. CASE SkipBlock \/ BlockDone
  <2>1. file' = file /\ record' = record + 1 /\ tx' = 1 /\ output' = 1
    BY <1>5 DEF SkipBlock, BlockDone, NextRecord
  <2>2. ASSUME f = file, i = record PROVE u < tx
    <3>1. Here = disk[f][i]
      BY <1>0, <1>2, <2>2, DiskType DEF Here
    <3>2. BlockDone
      BY <1>2, <1>5, <3>1 DEF SkipBlock
    <3>3. tx > Len(disk[f][i])
      BY <3>1, <3>2 DEF BlockDone
    <3>4. disk[f][i] \in Seq(Txs)
      BY <1>0, <1>2, DiskIs
    <3>5. Len(disk[f][i]) \in Nat
      BY <3>4
    <3> QED
      BY <1>1, <1>2, <3>3, <3>5
  <2>3. InRecord(p, s)' <=> FALSE
    BY <1>0, <1>2, <1>3, <2>1, SeenNone DEF InRecord
  <2>4. Passed(p, s)' <=> f < file \/ (f = file /\ i < record + 1)
    BY <1>3, <2>1, <2>3 DEF Passed, InFile
  <2>5. Passed(p, s) <=> f < file \/ (f = file /\ i <= record)
    <3>1. f = file /\ i = record => InRecord(p, s)
      BY <1>3, <2>2 DEF InRecord
    <3> QED
      BY <1>1, <1>2, <1>3, <3>1 DEF Passed, InFile
  <2> QED
    BY <1>1, <1>2, <2>4, <2>5
<1>6. CASE TxDone
  <2>1. file' = file /\ record' = record /\ tx' = tx + 1 /\ output' = 1 /\ output > Len(Here[tx])
    BY <1>6 DEF TxDone
  <2>2. ASSUME f = file, i = record, u = tx PROVE s \in Seen(disk[f][i][u], output)
    <3>1. Here = disk[f][i]
      BY <1>0, <1>2, <2>2, DiskType DEF Here
    <3>2. disk[f][i][u] \in Seq(Outputs \cup {NoScript})
      BY <1>0, <1>2, DiskIs
    <3>3. output > Len(disk[f][i][u]) /\ Len(disk[f][i][u]) \in Nat
      BY <2>1, <2>2, <3>1, <3>2
    <3>4. PICK k \in 1..Len(disk[f][i][u]) : disk[f][i][u][k] = s
      BY <1>2
    <3>5. k \in 1..output - 1
      BY <1>1, <3>3, <3>4
    <3> QED
      BY <3>4, <3>5 DEF Seen
  <2>3. InRecord(p, s)' <=> u < tx + 1
    <3>1. Seen(disk[f][i][u], output)' = {}
      BY <2>1, SeenNone
    <3> QED
      BY <1>0, <1>3, <2>1, <3>1 DEF InRecord
  <2>4. f = file /\ i = record => (InRecord(p, s) <=> u <= tx)
    BY <1>1, <1>2, <1>3, <2>2 DEF InRecord
  <2>5. f = file /\ i = record => (InRecord(p, s)' <=> InRecord(p, s))
    BY <1>1, <1>2, <2>3, <2>4
  <2> QED
    BY <1>3, <2>1, <2>5 DEF Passed, InFile
<1> QED
  BY <1>4, <1>5, <1>6

\* An output brings its transaction in for its script, the first time one pays it.
LEMMA OneOutputMore ==
    ASSUME ActTypes, CountOutput, NEW s
    PROVE  LET here == <<file, record, tx>>
           IN  IF s = Here[tx][output] /\ s \notin Seen(Here[tx], output)
               THEN here \notin SoFar(s) /\ SoFar(s)' = SoFar(s) \cup {here}
               ELSE SoFar(s)' = SoFar(s)
<1> DEFINE here == <<file, record, tx>>
           new == s = Here[tx][output] /\ s \notin Seen(Here[tx], output)
<1>0. /\ disk' = disk /\ file' = file /\ record' = record /\ tx' = tx /\ output' = output + 1
      /\ disk \in Disks /\ file \in Nat /\ record \in Nat /\ tx \in Nat \ {0} /\ output \in Nat \ {0}
      /\ file <= Len(disk) /\ Here \notin {Broken, Padding} /\ tx <= Len(Here) /\ output <= Len(Here[tx])
  BY DEF CountOutput, InTx, ActTypes
<1>1. PaidBy(s)' = PaidBy(s)
  BY <1>0 DEF PaidBy, TxsOf
<1>2. /\ file \in 1..Len(disk) /\ record \in 1..Len(disk[file]) /\ Here = disk[file][record]
      /\ record \in Blocks(disk[file])
  BY <1>0, HereIs
<1>3. disk[file][record] \in Seq(Txs) /\ DOMAIN disk[file][record] = 1..Len(disk[file][record])
  BY <1>0, <1>2, DiskIs
<1>4. tx \in 1..Len(Here)
  BY <1>0, <1>2, <1>3
<1>5. Here[tx] \in Seq(Outputs \cup {NoScript}) /\ DOMAIN Here[tx] = 1..Len(Here[tx])
  <2>1. disk[file][record] \notin {Broken, Padding} /\ tx \in 1..Len(disk[file][record])
    BY <1>0, <1>2, <1>4
  <2>2. \A t \in 1..Len(disk[file][record]) :
            /\ disk[file][record][t] \in Seq(Outputs \cup {NoScript})
            /\ DOMAIN disk[file][record][t] = 1..Len(disk[file][record][t])
    BY <1>0, <1>2, <2>1, DiskIs
  <2> QED
    BY <1>2, <2>1, <2>2
<1>6. output \in DOMAIN Here[tx]
  BY <1>0, <1>5
<1>7. Seen(Here[tx], output + 1) = Seen(Here[tx], output) \cup {Here[tx][output]}
  <2>1. \A k \in 1..(output + 1) - 1 : k \in 1..output - 1 \/ k = output
    BY <1>0
  <2>2. (\A k \in 1..output - 1 : k \in 1..(output + 1) - 1) /\ output \in 1..(output + 1) - 1
    BY <1>0
  <2> QED
    BY <2>1, <2>2 DEF Seen
<1>8. here \in PaidBy(s) <=> \E k \in DOMAIN Here[tx] : Here[tx][k] = s
  <2>1. here \in PaidBy(s) => \E k \in DOMAIN Here[tx] : Here[tx][k] = s
    <3> SUFFICES ASSUME here \in PaidBy(s) PROVE \E k \in DOMAIN Here[tx] : Here[tx][k] = s
      OBVIOUS
    <3>1. PICK f, i, u \in Nat : here[1] = f /\ here[2] = i /\ here[3] = u /\ \E k \in 1..Len(disk[f][i][u]) : disk[f][i][u][k] = s
      BY <1>0, PaidAt
    <3>2. f = file /\ i = record /\ u = tx
      BY <3>1
    <3> QED
      BY <1>2, <1>5, <3>1, <3>2
  <2>2. (\E k \in DOMAIN Here[tx] : Here[tx][k] = s) => here \in PaidBy(s)
    <3>1. file \in DOMAIN disk
      <4>1. disk \in Seq(Seq(Records))
        BY <1>0, DiskType
      <4> QED
        BY <1>2, <4>1
    <3>2. tx \in DOMAIN disk[file][record]
      BY <1>2, <1>3, <1>4
    <3> QED
      BY <1>2, <3>1, <3>2, PaidIs DEF TxsOf
  <2> QED
    BY <2>1, <2>2
<1>9. Passed(here, s) <=> s \in Seen(Here[tx], output)
  <2>1. here[1] = file /\ here[2] = record /\ here[3] = tx /\ ~(file < file) /\ ~(record < record) /\ ~(tx < tx)
    BY <1>0
  <2> QED
    BY <1>2, <2>1 DEF Passed, InFile, InRecord
<1>10. Passed(here, s)' <=> s \in Seen(Here[tx], output) \cup {Here[tx][output]}
  <2>1. here'[1] = file /\ here'[2] = record /\ here'[3] = tx /\ ~(file < file) /\ ~(record < record) /\ ~(tx < tx)
    BY <1>0
  <2>2. Seen(disk[file][record][tx], output)' = Seen(disk[file][record][tx], output + 1)
    BY <1>0 DEF Seen
  <2>3. Seen(disk[here[1]][here[2]][here[3]], output)' = Seen(disk[file][record][tx], output)'
    BY <1>0, <2>1
  <2>4. InRecord(here, s)' <=> s \in Seen(disk[file][record][tx], output + 1)
    BY <1>0, <2>1, <2>2, <2>3 DEF InRecord
  <2>5. Passed(here, s)' <=> s \in Seen(disk[file][record][tx], output + 1)
    BY <1>0, <2>1, <2>4 DEF Passed, InFile
  <2> QED
    BY <1>2, <1>7, <2>5
<1>11. ASSUME NEW p \in PaidBy(s), p # here PROVE Passed(p, s)' <=> Passed(p, s)
  <2>1. PICK f \in DOMAIN disk : \E i \in Blocks(disk[f]) : \E u \in TxsOf(f, i, s) : p = <<f, i, u>>
    BY PaidIs
  <2>2. PICK i \in Blocks(disk[f]) : \E u \in TxsOf(f, i, s) : p = <<f, i, u>>
    BY <2>1
  <2>3. PICK u \in TxsOf(f, i, s) : p = <<f, i, u>>
    BY <2>2
  <2>4. p[1] = f /\ p[2] = i /\ p[3] = u /\ ~(f = file /\ i = record /\ u = tx)
    BY <1>11, <2>3
  <2>5. f = file /\ i = record => (InRecord(p, s)' <=> InRecord(p, s))
    BY <1>0, <2>4 DEF InRecord
  <2> QED
    BY <1>0, <2>4, <2>5 DEF Passed, InFile
<1>12. here' = here
  BY <1>0
<1> HIDE DEF here
<1>13. CASE new
  <2>1. here \in PaidBy(s) /\ ~Passed(here, s) /\ Passed(here, s)'
    BY <1>6, <1>8, <1>9, <1>10, <1>13
  <2> QED
    BY <1>1, <1>11, <1>12, <1>13, <2>1 DEF SoFar, here
<1>14. CASE ~new
  <2>1. here \in PaidBy(s) => (Passed(here, s)' <=> Passed(here, s))
    BY <1>9, <1>10, <1>14
  <2> QED
    BY <1>1, <1>11, <1>12, <1>14, <2>1 DEF SoFar
<1> QED
  BY <1>13, <1>14

LEMMA FieldIs == ASSUME NEW n \in Nat, n <= MaxCount PROVE Field(n) = n
<1>1. MaxCount \in Nat
  BY CounterType
<1>2. n % (MaxCount + 1) = n
  BY <1>1, SMTT(60)
<1> QED
  BY <1>2 DEF Field

LEMMA FieldFits == ASSUME NEW n \in Nat PROVE Field(n) \in 0..MaxCount
<1>1. MaxCount \in Nat
  BY CounterType
<1>2. n % (MaxCount + 1) \in 0..MaxCount
  BY <1>1, SMTT(60)
<1> QED
  BY <1>2 DEF Field

\* What add leaves: the count the script now has, in the run or the buffer, or in the run
\* with the buffer folded into it.
NowOf(s) == IF s \in DOMAIN run THEN IF run[s] < MaxCount THEN run[s] + 1 ELSE run[s]
            ELSE IF s \in DOMAIN pending THEN pending[s] + 1 ELSE 1
WithNow(s) == [x \in DOMAIN pending \cup {s} |-> IF x = s THEN NowOf(s) ELSE pending[x]]
AddedOne(s) ==
    /\ qualified' = IF NowOf(s) > ActiveMin THEN qualified \cup {s} ELSE qualified
    /\ cut' = (cut \/ NowOf(s) > MaxCount)
    /\ \/ s \in DOMAIN run /\ run' = [run EXCEPT ![s] = NowOf(s)] /\ pending' = pending
       \/ s \notin DOMAIN run /\ run' = run /\ pending' = WithNow(s)
       \/ s \notin DOMAIN run /\ run' = Folded(run, WithNow(s)) /\ pending' = Empty

LEMMA CountIs ==
    ASSUME CountOutput, NEW s, s = Here[tx][output]
    PROVE  IF s \in Seen(Here[tx], output) \cup {NoScript}
           THEN UNCHANGED <<run, pending, qualified, cut>>
           ELSE AddedOne(s)
<1> DEFINE c == [run |-> run, pending |-> pending, qualified |-> qualified, cut |-> cut]
           d == IF s \in Seen(Here[tx], output) \cup {NoScript} THEN c ELSE Add(c, s)
<1>1. run' = d.run /\ pending' = d.pending /\ qualified' = d.qualified /\ cut' = d.cut
  BY DEF CountOutput
<1>2. CASE s \in Seen(Here[tx], output) \cup {NoScript}
  <2>1. d = c
    BY <1>2
  <2>2. c.run = run /\ c.pending = pending /\ c.qualified = qualified /\ c.cut = cut
    OBVIOUS
  <2> HIDE DEF c, d
  <2> QED
    BY <1>1, <1>2, <2>1, <2>2
<1>3. CASE s \notin Seen(Here[tx], output) \cup {NoScript}
  <2> DEFINE n == IF s \in DOMAIN c.run THEN Bumped(c, s) ELSE CountOf(Empty, c.pending, s) + 1
             more == [x \in DOMAIN c.pending \cup {s} |-> IF x = s THEN n ELSE c.pending[x]]
             e == [c EXCEPT !.qualified = IF n > ActiveMin THEN @ \cup {s} ELSE @,
                            !.cut = @ \/ n > MaxCount]
  <2>1. c.run = run /\ c.pending = pending /\ c.qualified = qualified /\ c.cut = cut
    OBVIOUS
  <2>2. n = NowOf(s)
    <3>1. CountOf(Empty, pending, s) = IF s \in DOMAIN pending THEN pending[s] ELSE 0
      BY DEF CountOf, Empty
    <3>2. 0 + 1 = 1
      OBVIOUS
    <3> QED
      BY <2>1, <3>1, <3>2 DEF NowOf, Bumped
  <2>3. more = WithNow(s)
    BY <2>1, <2>2 DEF WithNow
  <2>4. /\ e.run = run /\ e.pending = pending
        /\ e.qualified = (IF n > ActiveMin THEN qualified \cup {s} ELSE qualified)
        /\ e.cut = (cut \/ n > MaxCount)
    <3> HIDE DEF n
    <3> QED
      OBVIOUS
  <2>5. e = [run |-> run, pending |-> pending, qualified |-> e.qualified, cut |-> e.cut]
    <3> DEFINE q == IF n > ActiveMin THEN c.qualified \cup {s} ELSE c.qualified
               k == c.cut \/ n > MaxCount
    <3>1. e = [c EXCEPT !.qualified = q, !.cut = k]
      OBVIOUS
    <3> HIDE DEF q, k, e, n
    <3>2. e = [run |-> run, pending |-> pending, qualified |-> q, cut |-> k]
      BY <3>1
    <3> QED
      BY <3>2
  <2>6. \/ s \in DOMAIN c.run /\ Add(c, s) = [e EXCEPT !.run[s] = n]
        \/ s \notin DOMAIN c.run /\ Add(c, s) = [e EXCEPT !.pending = more]
        \/ s \notin DOMAIN c.run /\ Add(c, s) = [e EXCEPT !.run = Folded(c.run, more), !.pending = Empty]
    BY DEF Add
  <2> HIDE DEF more, n, e
  <2>7. d = Add(c, s)
    BY <1>3
  <2> HIDE DEF c, d
  <2>8. CASE s \in DOMAIN run /\ d = [e EXCEPT !.run[s] = n]
    <3>1. d.run = [run EXCEPT ![s] = n] /\ d.pending = e.pending /\ d.qualified = e.qualified /\ d.cut = e.cut
      BY <2>5, <2>8
    <3> QED
      BY <1>1, <1>3, <2>2, <2>4, <2>8, <3>1 DEF AddedOne
  <2>9. CASE s \notin DOMAIN run /\ d = [e EXCEPT !.pending = more]
    <3>1. d.run = e.run /\ d.pending = more /\ d.qualified = e.qualified /\ d.cut = e.cut
      BY <2>5, <2>9
    <3> QED
      BY <1>1, <1>3, <2>2, <2>3, <2>4, <2>9, <3>1 DEF AddedOne
  <2>10. CASE s \notin DOMAIN run /\ d = [e EXCEPT !.run = Folded(run, more), !.pending = Empty]
    <3>1. d.run = Folded(run, more) /\ d.pending = Empty /\ d.qualified = e.qualified /\ d.cut = e.cut
      BY <2>5, <2>10
    <3> QED
      BY <1>1, <1>3, <2>2, <2>3, <2>4, <2>10, <3>1 DEF AddedOne
  <2> QED
    BY <2>1, <2>6, <2>7, <2>8, <2>9, <2>10
<1> QED
  BY <1>2, <1>3

LEMMA ActTypesStep == ASSUME ActInv, [ActNext]_actVars PROVE ActTypes'
<1>0. ActTypes /\ Len(disk) \in Nat /\ disk \in Disks
  BY DiskType DEF ActInv, ActTypes
<1>1. CASE NextFile
  <2>1. /\ disk' = disk /\ file <= Len(disk) /\ file' = file + 1 /\ record' = 1 /\ tx' = 1 /\ output' = 1
        /\ UNCHANGED <<phase, cut, active>> /\ phase = "scan"
    BY <1>1 DEF NextFile, counts
  <2>2. file' \in 1..(Len(disk) + 1) /\ 1 \in Nat \ {0} /\ (\A j \in 1..(1 - 1) : FALSE)
    BY <1>0, <2>1 DEF ActTypes
  <2> QED
    BY <1>0, <2>1, <2>2 DEF ActTypes
<1>2. CASE SkipBlock \/ BlockDone
  <2>1. /\ disk' = disk /\ file <= Len(disk) /\ file' = file /\ record' = record + 1 /\ tx' = 1 /\ output' = 1
        /\ UNCHANGED <<phase, cut, active>> /\ phase = "scan" /\ Here # Padding
    <3>1. Broken # Padding
      BY DiskType
    <3> QED
      BY <1>2, <3>1 DEF SkipBlock, BlockDone, NextRecord, counts
  <2>2. Len(disk[file]) \in Nat /\ record \in Nat \ {0}
    <3>1. file \in 1..Len(disk)
      BY <1>0, <2>1 DEF ActTypes
    <3> QED
      BY <1>0, <3>1, DiskType DEF ActTypes
  <2>3. record <= Len(disk[file]) /\ Here = disk[file][record]
    BY <2>1 DEF Here
  <2>4. \A j \in 1..(record + 1 - 1) : j <= Len(disk[file]) /\ disk[file][j] # Padding
    <3> SUFFICES ASSUME NEW j \in 1..(record + 1 - 1) PROVE j <= Len(disk[file]) /\ disk[file][j] # Padding
      OBVIOUS
    <3>1. j = record \/ j \in 1..(record - 1)
      BY <2>2
    <3> QED
      BY <1>0, <2>1, <2>3, <3>1 DEF ActTypes
  <2>5. record' \in Nat \ {0} /\ 1 \in Nat \ {0}
    BY <2>1, <2>2
  <2> QED
    BY <1>0, <2>1, <2>4, <2>5 DEF ActTypes
<1>3. CASE TxDone
  <2>1. /\ UNCHANGED <<disk, file, record, phase, cut, active>> /\ tx' = tx + 1 /\ output' = 1
    BY <1>3 DEF TxDone, counts
  <2>2. tx' \in Nat \ {0} /\ 1 \in Nat \ {0}
    BY <1>0, <2>1 DEF ActTypes
  <2> QED
    BY <1>0, <2>1, <2>2 DEF ActTypes
<1>4. CASE CountOutput
  <2>1. /\ UNCHANGED <<disk, file, record, tx, phase, active>> /\ output' = output + 1
    BY <1>4 DEF CountOutput
  <2>2. output' \in Nat \ {0}
    BY <1>0, <2>1 DEF ActTypes
  <2>3. cut' \in BOOLEAN
    BY <1>0, <1>4, CountIs DEF ActTypes, AddedOne
  <2> QED
    BY <1>0, <2>1, <2>2, <2>3 DEF ActTypes
<1>5. CASE StoreActive
  <2>1. UNCHANGED <<disk, place, cut>> /\ phase' = "done" /\ file > Len(disk)
    BY <1>5 DEF StoreActive
  <2> QED
    BY <1>0, <2>1 DEF ActTypes, place
<1>6. CASE UNCHANGED actVars
  BY <1>0, <1>6 DEF ActTypes, actVars, place, counts
<1> QED
  BY <1>1, <1>2, <1>3, <1>4, <1>5, <1>6 DEF ActNext

LEMMA ScriptHere ==
    ASSUME ActInv, CountOutput
    PROVE  Here[tx][output] \in Outputs \cup {NoScript}
<1>0. /\ ActTypes /\ disk \in Disks /\ tx \in Nat \ {0} /\ output \in Nat \ {0}
      /\ file <= Len(disk) /\ Here \notin {Broken, Padding} /\ tx <= Len(Here) /\ output <= Len(Here[tx])
  BY DEF CountOutput, InTx, ActInv, ActTypes
<1>1. file \in 1..Len(disk) /\ record \in 1..Len(disk[file]) /\ Here = disk[file][record]
  BY <1>0, HereIs
<1>2. /\ disk[file][record] \in Seq(Txs)
      /\ \A t \in 1..Len(disk[file][record]) : disk[file][record][t] \in Seq(Outputs \cup {NoScript})
  BY <1>0, <1>1, DiskIs
<1>3. tx \in 1..Len(Here)
  BY <1>0, <1>1, <1>2
<1>4. Here[tx] \in Seq(Outputs \cup {NoScript})
  BY <1>1, <1>2, <1>3
<1> QED
  BY <1>0, <1>4

LEMMA NowType ==
    ASSUME CountTypes, NEW s
    PROVE  NowOf(s) \in Nat /\ (s \in DOMAIN run => NowOf(s) \in 0..MaxCount)
<1>0. MaxCount \in Nat
  BY CounterType
<1>1. s \in DOMAIN run => run[s] \in 0..MaxCount
  BY DEF CountTypes
<1>2. s \in DOMAIN pending => pending[s] \in Nat
  BY DEF CountTypes
<1> QED
  BY <1>0, <1>1, <1>2 DEF NowOf

LEMMA FoldedIs ==
    ASSUME NEW r, NEW p, \A s \in DOMAIN r : r[s] \in 0..MaxCount, \A s \in DOMAIN p : p[s] \in Nat
    PROVE  /\ DOMAIN Folded(r, p) = DOMAIN r \cup DOMAIN p
           /\ \A s \in DOMAIN Folded(r, p) : Folded(r, p)[s] \in 0..MaxCount
           /\ \A s \in DOMAIN p : p[s] <= MaxCount => Folded(r, p)[s] = p[s]
           /\ \A s \in DOMAIN r \ DOMAIN p : Folded(r, p)[s] = r[s]
BY FieldIs, FieldFits DEF Folded

LEMMA FoldNow ==
    ASSUME CountTypes, NEW s
    PROVE  /\ DOMAIN Folded(run, WithNow(s)) = DOMAIN run \cup DOMAIN pending \cup {s}
           /\ \A x \in DOMAIN Folded(run, WithNow(s)) : Folded(run, WithNow(s))[x] \in 0..MaxCount
           /\ \A x \in DOMAIN pending \cup {s} :
                  WithNow(s)[x] <= MaxCount => Folded(run, WithNow(s))[x] = WithNow(s)[x]
           /\ \A x \in DOMAIN run : x \notin DOMAIN pending \cup {s} => Folded(run, WithNow(s))[x] = run[x]
<1> DEFINE more == WithNow(s)
<1>1. DOMAIN more = DOMAIN pending \cup {s} /\ \A x \in DOMAIN more : more[x] \in Nat
  BY NowType DEF WithNow, CountTypes
<1>2. \A x \in DOMAIN run : run[x] \in 0..MaxCount
  BY DEF CountTypes
<1> HIDE DEF more
<1>3. /\ DOMAIN Folded(run, more) = DOMAIN run \cup DOMAIN more
      /\ \A x \in DOMAIN Folded(run, more) : Folded(run, more)[x] \in 0..MaxCount
      /\ \A x \in DOMAIN more : more[x] <= MaxCount => Folded(run, more)[x] = more[x]
      /\ \A x \in DOMAIN run \ DOMAIN more : Folded(run, more)[x] = run[x]
  BY <1>1, <1>2, FoldedIs
<1>4. /\ DOMAIN Folded(run, more) = DOMAIN run \cup DOMAIN pending \cup {s}
      /\ \A x \in DOMAIN Folded(run, more) : Folded(run, more)[x] \in 0..MaxCount
      /\ \A x \in DOMAIN pending \cup {s} : more[x] <= MaxCount => Folded(run, more)[x] = more[x]
      /\ \A x \in DOMAIN run : x \notin DOMAIN pending \cup {s} => Folded(run, more)[x] = run[x]
  BY <1>1, <1>3
<1> QED
  BY <1>4 DEF more

LEMMA CountTypesStep == ASSUME ActInv, [ActNext]_actVars PROVE CountTypes'
<1>0. CountTypes
  BY DEF ActInv
<1>e. DOMAIN Empty = {}
  BY DEF Empty
<1>1. CASE UNCHANGED counts
  BY <1>0, <1>1 DEF CountTypes, counts
<1>2. CASE CountOutput
  <2> DEFINE s == Here[tx][output]
  <2>1. CASE s \in Seen(Here[tx], output) \cup {NoScript}
    BY <1>0, <1>2, <2>1, CountIs DEF CountTypes
  <2>2. CASE s \notin Seen(Here[tx], output) \cup {NoScript}
    <3>1. AddedOne(s) /\ s \in Outputs
      BY <1>2, <2>2, CountIs, ScriptHere
    <3> HIDE DEF s
    <3>2. NowOf(s) \in Nat /\ (s \in DOMAIN run => NowOf(s) \in 0..MaxCount)
      BY <1>0, NowType
    <3>3. qualified' \subseteq qualified \cup {s}
      BY <3>1 DEF AddedOne
    <3>4. CASE s \in DOMAIN run /\ run' = [run EXCEPT ![s] = NowOf(s)] /\ pending' = pending
      <4>1. DOMAIN run' = DOMAIN run /\ \A x \in DOMAIN run' : run'[x] \in 0..MaxCount
        BY <1>0, <3>2, <3>4 DEF CountTypes
      <4> QED
        BY <1>0, <3>3, <3>4, <4>1 DEF CountTypes
    <3>5. DOMAIN WithNow(s) = DOMAIN pending \cup {s} /\ \A x \in DOMAIN WithNow(s) : WithNow(s)[x] \in Nat
      BY <1>0, <3>2 DEF WithNow, CountTypes
    <3>6. CASE s \notin DOMAIN run /\ run' = run /\ pending' = WithNow(s)
      BY <1>0, <3>1, <3>3, <3>5, <3>6 DEF CountTypes
    <3>7. CASE s \notin DOMAIN run /\ run' = Folded(run, WithNow(s)) /\ pending' = Empty
      <4>2. DOMAIN run' = DOMAIN run \cup DOMAIN pending \cup {s} /\ \A x \in DOMAIN run' : run'[x] \in 0..MaxCount
        BY <1>0, <3>7, FoldNow
      <4> QED
        BY <1>0, <1>e, <3>1, <3>3, <3>7, <4>2 DEF CountTypes
    <3> QED
      BY <3>1, <3>4, <3>6, <3>7 DEF AddedOne
  <2> QED
    BY <2>1, <2>2
<1>3. CASE StoreActive
  <2>1. run' = Folded(run, pending) /\ pending' = Empty /\ qualified' = qualified
    BY <1>3 DEF StoreActive
  <2>2. DOMAIN run' = DOMAIN run \cup DOMAIN pending /\ \A x \in DOMAIN run' : run'[x] \in 0..MaxCount
    BY <1>0, <2>1, FoldedIs DEF CountTypes
  <2> QED
    BY <1>0, <1>e, <2>1, <2>2 DEF CountTypes
<1> QED
  BY <1>1, <1>2, <1>3 DEF ActNext, NextFile, SkipBlock, BlockDone, TxDone, actVars

LEMMA CountRightStep ==
    ASSUME ActInv, CountOutput, NEW s, s = Here[tx][output], AddedOne(s), NEW x \in Outputs,
           phase = "scan", ~cut', s \in Outputs, IsFiniteSet(SoFar(x)),
           Count(x)' = IF x = s THEN Count(x) + 1 ELSE Count(x)
    PROVE  CountRight(x)'
<1>0. CountTypes /\ ~cut /\ NowOf(s) <= MaxCount /\ MaxCount \in Nat /\ ActiveMin \in Nat
  <2>1. CountTypes /\ NowOf(s) \in Nat /\ MaxCount \in Nat /\ ActiveMin \in Nat
    BY NowType, CounterType DEF ActInv
  <2>2. ~cut /\ ~(NowOf(s) > MaxCount)
    BY DEF AddedOne
  <2>3. NowOf(s) <= MaxCount
    BY <2>1, <2>2
  <2> QED
    BY <2>1, <2>2, <2>3
<1>1. CountRight(x) /\ CountRight(s) /\ IsFiniteSet(SoFar(s))
  BY <1>0 DEF ActInv, CountsRight
<1>2. Count(x) \in Nat /\ Count(s) \in Nat
  BY <1>1, FS_CardinalityType DEF Count
<1>3. /\ NowOf(s) = Capped(Count(s) + 1)
      /\ s \notin DOMAIN run => NowOf(s) = Count(s) + 1
  <2>1. s \in DOMAIN run => run[s] = Capped(Count(s))
    BY <1>1 DEF CountRight
  <2>2. s \in DOMAIN pending => pending[s] = Count(s)
    BY <1>1 DEF CountRight
  <2>3. s \notin DOMAIN run \cup DOMAIN pending => Count(s) = 0
    BY <1>1 DEF CountRight
  <2> QED
    BY <1>0, <1>2, <2>1, <2>2, <2>3 DEF NowOf, Capped
<1>4. CASE x # s
  <2>1. Count(x)' = Count(x) /\ (x \in qualified => x \in qualified')
    BY <1>4 DEF AddedOne
  <2>2. /\ x \in DOMAIN run => run[x] = Capped(Count(x))
        /\ x \in DOMAIN pending => pending[x] = Count(x) /\ Count(x) <= MaxCount
        /\ x \notin DOMAIN run \cup DOMAIN pending => Count(x) = 0
        /\ Capped(Count(x)) > ActiveMin => x \in qualified
    BY <1>1 DEF CountRight
  <2>3. x \in DOMAIN pending => x \notin DOMAIN run
    BY <1>0 DEF CountTypes
  <2>4. CASE run' = [run EXCEPT ![s] = NowOf(s)] /\ pending' = pending
    BY <1>4, <2>1, <2>2, <2>4 DEF CountRight, Capped
  <2>5. DOMAIN WithNow(s) = DOMAIN pending \cup {s} /\ (x \in DOMAIN pending => WithNow(s)[x] = pending[x])
    BY <1>4 DEF WithNow
  <2>6. CASE run' = run /\ pending' = WithNow(s)
    BY <1>4, <2>1, <2>2, <2>5, <2>6 DEF CountRight, Capped
  <2>7. CASE run' = Folded(run, WithNow(s)) /\ pending' = Empty
    <3>3. /\ DOMAIN run' = DOMAIN run \cup DOMAIN pending \cup {s}
          /\ \A y \in DOMAIN pending \cup {s} : WithNow(s)[y] <= MaxCount => run'[y] = WithNow(s)[y]
          /\ \A y \in DOMAIN run : y \notin DOMAIN pending \cup {s} => run'[y] = run[y]
      BY <1>0, <2>7, FoldNow
    <3>4. DOMAIN pending' = {}
      BY <2>7 DEF Empty
    <3>5. x \in DOMAIN run' => run'[x] = Capped(Count(x))
      <4>1. CASE x \in DOMAIN pending
        <5>1. run'[x] = Count(x) /\ Count(x) <= MaxCount
          BY <2>2, <2>5, <3>3, <4>1
        <5> QED
          BY <1>0, <1>2, <5>1 DEF Capped
      <4>2. CASE x \notin DOMAIN pending
        BY <1>4, <2>2, <2>5, <3>3, <4>2
      <4> QED
        BY <4>1, <4>2
    <3>6. x \notin DOMAIN run' => Count(x) = 0
      BY <2>2, <2>5, <3>3
    <3> QED
      BY <2>1, <2>2, <3>4, <3>5, <3>6 DEF CountRight, Capped
  <2> QED
    BY <2>4, <2>6, <2>7 DEF AddedOne
<1>5. CASE x = s
  <2>1. Count(s)' = Count(s) + 1
    BY <1>5
  <2>2. Capped(Count(s) + 1) > ActiveMin => s \in qualified'
    BY <1>3 DEF AddedOne
  <2>3. CASE s \in DOMAIN run /\ run' = [run EXCEPT ![s] = NowOf(s)] /\ pending' = pending
    <3>1. s \in DOMAIN run' /\ run'[s] = NowOf(s) /\ s \notin DOMAIN pending'
      BY <1>0, <2>3 DEF CountTypes
    <3> QED
      BY <1>3, <1>5, <2>1, <2>2, <3>1 DEF CountRight, Capped
  <2>4. s \in DOMAIN WithNow(s) /\ WithNow(s)[s] = NowOf(s)
    BY DEF WithNow
  <2>5. CASE s \notin DOMAIN run /\ run' = run /\ pending' = WithNow(s)
    <3>1. pending'[s] = Count(s) + 1 /\ Count(s) + 1 <= MaxCount /\ s \in DOMAIN pending' /\ s \notin DOMAIN run'
      BY <1>0, <1>3, <2>4, <2>5
    <3> QED
      BY <1>5, <2>1, <2>2, <3>1 DEF CountRight, Capped
  <2>6. CASE s \notin DOMAIN run /\ run' = Folded(run, WithNow(s)) /\ pending' = Empty
    <3>3. s \in DOMAIN run' /\ run'[s] = NowOf(s)
      <4>1. /\ DOMAIN run' = DOMAIN run \cup DOMAIN pending \cup {s}
            /\ \A y \in DOMAIN pending \cup {s} : WithNow(s)[y] <= MaxCount => run'[y] = WithNow(s)[y]
        BY <1>0, <2>6, FoldNow
      <4>2. s \in DOMAIN pending \cup {s} /\ WithNow(s)[s] <= MaxCount
        BY <1>0, <2>4
      <4> QED
        BY <2>4, <4>1, <4>2
    <3>4. DOMAIN pending' = {}
      BY <2>6 DEF Empty
    <3> QED
      BY <1>3, <1>5, <2>1, <2>2, <3>3, <3>4 DEF CountRight, Capped
  <2> QED
    BY <2>3, <2>5, <2>6 DEF AddedOne
<1> QED
  BY <1>4, <1>5

LEMMA CountsStep == ASSUME ActInv, [ActNext]_actVars PROVE CountsRight'
<1>0. ActTypes /\ CountsRight /\ CountTypes
  BY DEF ActInv
<1> SUFFICES ASSUME phase' = "scan", NEW x \in Outputs
             PROVE  IsFiniteSet(SoFar(x))' /\ (~cut' => CountRight(x)')
  BY DEF CountsRight
<1>1. CASE (NextFile \/ SkipBlock \/ BlockDone \/ TxDone \/ UNCHANGED actVars)
  <2>1. SoFar(x)' = SoFar(x)
    <3>1. CASE UNCHANGED actVars
      BY <3>1 DEF SoFar, PaidBy, TxsOf, Passed, InFile, InRecord, Seen, actVars, place, counts
    <3> QED
      BY <1>0, <1>1, <3>1, NothingMore
  <2>2. phase = "scan" /\ UNCHANGED <<run, pending, qualified, cut>>
    BY <1>1 DEF NextFile, SkipBlock, BlockDone, TxDone, actVars, counts
  <2>3. IsFiniteSet(SoFar(x)) /\ (~cut => CountRight(x))
    BY <1>0, <2>2 DEF CountsRight
  <2>4. Count(x)' = Count(x)
    BY <2>1 DEF Count
  <2> QED
    BY <2>1, <2>2, <2>3, <2>4 DEF CountRight
<1>2. CASE CountOutput
  <2> DEFINE s == Here[tx][output]
             here == <<file, record, tx>>
             new == x = s /\ x \notin Seen(Here[tx], output)
  <2>1. phase = "scan"
    BY <1>2 DEF CountOutput, InTx
  <2>2. IsFiniteSet(SoFar(x)) /\ (~cut => CountRight(x))
    BY <1>0, <2>1 DEF CountsRight
  <2>3. IF new THEN here \notin SoFar(x) /\ SoFar(x)' = SoFar(x) \cup {here} ELSE SoFar(x)' = SoFar(x)
    BY <1>0, <1>2, OneOutputMore
  <2>4. s \in Outputs \cup {NoScript}
    BY <1>2, ScriptHere
  <2>5. IF s \in Seen(Here[tx], output) \cup {NoScript}
        THEN UNCHANGED <<run, pending, qualified, cut>>
        ELSE AddedOne(s)
    BY <1>2, CountIs
  <2>6. s = Here[tx][output]
    OBVIOUS
  <2>7. NoScript \notin Outputs
    BY DiskType
  <2> HIDE DEF s, here
  <2>8. IsFiniteSet(SoFar(x)') /\ Cardinality(SoFar(x)') = (IF new THEN Cardinality(SoFar(x)) + 1 ELSE Cardinality(SoFar(x)))
    BY <2>2, <2>3, FS_AddElement
  <2>9. IsFiniteSet(SoFar(x))' /\ Count(x)' = (IF new THEN Count(x) + 1 ELSE Count(x))
    BY <2>8 DEF Count
  <2>10. CASE s \in Seen(Here[tx], output) \cup {NoScript}
    <3>1. ~new
      BY <2>7, <2>10
    <3>2. Count(x)' = Count(x)
      BY <2>9, <3>1
    <3> QED
      BY <2>2, <2>5, <2>9, <2>10, <3>2 DEF CountRight
  <2>11. CASE s \notin Seen(Here[tx], output) \cup {NoScript}
    <3>1. new <=> x = s
      BY <2>11
    <3>2. Count(x)' = IF x = s THEN Count(x) + 1 ELSE Count(x)
      BY <2>9, <3>1
    <3>3. AddedOne(s) /\ s \in Outputs
      BY <2>4, <2>5, <2>11
    <3>4. ~cut' => CountRight(x)'
      BY <1>2, <2>1, <2>2, <2>6, <3>2, <3>3, CountRightStep
    <3> QED
      BY <2>9, <3>4
  <2> QED
    BY <2>10, <2>11
<1>3. CASE StoreActive
  BY <1>3 DEF StoreActive
<1> QED
  BY <1>1, <1>2, <1>3 DEF ActNext

\* At the end of the files the scan has come past all there is.
LEMMA AllPassed ==
    ASSUME ActTypes, file > Len(disk), NEW s
    PROVE  SoFar(s) = PaidBy(s)
<1>1. Len(disk) \in Nat /\ disk \in Disks /\ file \in Nat
  BY DiskType DEF ActTypes
<1> SUFFICES ASSUME NEW p \in PaidBy(s) PROVE Passed(p, s)
  BY DEF SoFar
<1>2. PICK f \in DOMAIN disk : \E i \in Blocks(disk[f]) : \E u \in TxsOf(f, i, s) : p = <<f, i, u>>
  BY PaidIs
<1>3. p[1] = f
  BY <1>2
<1>4. f \in 1..Len(disk)
  <2>1. disk \in Seq(Seq(Records))
    BY <1>1, DiskType
  <2> QED
    BY <2>1
<1> QED
  BY <1>1, <1>3, <1>4 DEF Passed

LEMMA ActiveStep == ASSUME ActInv, [ActNext]_actVars PROVE ActiveIsCounted'
<1>0. ActTypes /\ CountsRight /\ CountTypes /\ ActiveIsCounted
  BY DEF ActInv
<1>1. CASE NextFile \/ SkipBlock \/ BlockDone \/ TxDone \/ CountOutput
  <2>1. phase' # "done"
    BY <1>1 DEF NextFile, SkipBlock, BlockDone, TxDone, CountOutput, InTx
  <2> QED
    BY <2>1 DEF ActiveIsCounted
<1>2. CASE UNCHANGED actVars
  <2>1. (\A s : PaidBy(s)' = PaidBy(s)) /\ UNCHANGED <<phase, cut, active>>
    BY <1>2 DEF PaidBy, TxsOf, actVars, counts
  <2> QED
    BY <1>0, <2>1 DEF ActiveIsCounted
<1>3. CASE StoreActive
  <2> SUFFICES ASSUME ~cut'
               PROVE  ActiveIsCounted'
    BY DEF ActiveIsCounted
  <2>1. /\ phase = "scan" /\ file > Len(disk) /\ ~cut /\ disk' = disk /\ active = Empty
        /\ run' = Folded(run, pending) /\ qualified' = qualified
    BY <1>0, <1>3 DEF StoreActive, ActTypes
  <2>2. /\ DOMAIN run' = DOMAIN run \cup DOMAIN pending
        /\ \A s \in DOMAIN pending : pending[s] <= MaxCount => run'[s] = pending[s]
        /\ \A s \in DOMAIN run \ DOMAIN pending : run'[s] = run[s]
    <3>1. (\A s \in DOMAIN run : run[s] \in 0..MaxCount) /\ \A s \in DOMAIN pending : pending[s] \in Nat
      BY <1>0 DEF CountTypes
    <3>2. /\ DOMAIN Folded(run, pending) = DOMAIN run \cup DOMAIN pending
          /\ \A s \in DOMAIN pending : pending[s] <= MaxCount => Folded(run, pending)[s] = pending[s]
          /\ \A s \in DOMAIN run \ DOMAIN pending : Folded(run, pending)[s] = run[s]
      BY <3>1, FoldedIs
    <3> QED
      BY <2>1, <3>2
  <2> DEFINE Total1(s) == Capped(Cardinality(PaidBy(s)))
  <2>3. ASSUME NEW s \in Outputs
        PROVE  /\ s \in DOMAIN run' => run'[s] = Total1(s)
               /\ Total1(s) > ActiveMin => s \in qualified
    <3>1. CountRight(s) /\ Count(s) = Cardinality(PaidBy(s)) /\ Count(s) \in Nat
      <4>1. IsFiniteSet(SoFar(s)) /\ CountRight(s)
        BY <1>0, <2>1 DEF CountsRight
      <4>2. SoFar(s) = PaidBy(s)
        BY <1>0, <2>1, AllPassed
      <4> QED
        BY <4>1, <4>2, FS_CardinalityType DEF Count
    <3>2. ASSUME s \in DOMAIN run' PROVE run'[s] = Capped(Count(s))
      <4>1. CASE s \in DOMAIN pending
        <5>1. pending[s] = Count(s) /\ Count(s) <= MaxCount
          BY <3>1, <4>1 DEF CountRight
        <5>2. run'[s] = Count(s) /\ MaxCount \in Nat
          BY <2>2, <4>1, <5>1, CounterType
        <5> QED
          BY <3>1, <5>1, <5>2 DEF Capped
      <4>2. CASE s \notin DOMAIN pending
        <5>1. s \in DOMAIN run
          BY <2>2, <3>2, <4>2
        <5>2. run'[s] = run[s]
          BY <2>2, <4>2, <5>1
        <5> QED
          BY <3>1, <5>1, <5>2 DEF CountRight
      <4> QED
        BY <4>1, <4>2
    <3> QED
      BY <3>1, <3>2 DEF CountRight
  <2>4. qualified \subseteq DOMAIN run' /\ DOMAIN run' \subseteq Outputs
    BY <1>0, <2>2 DEF CountTypes
  <2> DEFINE past == {s \in qualified : run'[s] > ActiveMin /\ Pays[s] # NoAddress}
  <2>5. PICK last \in [{Pays[s] : s \in past} -> past] :
            /\ \A a \in DOMAIN last : Pays[last[a]] = a
            /\ active' = [a \in DOMAIN last \cup DOMAIN active |-> IF a \in DOMAIN last THEN run'[last[a]] ELSE active[a]]
    BY <1>3, <2>1 DEF StoreActive, Past
  <2>6. past = {s \in Outputs : Total1(s) > ActiveMin /\ Pays[s] # NoAddress}
    BY <2>3, <2>4
  <2>7. \A s \in past : s \in Outputs /\ run'[s] = Total1(s)
    BY <2>3, <2>4
  <2> HIDE DEF Total1, past
  <2>8. DOMAIN last = {Pays[s] : s \in past} /\ \A a \in DOMAIN last : last[a] \in past
    BY <2>5
  <2>9. DOMAIN active = {}
    BY <2>1 DEF Empty
  <2>10. DOMAIN active' = {Pays[s] : s \in past} /\ \A a \in DOMAIN active' : active'[a] = run'[last[a]]
    BY <2>5, <2>8, <2>9
  <2>11. {Pays[s] : s \in past} = {Pays[s] : s \in {x \in Outputs : Total1(x) > ActiveMin}} \ {NoAddress}
    BY <2>6
  <2>12. \A a \in DOMAIN active' : \E s \in Outputs : Pays[s] = a /\ active'[a] = Total1(s)
    BY <2>5, <2>7, <2>8, <2>10
  <2>13. \A s : PaidBy(s)' = PaidBy(s)
    BY <2>1 DEF PaidBy, TxsOf
  <2> QED
    BY <2>10, <2>11, <2>12, <2>13 DEF ActiveIsCounted, Total1, Capped
<1> QED
  BY <1>1, <1>2, <1>3 DEF ActNext

LEMMA ActInvariant == ActSpec => []ActInv
<1>1. ActInv /\ [ActNext]_actVars => ActInv'
  <2> SUFFICES ASSUME ActInv, [ActNext]_actVars PROVE ActInv'
    OBVIOUS
  <2>1. ActTypes' /\ CountTypes'
    BY ActTypesStep, CountTypesStep
  <2>2. CountsRight' /\ ActiveIsCounted'
    BY CountsStep, ActiveStep
  <2> QED
    BY <2>1, <2>2 DEF ActInv
<1> QED
  BY <1>1, ActInitOK, PTL DEF ActSpec

-----------------------------------------------------------------------------
(* What the three builds leave in their files is of the chain they read: the   *)
(* state of richbuild and ababuild is exact at its height and block, over runs *)
(* that carried on from one another, blocks fetched out of order, buffers that *)
(* filled and runs that ended anywhere, the answer is the one its flags select *)
(* from it, and the addresses of actbuild are those of the files, with their   *)
(* counts (richbuild.go, ababuild.go, actbuild.go, counter.go).  For every     *)
(* script, block, flag, batch, number of shards, fetched blocks and faults.    *)
THEOREM AnswersAreOfChain == BuildSpec /\ ActSpec => []AnswersOfChain
<1>1. BuildInv /\ ActInv => AnswersOfChain
  BY StateRight, SelectedRight DEF AnswersOfChain, ActInv
<1> QED
  BY <1>1, BuildInvariant, ActInvariant, PTL
=============================================================================
