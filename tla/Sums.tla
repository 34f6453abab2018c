-------------------------------- MODULE Sums --------------------------------
(***************************************************************************)
(* Lemmas about sums over finite sets, quotients, the least and the        *)
(* highest of some numbers, orders and sequences joined, for the proofs    *)
(* that need them.  They are for any function: a recursive definition is   *)
(* shown to define a function by the least size of set it might fail for,  *)
(* which WFMin gives for a set of numbers.                                 *)
(***************************************************************************)
EXTENDS Integers, Sequences, SequencesExt, FiniteSetsExt, FiniteSetTheorems, SequenceTheorems,
        WellFoundedInduction, TLAPS

-----------------------------------------------------------------------------
(* Sums over finite sets.  What an induction would show of every number,   *)
(* or of every finite set, is of the least number it fails for.            *)

\* A set of numbers that has 0 and the successor of each of its numbers.
LEMMA EveryNumber ==
    ASSUME NEW N \in SUBSET Nat, 0 \in N, \A n \in N : n + 1 \in N
    PROVE  N = Nat
<1> SUFFICES ASSUME Nat \ N # {} PROVE FALSE
  OBVIOUS
<1>1. PICK m \in Nat \ N : \A y \in Nat \ N : ~(<<y, m>> \in OpToRel(<, Nat))
  BY WFMin, NatLessThanWellFounded, Zenon
<1>2. m # 0 /\ m - 1 \in Nat
  OBVIOUS
<1>3. <<m - 1, m>> \in OpToRel(<, Nat)
  BY <1>2 DEF OpToRel
<1>4. m - 1 \in N
  BY <1>1, <1>2, <1>3
<1>5. (m - 1) + 1 \in N /\ (m - 1) + 1 = m
  BY <1>4
<1> QED
  BY <1>5

Chosen(s) == CHOOSE x \in s : TRUE

LEMMA ChosenIn == ASSUME NEW s, s # {} PROVE Chosen(s) \in s
BY DEF Chosen

\* The function that the fold of a sum is defined by.
Adds(it, v, S) == it = [s \in SUBSET S |-> IF s = {} THEN 0 ELSE v[Chosen(s)] + it[s \ {Chosen(s)}]]
SumOn(v, S) == FoldFunctionOnSet(+, 0, v, S)

LEMMA AddsIs ==
    ASSUME NEW it, NEW v, NEW S, Adds(it, v, S), NEW s \in SUBSET S
    PROVE  it[s] = IF s = {} THEN 0 ELSE v[Chosen(s)] + it[s \ {Chosen(s)}]
<1> DEFINE rhs == [u \in SUBSET S |-> IF u = {} THEN 0 ELSE v[Chosen(u)] + it[u \ {Chosen(u)}]]
<1>1. it = rhs
  BY DEF Adds
<1>2. rhs[s] = IF s = {} THEN 0 ELSE v[Chosen(s)] + it[s \ {Chosen(s)}]
  OBVIOUS
<1> QED
  BY <1>1, <1>2

\* Without its chosen element, a set is one smaller.
LEMMA OneSmaller ==
    ASSUME NEW s, IsFiniteSet(s), NEW n \in Nat, Cardinality(s) = n + 1, NEW x \in s
    PROVE  IsFiniteSet(s \ {x}) /\ Cardinality(s \ {x}) = n
BY FS_RemoveElement

LEMMA AddsExists ==
    ASSUME NEW v, NEW S, IsFiniteSet(S)
    PROVE  \E it : Adds(it, v, S)
<1> DEFINE Next1(a, s) == IF s = {} THEN 0 ELSE v[Chosen(s)] + a[s \ {Chosen(s)}]
           UpToSize(a, n) == \A s \in SUBSET S : Cardinality(s) <= n => a[s] = Next1(a, s)
           N == {n \in Nat : \E a : UpToSize(a, n)}
<1>0. \A s \in SUBSET S : IsFiniteSet(s) /\ Cardinality(s) \in Nat /\ Cardinality(s) <= Cardinality(S)
  BY FS_Subset, FS_CardinalityType
<1>1. 0 \in N
  <2>1. UpToSize([s \in SUBSET S |-> 0], 0)
    <3> SUFFICES ASSUME NEW s \in SUBSET S, Cardinality(s) <= 0
                 PROVE  [u \in SUBSET S |-> 0][s] = Next1([u \in SUBSET S |-> 0], s)
      OBVIOUS
    <3>1. s = {}
      BY <1>0, FS_EmptySet
    <3> QED
      BY <3>1
  <2> QED
    BY <2>1
<1>2. ASSUME NEW n \in N PROVE n + 1 \in N
  <2>1. PICK a : UpToSize(a, n)
    OBVIOUS
  <2> DEFINE b == [s \in SUBSET S |-> IF Cardinality(s) <= n THEN a[s] ELSE Next1(a, s)]
  <2>2. ASSUME NEW s \in SUBSET S, Cardinality(s) <= n + 1 PROVE b[s] = Next1(b, s)
    <3>1. CASE s = {}
      <4>1. Cardinality(s) = 0
        BY <3>1, FS_EmptySet
      <4>2. b[s] = a[s]
        BY <4>1
      <4> QED
        BY <2>1, <3>1, <4>1, <4>2
    <3>2. CASE s # {}
      <4> DEFINE u == s \ {Chosen(s)}
      <4>1. Cardinality(s) # 0 /\ Cardinality(s) \in Nat /\ IsFiniteSet(s)
        BY <1>0, <3>2, FS_EmptySet
      <4>2. Chosen(s) \in s
        BY <3>2, ChosenIn
      <4>3. u \in SUBSET S /\ Cardinality(u) = Cardinality(s) - 1
        BY <4>1, <4>2, FS_RemoveElement
      <4>4. Cardinality(u) <= n
        BY <2>2, <4>1, <4>3
      <4>5. b[u] = a[u]
        BY <4>3, <4>4
      <4>6. b[s] = v[Chosen(s)] + a[u]
        <5>1. CASE Cardinality(s) <= n
          <6>1. b[s] = a[s]
            BY <5>1
          <6> QED
            BY <2>1, <3>2, <5>1, <6>1
        <5>2. CASE ~(Cardinality(s) <= n)
          BY <3>2, <5>2
        <5> QED
          BY <5>1, <5>2
      <4> HIDE DEF b, u
      <4>7. Next1(b, s) = v[Chosen(s)] + b[u]
        BY <3>2 DEF u
      <4> QED
        BY <4>5, <4>6, <4>7
    <3> QED
      BY <3>1, <3>2
  <2>3. UpToSize(b, n + 1)
    BY <2>2
  <2> HIDE DEF b, UpToSize
  <2>4. \E c : UpToSize(c, n + 1)
    BY <2>3
  <2> QED
    BY <2>4
<1>3. N = Nat
  <2> HIDE DEF N
  <2>1. N \in SUBSET Nat
    BY DEF N
  <2> QED
    BY <1>1, <1>2, <2>1, EveryNumber
<1>4. Cardinality(S) \in Nat
  BY FS_CardinalityType
<1>5. PICK a : UpToSize(a, Cardinality(S))
  BY <1>3, <1>4
<1> DEFINE it == [s \in SUBSET S |-> a[s]]
<1>6. ASSUME NEW s \in SUBSET S PROVE it[s] = Next1(it, s)
  <2>1. a[s] = Next1(a, s)
    BY <1>0, <1>5
  <2>2. s \ {Chosen(s)} \in SUBSET S
    OBVIOUS
  <2> QED
    BY <2>1, <2>2
<1>7. it = [s \in SUBSET S |-> Next1(it, s)]
  <2> DEFINE r == [s \in SUBSET S |-> Next1(it, s)]
  <2>1. ASSUME NEW s \in SUBSET S PROVE it[s] = r[s]
    BY <1>6
  <2>2. DOMAIN it = DOMAIN r /\ it = [s \in DOMAIN it |-> it[s]] /\ r = [s \in DOMAIN r |-> r[s]]
    OBVIOUS
  <2> HIDE DEF it, r
  <2>3. DOMAIN r = SUBSET S
    BY DEF r
  <2>4. it = r
    BY <2>1, <2>2, <2>3
  <2> QED
    BY <2>4 DEF r
<1> HIDE DEF it
<1>8. Adds(it, v, S)
  BY <1>7 DEF Adds
<1> QED
  BY <1>8

\* And there is one only, whatever set it is for.
LEMMA AddsAgree ==
    ASSUME NEW v, NEW w, NEW S, NEW T, IsFiniteSet(T), T \subseteq S, \A x \in T : v[x] = w[x],
           NEW it, NEW jt, Adds(it, v, S), Adds(jt, w, T)
    PROVE  it[T] = jt[T]
<1> DEFINE Agrees(n) == \A s \in SUBSET T : Cardinality(s) = n => it[s] = jt[s]
           N == {n \in Nat : Agrees(n)}
<1>0. \A s \in SUBSET T : IsFiniteSet(s) /\ Cardinality(s) \in Nat
  BY FS_Subset, FS_CardinalityType
<1>1. 0 \in N
  <2> SUFFICES ASSUME NEW s \in SUBSET T, Cardinality(s) = 0 PROVE it[s] = jt[s]
    OBVIOUS
  <2>1. s = {}
    BY <1>0, FS_EmptySet
  <2> QED
    BY <2>1, AddsIs
<1>2. ASSUME NEW n \in N PROVE n + 1 \in N
  <2> SUFFICES ASSUME NEW s \in SUBSET T, Cardinality(s) = n + 1 PROVE it[s] = jt[s]
    OBVIOUS
  <2>0. n \in Nat
    OBVIOUS
  <2>1. s # {}
    <3> HIDE DEF N, Agrees
    <3> QED
      BY <1>0, <2>0, FS_EmptySet
  <2> DEFINE u == s \ {Chosen(s)}
  <2>2. Chosen(s) \in s
    BY <2>1, ChosenIn
  <2>3. u \in SUBSET T /\ Cardinality(u) = n
    BY <1>0, <2>2, OneSmaller
  <2>4. it[u] = jt[u]
    BY <2>3
  <2>5. it[s] = v[Chosen(s)] + it[u]
    BY <2>1, AddsIs
  <2>6. jt[s] = w[Chosen(s)] + jt[u]
    BY <2>1, AddsIs
  <2>7. v[Chosen(s)] = w[Chosen(s)]
    BY <2>2
  <2> QED
    BY <2>4, <2>5, <2>6, <2>7
<1>3. N = Nat
  <2> HIDE DEF N
  <2>1. N \in SUBSET Nat
    BY DEF N
  <2> QED
    BY <1>1, <1>2, <2>1, EveryNumber
<1>4. Cardinality(T) \in N
  BY <1>3, FS_CardinalityType
<1> QED
  BY <1>4

LEMMA SumIs ==
    ASSUME NEW v, NEW S, IsFiniteSet(S)
    PROVE  \E it : Adds(it, v, S) /\ SumOn(v, S) = it[S]
<1> DEFINE it == CHOOSE it : it = [s \in SUBSET S |-> IF s = {} THEN 0 ELSE v[CHOOSE x \in s : TRUE] + it[s \ {CHOOSE x \in s : TRUE}]]
<1>1. \E i : Adds(i, v, S)
  BY AddsExists
<1>2. Adds(it, v, S)
  BY <1>1 DEF Adds, Chosen
<1>3. SumOn(v, S) = it[S]
  BY DEF SumOn, FoldFunctionOnSet, MapThenFoldSet
<1> QED
  BY <1>2, <1>3

LEMMA SumEmpty == ASSUME NEW v PROVE SumOn(v, {}) = 0
<1>1. PICK it : Adds(it, v, {}) /\ SumOn(v, {}) = it[{}]
  BY SumIs, FS_EmptySet
<1> QED
  BY <1>1, AddsIs

LEMMA SumSame ==
    ASSUME NEW v, NEW w, NEW S, IsFiniteSet(S), \A x \in S : v[x] = w[x]
    PROVE  SumOn(v, S) = SumOn(w, S)
<1>1. PICK it : Adds(it, v, S) /\ SumOn(v, S) = it[S]
  BY SumIs
<1>2. PICK jt : Adds(jt, w, S) /\ SumOn(w, S) = jt[S]
  BY SumIs
<1>3. it[S] = jt[S]
  BY <1>1, <1>2, AddsAgree
<1> QED
  BY <1>1, <1>2, <1>3

LEMMA SumChosen ==
    ASSUME NEW v, NEW S, IsFiniteSet(S), S # {}
    PROVE  SumOn(v, S) = v[Chosen(S)] + SumOn(v, S \ {Chosen(S)})
<1> DEFINE T == S \ {Chosen(S)}
<1>1. PICK it : Adds(it, v, S) /\ SumOn(v, S) = it[S]
  BY SumIs
<1>2. IsFiniteSet(T) /\ T \subseteq S
  BY FS_Subset
<1>3. PICK jt : Adds(jt, v, T) /\ SumOn(v, T) = jt[T]
  BY <1>2, SumIs
<1>4. it[S] = v[Chosen(S)] + it[T]
  BY <1>1, AddsIs
<1>5. it[T] = jt[T]
  BY <1>1, <1>2, <1>3, AddsAgree
<1> QED
  BY <1>1, <1>3, <1>4, <1>5

LEMMA OneMore == ASSUME NEW k \in Int, NEW n \in Nat PROVE k * (n + 1) = k * n + k /\ k * n \in Int
OBVIOUS

\* What holds of the sum over nothing and is kept by an element more holds of every sum:
\* here, that it is a number and lies between so many times the lowest and the highest.
LEMMA SumBounds ==
    ASSUME NEW S, IsFiniteSet(S), NEW v, NEW lo \in Int, NEW hi \in Int,
           \A x \in S : v[x] \in Int /\ lo <= v[x] /\ v[x] <= hi
    PROVE  SumOn(v, S) \in Int /\ lo * Cardinality(S) <= SumOn(v, S) /\ SumOn(v, S) <= hi * Cardinality(S)
<1> DEFINE Bound(s) == /\ SumOn(v, s) \in Int
                       /\ lo * Cardinality(s) <= SumOn(v, s) /\ SumOn(v, s) <= hi * Cardinality(s)
           N == {n \in Nat : \A s \in SUBSET S : Cardinality(s) = n => Bound(s)}
<1>0. \A s \in SUBSET S : IsFiniteSet(s) /\ Cardinality(s) \in Nat
  BY FS_Subset, FS_CardinalityType
<1>1. 0 \in N
  <2> SUFFICES ASSUME NEW s \in SUBSET S, Cardinality(s) = 0 PROVE Bound(s)
    OBVIOUS
  <2>1. s = {}
    BY <1>0, FS_EmptySet
  <2>2. SumOn(v, s) = 0
    BY <2>1, SumEmpty
  <2> QED
    BY <2>2
<1>2. ASSUME NEW n \in N PROVE n + 1 \in N
  <2> SUFFICES ASSUME NEW s \in SUBSET S, Cardinality(s) = n + 1 PROVE Bound(s)
    OBVIOUS
  <2> DEFINE c == Chosen(s)
             u == s \ {c}
  <2>0. n \in Nat
    OBVIOUS
  <2>1. s # {}
    <3> HIDE DEF N, Bound
    <3> QED
      BY <1>0, <2>0, FS_EmptySet
  <2>2. c \in s
    BY <2>1, ChosenIn
  <2>3. u \in SUBSET S /\ Cardinality(u) = n
    BY <1>0, <2>1, <2>2, OneSmaller
  <2>4. Bound(u)
    BY <2>3
  <2>5. SumOn(v, s) = v[c] + SumOn(v, u)
    BY <1>0, <2>1, SumChosen
  <2>6. v[c] \in Int /\ lo <= v[c] /\ v[c] <= hi
    BY <2>2
  <2> DEFINE a == SumOn(v, u)
             x == v[c]
  <2>7. a \in Int /\ lo * n <= a /\ a <= hi * n /\ x \in Int /\ lo <= x /\ x <= hi /\ SumOn(v, s) = x + a
    BY <2>3, <2>4, <2>5, <2>6
  <2> HIDE DEF a, x
  <2>8. lo * (n + 1) = lo * n + lo /\ hi * (n + 1) = hi * n + hi /\ lo * n \in Int /\ hi * n \in Int
    BY <2>0, OneMore
  <2>9. lo * (n + 1) <= x + a /\ x + a <= hi * (n + 1)
    BY <2>7, <2>8
  <2> QED
    BY <2>7, <2>9
<1>3. N = Nat
  <2> HIDE DEF N
  <2>1. N \in SUBSET Nat
    BY DEF N
  <2> QED
    BY <1>1, <1>2, <2>1, EveryNumber
<1>4. Cardinality(S) \in N
  BY <1>3, FS_CardinalityType
<1> QED
  BY <1>4

LEMMA SumInt ==
    ASSUME NEW S, IsFiniteSet(S), NEW v, \A x \in S : v[x] \in Int
    PROVE  SumOn(v, S) \in Int
<1> DEFINE N == {n \in Nat : \A s \in SUBSET S : Cardinality(s) = n => SumOn(v, s) \in Int}
<1>0. \A s \in SUBSET S : IsFiniteSet(s) /\ Cardinality(s) \in Nat
  BY FS_Subset, FS_CardinalityType
<1>1. 0 \in N
  <2> SUFFICES ASSUME NEW s \in SUBSET S, Cardinality(s) = 0 PROVE SumOn(v, s) \in Int
    OBVIOUS
  <2>1. s = {}
    BY <1>0, FS_EmptySet
  <2> QED
    BY <2>1, SumEmpty
<1>2. ASSUME NEW n \in N PROVE n + 1 \in N
  <2> SUFFICES ASSUME NEW s \in SUBSET S, Cardinality(s) = n + 1 PROVE SumOn(v, s) \in Int
    OBVIOUS
  <2> DEFINE u == s \ {Chosen(s)}
  <2>1. s # {}
    BY <1>0, FS_EmptySet
  <2>2. Chosen(s) \in s
    BY <2>1, ChosenIn
  <2>3. u \in SUBSET S /\ Cardinality(u) = n
    BY <1>0, <2>2, OneSmaller
  <2>4. SumOn(v, s) = v[Chosen(s)] + SumOn(v, u)
    BY <1>0, <2>1, SumChosen
  <2> QED
    BY <2>2, <2>3, <2>4
<1>3. N = Nat
  <2> HIDE DEF N
  <2>1. N \in SUBSET Nat
    BY DEF N
  <2> QED
    BY <1>1, <1>2, <2>1, EveryNumber
<1>4. Cardinality(S) \in N
  BY <1>3, FS_CardinalityType
<1> QED
  BY <1>4

LEMMA SumWith ==
    ASSUME NEW S, IsFiniteSet(S), NEW x, x \notin S, NEW v, \A y \in S \cup {x} : v[y] \in Int
    PROVE  SumOn(v, S \cup {x}) = v[x] + SumOn(v, S)
<1> DEFINE R == S \cup {x}
           Anyone(s) == \A y \in s : SumOn(v, s) = v[y] + SumOn(v, s \ {y})
           N == {n \in Nat : \A s \in SUBSET R : Cardinality(s) = n => Anyone(s)}
<1>0. IsFiniteSet(R) /\ \A s \in SUBSET R : IsFiniteSet(s) /\ Cardinality(s) \in Nat /\ SumOn(v, s) \in Int
  <2>1. IsFiniteSet(R)
    BY FS_AddElement
  <2>2. ASSUME NEW s \in SUBSET R PROVE IsFiniteSet(s) /\ Cardinality(s) \in Nat
    BY <2>1, FS_Subset, FS_CardinalityType
  <2>3. ASSUME NEW s \in SUBSET R PROVE SumOn(v, s) \in Int
    BY <2>2, SumInt
  <2> QED
    BY <2>1, <2>2, <2>3
<1>1. 0 \in N
  <2> SUFFICES ASSUME NEW s \in SUBSET R, Cardinality(s) = 0 PROVE Anyone(s)
    OBVIOUS
  <2>1. s = {}
    BY <1>0, FS_EmptySet
  <2> QED
    BY <2>1
<1>2. ASSUME NEW n \in N PROVE n + 1 \in N
  <2> SUFFICES ASSUME NEW s \in SUBSET R, Cardinality(s) = n + 1, NEW y \in s
               PROVE  SumOn(v, s) = v[y] + SumOn(v, s \ {y})
    OBVIOUS
  <2> DEFINE c == Chosen(s)
             u == s \ {c}
  <2>1. c \in s
    BY ChosenIn
  <2>2. u \in SUBSET R /\ Cardinality(u) = n /\ s \ {y} \in SUBSET R /\ Cardinality(s \ {y}) = n
    BY <1>0, <2>1, OneSmaller
  <2>3. SumOn(v, s) = v[c] + SumOn(v, u)
    <3>1. s # {} /\ IsFiniteSet(s)
      BY <1>0
    <3> HIDE DEF N, Anyone, R
    <3> QED
      BY <3>1, SumChosen
  <2>4. CASE y = c
    BY <2>3, <2>4
  <2>5. CASE y # c
    <3>1. SumOn(v, u) = v[y] + SumOn(v, u \ {y})
      BY <2>2, <2>5
    <3>2. SumOn(v, s \ {y}) = v[c] + SumOn(v, (s \ {y}) \ {c})
      BY <2>1, <2>2, <2>5
    <3>3. (s \ {y}) \ {c} = u \ {y} /\ u \ {y} \in SUBSET R
      OBVIOUS
    <3>4. v[c] \in Int /\ v[y] \in Int /\ SumOn(v, u \ {y}) \in Int
      BY <1>0, <2>1, <3>3
    <3> DEFINE z == SumOn(v, u \ {y})
               a == v[c]
               b == v[y]
    <3>5. SumOn(v, s) = a + (b + z) /\ SumOn(v, s \ {y}) = a + z
      BY <2>3, <3>1, <3>2, <3>3
    <3>6. a \in Int /\ b \in Int /\ z \in Int
      BY <3>4
    <3> HIDE DEF a, z, N, Anyone, R
    <3>7. SumOn(v, s) = b + SumOn(v, s \ {y})
      <4> HIDE DEF b
      <4> QED
        BY <3>5, <3>6
    <3> QED
      BY <3>7
  <2> QED
    BY <2>4, <2>5
<1>3. N = Nat
  <2> HIDE DEF N
  <2>1. N \in SUBSET Nat
    BY DEF N
  <2> QED
    BY <1>1, <1>2, <2>1, EveryNumber
<1>4. Cardinality(R) \in N
  BY <1>0, <1>3
<1>5. Anyone(R)
  BY <1>4
<1>6. R \ {x} = S
  OBVIOUS
<1> QED
  BY <1>5, <1>6

-----------------------------------------------------------------------------
(* Quotients, the least, the highest.                                      *)

\* A quotient rounded down, times the divisor, is short by less than the divisor.
LEMMA Quotient ==
    ASSUME NEW a \in Int, NEW n \in Nat \ {0}
    PROVE  a \div n \in Int /\ n * (a \div n) <= a /\ a < n * (a \div n) + n
OBVIOUS

LEMMA LeastOf == ASSUME NEW S \in SUBSET Nat, S # {} PROVE Min(S) \in S /\ \A y \in S : Min(S) <= y
<1>1. PICK m \in S : \A y \in S : ~(<<y, m>> \in OpToRel(<, Nat))
  BY WFMin, NatLessThanWellFounded, Zenon
<1>2. \A y \in S : m <= y
  <2> SUFFICES ASSUME NEW y \in S, y < m PROVE FALSE
    OBVIOUS
  <2> QED
    BY <1>1 DEF OpToRel
<1> QED
  BY <1>2 DEF Min

LEMMA HighestOf ==
    ASSUME NEW s \in Seq(Nat), Len(s) > 0
    PROVE  Max(Range(s)) \in Range(s) /\ \A y \in Range(s) : y <= Max(Range(s))
<1> DEFINE N == {n \in Nat : n \in 1..Len(s) => \E m \in 1..n : \A i \in 1..n : s[i] <= s[m]}
<1>1. 0 \in N
  OBVIOUS
<1>2. ASSUME NEW n \in N PROVE n + 1 \in N
  <2> SUFFICES ASSUME n + 1 \in 1..Len(s) PROVE \E m \in 1..(n + 1) : \A i \in 1..(n + 1) : s[i] <= s[m]
    OBVIOUS
  <2>0. n \in Nat /\ \A i \in 1..(n + 1) : s[i] \in Nat
    OBVIOUS
  <2>1. CASE n = 0
    <3>1. \A i \in 1..(n + 1) : i = n + 1
      BY <2>1
    <3>2. s[n + 1] <= s[n + 1] /\ n + 1 \in 1..(n + 1)
      BY <2>0
    <3> QED
      BY <3>1, <3>2
  <2>2. CASE n # 0
    <3>0. n \in 1..Len(s)
      BY <2>0, <2>2
    <3>1. PICK m \in 1..n : \A i \in 1..n : s[i] <= s[m]
      BY <3>0
    <3> HIDE DEF N
    <3>4. m \in 1..(n + 1) /\ n + 1 \in 1..(n + 1) /\ \A i \in 1..(n + 1) : i \in 1..n \/ i = n + 1
      BY <2>0
    <3>2. CASE s[n + 1] <= s[m]
      <4>1. \A i \in 1..(n + 1) : s[i] <= s[m]
        BY <3>1, <3>2, <3>4
      <4> QED
        BY <3>4, <4>1
    <3>3. CASE s[m] < s[n + 1]
      <4>1. \A i \in 1..(n + 1) : s[i] <= s[n + 1]
        BY <2>0, <3>1, <3>3, <3>4
      <4> QED
        BY <3>4, <4>1
    <3>5. s[m] \in Nat /\ s[n + 1] \in Nat
      BY <2>0, <3>4
    <3>6. s[n + 1] <= s[m] \/ s[m] < s[n + 1]
      BY <3>5
    <3> QED
      BY <3>2, <3>3, <3>6
  <2> QED
    BY <2>0, <2>1, <2>2
<1>3. N = Nat
  <2> HIDE DEF N
  <2>1. N \in SUBSET Nat
    BY DEF N
  <2> QED
    BY <1>1, <1>2, <2>1, EveryNumber
<1>4. Len(s) \in N
  <2> HIDE DEF N
  <2> QED
    BY <1>3
<1>5. PICK m \in 1..Len(s) : \A i \in 1..Len(s) : s[i] <= s[m]
  BY <1>4
<1>6. s[m] \in Range(s) /\ \A y \in Range(s) : s[m] >= y
  BY <1>5 DEF Range
<1> DEFINE R == Range(s)
<1>7. Max(R) \in R /\ \A y \in R : Max(R) >= y
  <2> HIDE DEF R
  <2>1. \E x \in R : \A y \in R : x >= y
    BY <1>6 DEF R
  <2> QED
    BY <2>1 DEF Max
<1>8. R \subseteq Nat
  BY DEF Range
<1> QED
  BY <1>7, <1>8

\* Sums over two sets with nothing in common.
LEMMA SumApart ==
    ASSUME NEW S, IsFiniteSet(S), NEW T, IsFiniteSet(T), S \cap T = {}, NEW v, \A x \in S \cup T : v[x] \in Int
    PROVE  SumOn(v, S \cup T) = SumOn(v, S) + SumOn(v, T)
<1> DEFINE Splits(s) == SumOn(v, s \cup T) = SumOn(v, s) + SumOn(v, T)
           N == {n \in Nat : \A s \in SUBSET S : Cardinality(s) = n => Splits(s)}
<1>0. \A s \in SUBSET S : IsFiniteSet(s) /\ Cardinality(s) \in Nat /\ IsFiniteSet(s \cup T)
                          /\ SumOn(v, s) \in Int /\ SumOn(v, s \cup T) \in Int
  <2> SUFFICES ASSUME NEW s \in SUBSET S
               PROVE  IsFiniteSet(s) /\ Cardinality(s) \in Nat /\ IsFiniteSet(s \cup T)
                      /\ SumOn(v, s) \in Int /\ SumOn(v, s \cup T) \in Int
    OBVIOUS
  <2>1. IsFiniteSet(s) /\ Cardinality(s) \in Nat
    BY FS_Subset, FS_CardinalityType
  <2>2. IsFiniteSet(s \cup T)
    BY <2>1, FS_Union
  <2>3. (\A x \in s : v[x] \in Int) /\ (\A x \in s \cup T : v[x] \in Int)
    OBVIOUS
  <2> QED
    BY <2>1, <2>2, <2>3, SumInt
<1>a. SumOn(v, T) \in Int
  BY SumInt
<1>1. 0 \in N
  <2> SUFFICES ASSUME NEW s \in SUBSET S, Cardinality(s) = 0 PROVE Splits(s)
    OBVIOUS
  <2>1. s = {} /\ s \cup T = T
    BY <1>0, FS_EmptySet
  <2>2. SumOn(v, s) = 0
    BY <2>1, SumEmpty
  <2> QED
    BY <1>a, <2>1, <2>2
<1>2. ASSUME NEW n \in N PROVE n + 1 \in N
  <2> SUFFICES ASSUME NEW s \in SUBSET S, Cardinality(s) = n + 1 PROVE Splits(s)
    OBVIOUS
  <2> DEFINE c == Chosen(s)
             u == s \ {c}
  <2>0. n \in Nat
    OBVIOUS
  <2>1. s # {}
    BY <1>0, <2>0, FS_EmptySet
  <2>2. c \in s /\ c \notin u /\ c \notin T /\ c \notin u \cup T
    BY <2>1, ChosenIn
  <2>3. u \in SUBSET S /\ Cardinality(u) = n
    BY <1>0, <2>0, <2>2, OneSmaller
  <2>4. Splits(u)
    BY <2>3
  <2>5. s = u \cup {c} /\ s \cup T = (u \cup T) \cup {c}
    BY <2>2
  <2>6. v[c] \in Int /\ (\A y \in u \cup {c} : v[y] \in Int) /\ (\A y \in (u \cup T) \cup {c} : v[y] \in Int)
    BY <2>2, <2>5
  <2>7. SumOn(v, u \cup {c}) = v[c] + SumOn(v, u)
    BY <1>0, <2>2, <2>3, <2>6, SumWith
  <2>8. SumOn(v, (u \cup T) \cup {c}) = v[c] + SumOn(v, u \cup T)
    BY <1>0, <2>2, <2>3, <2>6, SumWith
  <2>9. SumOn(v, u) \in Int /\ SumOn(v, u \cup T) \in Int
    BY <1>0, <2>3
  <2> DEFINE x == v[c]
             p == SumOn(v, u)
             q == SumOn(v, u \cup T)
             z == SumOn(v, T)
  <2>a. x \in Int /\ p \in Int /\ q \in Int /\ z \in Int
    BY <1>a, <2>6, <2>9
  <2>b. q = p + z /\ SumOn(v, s) = x + p /\ SumOn(v, s \cup T) = x + q
    BY <2>4, <2>5, <2>7, <2>8
  <2> HIDE DEF c, u, N, x, p, q, z
  <2>c. SumOn(v, s \cup T) = SumOn(v, s) + z
    BY <2>a, <2>b
  <2> QED
    BY <2>c DEF z
<1>3. N = Nat
  <2> HIDE DEF N
  <2>1. N \in SUBSET Nat
    BY DEF N
  <2> QED
    BY <1>1, <1>2, <2>1, EveryNumber
<1>4. Cardinality(S) \in N
  BY <1>3, FS_CardinalityType
<1> QED
  BY <1>4

LEMMA MaxIs ==
    ASSUME NEW S \in SUBSET Int, NEW m \in S, \A y \in S : y <= m
    PROVE  Max(S) = m
<1>1. \E x \in S : \A y \in S : x >= y
  OBVIOUS
<1>2. Max(S) \in S /\ \A y \in S : Max(S) >= y
  BY <1>1 DEF Max
<1>3. Max(S) >= m /\ Max(S) <= m /\ Max(S) \in Int
  BY <1>2
<1> QED
  BY <1>3

LEMMA MinIs ==
    ASSUME NEW S \in SUBSET Int, NEW m \in S, \A y \in S : m <= y
    PROVE  Min(S) = m
<1>1. \E x \in S : \A y \in S : x <= y
  OBVIOUS
<1>2. Min(S) \in S /\ \A y \in S : Min(S) <= y
  BY <1>1 DEF Min
<1>3. Min(S) >= m /\ Min(S) <= m /\ Min(S) \in Int
  BY <1>2
<1> QED
  BY <1>3

\* Finitely many numbers have a highest.
LEMMA HighestIn ==
    ASSUME NEW S \in SUBSET Nat, S # {}, IsFiniteSet(S)
    PROVE  Max(S) \in S /\ \A y \in S : y <= Max(S)
<1> DEFINE Tops(s) == \E m \in s : \A y \in s : y <= m
           N == {n \in Nat : \A s \in SUBSET S : Cardinality(s) = n + 1 => Tops(s)}
<1>0. \A s \in SUBSET S : IsFiniteSet(s) /\ Cardinality(s) \in Nat
  BY FS_Subset, FS_CardinalityType
<1>1. 0 \in N
  <2> SUFFICES ASSUME NEW s \in SUBSET S, Cardinality(s) = 0 + 1 PROVE Tops(s)
    OBVIOUS
  <2>1. Cardinality(s) = 1 /\ IsFiniteSet(s)
    BY <1>0
  <2>2. PICK x : s = {x}
    BY <2>1, FS_Singleton
  <2> QED
    BY <2>2
<1>2. ASSUME NEW n \in N PROVE n + 1 \in N
  <2> SUFFICES ASSUME NEW s \in SUBSET S, Cardinality(s) = (n + 1) + 1 PROVE Tops(s)
    OBVIOUS
  <2> DEFINE c == Chosen(s)
             u == s \ {c}
  <2>0. n \in Nat
    OBVIOUS
  <2>1. s # {}
    BY <1>0, <2>0, FS_EmptySet
  <2>2. c \in s
    BY <2>1, ChosenIn
  <2>3. u \in SUBSET S /\ Cardinality(u) = n + 1
    <3>1. IsFiniteSet(s) /\ n + 1 \in Nat /\ Cardinality(s) = (n + 1) + 1
      BY <1>0, <2>0
    <3>2. Cardinality(u) = n + 1
      BY <2>2, <3>1, OneSmaller
    <3> QED
      BY <3>2
  <2>4. PICK m \in u : \A y \in u : y <= m
    BY <2>3
  <2>5. \A y \in s : y = c \/ y \in u
    OBVIOUS
  <2>6. m \in s /\ m \in Nat /\ c \in Nat /\ \A y \in s : y \in Nat
    BY <2>2, <2>3
  <2> HIDE DEF c, u, N
  <2>7. CASE c <= m
    BY <2>4, <2>5, <2>6, <2>7
  <2>8. CASE m <= c
    <3>1. \A y \in s : y <= c
      BY <2>4, <2>5, <2>6, <2>8
    <3> QED
      BY <2>2, <3>1
  <2> QED
    BY <2>6, <2>7, <2>8
<1>3. N = Nat
  <2> HIDE DEF N
  <2>1. N \in SUBSET Nat
    BY DEF N
  <2> QED
    BY <1>1, <1>2, <2>1, EveryNumber
<1>4. Cardinality(S) \in Nat /\ Cardinality(S) # 0
  BY FS_CardinalityType, FS_EmptySet
<1>5. Cardinality(S) - 1 \in N /\ Cardinality(S) = (Cardinality(S) - 1) + 1
  BY <1>3, <1>4
<1>6. PICK m \in S : \A y \in S : y <= m
  BY <1>5
<1>7. Max(S) = m
  BY <1>6, MaxIs
<1> QED
  BY <1>6, <1>7

\* What a function gives for finitely many arguments is finite.
LEMMA ImageFinite == ASSUME NEW S, IsFiniteSet(S), NEW g PROVE IsFiniteSet({g[x] : x \in S})
<1> DEFINE T == {g[x] : x \in S}
           f == [x \in S |-> g[x]]
<1>1. f \in Surjection(S, T)
  BY DEF Surjection
<1> HIDE DEF T, f
<1>2. IsFiniteSet(T)
  BY <1>1, FS_Surjection
<1> QED
  BY <1>2 DEF T

-----------------------------------------------------------------------------
(* Folds along a sequence.                                                 *)

\* The function that a fold along n places is defined by: H[i] is what the i-th does.
Along(it, H, base, n) ==
    it = [s \in SUBSET (1..n) |-> IF s = {} THEN base ELSE H[Max(s)][it[s \ {Max(s)}]]]

LEMMA AlongExists ==
    ASSUME NEW n \in Nat, NEW V, NEW base \in V, NEW H \in [1..n -> [V -> V]]
    PROVE  \E it \in [SUBSET (1..n) -> V] : Along(it, H, base, n)
<1> DEFINE N == {k \in Nat : k <= n => \E it \in [SUBSET (1..k) -> V] : Along(it, H, base, k)}
<1>1. 0 \in N
  <2> DEFINE it == [s \in SUBSET (1..0) |-> base]
  <2>1. \A s \in SUBSET (1..0) : s = {}
    OBVIOUS
  <2>2. Along(it, H, base, 0)
    BY <2>1 DEF Along
  <2>3. it \in [SUBSET (1..0) -> V]
    OBVIOUS
  <2> HIDE DEF it
  <2> QED
    BY <2>2, <2>3
<1>2. ASSUME NEW k \in N PROVE k + 1 \in N
  <2>0. k \in Nat /\ k + 1 \in Nat
    OBVIOUS
  <2> SUFFICES ASSUME k + 1 <= n PROVE \E it \in [SUBSET (1..(k + 1)) -> V] : Along(it, H, base, k + 1)
    BY <2>0
  <2>a. k <= n
    BY <2>0
  <2>b. \E it \in [SUBSET (1..k) -> V] : Along(it, H, base, k)
    BY <2>a
  <2>1. PICK a \in [SUBSET (1..k) -> V] : Along(a, H, base, k)
    BY <2>b
  <2>2. \A s \in SUBSET (1..k) : a[s] = IF s = {} THEN base ELSE H[Max(s)][a[s \ {Max(s)}]]
    <3> DEFINE r == [s \in SUBSET (1..k) |-> IF s = {} THEN base ELSE H[Max(s)][a[s \ {Max(s)}]]]
    <3>1. a = r
      BY <2>1 DEF Along
    <3>2. \A s \in SUBSET (1..k) : r[s] = IF s = {} THEN base ELSE H[Max(s)][a[s \ {Max(s)}]]
      OBVIOUS
    <3> HIDE DEF r
    <3> QED
      BY <3>1, <3>2
  <2> DEFINE b == [s \in SUBSET (1..(k + 1)) |-> IF k + 1 \in s THEN H[k + 1][a[s \ {k + 1}]] ELSE a[s]]
  <2> HIDE DEF N
  <2>3. ASSUME NEW s \in SUBSET (1..(k + 1))
        PROVE  b[s] \in V /\ b[s] = IF s = {} THEN base ELSE H[Max(s)][b[s \ {Max(s)}]]
    <3>1. CASE k + 1 \in s
      <4>1. Max(s) = k + 1
        <5>1. s \in SUBSET Int /\ \A y \in s : y <= k + 1
          BY <2>0
        <5> QED
          BY <3>1, <5>1, MaxIs
      <4> DEFINE u == s \ {k + 1}
      <4>2. u \in SUBSET (1..k) /\ u \in SUBSET (1..(k + 1)) /\ k + 1 \notin u
        BY <2>0
      <4>3. b[u] = a[u] /\ a[u] \in V
        BY <4>2
      <4>4. b[s] = H[k + 1][a[u]]
        BY <3>1
      <4>5. H[k + 1] \in [V -> V]
        BY <2>0
      <4> HIDE DEF b, u
      <4>6. b[s] \in V
        BY <4>3, <4>4, <4>5
      <4>7. s # {} /\ s \ {Max(s)} = u
        BY <3>1, <4>1 DEF u
      <4> QED
        BY <4>1, <4>3, <4>4, <4>6, <4>7
    <3>2. CASE k + 1 \notin s
      <4>1. s \in SUBSET (1..k)
        BY <2>0, <3>2
      <4>2. b[s] = a[s] /\ a[s] \in V
        BY <3>2, <4>1
      <4>3. CASE s = {}
        BY <2>2, <4>1, <4>2, <4>3
      <4>4. CASE s # {}
        <5> DEFINE u == s \ {Max(s)}
        <5>1. u \in SUBSET (1..k) /\ u \in SUBSET (1..(k + 1)) /\ k + 1 \notin u
          <6> DEFINE m == Max(s)
          <6> HIDE DEF m, b
          <6>0. 1..k \subseteq 1..(k + 1) /\ k + 1 \notin 1..k
            BY <2>0
          <6>1. s \ {m} \in SUBSET (1..k) /\ s \ {m} \in SUBSET (1..(k + 1)) /\ k + 1 \notin s \ {m}
            BY <4>1, <6>0, Zenon
          <6> QED
            BY <6>1 DEF m
        <5>2. b[u] = a[u]
          BY <5>1
        <5>3. a[s] = H[Max(s)][a[u]]
          BY <2>2, <4>1, <4>4
        <5> HIDE DEF b
        <5> QED
          BY <4>2, <4>4, <5>2, <5>3
      <4> QED
        BY <4>3, <4>4
    <3> QED
      BY <3>1, <3>2
  <2>4. Along(b, H, base, k + 1)
    <3> DEFINE r == [s \in SUBSET (1..(k + 1)) |-> IF s = {} THEN base ELSE H[Max(s)][b[s \ {Max(s)}]]]
    <3>1. DOMAIN b = SUBSET (1..(k + 1)) /\ b = [s \in DOMAIN b |-> b[s]]
      OBVIOUS
    <3>2. DOMAIN r = SUBSET (1..(k + 1)) /\ r = [s \in DOMAIN r |-> r[s]]
      OBVIOUS
    <3>3. \A s \in SUBSET (1..(k + 1)) : r[s] = IF s = {} THEN base ELSE H[Max(s)][b[s \ {Max(s)}]]
      OBVIOUS
    <3> HIDE DEF b, r
    <3>4. \A s \in SUBSET (1..(k + 1)) : b[s] = r[s]
      BY <2>3, <3>3
    <3>5. b = r
      BY <3>1, <3>2, <3>4
    <3> QED
      BY <3>5 DEF Along, r
  <2>5. b \in [SUBSET (1..(k + 1)) -> V]
    <3>1. DOMAIN b = SUBSET (1..(k + 1)) /\ b = [s \in DOMAIN b |-> b[s]]
      OBVIOUS
    <3> HIDE DEF b
    <3> QED
      BY <2>3, <3>1
  <2> HIDE DEF b
  <2>6. \E it \in [SUBSET (1..(k + 1)) -> V] : Along(it, H, base, k + 1)
    BY <2>4, <2>5
  <2> QED
    BY <2>6
<1>3. N = Nat
  <2> HIDE DEF N
  <2>1. N \in SUBSET Nat
    BY DEF N
  <2> QED
    BY <1>1, <1>2, <2>1, EveryNumber
<1>4. n \in N /\ n <= n
  <2> HIDE DEF N
  <2> QED
    BY <1>3
<1>5. n <= n => \E it \in [SUBSET (1..n) -> V] : Along(it, H, base, n)
  BY <1>4
<1> QED
  BY <1>4, <1>5

\* The numbers up to one of them.
LEMMA UpToIs ==
    ASSUME NEW n \in Nat, NEW k \in 1..n
    PROVE  1..k \in SUBSET (1..n) /\ 1..k # {} /\ (1..k) \ {k} = 1..(k - 1) /\ Max(1..k) = k
<1>1. 1..k \in SUBSET (1..n) /\ 1..k # {} /\ (1..k) \ {k} = 1..(k - 1)
  OBVIOUS
<1>2. Max(1..k) = k
  <2>1. 1..k \in SUBSET Int /\ k \in 1..k /\ \A y \in 1..k : y <= k
    OBVIOUS
  <2> QED
    BY <2>1, MaxIs
<1> QED
  BY <1>1, <1>2

-----------------------------------------------------------------------------
(* Orders, and sums compared.                                              *)

\* The elements of a finite set can be listed in any strict total order of them: at the
\* place of each is how many come before it.
LEMMA ListedInOrder ==
    ASSUME NEW S, IsFiniteSet(S), NEW R,
           \A x \in S : <<x, x>> \notin R,
           \A x, y \in S : x # y => <<x, y>> \in R \/ <<y, x>> \in R,
           \A x, y, z \in S : <<x, y>> \in R /\ <<y, z>> \in R => <<x, z>> \in R
    PROVE  \E s \in [1..Cardinality(S) -> S] :
               /\ \A x \in S : \E i \in 1..Cardinality(S) : s[i] = x
               /\ \A i, j \in 1..Cardinality(S) : i < j => s[i] # s[j] /\ <<s[i], s[j]>> \in R
<1> DEFINE n == Cardinality(S)
           Below(x) == {y \in S : <<y, x>> \in R}
           p == [x \in S |-> Cardinality(Below(x)) + 1]
<1>1. n \in Nat /\ \A x \in S : IsFiniteSet(Below(x)) /\ Cardinality(Below(x)) \in Nat
  <2>1. n \in Nat
    BY FS_CardinalityType
  <2>2. ASSUME NEW x \in S PROVE IsFiniteSet(Below(x)) /\ Cardinality(Below(x)) \in Nat
    <3>1. Below(x) \in SUBSET S
      OBVIOUS
    <3> HIDE DEF Below
    <3> QED
      BY <3>1, FS_Subset, FS_CardinalityType
  <2> QED
    BY <2>1, <2>2
<1>2. \A x \in S : p[x] = Cardinality(Below(x)) + 1 /\ p[x] \in Int
  <2> HIDE DEF n, Below
  <2> QED
    BY <1>1
<1>3. ASSUME NEW x \in S, NEW y \in S, <<x, y>> \in R PROVE p[x] < p[y]
  <2>1. Below(x) \cup {x} \in SUBSET Below(y) /\ x \notin Below(x)
    BY <1>3
  <2> HIDE DEF n, Below, p
  <2>2. Cardinality(Below(x) \cup {x}) = Cardinality(Below(x)) + 1
    BY <1>1, <2>1, FS_AddElement
  <2>3. Cardinality(Below(x) \cup {x}) <= Cardinality(Below(y))
    BY <1>1, <2>1, FS_Subset
  <2> QED
    BY <1>1, <1>2, <2>2, <2>3
<1>4. p \in [S -> 1..n]
  <2>1. ASSUME NEW x \in S PROVE p[x] \in 1..n
    <3>1. Below(x) \in SUBSET (S \ {x})
      OBVIOUS
    <3> HIDE DEF n, Below, p
    <3>2. IsFiniteSet(S \ {x}) /\ Cardinality(S \ {x}) = n - 1
      BY FS_RemoveElement DEF n
    <3>3. Cardinality(Below(x)) <= n - 1
      BY <3>1, <3>2, FS_Subset
    <3> QED
      BY <1>1, <1>2, <3>3
  <2> QED
    BY <2>1
<1>5. p \in Injection(S, 1..n)
  <2>1. ASSUME NEW x \in S, NEW y \in S, p[x] = p[y] PROVE x = y
    <3> HIDE DEF p, n
    <3>1. \A a, b \in Int : a = b => ~(a < b) /\ ~(b < a)
      OBVIOUS
    <3>2. <<x, y>> \notin R /\ <<y, x>> \notin R
      BY <1>2, <1>3, <2>1, <3>1
    <3> QED
      BY <3>2
  <2> HIDE DEF p, n
  <2> QED
    BY <1>4, <2>1 DEF Injection, IsInjective
<1>6. p \in Surjection(S, 1..n)
  <2> HIDE DEF p
  <2>1. IsFiniteSet(1..n) /\ Cardinality(1..n) = n
    BY <1>1, FS_Interval
  <2> QED
    BY <1>5, <2>1, FS_Injection
<1>7. \A i \in 1..n : \E x \in S : p[x] = i
  <2> HIDE DEF p, n
  <2> QED
    BY <1>6 DEF Surjection
<1> DEFINE s == [i \in 1..n |-> CHOOSE x \in S : p[x] = i]
<1>8. \A i \in 1..n : s[i] \in S /\ p[s[i]] = i
  <2> HIDE DEF p, n
  <2> QED
    BY <1>7
<1>9. s \in [1..n -> S]
  BY <1>8
<1>10. ASSUME NEW x \in S PROVE \E i \in 1..n : s[i] = x
  <2> HIDE DEF s, n
  <2>1. p[x] \in 1..n
    BY <1>4
  <2>2. p[s[p[x]]] = p[x] /\ s[p[x]] \in S
    BY <2>1, <1>8
  <2> HIDE DEF p
  <2>3. s[p[x]] = x
    BY <1>5, <2>1, <2>2 DEF Injection, IsInjective
  <2> QED
    BY <2>1, <2>3
<1>11. ASSUME NEW i \in 1..n, NEW j \in 1..n, i < j PROVE s[i] # s[j] /\ <<s[i], s[j]>> \in R
  <2> HIDE DEF s, p, n
  <2>1. p[s[i]] = i /\ p[s[j]] = j /\ s[i] \in S /\ s[j] \in S
    BY <1>8
  <2>2. s[i] # s[j]
    BY <1>1, <1>11, <2>1
  <2>3. <<s[j], s[i]>> \notin R
    BY <1>1, <1>3, <1>11, <2>1
  <2> QED
    BY <2>1, <2>2, <2>3
<1> HIDE DEF s
<1> QED
  BY <1>9, <1>10, <1>11

\* Two sums, the values of one never less than so many times the other's, nor more.
LEMMA SumScaled ==
    ASSUME NEW S, IsFiniteSet(S), NEW v, NEW w, NEW lo \in Int, NEW hi \in Int,
           \A x \in S : v[x] \in Int /\ w[x] \in Int /\ lo * w[x] <= v[x] /\ v[x] <= hi * w[x]
    PROVE  /\ SumOn(v, S) \in Int /\ SumOn(w, S) \in Int
           /\ lo * SumOn(w, S) <= SumOn(v, S) /\ SumOn(v, S) <= hi * SumOn(w, S)
<1> DEFINE Bound(s) == lo * SumOn(w, s) <= SumOn(v, s) /\ SumOn(v, s) <= hi * SumOn(w, s)
           N == {n \in Nat : \A s \in SUBSET S : Cardinality(s) = n => Bound(s)}
<1>0. \A s \in SUBSET S : IsFiniteSet(s) /\ Cardinality(s) \in Nat
  BY FS_Subset, FS_CardinalityType
<1>a. \A s \in SUBSET S : SumOn(v, s) \in Int /\ SumOn(w, s) \in Int
  BY <1>0, SumInt
<1>1. 0 \in N
  <2> SUFFICES ASSUME NEW s \in SUBSET S, Cardinality(s) = 0 PROVE Bound(s)
    OBVIOUS
  <2>1. s = {}
    BY <1>0, FS_EmptySet
  <2>2. SumOn(w, s) = 0 /\ SumOn(v, s) = 0
    BY <2>1, SumEmpty
  <2> QED
    BY <2>2
<1>2. ASSUME NEW n \in N PROVE n + 1 \in N
  <2>0. n \in Nat /\ n + 1 \in Nat
    OBVIOUS
  <2> SUFFICES ASSUME NEW s \in SUBSET S, Cardinality(s) = n + 1 PROVE Bound(s)
    BY <2>0
  <2>1. s # {} /\ IsFiniteSet(s)
    BY <1>0, <2>0, FS_EmptySet
  <2> DEFINE x == Chosen(s)
             u == s \ {x}
  <2>2. x \in s /\ u \in SUBSET S
    BY <2>1, ChosenIn
  <2>3. Cardinality(u) = n
    BY <2>0, <2>1, <2>2, OneSmaller
  <2>4. Bound(u)
    BY <2>2, <2>3
  <2>5. SumOn(v, s) = v[x] + SumOn(v, u) /\ SumOn(w, s) = w[x] + SumOn(w, u)
    BY <2>1, SumChosen
  <2>6. v[x] \in Int /\ w[x] \in Int /\ lo * w[x] <= v[x] /\ v[x] <= hi * w[x]
    BY <2>2
  <2>7. SumOn(v, u) \in Int /\ SumOn(w, u) \in Int
    BY <1>a, <2>2
  <2> HIDE DEF x, u, N
  <2>8. \A k \in Int : k * (w[x] + SumOn(w, u)) = k * w[x] + k * SumOn(w, u) /\ k * w[x] \in Int /\ k * SumOn(w, u) \in Int
    <3>1. \A a, b, c \in Int : a * (b + c) = a * b + a * c /\ a * b \in Int /\ a * c \in Int
      OBVIOUS
    <3> QED
      BY <2>6, <2>7, <3>1
  <2> DEFINE a == SumOn(w, u)
             b == SumOn(v, u)
             c == w[x]
             d == v[x]
  <2>9. lo * a <= b /\ b <= hi * a /\ lo * c <= d /\ d <= hi * c
    BY <2>4, <2>6
  <2>10. a \in Int /\ b \in Int /\ c \in Int /\ d \in Int
    BY <2>6, <2>7
  <2>11. lo * (c + a) = lo * c + lo * a /\ hi * (c + a) = hi * c + hi * a
    BY <2>8
  <2>12. lo * a \in Int /\ hi * a \in Int /\ lo * c \in Int /\ hi * c \in Int
    BY <2>8
  <2>13. SumOn(v, s) = d + b /\ SumOn(w, s) = c + a
    BY <2>5
  <2> HIDE DEF a, b, c, d
  <2>14. lo * (c + a) <= d + b /\ d + b <= hi * (c + a)
    BY <2>9, <2>10, <2>11, <2>12
  <2> QED
    BY <2>13, <2>14
<1>3. N = Nat
  <2> HIDE DEF N
  <2>1. N \in SUBSET Nat
    BY DEF N
  <2> QED
    BY <1>1, <1>2, <2>1, EveryNumber
<1>4. Cardinality(S) \in N /\ S \in SUBSET S
  BY <1>0, <1>3
<1> QED
  BY <1>4, <1>a

LEMMA SumNat ==
    ASSUME NEW S, IsFiniteSet(S), NEW v, \A x \in S : v[x] \in Nat
    PROVE  SumOn(v, S) \in Nat
<1>1. \A x \in S : v[x] \in Int /\ 0 * v[x] <= v[x] /\ v[x] <= 1 * v[x]
  <2>1. \A a \in Nat : a \in Int /\ 0 * a <= a /\ a <= 1 * a
    OBVIOUS
  <2> QED
    BY <2>1
<1>2. 0 \in Int /\ 1 \in Int
  OBVIOUS
<1>3. SumOn(v, S) \in Int /\ 0 * SumOn(v, S) <= SumOn(v, S)
  BY <1>1, <1>2, SumScaled
<1>4. \A a \in Int : 0 * a <= a => a \in Nat
  OBVIOUS
<1> QED
  BY <1>3, <1>4

-----------------------------------------------------------------------------
(* Sequences joined, one after another.                                    *)

\* The function that FlattenSeq is defined by, as far as the n-th of them.
JoinedAt(f, b, i) == IF i = 1 THEN b[i] ELSE f[i - 1] \o b[i]
Alike(b, c, k) == \A i \in 1..k : b[i] = c[i]
Joins(f, b, n) == f = [i \in 1..n |-> JoinedAt(f, b, i)]

LEMMA JoinsAt ==
    ASSUME NEW n \in Nat, NEW b, NEW f, Joins(f, b, n)
    PROVE  \A i \in 1..n : f[i] = JoinedAt(f, b, i)
<1> DEFINE r == [i \in 1..n |-> JoinedAt(f, b, i)]
<1>1. f = r
  BY DEF Joins
<1>2. \A i \in 1..n : r[i] = JoinedAt(f, b, i)
  OBVIOUS
<1> HIDE DEF r
<1> QED
  BY <1>1, <1>2

LEMMA JoinsExist ==
    ASSUME NEW X, NEW b \in Seq(Seq(X)), NEW n \in Nat, n <= Len(b)
    PROVE  \E f \in [1..n -> Seq(X)] : Joins(f, b, n)
<1> DEFINE N == {k \in Nat : k <= n => \E f \in [1..k -> Seq(X)] : Joins(f, b, k)}
<1>0. Len(b) \in Nat /\ \A i \in 1..n : b[i] \in Seq(X)
  OBVIOUS
<1>1. 0 \in N
  <2> DEFINE f == [i \in 1..0 |-> <<>>]
  <2>1. 1..0 = {}
    OBVIOUS
  <2>2. f \in [1..0 -> Seq(X)] /\ Joins(f, b, 0)
    BY <2>1 DEF Joins
  <2> HIDE DEF f
  <2> QED
    BY <2>2
<1>2. ASSUME NEW k \in N PROVE k + 1 \in N
  <2>0. k \in Nat /\ k + 1 \in Nat
    OBVIOUS
  <2> SUFFICES ASSUME k + 1 <= n PROVE \E f \in [1..(k + 1) -> Seq(X)] : Joins(f, b, k + 1)
    BY <2>0
  <2>1. k <= n /\ k + 1 \in 1..n
    BY <2>0
  <2>2. \E f \in [1..k -> Seq(X)] : Joins(f, b, k)
    BY <2>1
  <2> HIDE DEF N
  <2>3. PICK f \in [1..k -> Seq(X)] : Joins(f, b, k)
    BY <2>2
  <2>4. \A i \in 1..k : f[i] \in Seq(X) /\ f[i] = JoinedAt(f, b, i)
    <3>1. \A i \in 1..k : f[i] = JoinedAt(f, b, i)
      <4>1. k \in Nat
        BY <2>0
      <4>2. Joins(f, b, k)
        BY <2>3
      <4> QED
        BY <4>1, <4>2, JoinsAt, Zenon
    <3> QED
      BY <3>1
  <2> DEFINE last == IF k = 0 THEN b[1] ELSE f[k] \o b[k + 1]
             g == [i \in 1..(k + 1) |-> IF i = k + 1 THEN last ELSE f[i]]
  <2>5. last \in Seq(X)
    <3>1. b[k + 1] \in Seq(X)
      BY <1>0, <2>1
    <3>2. CASE k = 0
      BY <3>1, <3>2
    <3>3. CASE k # 0
      <4>1. k \in 1..k
        BY <2>0, <3>3
      <4>2. f[k] \in Seq(X)
        BY <2>4, <4>1
      <4> QED
        BY <3>1, <3>3, <4>2, ConcatProperties
    <3> QED
      BY <3>2, <3>3
  <2>6. \A i \in 1..(k + 1) : i # k + 1 => i \in 1..k /\ (i # 1 => i - 1 \in 1..k)
    BY <2>0
  <2> HIDE DEF last
  <2>7. g \in [1..(k + 1) -> Seq(X)]
    BY <2>4, <2>5, <2>6
  <2>8. \A i \in 1..(k + 1) : g[i] = JoinedAt(g, b, i)
    <3> SUFFICES ASSUME NEW i \in 1..(k + 1) PROVE g[i] = JoinedAt(g, b, i)
      OBVIOUS
    <3>1. CASE i # k + 1
      <4>1. i \in 1..k /\ g[i] = f[i]
        BY <2>6, <3>1
      <4>2. CASE i = 1
        BY <2>4, <4>1, <4>2 DEF JoinedAt
      <4>3. CASE i # 1
        <5>1. i - 1 \in 1..k /\ i - 1 \in 1..(k + 1) /\ i - 1 # k + 1
          BY <2>0, <4>1, <4>3
        <5>2. g[i - 1] = f[i - 1]
          BY <5>1
        <5> QED
          BY <2>4, <4>1, <4>3, <5>2 DEF JoinedAt
      <4> QED
        BY <4>2, <4>3
    <3>2. CASE i = k + 1
      <4>1. g[i] = last
        BY <3>2
      <4>2. CASE k = 0
        BY <3>2, <4>1, <4>2 DEF last, JoinedAt
      <4>3. CASE k # 0
        <5>1. i - 1 = k /\ k \in 1..(k + 1) /\ k # k + 1 /\ i # 1
          BY <2>0, <3>2, <4>3
        <5>2. g[k] = f[k]
          BY <5>1
        <5> QED
          BY <3>2, <4>1, <4>3, <5>1, <5>2 DEF last, JoinedAt
      <4> QED
        BY <4>2, <4>3
    <3> QED
      BY <3>1, <3>2
  <2>9. Joins(g, b, k + 1)
    <3> DEFINE r == [i \in 1..(k + 1) |-> JoinedAt(g, b, i)]
    <3>1. DOMAIN g = 1..(k + 1) /\ g = [i \in DOMAIN g |-> g[i]]
      OBVIOUS
    <3>2. DOMAIN r = 1..(k + 1) /\ r = [i \in DOMAIN r |-> r[i]] /\ \A i \in 1..(k + 1) : r[i] = JoinedAt(g, b, i)
      OBVIOUS
    <3> HIDE DEF g, r
    <3>3. \A i \in 1..(k + 1) : g[i] = r[i]
      BY <2>8, <3>2
    <3>4. g = r
      BY <3>1, <3>2, <3>3
    <3> QED
      BY <3>4 DEF Joins, r
  <2> HIDE DEF g
  <2> QED
    BY <2>7, <2>9
<1>3. N = Nat
  <2> HIDE DEF N
  <2>1. N \in SUBSET Nat
    BY DEF N
  <2> QED
    BY <1>1, <1>2, <2>1, EveryNumber
<1>4. n \in N
  BY <1>3
<1> QED
  BY <1>4

\* Those that begin alike are joined alike.
LEMMA JoinsAgree ==
    ASSUME NEW b, NEW c, NEW m \in Nat, NEW n \in Nat, NEW f, NEW g, Joins(f, b, m), Joins(g, c, n),
           NEW k \in Nat, k <= m, k <= n, Alike(b, c, k)
    PROVE  Alike(f, g, k)
<1> DEFINE N == {i \in Nat : i \in 1..k => f[i] = g[i]}
<1>0. (\A i \in 1..k : i \in 1..m /\ i \in 1..n) /\ (\A i \in 1..m : f[i] = JoinedAt(f, b, i))
      /\ \A i \in 1..n : g[i] = JoinedAt(g, c, i)
  BY JoinsAt
<1>a. \A i \in 1..k : b[i] = c[i]
  BY DEF Alike
<1>1. 0 \in N
  OBVIOUS
<1>2. ASSUME NEW i \in N PROVE i + 1 \in N
  <2>0. i \in Nat /\ i + 1 \in Nat
    OBVIOUS
  <2> SUFFICES ASSUME i + 1 \in 1..k PROVE f[i + 1] = g[i + 1]
    BY <2>0
  <2>1. i + 1 \in 1..m /\ i + 1 \in 1..n /\ b[i + 1] = c[i + 1]
    BY <1>0, <1>a
  <2>2. CASE i = 0
    BY <1>0, <2>1, <2>2 DEF JoinedAt
  <2>3. CASE i # 0
    <3>1. i \in 1..k /\ (i + 1) - 1 = i /\ i + 1 # 1
      BY <2>0, <2>3
    <3>2. f[i] = g[i]
      BY <3>1
    <3> HIDE DEF N
    <3> QED
      BY <1>0, <2>1, <3>1, <3>2 DEF JoinedAt
  <2> QED
    BY <2>2, <2>3
<1>3. N = Nat
  <2> HIDE DEF N
  <2>1. N \in SUBSET Nat
    BY DEF N
  <2> QED
    BY <1>1, <1>2, <2>1, EveryNumber
<1>4. \A i \in 1..k : i \in N
  BY <1>3
<1> QED
  BY <1>4 DEF Alike

LEMMA FlattenIs ==
    ASSUME NEW X, NEW b \in Seq(Seq(X)), Len(b) > 0
    PROVE  \E f \in [1..Len(b) -> Seq(X)] : Joins(f, b, Len(b)) /\ FlattenSeq(b) = f[Len(b)]
<1> DEFINE n == Len(b)
           f == CHOOSE f : f = [i \in 1..n |-> JoinedAt(f, b, i)]
<1>0. n \in Nat
  OBVIOUS
<1>1. PICK g \in [1..n -> Seq(X)] : Joins(g, b, n)
  BY <1>0, JoinsExist
<1>2. Joins(f, b, n)
  BY <1>1 DEF Joins
<1>3. FlattenSeq(b) = f[n]
  BY DEF FlattenSeq, JoinedAt
<1> HIDE DEF f
<1>4. \A i \in 1..n : f[i] = g[i]
  <2> HIDE DEF n
  <2> QED
    <3>1. n <= n /\ n \in Nat
      BY <1>0
    <3>2. Alike(b, b, n)
      BY DEF Alike
    <3>3. Joins(g, b, n)
      BY <1>1
    <3>4. Alike(f, g, n)
      BY <1>2, <3>1, <3>2, <3>3, JoinsAgree, Zenon
    <3> QED
      BY <3>4 DEF Alike
<1>5. n \in 1..n
  BY <1>0
<1>6. f[n] = g[n]
  BY <1>4, <1>5
<1> QED
  BY <1>1, <1>3, <1>6

\* What is joined, from the last of them.
LEMMA FlattenSteps ==
    ASSUME NEW X, NEW b \in Seq(Seq(X)), NEW n \in Nat, Len(b) = n + 1
    PROVE  /\ FlattenSeq(b) \in Seq(X)
           /\ n = 0 => FlattenSeq(b) = b[1]
           /\ \A c \in Seq(Seq(X)) : n > 0 /\ Len(c) >= n /\ (\A i \in 1..n : c[i] = b[i])
                 => /\ Len(c) = n => FlattenSeq(b) = FlattenSeq(c) \o b[n + 1]
                    /\ Len(c) = n + 1 => \E s \in Seq(X) : /\ FlattenSeq(b) = s \o b[n + 1]
                                                            /\ FlattenSeq(c) = s \o c[n + 1]
<1>1. PICK f \in [1..(n + 1) -> Seq(X)] : Joins(f, b, n + 1) /\ FlattenSeq(b) = f[n + 1]
  <2>1. Len(b) > 0
    OBVIOUS
  <2>2. \E f \in [1..Len(b) -> Seq(X)] : Joins(f, b, Len(b)) /\ FlattenSeq(b) = f[Len(b)]
    BY <2>1, FlattenIs, Zenon
  <2> QED
    BY <2>2, Zenon
<1>2. n + 1 \in Nat /\ n + 1 \in 1..(n + 1) /\ (n > 0 => n + 1 # 1 /\ (n + 1) - 1 = n)
  OBVIOUS
<1>3. \A i \in 1..(n + 1) : f[i] = JoinedAt(f, b, i)
  BY <1>1, <1>2, JoinsAt, ZenonT(40)
<1>4. FlattenSeq(b) \in Seq(X)
  BY <1>1, <1>2
<1>5. n = 0 => FlattenSeq(b) = b[1]
  BY <1>1, <1>2, <1>3 DEF JoinedAt
<1>6. ASSUME NEW c \in Seq(Seq(X)), n > 0, Len(c) >= n, \A i \in 1..n : c[i] = b[i]
      PROVE  /\ Len(c) = n => FlattenSeq(b) = FlattenSeq(c) \o b[n + 1]
             /\ Len(c) = n + 1 => \E s \in Seq(X) : FlattenSeq(b) = s \o b[n + 1] /\ FlattenSeq(c) = s \o c[n + 1]
  <2>1. FlattenSeq(b) = f[n] \o b[n + 1]
    BY <1>1, <1>2, <1>3, <1>6 DEF JoinedAt
  <2>0. Len(c) \in Nat /\ n \in 1..n /\ n \in 1..(n + 1)
    BY <1>6
  <2>2. PICK g \in [1..Len(c) -> Seq(X)] : Joins(g, c, Len(c)) /\ FlattenSeq(c) = g[Len(c)]
    <3>1. Len(c) > 0
      BY <1>6, <2>0
    <3> QED
      BY <3>1, FlattenIs, Zenon
  <2>3. \A i \in 1..n : f[i] = g[i]
    <3>1. n <= n + 1 /\ n <= Len(c)
      BY <1>6
    <3>2. Alike(b, c, n)
      BY <1>6 DEF Alike
    <3> QED
      <4>1. Joins(f, b, n + 1) /\ n + 1 \in Nat
        BY <1>1, <1>2
      <4>2. Joins(g, c, Len(c)) /\ Len(c) \in Nat
        BY <2>0, <2>2
      <4>3. Alike(f, g, n)
        BY <3>1, <3>2, <4>1, <4>2, JoinsAgree, Zenon
      <4> QED
        BY <4>3 DEF Alike
  <2>4. f[n] = g[n] /\ f[n] \in Seq(X)
    BY <2>0, <2>3
  <2>5. \A i \in 1..Len(c) : g[i] = JoinedAt(g, c, i)
    BY <2>0, <2>2, JoinsAt, Zenon
  <2>6. Len(c) = n => FlattenSeq(b) = FlattenSeq(c) \o b[n + 1]
    BY <2>1, <2>2, <2>4
  <2>7. ASSUME Len(c) = n + 1 PROVE FlattenSeq(c) = f[n] \o c[n + 1]
    BY <1>2, <1>6, <2>2, <2>4, <2>5, <2>7 DEF JoinedAt
  <2> QED
    BY <2>1, <2>4, <2>6, <2>7
<1> QED
  BY <1>4, <1>5, <1>6

\* A sum of sums.
AddUp(u, v, w, S) == \A x \in S : v[x] \in Int /\ w[x] \in Int /\ u[x] = v[x] + w[x]

LEMMA SumPlus ==
    ASSUME NEW S, IsFiniteSet(S), NEW u, NEW v, NEW w, AddUp(u, v, w, S)
    PROVE  SumOn(u, S) = SumOn(v, S) + SumOn(w, S)
<1> DEFINE Adding(s) == SumOn(u, s) = SumOn(v, s) + SumOn(w, s) /\ SumOn(v, s) \in Int /\ SumOn(w, s) \in Int
           N == {n \in Nat : \A s \in SUBSET S : Cardinality(s) = n => Adding(s)}
<1>0. \A s \in SUBSET S : IsFiniteSet(s) /\ Cardinality(s) \in Nat
  BY FS_Subset, FS_CardinalityType
<1>1. 0 \in N
  <2> SUFFICES ASSUME NEW s \in SUBSET S, Cardinality(s) = 0 PROVE Adding(s)
    OBVIOUS
  <2>1. s = {}
    BY <1>0, FS_EmptySet
  <2>2. SumOn(u, s) = 0 /\ SumOn(v, s) = 0 /\ SumOn(w, s) = 0
    BY <2>1, SumEmpty
  <2> QED
    BY <2>2
<1>2. ASSUME NEW n \in N PROVE n + 1 \in N
  <2> SUFFICES ASSUME NEW s \in SUBSET S, Cardinality(s) = n + 1 PROVE Adding(s)
    OBVIOUS
  <2> DEFINE c == Chosen(s)
             r == s \ {c}
  <2>0. n \in Nat
    OBVIOUS
  <2>1. s # {}
    BY <1>0, <2>0, FS_EmptySet
  <2>2. c \in s
    BY <2>1, ChosenIn
  <2>3. r \in SUBSET S /\ Cardinality(r) = n
    BY <1>0, <2>0, <2>2, OneSmaller
  <2>4. Adding(r)
    BY <2>3
  <2>5. /\ SumOn(u, s) = u[c] + SumOn(u, r)
        /\ SumOn(v, s) = v[c] + SumOn(v, r)
        /\ SumOn(w, s) = w[c] + SumOn(w, r)
    BY <1>0, <2>1, SumChosen
  <2>6. v[c] \in Int /\ w[c] \in Int /\ u[c] = v[c] + w[c]
    BY <2>2 DEF AddUp
  <2> HIDE DEF c, r, N
  <2> QED
    BY <2>4, <2>5, <2>6
<1>3. N = Nat
  <2> HIDE DEF N
  <2>1. N \in SUBSET Nat
    BY DEF N
  <2> QED
    BY <1>1, <1>2, <2>1, EveryNumber
<1>4. Cardinality(S) \in N
  BY <1>3, FS_CardinalityType
<1> QED
  BY <1>4

\* A sum is the same of what its elements are mapped to, one to one.
Mapped(g, v, w, S) == /\ \A x, y \in S : g[x] = g[y] => x = y
                      /\ \A x \in S : v[x] \in Int /\ w[g[x]] = v[x]

LEMMA SumMoved ==
    ASSUME NEW S, IsFiniteSet(S), NEW g, NEW v, NEW w, Mapped(g, v, w, S)
    PROVE  SumOn(w, {g[x] : x \in S}) = SumOn(v, S)
<1> DEFINE G(s) == {g[x] : x \in s}
           Same(s) == SumOn(w, G(s)) = SumOn(v, s) /\ SumOn(v, s) \in Int
           N == {n \in Nat : \A s \in SUBSET S : Cardinality(s) = n => Same(s)}
<1>0. \A s \in SUBSET S : IsFiniteSet(s) /\ Cardinality(s) \in Nat /\ IsFiniteSet(G(s))
  BY FS_Subset, FS_CardinalityType, ImageFinite
<1>1. 0 \in N
  <2> SUFFICES ASSUME NEW s \in SUBSET S, Cardinality(s) = 0 PROVE Same(s)
    OBVIOUS
  <2>1. s = {} /\ G(s) = {}
    BY <1>0, FS_EmptySet
  <2>2. SumOn(v, s) = 0 /\ SumOn(w, G(s)) = 0
    BY <2>1, SumEmpty
  <2> QED
    BY <2>2
<1>2. ASSUME NEW n \in N PROVE n + 1 \in N
  <2> SUFFICES ASSUME NEW s \in SUBSET S, Cardinality(s) = n + 1 PROVE Same(s)
    <3> HIDE DEF Same, G
    <3> QED
      OBVIOUS
  <2> DEFINE c == Chosen(s)
             r == s \ {c}
  <2>0. n \in Nat
    OBVIOUS
  <2>1. s # {}
    BY <1>0, <2>0, FS_EmptySet
  <2>2. c \in s
    BY <2>1, ChosenIn
  <2>3. r \in SUBSET S /\ Cardinality(r) = n
    BY <1>0, <2>0, <2>2, OneSmaller
  <2>4. Same(r)
    BY <2>3
  <2>5. SumOn(v, s) = v[c] + SumOn(v, r)
    BY <1>0, <2>1, SumChosen
  <2>6. G(s) = G(r) \cup {g[c]} /\ g[c] \notin G(r)
    BY <2>2 DEF Mapped
  <2>7. w[g[c]] = v[c] /\ v[c] \in Int /\ \A y \in G(r) \cup {g[c]} : w[y] \in Int
    BY <2>2 DEF Mapped
  <2>8. IsFiniteSet(G(r))
    BY <1>0, <2>3
  <2> HIDE DEF c, r, N, G
  <2>9. SumOn(w, G(r) \cup {g[c]}) = w[g[c]] + SumOn(w, G(r))
    BY <2>6, <2>7, <2>8, SumWith
  <2> QED
    BY <2>4, <2>5, <2>6, <2>7, <2>9
<1>3. N = Nat
  <2> HIDE DEF N
  <2>1. N \in SUBSET Nat
    BY DEF N
  <2> QED
    BY <1>1, <1>2, <2>1, EveryNumber
<1>4. Cardinality(S) \in N /\ IsFiniteSet(G(S))
  BY <1>0, <1>3
<1> QED
  BY <1>4

\* Elements of no amount make no difference.
LEMMA SumNoughts ==
    ASSUME NEW S, IsFiniteSet(S), NEW T, T \subseteq S, NEW v, \A x \in S : v[x] \in Int, \A x \in S \ T : v[x] = 0
    PROVE  SumOn(v, S) = SumOn(v, T) /\ SumOn(v, S) \in Int
<1>1. IsFiniteSet(T) /\ IsFiniteSet(S \ T) /\ T \cap (S \ T) = {} /\ T \cup (S \ T) = S
  BY FS_Subset
<1>2. SumOn(v, T \cup (S \ T)) = SumOn(v, T) + SumOn(v, S \ T)
  BY <1>1, SumApart
<1>3. 0 \in Int /\ \A x \in S \ T : v[x] \in Int /\ 0 <= v[x] /\ v[x] <= 0
  OBVIOUS
<1>4. SumOn(v, S \ T) \in Int /\ 0 * Cardinality(S \ T) <= SumOn(v, S \ T) /\ SumOn(v, S \ T) <= 0 * Cardinality(S \ T)
  BY <1>1, <1>3, SumBounds
<1>5. Cardinality(S \ T) \in Nat
  BY <1>1, FS_CardinalityType
<1>6. SumOn(v, S \ T) = 0
  BY <1>4, <1>5
<1>7. SumOn(v, T) \in Int /\ SumOn(v, T \cup (S \ T)) = SumOn(v, S)
  BY <1>1, SumInt
<1> HIDE DEF SumOn
<1> QED
  BY <1>2, <1>6, <1>7
=============================================================================
