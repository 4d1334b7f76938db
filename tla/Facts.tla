-------------------------------- MODULE Facts --------------------------------
(***************************************************************************)
(* Facts that proofs about several modules rest on: of naturals, of the    *)
(* helpers of Ordering, of sequences, and of FlattenSeq. The library's     *)
(* rules for induction take a predicate; here it is over the set of the    *)
(* numbers of which a fact holds, which is a set and so first-order.       *)
(***************************************************************************)
EXTENDS Ordering, SequencesExt, SequenceTheorems, FiniteSetTheorems, TLAPS

LEMMA LeastExists ==
  ASSUME NEW T, T \subseteq Nat, T # {}
  PROVE  \E x \in T : \A y \in T : x <= y
<1> DEFINE LessThan == {p \in Nat \X Nat : p[1] < p[2]}
<1>1. IsWellFoundedOn(LessThan, Nat)
  BY NatLessThanWellFounded, Zenon DEF OpToRel
<1>2. \A i, j \in Nat : i < j => <<i, j>> \in LessThan
  OBVIOUS
<1> HIDE DEF LessThan
<1>3. PICK x \in T : \A y \in T : ~ (<<y, x>> \in LessThan)
  BY <1>1, WFMin, Zenon
<1>4. ASSUME NEW y \in T
      PROVE  x <= y
  <2>1. x \in Nat /\ y \in Nat /\ ~ (y < x)
    BY <1>2, <1>3
  <2> QED BY <2>1
<1> QED BY <1>4

\* Induction, over a set instead of a predicate.
LEMMA SetInduction ==
  ASSUME NEW S, 0 \in S, \A n \in Nat : n \in S => n + 1 \in S
  PROVE  \A n \in Nat : n \in S
<1> DEFINE T == {n \in Nat : n \notin S}
<1>1. SUFFICES ASSUME T # {} PROVE FALSE
  OBVIOUS
<1>2. PICK x \in T : \A y \in T : x <= y
  <2>1. T \subseteq Nat
    OBVIOUS
  <2> QED BY <1>1, <2>1, LeastExists, Zenon
<1>3. x \in Nat /\ x # 0
  OBVIOUS
<1>4. x - 1 \in Nat /\ ~ (x <= x - 1)
  BY <1>3
<1>5. x - 1 \in S
  BY <1>2, <1>4
<1>6. x - 1 + 1 = x
  BY <1>3
<1> QED BY <1>4, <1>5, <1>6

LEMMA GreatestOf ==
  ASSUME NEW n \in Nat, NEW S \in SUBSET (0..n), S # {}
  PROVE  Max(S) \in S /\ \A j \in S : j <= Max(S)
<1> DEFINE T == {n - i : i \in S}
<1>1. T \subseteq Nat /\ T # {}
  <2>1. \A i \in S : n - i \in Nat
    OBVIOUS
  <2> QED BY <2>1
<1> HIDE DEF T
<1>2. PICK x \in T : \A y \in T : x <= y
  BY <1>1, LeastExists, Zenon
<1>3. PICK i \in S : x = n - i
  BY DEF T
<1>4. \A j \in S : n - i <= n - j
  BY <1>2, <1>3 DEF T
<1>5. \A j \in S : i >= j
  BY <1>4
<1>6. Max(S) \in S /\ \A j \in S : Max(S) >= j
  BY <1>5, Zenon DEF Max
<1>7. \A j \in S : j \in Nat
  OBVIOUS
<1> QED BY <1>6, <1>7

LEMMA LeastOf ==
  ASSUME NEW S, S \subseteq Nat, S # {}
  PROVE  Min(S) \in S /\ \A j \in S : Min(S) <= j
<1>1. \E x \in S : \A y \in S : x <= y
  BY LeastExists
<1> QED BY <1>1, Zenon DEF Min

LEMMA MaxOfTwo ==
  ASSUME NEW a \in Int, NEW b \in Int
  PROVE  Max({a, b}) = IF a >= b THEN a ELSE b
BY DEF Max

LEMMA MinOfTwo ==
  ASSUME NEW a \in Int, NEW b \in Int
  PROVE  Min({a, b}) = IF a <= b THEN a ELSE b
BY DEF Min

(***************************************************************************)
(* What the helpers of Ordering return.                                    *)
(***************************************************************************)
\* A non-empty set of naturals has a smallest element, and Least is it.
LEMMA LeastProperties ==
  ASSUME NEW S \in SUBSET Nat, S # {}
  PROVE  /\ Least(S) \in S
         /\ \A j \in S : Least(S) <= j
<1> DEFINE LessThan == {p \in Nat \X Nat : p[1] < p[2]}
<1>1. IsWellFoundedOn(LessThan, Nat)
  BY NatLessThanWellFounded, Zenon DEF OpToRel
<1> HIDE DEF LessThan
<1>2. PICK x \in S : \A y \in S : ~ (<<y, x>> \in LessThan)
  BY <1>1, WFMin, Zenon
<1>3. \A i, j \in Nat : i < j => <<i, j>> \in LessThan
  BY DEF LessThan
<1>4. ASSUME NEW y \in S PROVE x <= y
  <2>1. x \in Nat /\ y \in Nat /\ ~ (y < x)
    BY <1>2, <1>3
  <2> QED BY <2>1
<1> QED BY <1>4, Zenon DEF Least

\* A rank is a position among the elements of the set, ranks grow with the
\* elements, and every position is the rank of an element.
LEMMA RankProperties ==
  ASSUME NEW n \in Nat, NEW S \in SUBSET (1..n)
  PROVE  /\ Cardinality(S) \in 0..n
         /\ \A i \in S : Rank(i, S) \in 1..Cardinality(S)
         /\ \A i, j \in S : i < j => Rank(i, S) < Rank(j, S)
         /\ \A k \in 1..Cardinality(S) : \E i \in S : Rank(i, S) = k
<1> DEFINE Upto(i) == {j \in S : j <= i}
<1>1. IsFiniteSet(1..n) /\ Cardinality(1..n) = n
  BY FS_Interval
<1>2. IsFiniteSet(S) /\ Cardinality(S) \in 0..n
  <2>1. IsFiniteSet(S) /\ Cardinality(S) <= Cardinality(1..n)
    BY <1>1, FS_Subset
  <2>2. Cardinality(S) \in Nat
    BY <2>1, FS_CardinalityType
  <2> QED BY <1>1, <2>1, <2>2
<1>3. ASSUME NEW i \in S
      PROVE  Rank(i, S) \in 1..Cardinality(S)
  <2>1. Upto(i) \in SUBSET S /\ i \in Upto(i)
    OBVIOUS
  <2>2. IsFiniteSet(Upto(i)) /\ Cardinality(Upto(i)) <= Cardinality(S)
    BY <1>2, <2>1, FS_Subset
  <2>3. Cardinality(Upto(i)) \in Nat /\ Cardinality(Upto(i)) # 0
    BY <2>1, <2>2, FS_EmptySet, FS_CardinalityType
  <2> QED BY <1>2, <2>2, <2>3 DEF Rank
<1>4. ASSUME NEW i \in S, NEW j \in S, i < j
      PROVE  Rank(i, S) < Rank(j, S)
  <2>0. \A k \in S : k \in Int /\ (k <= i => k <= j)
    BY <1>4
  <2>1. Upto(i) \in SUBSET Upto(j) /\ j \in Upto(j) /\ j \notin Upto(i)
    <3>1. Upto(i) \in SUBSET Upto(j)
      BY <2>0
    <3>2. j <= j /\ ~ (j <= i)
      BY <1>4, <2>0
    <3> QED BY <3>1, <3>2
  <2>2. IsFiniteSet(Upto(j)) /\ IsFiniteSet(Upto(i))
    BY <1>2, FS_Subset
  <2>3. Cardinality(Upto(i)) <= Cardinality(Upto(j)) /\ Cardinality(Upto(i)) # Cardinality(Upto(j))
    BY <2>1, <2>2, FS_Subset
  <2>4. Cardinality(Upto(i)) \in Nat /\ Cardinality(Upto(j)) \in Nat
    BY <2>2, FS_CardinalityType
  <2> QED BY <2>3, <2>4 DEF Rank
<1>5. ASSUME NEW k \in 1..Cardinality(S)
      PROVE  \E i \in S : Rank(i, S) = k
  <2> DEFINE T == 1..Cardinality(S)
             f == [i \in S |-> Rank(i, S)]
  <2>1. f \in Injection(S, T)
    <3>1. f \in [S -> T]
      BY <1>3
    <3>2. ASSUME NEW a \in S, NEW b \in S, f[a] = f[b]
          PROVE  a = b
      <4>1. Rank(a, S) = Rank(b, S) /\ Rank(a, S) \in Int
        BY <1>3, <3>2, <1>2
      <4>2. a \in Int /\ b \in Int
        OBVIOUS
      <4> QED BY <1>4, <4>1, <4>2
    <3> QED BY <3>1, <3>2 DEF Injection, IsInjective
  <2>2. IsFiniteSet(T) /\ Cardinality(T) = Cardinality(S)
    BY <1>2, FS_Interval
  <2>3. f \in Surjection(S, T)
    BY <2>1, <2>2, FS_Injection, Zenon
  <2> QED BY <2>3 DEF Surjection
<1> QED BY <1>2, <1>3, <1>4, <1>5

\* Sorted enumerates the set, each element at its rank.
LEMMA SortedProperties ==
  ASSUME NEW n \in Nat, NEW S \in SUBSET (1..n)
  PROVE  /\ Cardinality(S) \in 0..n
         /\ Sorted(S) \in [1..Cardinality(S) -> S]
         /\ \A k \in 1..Cardinality(S) : Rank(Sorted(S)[k], S) = k
         /\ \A i \in S : Rank(i, S) \in 1..Cardinality(S) /\ Sorted(S)[Rank(i, S)] = i
         /\ \A k, l \in 1..Cardinality(S) : k < l => Sorted(S)[k] < Sorted(S)[l]
<1> DEFINE at(k) == CHOOSE i \in S : Rank(i, S) = k
<1>1. /\ Cardinality(S) \in 0..n
      /\ \A i \in S : Rank(i, S) \in 1..Cardinality(S)
      /\ \A i, j \in S : i < j => Rank(i, S) < Rank(j, S)
      /\ \A k \in 1..Cardinality(S) : \E i \in S : Rank(i, S) = k
  BY RankProperties
<1>2. ASSUME NEW k \in 1..Cardinality(S)
      PROVE  at(k) \in S /\ Rank(at(k), S) = k
  BY <1>1
<1>3. Sorted(S) = [k \in 1..Cardinality(S) |-> at(k)]
  BY DEF Sorted
<1> HIDE DEF at
<1>4. /\ Sorted(S) \in [1..Cardinality(S) -> S]
      /\ \A k \in 1..Cardinality(S) : Rank(Sorted(S)[k], S) = k
  BY <1>2, <1>3
<1>5. \A i \in S : i \in Int /\ Rank(i, S) \in Int
  BY <1>1
<1>6. ASSUME NEW i \in S
      PROVE  Sorted(S)[Rank(i, S)] = i
  <2> DEFINE j == Sorted(S)[Rank(i, S)]
  <2>1. j \in S /\ Rank(j, S) = Rank(i, S)
    BY <1>1, <1>4
  <2> HIDE DEF j
  <2>2. ~ (i < j) /\ ~ (j < i)
    BY <1>1, <1>5, <2>1
  <2>3. j = i
    BY <1>5, <2>1, <2>2
  <2> QED BY <2>3 DEF j
<1>7. ASSUME NEW k \in 1..Cardinality(S), NEW l \in 1..Cardinality(S), k < l
      PROVE  Sorted(S)[k] < Sorted(S)[l]
  <2> DEFINE i == Sorted(S)[k]
             j == Sorted(S)[l]
  <2>1. i \in S /\ j \in S /\ Rank(i, S) = k /\ Rank(j, S) = l
    BY <1>4
  <2> HIDE DEF i, j
  <2>2. ~ (j < i) /\ j # i
    BY <1>1, <1>5, <1>7, <2>1
  <2>3. i < j
    BY <1>5, <2>1, <2>2
  <2> QED BY <2>3 DEF i, j
<1> QED BY <1>1, <1>4, <1>6, <1>7

\* Retained keeps exactly the elements at the indices S and their order: the
\* element at index i of the old sequence is at index Rank(i, S) of the new.
LEMMA RetainedProperties ==
  ASSUME NEW R, NEW s \in Seq(R), NEW S \in SUBSET (1..Len(s))
  PROVE  /\ Retained(s, S) \in Seq(R)
         /\ Len(Retained(s, S)) = Cardinality(S)
         /\ Cardinality(S) \in 0..Len(s)
         /\ \A i \in S : /\ Rank(i, S) \in 1..Cardinality(S)
                         /\ Retained(s, S)[Rank(i, S)] = s[i]
         /\ \A k \in 1..Cardinality(S) :
              \E i \in S : Rank(i, S) = k /\ Retained(s, S)[k] = s[i]
         /\ \A i, j \in S : i < j => Rank(i, S) < Rank(j, S)
<1> DEFINE at == Sorted(S)
<1>1. /\ Cardinality(S) \in 0..Len(s)
      /\ at \in [1..Cardinality(S) -> S]
      /\ \A k \in 1..Cardinality(S) : Rank(at[k], S) = k
      /\ \A i \in S : Rank(i, S) \in 1..Cardinality(S) /\ at[Rank(i, S)] = i
  BY SortedProperties
<1>2. \A i, j \in S : i < j => Rank(i, S) < Rank(j, S)
  BY RankProperties
<1>3. Retained(s, S) = [k \in 1..Cardinality(S) |-> s[at[k]]]
  BY DEF Retained
<1> HIDE DEF at
<1>4. \A k \in 1..Cardinality(S) : s[at[k]] \in R
  BY <1>1, ElementOfSeq
<1>5. Retained(s, S) \in Seq(R) /\ Len(Retained(s, S)) = Cardinality(S)
  BY <1>1, <1>3, <1>4, IsASeq
<1>6. \A i \in S : Retained(s, S)[Rank(i, S)] = s[i]
  BY <1>1, <1>3
<1>7. \A k \in 1..Cardinality(S) :
        \E i \in S : Rank(i, S) = k /\ Retained(s, S)[k] = s[i]
  BY <1>1, <1>3
<1> QED BY <1>1, <1>2, <1>5, <1>6, <1>7

(***************************************************************************)
(* Sequences                                                               *)
(***************************************************************************)
LEMMA FunctionIsSeq ==
  ASSUME NEW R, NEW n \in Nat, NEW f \in [1..n -> R]
  PROVE  f \in Seq(R) /\ Len(f) = n
<1>1. f \in Seq(R)
  BY SeqDef
<1>2. DOMAIN f = 1..n /\ DOMAIN f = 1..Len(f) /\ Len(f) \in Nat
  BY <1>1, LenProperties
<1> QED BY <1>1, <1>2

\* A part of a sequence, within its bounds or empty.
LEMMA PartOf ==
  ASSUME NEW R, NEW s \in Seq(R), NEW m \in Nat \ {0}, NEW n \in Int, n <= Len(s)
  PROVE  /\ SubSeq(s, m, n) \in Seq(R)
         /\ Len(SubSeq(s, m, n)) = IF m <= n THEN n - m + 1 ELSE 0
         /\ \A i \in 1..(n - m + 1) : SubSeq(s, m, n)[i] = s[m + i - 1]
<1>1. Len(s) \in Nat
  BY LenProperties
<1>2. \A i \in m..n : s[i] \in R
  <2> TAKE i \in m..n
  <2>1. i \in 1..Len(s)
    BY <1>1
  <2> QED BY <2>1, ElementOfSeq
<1>3. m \in Int
  OBVIOUS
<1> QED BY <1>2, <1>3, SubSeqProperties

\* A sequence is what is before a cut and what is behind it.
LEMMA CutInTwo ==
  ASSUME NEW R, NEW s \in Seq(R), NEW n \in 0..Len(s)
  PROVE  s = SubSeq(s, 1, n) \o SubSeq(s, n + 1, Len(s))
<1>1. Len(s) \in Nat
  BY LenProperties
<1>2. /\ 1 \in 1..(Len(s) + 1) /\ n \in (1 - 1)..Len(s) /\ Len(s) \in n..Len(s)
  BY <1>1
<1>3. SubSeq(s, 1, n) \o SubSeq(s, n + 1, Len(s)) = SubSeq(s, 1, Len(s))
  BY <1>2, ConcatAdjacentSubSeq
<1> QED BY <1>3, SubSeqFull

(***************************************************************************)
(* FlattenSeq of the community modules                                     *)
(***************************************************************************)
\* The recursive function in its definition.
Joins(s, f) ==
  f = [i \in 1..Len(s) |-> IF i = 1 THEN s[i] ELSE f[i - 1] \o s[i]]

LEMMA JoinAt ==
  ASSUME NEW s, NEW f, Joins(s, f), Len(s) \in Nat
  PROVE  /\ Len(s) # 0 => f[1] = s[1]
         /\ \A n \in Nat : n # 0 /\ n < Len(s) => f[n + 1] = f[n] \o s[n + 1]
<1> DEFINE g == [k \in 1..Len(s) |-> IF k = 1 THEN s[k] ELSE f[k - 1] \o s[k]]
<1>1. f = g
  BY DEF Joins
<1>2. Len(s) # 0 => f[1] = s[1]
  <2>1. Len(s) # 0 => g[1] = s[1]
    OBVIOUS
  <2> QED BY <1>1, <2>1, Zenon
<1>3. ASSUME NEW n \in Nat, n # 0, n < Len(s)
      PROVE  f[n + 1] = f[n] \o s[n + 1]
  <2>1. n + 1 \in 1..Len(s) /\ n + 1 # 1 /\ n + 1 - 1 = n
    BY <1>3
  <2>2. \A k \in 1..Len(s) : g[k] = IF k = 1 THEN s[k] ELSE f[k - 1] \o s[k]
    BY Zenon
  <2>3. g[n + 1] = f[n] \o s[n + 1]
    <3> DEFINE m == n + 1
    <3>1. m \in 1..Len(s) /\ m # 1 /\ m - 1 = n
      BY <2>1
    <3> HIDE DEF g, m
    <3>2. g[m] = f[m - 1] \o s[m]
      BY <2>2, <3>1, Zenon
    <3> QED BY <3>1, <3>2, Zenon DEF m
  <2> QED BY <1>1, <2>3, Zenon
<1> QED BY <1>2, <1>3

LEMMA JoinExists ==
  ASSUME NEW R, NEW s \in Seq(Seq(R))
  PROVE  \E f \in [1..Len(s) -> Seq(R)] : Joins(s, f)
<1> DEFINE JoinsTo(n, f) == f = [i \in 1..n |-> IF i = 1 THEN s[i] ELSE f[i - 1] \o s[i]]
           S == {n \in Nat : n <= Len(s) => \E f \in [1..n -> Seq(R)] : JoinsTo(n, f)}
<1>1. 0 \in S
  <2> DEFINE f == [i \in 1..0 |-> <<>>]
  <2>1. f \in [1..0 -> Seq(R)]
    OBVIOUS
  <2>2. JoinsTo(0, f)
    OBVIOUS
  <2> QED BY <2>1, <2>2
<1>2. ASSUME NEW n \in Nat, n \in S
      PROVE  n + 1 \in S
  <2>0. n + 1 \in Nat
    OBVIOUS
  <2>1. SUFFICES ASSUME n + 1 <= Len(s)
                 PROVE  \E f \in [1..(n + 1) -> Seq(R)] : JoinsTo(n + 1, f)
    <3> HIDE DEF JoinsTo
    <3> QED BY <2>0, Zenon
  <2>2. Len(s) \in Nat /\ s[n + 1] \in Seq(R)
    BY <2>1, LenProperties, ElementOfSeq
  <2>3. PICK f \in [1..n -> Seq(R)] : JoinsTo(n, f)
    <3>1. n <= Len(s)
      BY <2>1, <2>2
    <3> HIDE DEF JoinsTo
    <3> QED BY <1>2, <3>1, Zenon
  <2> DEFINE last == IF n = 0 THEN s[n + 1] ELSE f[n] \o s[n + 1]
             g == [i \in 1..(n + 1) |-> IF i = n + 1 THEN last ELSE f[i]]
  <2>4. last \in Seq(R)
    BY <2>2, <2>3, ConcatProperties
  <2>5. g \in [1..(n + 1) -> Seq(R)]
    <3> HIDE DEF last
    <3>1. \A i \in 1..(n + 1) : i # n + 1 => i \in 1..n
      OBVIOUS
    <3> QED BY <2>4, <3>1
  <2>6. \A i \in 1..n : f[i] = IF i = 1 THEN s[i] ELSE f[i - 1] \o s[i]
    <3> TAKE i \in 1..n
    <3> DEFINE h == [k \in 1..n |-> IF k = 1 THEN s[k] ELSE f[k - 1] \o s[k]]
    <3>1. h[i] = IF i = 1 THEN s[i] ELSE f[i - 1] \o s[i]
      BY Zenon
    <3> QED BY <2>3, <3>1, Zenon
  <2>7. \A i \in 1..(n + 1) : g[i] = IF i = 1 THEN s[i] ELSE g[i - 1] \o s[i]
    <3> TAKE i \in 1..(n + 1)
    <3>1. CASE i = n + 1
      BY <3>1
    <3>2. CASE i # n + 1
      <4>1. i \in 1..n /\ g[i] = f[i] /\ (i # 1 => i - 1 \in 1..n /\ g[i - 1] = f[i - 1])
        BY <3>2
      <4> HIDE DEF g
      <4> QED BY <2>6, <4>1
    <3> QED BY <3>1, <3>2
  <2>8. JoinsTo(n + 1, g)
    <3>1. g = [i \in 1..(n + 1) |-> g[i]]
      OBVIOUS
    <3> HIDE DEF g
    <3> QED BY <2>7, <3>1
  <2> QED BY <2>5, <2>8
<1>3. \A n \in Nat : n \in S
  <2> HIDE DEF S
  <2> QED BY <1>1, <1>2, SetInduction, Zenon
<1>4. Len(s) \in Nat /\ Len(s) <= Len(s)
  BY LenProperties
<1>5. Len(s) \in S
  BY <1>3, <1>4, Zenon
<1> QED BY <1>4, <1>5 DEF Joins

LEMMA JoinUnique ==
  ASSUME NEW R, NEW s \in Seq(Seq(R)), NEW f, NEW g, Joins(s, f), Joins(s, g)
  PROVE  \A k \in 1..Len(s) : f[k] = g[k]
<1> DEFINE S == {n \in Nat : n \in 1..Len(s) => f[n] = g[n]}
<1>0. Len(s) \in Nat
  BY LenProperties
<1>1. 0 \in S
  OBVIOUS
<1>2. ASSUME NEW n \in Nat, n \in S
      PROVE  n + 1 \in S
  <2>1. SUFFICES ASSUME n + 1 \in 1..Len(s)
                 PROVE  f[n + 1] = g[n + 1]
    OBVIOUS
  <2>2. CASE n = 0
    <3>1. Len(s) # 0 /\ n + 1 = 1
      BY <1>0, <2>1, <2>2
    <3>2. f[1] = s[1] /\ g[1] = s[1]
      BY <1>0, <3>1, JoinAt, Zenon
    <3> QED BY <3>1, <3>2
  <2>3. CASE n # 0
    <3>1. n < Len(s) /\ n \in 1..Len(s)
      BY <1>0, <2>1, <2>3
    <3>2. f[n + 1] = f[n] \o s[n + 1] /\ g[n + 1] = g[n] \o s[n + 1]
      BY <1>0, <2>3, <3>1, JoinAt, Zenon
    <3> QED BY <1>2, <3>1, <3>2
  <2> QED BY <2>2, <2>3
<1>3. \A n \in Nat : n \in S
  <2> HIDE DEF S
  <2> QED BY <1>1, <1>2, SetInduction, Zenon
<1> QED BY <1>3

LEMMA FlattenIs ==
  ASSUME NEW R, NEW s \in Seq(Seq(R)), Len(s) # 0, NEW f, Joins(s, f)
  PROVE  FlattenSeq(s) = f[Len(s)]
<1> DEFINE g == CHOOSE h : h = [i \in 1..Len(s) |-> IF i = 1 THEN s[i] ELSE h[i - 1] \o s[i]]
<1>1. \E h : h = [i \in 1..Len(s) |-> IF i = 1 THEN s[i] ELSE h[i - 1] \o s[i]]
  BY Zenon DEF Joins
<1>2. g = [i \in 1..Len(s) |-> IF i = 1 THEN s[i] ELSE g[i - 1] \o s[i]]
  BY <1>1, Zenon
<1>3. FlattenSeq(s) = g[Len(s)]
  BY Zenon DEF FlattenSeq
<1>4. Joins(s, g)
  BY <1>2, Zenon DEF Joins
<1> HIDE DEF g
<1>5. Len(s) \in Nat
  BY LenProperties
<1>6. \A i \in 1..Len(s) : f[i] = g[i]
  BY <1>4, JoinUnique
<1> QED BY <1>3, <1>5, <1>6

LEMMA FlattenEmpty == FlattenSeq(<<>>) = <<>>
BY EmptySeq DEF FlattenSeq

LEMMA FlattenType ==
  ASSUME NEW R, NEW s \in Seq(Seq(R))
  PROVE  FlattenSeq(s) \in Seq(R)
<1>1. CASE Len(s) = 0
  <2>1. s = <<>>
    BY <1>1, EmptySeq
  <2> QED BY <2>1, FlattenEmpty, EmptySeq
<1>2. CASE Len(s) # 0
  <2>1. PICK f \in [1..Len(s) -> Seq(R)] : Joins(s, f)
    BY JoinExists
  <2>2. Len(s) \in Nat
    BY LenProperties
  <2>3. FlattenSeq(s) = f[Len(s)]
    BY <1>2, <2>1, FlattenIs, Zenon
  <2>4. Len(s) \in 1..Len(s)
    BY <1>2, <2>2
  <2> QED BY <2>1, <2>3, <2>4, Zenon
<1> QED BY <1>1, <1>2

LEMMA FlattenConcat ==
  ASSUME NEW R, NEW s \in Seq(Seq(R)), NEW t \in Seq(Seq(R))
  PROVE  FlattenSeq(s \o t) = FlattenSeq(s) \o FlattenSeq(t)
<1>1. /\ s \o t \in Seq(Seq(R)) /\ Len(s \o t) = Len(s) + Len(t)
      /\ \A i \in 1..(Len(s) + Len(t)) :
           (s \o t)[i] = IF i <= Len(s) THEN s[i] ELSE t[i - Len(s)]
  BY ConcatProperties
<1>2. Len(s) \in Nat /\ Len(t) \in Nat
  BY LenProperties
<1>3. CASE Len(s) = 0
  <2>1. s = <<>> /\ <<>> \o t = t
    BY <1>3, EmptySeq, ConcatEmptySeq
  <2>2. FlattenSeq(t) \in Seq(R)
    BY FlattenType
  <2> QED BY <2>1, <2>2, FlattenEmpty, ConcatEmptySeq
<1>4. CASE Len(t) = 0
  <2>1. t = <<>> /\ s \o <<>> = s
    BY <1>4, EmptySeq, ConcatEmptySeq
  <2>2. FlattenSeq(s) \in Seq(R)
    BY FlattenType
  <2> QED BY <2>1, <2>2, FlattenEmpty, ConcatEmptySeq
<1>5. CASE Len(s) # 0 /\ Len(t) # 0
  <2>1. PICK f \in [1..Len(s) -> Seq(R)] : Joins(s, f)
    BY JoinExists
  <2>2. PICK g \in [1..Len(t) -> Seq(R)] : Joins(t, g)
    BY JoinExists
  <2>10. PICK h : Joins(s \o t, h)
    BY <1>1, JoinExists
  <2>3. \A n \in Nat : n # 0 /\ n < Len(s \o t) => h[n + 1] = h[n] \o (s \o t)[n + 1]
    <3>1. Len(s \o t) \in Nat
      BY <1>1, <1>2
    <3> QED BY <2>10, <3>1, JoinAt, Zenon
  <2>4. h[Len(s)] = f[Len(s)]
    <3> DEFINE B == {n \in Nat : n \in 1..Len(s) => h[n] = f[n]}
    <3>1. 0 \in B
      OBVIOUS
    <3>2. ASSUME NEW n \in Nat, n \in B
          PROVE  n + 1 \in B
      <4>1. SUFFICES ASSUME n + 1 \in 1..Len(s)
                     PROVE  h[n + 1] = f[n + 1]
        OBVIOUS
      <4>2. (s \o t)[n + 1] = s[n + 1]
        BY <1>1, <1>2, <4>1
      <4>3. CASE n = 0
        <5>1. h[1] = (s \o t)[1]
          <6>1. Len(s \o t) \in Nat /\ Len(s \o t) # 0
            BY <1>1, <1>2, <1>5
          <6> QED BY <2>10, <6>1, JoinAt, Zenon
        <5>2. f[1] = s[1]
          BY <1>2, <1>5, <2>1, JoinAt, Zenon
        <5>3. n + 1 = 1
          BY <4>3
        <5> QED BY <4>2, <5>1, <5>2, <5>3, Zenon
      <4>4. CASE n # 0
        <5>1. n < Len(s) /\ n < Len(s \o t) /\ n \in 1..Len(s)
          BY <1>1, <1>2, <4>1, <4>4
        <5>2. h[n + 1] = h[n] \o (s \o t)[n + 1]
          BY <2>3, <4>4, <5>1, Zenon
        <5>3. f[n + 1] = f[n] \o s[n + 1]
          BY <1>2, <2>1, <4>4, <5>1, JoinAt, Zenon
        <5>4. h[n] = f[n]
          BY <3>2, <5>1
        <5> QED BY <4>2, <5>2, <5>3, <5>4, Zenon
      <4> QED BY <4>3, <4>4
    <3>3. \A n \in Nat : n \in B
      <4> HIDE DEF B
      <4> QED BY <3>1, <3>2, SetInduction, Zenon
    <3>4. Len(s) \in B /\ Len(s) \in 1..Len(s)
      <4>1. Len(s) \in 1..Len(s)
        BY <1>2, <1>5
      <4> QED BY <1>2, <3>3, <4>1, Zenon
    <3> QED BY <3>4
  <2> DEFINE S == {n \in Nat : n \in 1..Len(t) => h[Len(s) + n] = f[Len(s)] \o g[n]}
  <2>5. 0 \in S
    OBVIOUS
  <2>6. ASSUME NEW n \in Nat, n \in S
        PROVE  n + 1 \in S
    <3>0. n + 1 \in Nat
      OBVIOUS
    <3>1. SUFFICES ASSUME n + 1 \in 1..Len(t)
                   PROVE  h[Len(s) + (n + 1)] = f[Len(s)] \o g[n + 1]
      BY <3>0, Zenon
    <3>2. /\ Len(s) + (n + 1) \in 1..Len(s \o t) /\ Len(s) + (n + 1) # 1
          /\ Len(s) + (n + 1) - 1 = Len(s) + n
          /\ (s \o t)[Len(s) + (n + 1)] = t[n + 1]
      BY <1>1, <1>2, <1>5, <3>1
    <3>3. CASE n = 0
      <4>1. /\ Len(s) # 0 /\ Len(s) < Len(s \o t)
            /\ n + 1 = 1 /\ Len(s) + (n + 1) = Len(s) + 1
        BY <1>1, <1>2, <1>5, <3>3
      <4>2. h[Len(s) + 1] = h[Len(s)] \o (s \o t)[Len(s) + 1]
        BY <1>2, <2>3, <2>4, <4>1, Zenon
      <4>3. g[1] = t[1]
        BY <1>2, <1>5, <2>2, JoinAt, Zenon
      <4> QED BY <2>4, <3>2, <4>1, <4>2, <4>3, Zenon
    <3>4. CASE n # 0
      <4>1. /\ n \in 1..Len(t) /\ n < Len(t) /\ Len(s) \in 1..Len(s)
            /\ Len(s) + n \in Nat /\ Len(s) + n # 0 /\ Len(s) + n < Len(s \o t)
            /\ Len(s) + (n + 1) = (Len(s) + n) + 1
        BY <1>1, <1>2, <1>5, <3>1, <3>4
      <4>2. h[(Len(s) + n) + 1] = h[Len(s) + n] \o (s \o t)[(Len(s) + n) + 1]
        BY <2>3, <4>1, Zenon
      <4>3. g[n + 1] = g[n] \o t[n + 1]
        BY <1>2, <2>2, <3>4, <4>1, JoinAt, Zenon
      <4>4. f[Len(s)] \in Seq(R) /\ g[n] \in Seq(R) /\ t[n + 1] \in Seq(R)
        BY <2>1, <2>2, <3>1, <4>1, ElementOfSeq
      <4>5. (f[Len(s)] \o g[n]) \o t[n + 1] = f[Len(s)] \o (g[n] \o t[n + 1])
        <5> DEFINE a == f[Len(s)]
                   b == g[n]
                   c == t[n + 1]
        <5>1. a \in Seq(R) /\ b \in Seq(R) /\ c \in Seq(R)
          BY <4>4
        <5> HIDE DEF a, b, c
        <5>2. (a \o b) \o c = a \o (b \o c)
          BY <5>1, ConcatAssociative
        <5> QED BY <5>2 DEF a, b, c
      <4>6. h[Len(s) + n] = f[Len(s)] \o g[n]
        BY <2>6, <4>1
      <4> QED BY <3>2, <4>1, <4>2, <4>3, <4>5, <4>6, Zenon
    <3> QED BY <3>3, <3>4
  <2>7. \A n \in Nat : n \in S
    <3> HIDE DEF S
    <3> QED BY <2>5, <2>6, SetInduction, Zenon
  <2>8. h[Len(s) + Len(t)] = f[Len(s)] \o g[Len(t)]
    <3>1. Len(t) \in 1..Len(t)
      BY <1>2, <1>5
    <3>2. Len(t) \in S
      BY <1>2, <2>7, Zenon
    <3> QED BY <3>1, <3>2, Zenon
  <2>9. /\ FlattenSeq(s) = f[Len(s)] /\ FlattenSeq(t) = g[Len(t)]
        /\ FlattenSeq(s \o t) = h[Len(s \o t)]
    <3>1. Len(s \o t) # 0
      BY <1>1, <1>2, <1>5
    <3> QED BY <1>1, <1>5, <2>1, <2>2, <2>10, <3>1, FlattenIs, Zenon
  <2> QED BY <1>1, <2>8, <2>9
<1> QED BY <1>3, <1>4, <1>5

LEMMA FlattenOne ==
  ASSUME NEW R, NEW x \in Seq(R)
  PROVE  FlattenSeq(<<x>>) = x
<1> DEFINE f == [i \in 1..1 |-> x]
<1>1. <<x>> \in Seq(Seq(R)) /\ Len(<<x>>) = 1 /\ <<x>>[1] = x
  OBVIOUS
<1>2. Joins(<<x>>, f)
  BY <1>1 DEF Joins
<1>3. Len(<<x>>) # 0 /\ f[1] = x
  BY <1>1
<1>4. FlattenSeq(<<x>>) = f[Len(<<x>>)]
  <2> HIDE DEF f
  <2> QED BY <1>1, <1>2, <1>3, FlattenIs, Zenon
<1> QED BY <1>1, <1>3, <1>4

LEMMA SuffixOfConcat ==
  ASSUME NEW R, NEW x \in Seq(R), NEW s \in Seq(R)
  PROVE  IsSuffix(s, x \o s)
<1> DEFINE t == x \o s
           rs == Reverse(s)
           rt == Reverse(t)
<1>1. /\ t \in Seq(R) /\ Len(t) = Len(x) + Len(s) /\ Len(x) \in Nat /\ Len(s) \in Nat
      /\ \A i \in 1..(Len(x) + Len(s)) : t[i] = IF i <= Len(x) THEN x[i] ELSE s[i - Len(x)]
  BY ConcatProperties, LenProperties
<1> HIDE DEF t
<1>2. rs \in Seq(R) /\ Len(rs) = Len(s)
  <2>1. rs \in [1..Len(s) -> R]
    <3>1. \A i \in 1..Len(s) : s[(Len(s) - i) + 1] \in R
      <4> TAKE i \in 1..Len(s)
      <4>1. (Len(s) - i) + 1 \in 1..Len(s)
        BY <1>1
      <4> QED BY <4>1, ElementOfSeq
    <3> QED BY <3>1 DEF Reverse
  <2> QED BY <1>1, <2>1, FunctionIsSeq
<1>3. rt \in Seq(R) /\ Len(rt) = Len(t)
  <2>1. rt \in [1..Len(t) -> R]
    <3>1. \A i \in 1..Len(t) : t[(Len(t) - i) + 1] \in R
      <4> TAKE i \in 1..Len(t)
      <4>1. (Len(t) - i) + 1 \in 1..Len(t)
        BY <1>1
      <4> QED BY <1>1, <4>1, ElementOfSeq
    <3> QED BY <3>1 DEF Reverse
  <2>2. Len(t) \in Nat
    BY <1>1
  <2> QED BY <2>1, <2>2, FunctionIsSeq
<1>4. \A i \in 1..Len(s) : rs[i] = rt[i]
  <2> TAKE i \in 1..Len(s)
  <2>1. /\ (Len(t) - i) + 1 \in 1..(Len(x) + Len(s)) /\ ~ ((Len(t) - i) + 1 <= Len(x))
        /\ (Len(t) - i) + 1 - Len(x) = (Len(s) - i) + 1 /\ i \in 1..Len(t)
    BY <1>1
  <2>2. rs[i] = s[(Len(s) - i) + 1] /\ rt[i] = t[(Len(t) - i) + 1]
    BY <2>1 DEF Reverse
  <2>3. t[(Len(t) - i) + 1] = s[(Len(t) - i) + 1 - Len(x)]
    BY <1>1, <2>1
  <2> QED BY <2>1, <2>2, <2>3, Zenon
<1> HIDE DEF rs, rt
<1>5. Len(rs) \in Nat /\ Len(rs) <= Len(rt) /\ Len(rs) <= Len(rs)
  BY <1>1, <1>2, <1>3
<1>6. SubSeq(rs, 1, Len(rs)) = SubSeq(rt, 1, Len(rs))
  <2>1. /\ SubSeq(rs, 1, Len(rs)) \in Seq(R) /\ SubSeq(rt, 1, Len(rs)) \in Seq(R)
        /\ Len(SubSeq(rs, 1, Len(rs))) = Len(rs) /\ Len(SubSeq(rt, 1, Len(rs))) = Len(rs)
        /\ \A i \in 1..Len(rs) : SubSeq(rs, 1, Len(rs))[i] = rs[i] /\ SubSeq(rt, 1, Len(rs))[i] = rt[i]
    BY <1>2, <1>3, <1>5, PartOf
  <2> DEFINE a == SubSeq(rs, 1, Len(rs))
             b == SubSeq(rt, 1, Len(rs))
  <2>2. a \in Seq(R) /\ b \in Seq(R) /\ Len(a) = Len(b) /\ \A i \in 1..Len(a) : a[i] = b[i]
    BY <1>2, <1>4, <2>1
  <2> HIDE DEF a, b
  <2>3. a = b
    BY <2>2, SeqEqual
  <2> QED BY <2>3 DEF a, b
<1>7. IsPrefix(rs, rt)
  BY <1>5, <1>6, Zenon DEF IsPrefix
<1> QED BY <1>7, Zenon DEF IsSuffix, rs, rt, t

(***************************************************************************)
(* Split                                                                   *)
(***************************************************************************)
LEMMA EndsAreIndices ==
  ASSUME NEW W, NEW text \in Seq(W), NEW sep
  PROVE  /\ Len(text) \in Nat /\ DOMAIN text = 1..Len(text)
         /\ Ends(text, sep) \in SUBSET (1..(Len(text) + 1))
<1>1. Len(text) \in Nat /\ DOMAIN text = 1..Len(text)
  OBVIOUS
<1>2. Len(text) + 1 \in 1..(Len(text) + 1) /\ 1..Len(text) \subseteq 1..(Len(text) + 1)
  BY <1>1
<1> QED BY <1>1, <1>2 DEF Ends

\* The ends of the parts, in their order: all but the last are separators.
LEMMA SortedEnds ==
  ASSUME NEW W, NEW text \in Seq(W), NEW sep
  PROVE  LET E == Ends(text, sep)
             e == Sorted(E)
             n == Cardinality(E)
         IN  /\ n \in Nat /\ DOMAIN e = 1..n
             /\ \A k \in 1..n : e[k] \in E /\ e[k] \in 1..(Len(text) + 1)
             /\ \A k, l \in 1..n : k < l => e[k] < e[l]
             /\ \A k \in 1..n : k # n => e[k] \in 1..Len(text) /\ text[e[k]] = sep
             /\ \A i \in E : \E k \in 1..n : e[k] = i
<1> DEFINE E == Ends(text, sep)
           e == Sorted(E)
           n == Cardinality(E)
<1>1. Len(text) \in Nat /\ DOMAIN text = 1..Len(text) /\ E \in SUBSET (1..(Len(text) + 1))
  BY EndsAreIndices
<1>2. Len(text) + 1 \in Nat
  BY <1>1
<1> HIDE DEF E
<1>3. /\ n \in 0..(Len(text) + 1) /\ e \in [1..n -> E]
      /\ \A i \in E : Rank(i, E) \in 1..n /\ e[Rank(i, E)] = i
      /\ \A k, l \in 1..n : k < l => e[k] < e[l]
  BY <1>1, <1>2, SortedProperties
<1> HIDE DEF e, n
<1>4. n \in Nat /\ \A k \in 1..n : e[k] \in E /\ e[k] \in 1..(Len(text) + 1)
  <2>1. n \in Nat
    BY <1>2, <1>3
  <2>2. \A k \in 1..n : e[k] \in E
    BY <1>3
  <2> QED BY <1>1, <2>1, <2>2
<1>5. ASSUME NEW k \in 1..n, k # n
      PROVE  e[k] \in 1..Len(text) /\ text[e[k]] = sep
  <2>1. n \in 1..n /\ k < n
    BY <1>4, <1>5
  <2>2. e[k] < e[n]
    BY <1>3, <2>1
  <2>3. e[k] \in 1..Len(text)
    BY <1>1, <1>4, <2>1, <2>2
  <2>4. e[k] # Len(text) + 1
    BY <1>1, <2>3
  <2> QED BY <1>4, <2>3, <2>4 DEF Ends, E
<1>6. \A i \in E : \E k \in 1..n : e[k] = i
  BY <1>3
<1> QED BY <1>3, <1>4, <1>5, <1>6 DEF E, e, n

\* Where the k-th part begins.
FirstOfPart(e, k) == IF k = 1 THEN 1 ELSE e[k - 1] + 1

LEMMA SplitParts ==
  ASSUME NEW W, NEW text \in Seq(W), NEW sep
  PROVE  LET E == Ends(text, sep)
             e == Sorted(E)
             n == Cardinality(E)
             p == Split(text, sep)
         IN  /\ p \in Seq(Seq(W)) /\ Len(p) = n /\ DOMAIN p = 1..n
             /\ \A k \in 1..n : p[k] = SubSeq(text, FirstOfPart(e, k), e[k] - 1)
             /\ \A k \in 1..n : p[k] \in Seq(W)
             /\ \A k \in 1..n : Len(p[k]) = e[k] - FirstOfPart(e, k)
<1> DEFINE E == Ends(text, sep)
           e == Sorted(E)
           n == Cardinality(E)
           from(k) == IF k = 1 THEN 1 ELSE e[k - 1] + 1
<1>1. /\ n \in Nat /\ DOMAIN e = 1..n
      /\ \A k \in 1..n : e[k] \in 1..(Len(text) + 1)
      /\ \A k, l \in 1..n : k < l => e[k] < e[l]
  BY SortedEnds
<1>2. Len(text) \in Nat
  OBVIOUS
<1>3. Split(text, sep) = [k \in 1..n |-> SubSeq(text, from(k), e[k] - 1)]
  BY <1>1 DEF Split
<1> HIDE DEF e, n, E
<1>4. ASSUME NEW k \in 1..n
      PROVE  /\ from(k) \in 1..e[k]
             /\ SubSeq(text, from(k), e[k] - 1) \in Seq(W)
             /\ Len(SubSeq(text, from(k), e[k] - 1)) = e[k] - from(k)
  <2>1. from(k) \in 1..e[k]
    <3>1. CASE k = 1
      BY <3>1, <1>1, <1>2
    <3>2. CASE k # 1
      <4>1. k - 1 \in 1..n /\ k - 1 < k
        BY <1>1, <3>2
      <4>2. e[k - 1] < e[k] /\ e[k - 1] \in 1..(Len(text) + 1) /\ e[k] \in 1..(Len(text) + 1)
        BY <1>1, <4>1
      <4> QED BY <1>2, <3>2, <4>2
    <3> QED BY <3>1, <3>2
  <2> DEFINE a == from(k)
             b == e[k] - 1
  <2>2. a \in Nat \ {0} /\ b \in Int /\ b <= Len(text) /\ a <= b + 1 /\ b - a + 1 = e[k] - a
    BY <1>1, <1>2, <2>1
  <2> HIDE DEF a, b
  <2>3. SubSeq(text, a, b) \in Seq(W) /\ Len(SubSeq(text, a, b)) = IF a <= b THEN b - a + 1 ELSE 0
    BY <2>2, PartOf
  <2>4. Len(SubSeq(text, a, b)) = e[k] - a
    BY <2>2, <2>3
  <2> QED BY <2>1, <2>3, <2>4 DEF a, b
<1> HIDE DEF from
<1>5. Split(text, sep) \in [1..n -> Seq(W)]
  BY <1>3, <1>4
<1>6. Split(text, sep) \in Seq(Seq(W)) /\ Len(Split(text, sep)) = n
  BY <1>1, <1>5, FunctionIsSeq
<1> QED BY <1>3, <1>4, <1>5, <1>6 DEF from, E, e, n, FirstOfPart

LEMMA SplitType ==
  ASSUME NEW W, NEW text \in Seq(W), NEW sep
  PROVE  Split(text, sep) \in Seq(Seq(W))
BY SplitParts, Zenon

\* The parts with the separators between them are the text, unless a separator
\* is its last element.
LEMMA SplitJoins ==
  ASSUME NEW W, NEW text \in Seq(W), NEW sep, text = <<>> \/ text[Len(text)] # sep
  PROVE  LET p == Split(text, sep)
         IN  text = FlattenSeq([k \in DOMAIN p |-> IF k = 1 THEN p[k] ELSE <<sep>> \o p[k]])
<1> DEFINE E == Ends(text, sep)
           e == Sorted(E)
           n == Cardinality(E)
           p == Split(text, sep)
           s == [k \in DOMAIN p |-> IF k = 1 THEN p[k] ELSE <<sep>> \o p[k]]
           g == [k \in 1..n |-> SubSeq(text, 1, e[k] - 1)]
<1>1. Len(text) \in Nat /\ DOMAIN text = 1..Len(text)
  OBVIOUS
<1>2. CASE text = <<>>
  <2>1. E = {}
    BY <1>2 DEF Ends
  <2>2. n = 0
    BY <2>1, FS_EmptySet
  <2>3. DOMAIN p = 1..n
    BY SplitParts, Zenon
  <2>4. 1..n = {}
    BY <2>2
  <2> HIDE DEF p, n, E
  <2>5. s = <<>>
    BY <2>3, <2>4
  <2> HIDE DEF s
  <2>6. FlattenSeq(s) = text
    BY <1>2, <2>5, FlattenEmpty
  <2> QED BY <2>6 DEF s, p
<1>3. CASE text # <<>>
  <2>1. /\ n \in Nat
        /\ \A k \in 1..n : e[k] \in 1..(Len(text) + 1)
        /\ \A k, l \in 1..n : k < l => e[k] < e[l]
        /\ \A k \in 1..n : k # n => e[k] \in 1..Len(text) /\ text[e[k]] = sep
        /\ \A i \in E : \E k \in 1..n : e[k] = i
    BY SortedEnds
  <2>2. /\ p \in Seq(Seq(W)) /\ Len(p) = n /\ DOMAIN p = 1..n
        /\ \A k \in 1..n : p[k] = SubSeq(text, FirstOfPart(e, k), e[k] - 1)
    BY SplitParts, Zenon
  <2>3. Len(text) + 1 \in E
    BY <1>3 DEF Ends
  <2> HIDE DEF E, e, n, p
  <2>4. n # 0 /\ e[n] = Len(text) + 1 /\ 1 \in 1..n /\ n \in 1..n
    <3>1. PICK k \in 1..n : e[k] = Len(text) + 1
      BY <2>1, <2>3
    <3>2. k = n
      BY <1>1, <2>1, <3>1
    <3> QED BY <2>1, <3>1, <3>2
  <2>5. ASSUME NEW k \in 1..n, k # 1
        PROVE  /\ <<sep>> \o p[k] = SubSeq(text, e[k - 1], e[k] - 1)
               /\ <<sep>> \o p[k] \in Seq(W)
               /\ g[k] = g[k - 1] \o (<<sep>> \o p[k])
    <3> DEFINE a == e[k - 1]
               b == e[k] - 1
    <3>1. k - 1 \in 1..n /\ k - 1 # n /\ k - 1 < k
      BY <2>1, <2>5
    <3>2. a \in 1..Len(text) /\ text[a] = sep /\ b \in a..Len(text)
      <4>1. e[k - 1] \in 1..Len(text) /\ text[e[k - 1]] = sep
        BY <2>1, <3>1
      <4>2. e[k] \in 1..(Len(text) + 1) /\ e[k - 1] < e[k]
        BY <2>1, <3>1
      <4> QED BY <1>1, <4>1, <4>2
    <3>3. p[k] = SubSeq(text, a + 1, b)
      BY <2>2, <2>5 DEF FirstOfPart
    <3>4. g[k] = SubSeq(text, 1, b) /\ g[k - 1] = SubSeq(text, 1, a - 1)
      BY <2>5, <3>1
    <3> HIDE DEF a, b, g
    <3>5. SubSeq(text, a, b) = <<text[a]>> \o SubSeq(text, a + 1, b)
      BY <3>2, SubSeqRecursiveFirst
    <3>6. <<sep>> \o p[k] = SubSeq(text, a, b)
      BY <3>2, <3>3, <3>5
    <3>7. SubSeq(text, a, b) \in Seq(W)
      <4>1. a \in Nat \ {0} /\ b \in Int /\ b <= Len(text)
        BY <1>1, <3>2
      <4> QED BY <4>1, PartOf
    <3>8. SubSeq(text, 1, a - 1) \o SubSeq(text, a - 1 + 1, b) = SubSeq(text, 1, b)
      <4>1. 1 \in 1..(Len(text) + 1) /\ a - 1 \in (1 - 1)..Len(text) /\ b \in (a - 1)..Len(text)
        BY <1>1, <3>2
      <4> HIDE DEF a, b
      <4> QED BY <4>1, ConcatAdjacentSubSeq
    <3>9. a - 1 + 1 = a
      BY <3>2
    <3> QED BY <3>4, <3>6, <3>7, <3>8, <3>9 DEF a, b
  <2>6. s \in [1..n -> Seq(W)]
    <3>1. \A k \in 1..n : p[k] \in Seq(W)
      BY <2>2
    <3>2. \A k \in 1..n : (IF k = 1 THEN p[k] ELSE <<sep>> \o p[k]) \in Seq(W)
      BY <2>5, <3>1
    <3> QED BY <2>2, <3>2
  <2>7. s \in Seq(Seq(W)) /\ Len(s) = n
    BY <2>1, <2>6, FunctionIsSeq
  <2>8. Joins(s, g)
    <3>1. \A k \in 1..n : g[k] = IF k = 1 THEN s[k] ELSE g[k - 1] \o s[k]
      <4> TAKE k \in 1..n
      <4>1. CASE k = 1
        BY <2>2, <4>1 DEF FirstOfPart
      <4>2. CASE k # 1
        <5>1. s[k] = <<sep>> \o p[k]
          BY <2>2, <4>2
        <5> QED BY <2>5, <4>2, <5>1
      <4> QED BY <4>1, <4>2
    <3>2. g = [k \in 1..n |-> g[k]]
      OBVIOUS
    <3> HIDE DEF s, g
    <3> QED BY <2>7, <3>1, <3>2 DEF Joins
  <2>9. g[n] = text
    <3>1. e[n] - 1 = Len(text)
      BY <1>1, <2>4
    <3> QED BY <2>4, <3>1, SubSeqFull
  <2> HIDE DEF s, g
  <2>10. FlattenSeq(s) = text
    BY <2>4, <2>7, <2>8, <2>9, FlattenIs
  <2> QED BY <2>10 DEF s, p
<1> QED BY <1>2, <1>3

\* No part is empty, unless the text begins or ends with a separator or has one
\* behind the other.
LEMMA SplitFull ==
  ASSUME NEW W, NEW text \in Seq(W), NEW sep,
         text = <<>> \/ (text[1] # sep /\ text[Len(text)] # sep),
         \A i \in 1..(Len(text) - 1) : text[i] = sep => text[i + 1] # sep
  PROVE  \A k \in DOMAIN Split(text, sep) : Split(text, sep)[k] # <<>>
<1> DEFINE E == Ends(text, sep)
           e == Sorted(E)
           n == Cardinality(E)
           p == Split(text, sep)
<1>1. Len(text) \in Nat /\ DOMAIN text = 1..Len(text)
  OBVIOUS
<1>2. /\ n \in Nat
      /\ \A k \in 1..n : e[k] \in E /\ e[k] \in 1..(Len(text) + 1)
      /\ \A k, l \in 1..n : k < l => e[k] < e[l]
      /\ \A k \in 1..n : k # n => e[k] \in 1..Len(text) /\ text[e[k]] = sep
  BY SortedEnds
<1>3. /\ DOMAIN p = 1..n
      /\ \A k \in 1..n : Len(p[k]) = e[k] - FirstOfPart(e, k)
  BY SplitParts, Zenon
<1>4. text # <<>> => /\ 1 \notin E
                     /\ \A i \in 1..Len(text) : ~(i \in E /\ i + 1 \in E)
  <2> SUFFICES ASSUME text # <<>> PROVE 1 \notin E /\ \A i \in 1..Len(text) : ~(i \in E /\ i + 1 \in E)
    OBVIOUS
  <2>1. Len(text) # 0
    BY <1>1
  <2>2. \A i : i \in E <=> (i \in 1..Len(text) /\ text[i] = sep) \/ i = Len(text) + 1
    BY <1>1 DEF Ends
  <2> HIDE DEF E
  <2> QED BY <1>1, <2>1, <2>2
<1>5. text = <<>> => E = {}
  BY DEF Ends
<1> HIDE DEF E, e, n, p
<1>6. ASSUME NEW k \in 1..n
      PROVE  Len(p[k]) # 0
  <2>1. text # <<>> /\ e[k] \in E
    BY <1>2, <1>5
  <2>2. CASE k = 1
    BY <1>1, <1>2, <1>3, <1>4, <2>1, <2>2 DEF FirstOfPart
  <2>3. CASE k # 1
    <3>1. k - 1 \in 1..n /\ k - 1 # n
      BY <1>2, <2>3
    <3>2. e[k - 1] \in 1..Len(text) /\ e[k - 1] \in E
      BY <1>2, <3>1
    <3>3. e[k] # e[k - 1] + 1
      BY <1>4, <2>1, <3>2
    <3> QED BY <1>1, <1>2, <1>3, <2>3, <3>2, <3>3 DEF FirstOfPart
  <2> QED BY <2>2, <2>3
<1> QED BY <1>3, <1>6 DEF p

\* Retaining all keeps all.
LEMMA RetainedAll ==
  ASSUME NEW R, NEW s \in Seq(R)
  PROVE  Retained(s, DOMAIN s) = s
<1>1. Len(s) \in Nat /\ DOMAIN s = 1..Len(s)
  OBVIOUS
<1> DEFINE n == Len(s)
           S == 1..n
<1> HIDE DEF n
<1>2. S \in SUBSET (1..n) /\ n \in Nat
  BY <1>1 DEF n
<1>3. Cardinality(S) = n
  BY <1>2, FS_Interval
<1>4. \A i \in S : Rank(i, S) = i
  <2> TAKE i \in S
  <2>1. {j \in S : j <= i} = 1..i
    BY <1>2
  <2>2. Cardinality(1..i) = i
    BY <1>2, FS_Interval
  <2> QED BY <2>1, <2>2 DEF Rank
<1>5. Retained(s, S) \in Seq(R) /\ Len(Retained(s, S)) = n /\ \A i \in S : Retained(s, S)[i] = s[i]
  <2> HIDE DEF S
  <2> QED BY <1>2, <1>3, <1>4, RetainedProperties DEF n
<1>6. Retained(s, S) = s
  BY <1>5, SeqEqual DEF n
<1> QED BY <1>1, <1>6 DEF n

\* The two parts of a concatenation.
LEMMA PartsOfConcat ==
  ASSUME NEW R, NEW s \in Seq(R), NEW u \in Seq(R)
  PROVE  /\ SubSeq(s \o u, 1, Len(s)) = s
         /\ SubSeq(s \o u, Len(s) + 1, Len(s \o u)) = u
<1> DEFINE v == s \o u
<1>1. /\ v \in Seq(R) /\ Len(v) = Len(s) + Len(u) /\ Len(s) \in Nat /\ Len(u) \in Nat
      /\ \A i \in 1..(Len(s) + Len(u)) : v[i] = IF i <= Len(s) THEN s[i] ELSE u[i - Len(s)]
  BY ConcatProperties, LenProperties
<1> HIDE DEF v
<1>2. /\ SubSeq(v, 1, Len(s)) \in Seq(R) /\ Len(SubSeq(v, 1, Len(s))) = Len(s)
      /\ \A i \in 1..Len(s) : SubSeq(v, 1, Len(s))[i] = s[i]
  <2>1. 1 \in Nat \ {0} /\ Len(s) \in Int /\ Len(s) <= Len(v)
    BY <1>1
  <2>2. /\ SubSeq(v, 1, Len(s)) \in Seq(R)
        /\ Len(SubSeq(v, 1, Len(s))) = IF 1 <= Len(s) THEN Len(s) - 1 + 1 ELSE 0
        /\ \A i \in 1..(Len(s) - 1 + 1) : SubSeq(v, 1, Len(s))[i] = v[1 + i - 1]
    BY <1>1, <2>1, PartOf
  <2>3. \A i \in 1..Len(s) : i \in 1..(Len(s) + Len(u)) /\ i <= Len(s) /\ 1 + i - 1 = i
                            /\ i \in 1..(Len(s) - 1 + 1)
    BY <1>1
  <2>4. (IF 1 <= Len(s) THEN Len(s) - 1 + 1 ELSE 0) = Len(s)
    BY <1>1
  <2>5. \A i \in 1..Len(s) : v[i] = s[i]
    BY <1>1, <2>3
  <2> QED BY <2>2, <2>3, <2>4, <2>5
<1>3. LET w == SubSeq(v, Len(s) + 1, Len(v))
      IN  w \in Seq(R) /\ Len(w) = Len(u) /\ \A i \in 1..Len(u) : w[i] = u[i]
  <2> DEFINE w == SubSeq(v, Len(s) + 1, Len(v))
  <2>1. Len(s) + 1 \in Nat \ {0} /\ Len(v) \in Int /\ Len(v) <= Len(v)
    BY <1>1
  <2>2. /\ w \in Seq(R)
        /\ Len(w) = IF Len(s) + 1 <= Len(v) THEN Len(v) - (Len(s) + 1) + 1 ELSE 0
        /\ \A i \in 1..(Len(v) - (Len(s) + 1) + 1) : w[i] = v[Len(s) + 1 + i - 1]
    BY <1>1, <2>1, PartOf
  <2> HIDE DEF w
  <2>3. Len(w) = Len(u)
    BY <1>1, <2>2
  <2>4. \A i \in 1..Len(u) :
          /\ i \in 1..(Len(v) - (Len(s) + 1) + 1) /\ Len(s) + 1 + i - 1 = Len(s) + i
          /\ Len(s) + i \in 1..(Len(s) + Len(u)) /\ ~ (Len(s) + i <= Len(s))
          /\ Len(s) + i - Len(s) = i
    BY <1>1
  <2>5. \A i \in 1..Len(u) : w[i] = v[Len(s) + i]
    BY <2>2, <2>4
  <2>6. ASSUME NEW i \in 1..Len(u) PROVE v[Len(s) + i] = u[i]
    <3> DEFINE k == Len(s) + i
    <3>1. k \in 1..(Len(s) + Len(u)) /\ ~ (k <= Len(s)) /\ k - Len(s) = i
      BY <1>1
    <3> HIDE DEF k
    <3>2. v[k] = IF k <= Len(s) THEN s[k] ELSE u[k - Len(s)]
      BY <1>1, <3>1
    <3> QED BY <3>1, <3>2 DEF k
  <2> QED BY <2>2, <2>3, <2>5, <2>6 DEF w
<1>4. SubSeq(v, 1, Len(s)) = s
  BY <1>2, SeqEqual
<1>5. SubSeq(v, Len(s) + 1, Len(v)) = u
  BY <1>3, SeqEqual
<1> QED BY <1>4, <1>5 DEF v

\* FlattenSeq of a sequence with one element more in front.
LEMMA FlattenCons ==
  ASSUME NEW R, NEW x \in Seq(R), NEW s \in Seq(Seq(R))
  PROVE  FlattenSeq(<<x>> \o s) = x \o FlattenSeq(s)
<1>1. <<x>> \in Seq(Seq(R))
  OBVIOUS
<1>2. FlattenSeq(<<x>> \o s) = FlattenSeq(<<x>>) \o FlattenSeq(s)
  BY <1>1, FlattenConcat
<1>3. FlattenSeq(<<x>>) = x
  BY FlattenOne
<1> QED BY <1>2, <1>3

\* The values of a function on a finite set are finitely many.
LEMMA FiniteImage ==
  ASSUME NEW S, IsFiniteSet(S), NEW f, DOMAIN f = S
  PROVE  IsFiniteSet({f[x] : x \in S})
<1> DEFINE T == {f[x] : x \in S}
           g == [x \in S |-> f[x]]
<1>1. g \in [S -> T] /\ \A y \in T : \E x \in S : g[x] = y
  OBVIOUS
<1> HIDE DEF g, T
<1>2. g \in Surjection(S, T)
  BY <1>1 DEF Surjection
<1>3. IsFiniteSet(T)
  BY <1>2, FS_Surjection
<1> QED BY <1>3 DEF T

\* A finite set of naturals is bounded.
LEMMA FiniteIsBounded ==
  ASSUME NEW S, S \subseteq Nat, IsFiniteSet(S)
  PROVE  \E m \in Nat : \A s \in S : s <= m
<1> DEFINE Bound(T) == \E m \in Nat : \A s \in T : s <= m
           K == {k \in Nat : \A T \in SUBSET S : Cardinality(T) = k => Bound(T)}
<1> HIDE DEF Bound
<1>1. \A T \in SUBSET S : IsFiniteSet(T)
  BY FS_Subset
<1>2. 0 \in K
  <2> SUFFICES ASSUME NEW T \in SUBSET S, Cardinality(T) = 0 PROVE Bound(T)
    OBVIOUS
  <2>1. T = {}
    BY <1>1, FS_EmptySet
  <2> QED BY <2>1 DEF Bound
<1>3. ASSUME NEW k \in Nat, k \in K PROVE k + 1 \in K
  <2> SUFFICES ASSUME NEW T \in SUBSET S, Cardinality(T) = k + 1 PROVE Bound(T)
    OBVIOUS
  <2>1. PICK x \in T : TRUE
    <3>1. Cardinality({}) = 0 /\ k + 1 # 0
      BY FS_EmptySet
    <3> QED BY <3>1
  <2>2. x \in Nat /\ T \ {x} \in SUBSET S
    OBVIOUS
  <2>3. Cardinality(T \ {x}) = k
    <3>1. Cardinality(T \ {x}) = Cardinality(T) - 1
      BY <1>1, FS_RemoveElement
    <3> QED BY <3>1
  <2>4. PICK m \in Nat : \A s \in T \ {x} : s <= m
    BY <1>3, <2>2, <2>3 DEF Bound
  <2>5. \A s \in T : s <= m + x
    BY <2>2, <2>4
  <2>6. m + x \in Nat
    BY <2>2
  <2> QED BY <2>5, <2>6 DEF Bound
<1> HIDE DEF K
<1>4. \A k \in Nat : k \in K
  BY <1>2, <1>3, SetInduction
<1>5. Cardinality(S) \in Nat
  BY FS_CardinalityType
<1> QED BY <1>4, <1>5 DEF K, Bound

\* A sequence with one element more in front.
LEMMA ConsIs ==
  ASSUME NEW R, NEW x \in R, NEW s \in Seq(R)
  PROVE  /\ <<x>> \o s \in Seq(R) /\ Len(<<x>> \o s) = Len(s) + 1
         /\ (<<x>> \o s)[1] = x /\ <<x>> \o s # <<>>
         /\ \A i \in 1..Len(s) : (<<x>> \o s)[i + 1] = s[i]
         /\ Tail(<<x>> \o s) = s
<1> DEFINE v == <<x>> \o s
<1>1. <<x>> \in Seq(R) /\ Len(<<x>>) = 1 /\ <<x>>[1] = x /\ Len(s) \in Nat
  OBVIOUS
<1>2. /\ v \in Seq(R) /\ Len(v) = Len(<<x>>) + Len(s)
      /\ \A i \in 1..(Len(<<x>>) + Len(s)) :
           v[i] = IF i <= Len(<<x>>) THEN <<x>>[i] ELSE s[i - Len(<<x>>)]
  BY <1>1, ConcatProperties
<1> HIDE DEF v
<1>3. Len(v) = Len(s) + 1 /\ v[1] = x
  BY <1>1, <1>2
<1>4. ASSUME NEW i \in 1..Len(s) PROVE v[i + 1] = s[i]
  <2>1. i + 1 \in 1..(Len(<<x>>) + Len(s)) /\ ~ (i + 1 <= Len(<<x>>)) /\ i + 1 - Len(<<x>>) = i
    BY <1>1
  <2>2. v[i + 1] = s[i + 1 - Len(<<x>>)]
    BY <1>2, <2>1
  <2> QED BY <2>1, <2>2
<1>5. v # <<>>
  BY <1>1, <1>3, EmptySeq
<1>6. /\ Tail(v) \in Seq(R) /\ Len(Tail(v)) = Len(v) - 1
      /\ \A i \in 1..Len(Tail(v)) : Tail(v)[i] = v[i + 1]
  BY <1>2, <1>5, HeadTailProperties
<1>7. Len(Tail(v)) = Len(s)
  BY <1>1, <1>3, <1>6
<1>8. \A i \in 1..Len(Tail(v)) : Tail(v)[i] = s[i]
  BY <1>4, <1>6, <1>7
<1>9. Tail(v) = s
  BY <1>6, <1>7, <1>8, SeqEqual
<1> QED BY <1>2, <1>3, <1>4, <1>5, <1>9 DEF v

LEMMA IsCons ==
  ASSUME NEW R, NEW x \in R, NEW s \in Seq(R), NEW v \in Seq(R), Len(v) = Len(s) + 1,
         v[1] = x, \A i \in 1..Len(s) : v[i + 1] = s[i]
  PROVE  v = <<x>> \o s
<1> DEFINE w == <<x>> \o s
<1>1. /\ w \in Seq(R) /\ Len(w) = Len(s) + 1 /\ w[1] = x
      /\ \A i \in 1..Len(s) : w[i + 1] = s[i]
  BY ConsIs
<1> HIDE DEF w
<1>2. \A i \in 1..Len(v) : i = 1 \/ (i - 1 \in 1..Len(s) /\ i - 1 + 1 = i)
  <2>1. Len(s) \in Nat
    BY LenProperties
  <2> QED BY <2>1
<1>3. \A i \in 1..Len(v) : v[i] = w[i]
  BY <1>1, <1>2
<1>4. v = w
  BY <1>1, <1>3, SeqEqual
<1> QED BY <1>4 DEF w

\* Concatenation, for steps that need no more of it than this.
Cat(s, t) == s \o t

LEMMA CatIs ==
  ASSUME NEW R
  PROVE  /\ \A x \in Seq(R) : \A y \in Seq(R) : Cat(x, y) \in Seq(R)
         /\ \A x \in Seq(R) : \A y \in Seq(R) : \A z \in Seq(R) :
              Cat(Cat(x, y), z) = Cat(x, Cat(y, z))
<1>1. \A x \in Seq(R) : \A y \in Seq(R) : Cat(x, y) \in Seq(R)
  BY ConcatProperties DEF Cat
<1>2. \A x \in Seq(R) : \A y \in Seq(R) : \A z \in Seq(R) :
              Cat(Cat(x, y), z) = Cat(x, Cat(y, z))
  BY ConcatAssociative DEF Cat
<1> QED BY <1>1, <1>2

LEMMA FourParts ==
  ASSUME NEW R, NEW a \in Seq(R), NEW b \in Seq(R), NEW c \in Seq(R), NEW d \in Seq(R)
  PROVE  Cat(Cat(Cat(a, b), c), d) = Cat(a, Cat(b, Cat(c, d)))
BY CatIs

==============================================================================
