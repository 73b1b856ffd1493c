----------------------------- MODULE DataLemmas -----------------------------
(***************************************************************************)
(* Facts about data that the proofs about the algorithms share: induction  *)
(* on the natural numbers for a set of numbers, extrema, sorting, and the  *)
(* concatenation of a sequence of sequences.                               *)
(***************************************************************************)
EXTENDS StableSort, Sequences, SequencesExt, FiniteSetsExt,
        FiniteSetTheorems, WellFoundedInduction, TLAPS

\* Induction over a set: a set of numbers that holds 0 and every successor of
\* its members holds them all.
LEMMA SetInduction ==
  ASSUME NEW S, 0 \in S, \A n \in Nat : n \in S => n + 1 \in S
  PROVE  Nat \subseteq S
<1> SUFFICES ASSUME ~ (Nat \subseteq S) PROVE FALSE
  OBVIOUS
<1> DEFINE T == {n \in Nat : n \notin S}
           R == OpToRel(<, Nat)
<1>1. T \subseteq Nat /\ T # {}
  OBVIOUS
<1>2. IsWellFoundedOn(R, Nat)
  BY NatLessThanWellFounded
<1>3. PICK x \in T : \A y \in T : ~ (<<y, x>> \in R)
  <2> HIDE DEF T, R
  <2> QED BY <1>1, <1>2, WFMin
<1>4. \A y \in T : ~(y < x)
  BY <1>1, <1>3 DEF OpToRel
<1>5. x \in Nat /\ x - 1 \in Nat /\ x - 1 < x /\ (x - 1) + 1 = x
  <2>1. x \in Nat /\ x # 0
    BY <1>3
  <2> HIDE DEF T, R
  <2> QED BY <2>1
<1>6. x - 1 \in S
  BY <1>4, <1>5
<1> QED BY <1>3, <1>5, <1>6

\* The same up to a bound.
LEMMA StepInduction ==
  ASSUME NEW S, NEW n \in Nat, 0 \in S, \A k \in 1..n : k - 1 \in S => k \in S
  PROVE  n \in S /\ 0..n \subseteq S
<1> DEFINE T == {k \in Nat : k <= n => k \in S}
<1>1. 0 \in T
  OBVIOUS
<1>2. ASSUME NEW k \in Nat, k \in T PROVE k + 1 \in T
  <2>1. CASE k + 1 <= n
    <3>1. k <= n /\ k + 1 \in 1..n /\ (k + 1) - 1 = k
      BY <2>1
    <3>2. k \in S
      BY <1>2, <3>1
    <3>3. k + 1 \in S
      BY <3>1, <3>2
    <3> QED BY <3>3
  <2> QED BY <2>1
<1> HIDE DEF T
<1>3. Nat \subseteq T
  BY <1>1, <1>2, SetInduction
<1> QED BY <1>3 DEF T

-----------------------------------------------------------------------------
(* Sorting                                                                 *)

\* How many positions of S come before position i.
Rank(S, key, i) == Cardinality({j \in S : Before(key, j, i)})

\* A position with more positions before it comes later.
LEMMA RankGrows ==
  ASSUME NEW S, IsFiniteSet(S), S \subseteq Int, NEW key, \A i \in S : key[i] \in Int,
         NEW i \in S, NEW j \in S, Before(key, i, j)
  PROVE  Rank(S, key, i) < Rank(S, key, j)
<1> DEFINE I == {k \in S : Before(key, k, i)}
           J == {k \in S : Before(key, k, j)}
<1>1. I \subseteq J /\ i \in J /\ i \notin I
  <2>1. ASSUME NEW k \in S, Before(key, k, i) PROVE Before(key, k, j)
    <3>1. k \in Int /\ i \in Int /\ j \in Int
      OBVIOUS
    <3>2. key[k] \in Int /\ key[i] \in Int /\ key[j] \in Int
      OBVIOUS
    <3> QED BY <2>1, <3>1, <3>2 DEF Before
  <2>2. ~ Before(key, i, i)
    BY DEF Before
  <2> QED BY <2>1, <2>2
<1>2. IsFiniteSet(J)
  BY FS_Subset
<1>3. Cardinality(I) \in Nat /\ Cardinality(J) \in Nat /\ IsFiniteSet(I)
  BY <1>1, <1>2, FS_Subset, FS_CardinalityType
<1>4. Cardinality(I) <= Cardinality(J) /\ Cardinality(I) # Cardinality(J)
  BY <1>1, <1>2, FS_Subset
<1> HIDE DEF I, J
<1>5. Cardinality(I) < Cardinality(J)
  BY <1>3, <1>4
<1> QED BY <1>5 DEF I, J, Rank

LEMMA RankBounded ==
  ASSUME NEW S, IsFiniteSet(S), S \subseteq Int, NEW key, \A i \in S : key[i] \in Int,
         NEW i \in S
  PROVE  Rank(S, key, i) \in 0..(Cardinality(S) - 1)
<1> DEFINE I == {k \in S : Before(key, k, i)}
<1>1. I \in SUBSET S /\ I # S
  BY DEF Before
<1>2. Cardinality(I) \in Nat /\ Cardinality(S) \in Nat /\ IsFiniteSet(I)
  BY <1>1, FS_Subset, FS_CardinalityType
<1>3. Cardinality(I) <= Cardinality(S) /\ Cardinality(I) # Cardinality(S)
  BY <1>1, FS_Subset
<1> HIDE DEF I
<1>4. Cardinality(I) \in 0..(Cardinality(S) - 1)
  BY <1>2, <1>3
<1> QED BY <1>4 DEF I, Rank

\* What sorted() promises, in group_windows, align_transcript and
\* retime_segments: every position of S once, in the order of the keys.
THEOREM SortedByKey ==
  ASSUME NEW S, IsFiniteSet(S), S \subseteq Int, NEW key, \A i \in S : key[i] \in Int
  PROVE  /\ Cardinality(S) \in Nat
         /\ SortedBy(S, key) \in [1..Cardinality(S) -> S]
         /\ \A i \in S : \E k \in 1..Cardinality(S) : SortedBy(S, key)[k] = i
         /\ \A k, l \in 1..Cardinality(S) :
              k < l => Before(key, SortedBy(S, key)[k], SortedBy(S, key)[l])
<1> DEFINE n == Cardinality(S)
           rank == [i \in S |-> Rank(S, key, i)]
           order == SortedBy(S, key)
<1>1. n \in Nat
  BY FS_CardinalityType
<1>2. rank \in [S -> 0..(n - 1)]
  BY RankBounded
<1>3. \A i, j \in S : i # j => rank[i] # rank[j]
  <2>1. ASSUME NEW i \in S, NEW j \in S, i # j PROVE rank[i] # rank[j]
    <3>1. Before(key, i, j) \/ Before(key, j, i)
      BY <2>1 DEF Before
    <3>2. rank[i] \in Int /\ rank[j] \in Int
      BY <1>1, <1>2
    <3>3. rank[i] < rank[j] \/ rank[j] < rank[i]
      BY <3>1, RankGrows
    <3> HIDE DEF rank
    <3> QED BY <3>2, <3>3
  <2> QED BY <2>1
<1>4. \A m \in 0..(n - 1) : \E i \in S : rank[i] = m
  <2>1. IsFiniteSet(0..(n - 1)) /\ Cardinality(0..(n - 1)) = n
    <3> HIDE DEF n
    <3>1. 0 \in Int /\ n - 1 \in Int
      BY <1>1
    <3> QED BY <1>1, <3>1, FS_Interval
  <2>2. rank \in Injection(S, 0..(n - 1))
    BY <1>2, <1>3 DEF Injection, IsInjective
  <2> HIDE DEF rank
  <2>3. rank \in Surjection(S, 0..(n - 1))
    BY <2>1, <2>2, FS_Injection DEF n
  <2> QED BY <2>3 DEF Surjection
<1>5. ASSUME NEW k \in 1..n
      PROVE order[k] \in S /\ rank[order[k]] = k - 1
  <2>1. k - 1 \in 0..(n - 1)
    BY <1>1
  <2>2. PICK i \in S : rank[i] = k - 1
    BY <1>4, <2>1
  <2>3. order[k] = CHOOSE j \in S : Rank(S, key, j) = k - 1
    BY DEF SortedBy, Rank
  <2>4. Rank(S, key, i) = k - 1
    BY <2>2
  <2>5. order[k] \in S /\ Rank(S, key, order[k]) = k - 1
    <3> DEFINE P(j) == Rank(S, key, j) = k - 1
    <3> HIDE DEF n, order, P
    <3>1. P(i)
      BY <2>4 DEF P
    <3>2. order[k] = CHOOSE j \in S : P(j)
      BY <2>3 DEF P
    <3>3. order[k] \in S /\ P(order[k])
      BY <3>1, <3>2
    <3> QED BY <3>3 DEF P
  <2> HIDE DEF n, order
  <2> QED BY <2>5
<1>6. order \in [1..n -> S]
  <2>1. order = [k \in 1..n |-> order[k]]
    BY DEF SortedBy
  <2> HIDE DEF order, n, rank
  <2> QED BY <1>5, <2>1
<1>7. ASSUME NEW i \in S PROVE \E k \in 1..n : order[k] = i
  <2> DEFINE k == rank[i] + 1
  <2> HIDE DEF order, n, rank
  <2>1. k \in 1..n /\ k - 1 = rank[i]
    BY <1>1, <1>2
  <2>2. order[k] \in S /\ rank[order[k]] = rank[i]
    BY <1>5, <2>1
  <2> QED BY <1>3, <2>1, <2>2
<1>8. ASSUME NEW k \in 1..n, NEW l \in 1..n, k < l
      PROVE Before(key, order[k], order[l])
  <2>1. /\ order[k] \in S /\ order[l] \in S
        /\ rank[order[k]] \in Int /\ rank[order[l]] \in Int
        /\ rank[order[k]] < rank[order[l]]
    <3> HIDE DEF order, n, rank
    <3> QED BY <1>1, <1>5, <1>8
  <2>2. order[k] # order[l] /\ key[order[k]] \in Int /\ key[order[l]] \in Int
        /\ order[k] \in Int /\ order[l] \in Int
    <3> HIDE DEF order, n, rank
    <3>1. order[k] # order[l]
      BY <2>1
    <3> QED BY <2>1, <3>1
  <2>3. Before(key, order[k], order[l]) \/ Before(key, order[l], order[k])
    <3> HIDE DEF order, n, rank
    <3> QED BY <2>2 DEF Before
  <2>4. ~ Before(key, order[l], order[k])
    <3>1. SUFFICES ASSUME Before(key, order[l], order[k]) PROVE FALSE
      OBVIOUS
    <3>2. Rank(S, key, order[l]) < Rank(S, key, order[k])
      <4> HIDE DEF order, n, rank
      <4> QED BY <2>1, <3>1, RankGrows
    <3>3. rank[order[l]] < rank[order[k]]
      <4> HIDE DEF order, n
      <4> QED BY <2>1, <3>2
    <3> HIDE DEF order, n, rank
    <3> QED BY <2>1, <3>3
  <2> QED BY <2>3, <2>4
<1> HIDE DEF order
<1>9. n \in Nat /\ order \in [1..n -> S] /\ (\A i \in S : \E k \in 1..n : order[k] = i)
      /\ \A k, l \in 1..n : k < l => Before(key, order[k], order[l])
  <2> HIDE DEF n
  <2> QED BY <1>1, <1>6, <1>7, <1>8
<1> QED BY <1>9 DEF order

\* What is in order already is not moved: sorting the aligner's words changes
\* nothing as long as its windows do not overlap.
THEOREM SortedAlready ==
  ASSUME NEW n \in Nat, NEW key, \A k \in 1..n : key[k] \in Int,
         \A k, l \in 1..n : k < l => key[k] < key[l]
  PROVE  /\ Cardinality(1..n) = n
         /\ SortedBy(1..n, key) = [k \in 1..n |-> k]
<1> DEFINE order == SortedBy(1..n, key)
<1>1. IsFiniteSet(1..n) /\ Cardinality(1..n) = n /\ 1..n \subseteq Int
  BY FS_Interval
<1>2. /\ order \in [1..n -> 1..n]
      /\ \A k, l \in 1..n : k < l => Before(key, order[k], order[l])
      /\ \A i \in 1..n : \E k \in 1..n : order[k] = i
  <2> DEFINE S == 1..n
  <2>1. IsFiniteSet(S) /\ S \subseteq Int /\ Cardinality(S) = n /\ \A k \in S : key[k] \in Int
    BY <1>1
  <2> HIDE DEF S, order
  <2>2. /\ Cardinality(S) \in Nat
        /\ SortedBy(S, key) \in [1..Cardinality(S) -> S]
        /\ \A i \in S : \E k \in 1..Cardinality(S) : SortedBy(S, key)[k] = i
        /\ \A k, l \in 1..Cardinality(S) :
             k < l => Before(key, SortedBy(S, key)[k], SortedBy(S, key)[l])
    BY <2>1, SortedByKey
  <2>3. order = SortedBy(S, key)
    BY DEF order, S
  <2>4. S = 1..n
    BY DEF S
  <2> QED BY <2>1, <2>2, <2>3, <2>4
<1> HIDE DEF order
<1>3. \A k, l \in 1..n : k < l => order[k] < order[l]
  <2>1. ASSUME NEW k \in 1..n, NEW l \in 1..n, k < l PROVE order[k] < order[l]
    <3>1. order[k] \in 1..n /\ order[l] \in 1..n /\ Before(key, order[k], order[l])
      BY <1>2, <2>1
    <3>2. key[order[k]] \in Int /\ key[order[l]] \in Int
      BY <3>1
    <3>3. order[l] < order[k] => key[order[l]] < key[order[k]]
      BY <3>1
    <3> QED BY <3>1, <3>2, <3>3 DEF Before
  <2> QED BY <2>1
<1>4. \A k \in 1..n : order[k] >= k
  <2> DEFINE S == {k \in Nat : k + 1 \in 1..n => order[k + 1] >= k + 1}
  <2>1. 0 \in S
    BY <1>2
  <2>2. ASSUME NEW k \in Nat, k \in S PROVE k + 1 \in S
    <3>1. SUFFICES ASSUME k + 1 + 1 \in 1..n PROVE order[k + 1 + 1] >= k + 1 + 1
      OBVIOUS
    <3>2. k + 1 \in 1..n /\ k + 1 < k + 1 + 1
      BY <3>1
    <3>3. order[k + 1] >= k + 1 /\ order[k + 1] < order[k + 1 + 1]
      BY <1>3, <2>2, <3>1, <3>2
    <3>4. order[k + 1] \in Int /\ order[k + 1 + 1] \in Int
      BY <1>2, <3>1, <3>2
    <3> QED BY <3>3, <3>4
  <2> HIDE DEF S
  <2>3. Nat \subseteq S
    BY <2>1, <2>2, SetInduction
  <2>4. ASSUME NEW k \in 1..n PROVE order[k] >= k
    <3> DEFINE m == k - 1
    <3>1. m \in Nat /\ m + 1 = k
      OBVIOUS
    <3> HIDE DEF m
    <3> QED BY <2>3, <3>1 DEF S
  <2> QED BY <2>4
<1>5. \A k \in 1..n : order[k] = k
  <2>1. SUFFICES ASSUME \E k \in 1..n : order[k] # k PROVE FALSE
    OBVIOUS
  <2> DEFINE T == {k \in 1..n : order[k] # k}
             R == OpToRel(<, Nat)
  <2>2. IsWellFoundedOn(R, Nat)
    BY NatLessThanWellFounded
  <2>3. PICK k \in T : \A l \in T : ~ (<<l, k>> \in R)
    <3>1. T \subseteq Nat /\ T # {}
      BY <2>1
    <3> HIDE DEF T, R
    <3> QED BY <2>2, <3>1, WFMin
  <2>4. \A l \in T : ~ (l < k)
    <3>1. \A l \in T : l \in Nat
      OBVIOUS
    <3>2. ASSUME NEW l \in T, l < k PROVE <<l, k>> \in R
      BY <3>1, <3>2 DEF OpToRel
    <3> HIDE DEF T, R
    <3> QED BY <2>3, <3>2
  <2>5. PICK l \in 1..n : order[l] = k
    BY <1>2
  <2>6. l < k
    BY <1>4, <2>5
  <2>7. order[l] = l
    BY <2>4, <2>6
  <2> QED BY <2>5, <2>6, <2>7
<1>6. order = [k \in 1..n |-> order[k]]
  BY <1>2
<1> QED BY <1>1, <1>5, <1>6 DEF order

-----------------------------------------------------------------------------
(* Extrema                                                                 *)

\* A finite set of numbers that is not empty has a greatest and a least element.
THEOREM Extrema ==
  ASSUME NEW S, IsFiniteSet(S), S \subseteq Int, S # {}
  PROVE  /\ Max(S) \in S /\ \A x \in S : x <= Max(S)
         /\ Min(S) \in S /\ \A x \in S : Min(S) <= x
<1> DEFINE n == Cardinality(S)
           key == [i \in S |-> i]
           order == SortedBy(S, key)
<1>1. /\ n \in Nat /\ order \in [1..n -> S]
      /\ \A i \in S : \E k \in 1..n : order[k] = i
      /\ \A k, l \in 1..n : k < l => Before(key, order[k], order[l])
  <2>1. \A i \in S : key[i] \in Int
    OBVIOUS
  <2> HIDE DEF key, order, n
  <2>2. /\ Cardinality(S) \in Nat
        /\ SortedBy(S, key) \in [1..Cardinality(S) -> S]
        /\ \A i \in S : \E k \in 1..Cardinality(S) : SortedBy(S, key)[k] = i
        /\ \A k, l \in 1..Cardinality(S) :
             k < l => Before(key, SortedBy(S, key)[k], SortedBy(S, key)[l])
    BY <2>1, SortedByKey
  <2> QED BY <2>2 DEF n, order
<1> HIDE DEF order, n
<1>2. n \in 1..n /\ 1 \in 1..n
  <2>1. PICK i \in S : TRUE
    OBVIOUS
  <2>2. PICK k \in 1..n : order[k] = i
    BY <1>1
  <2> QED BY <1>1, <2>2
<1>3. \A x \in S : x <= order[n] /\ order[1] <= x
  <2>1. ASSUME NEW k \in 1..n PROVE order[k] <= order[n] /\ order[1] <= order[k]
    <3>1. \A l \in 1..n : order[l] \in S /\ order[l] \in Int
      BY <1>1
    <3>2. ASSUME NEW l \in 1..n, NEW m \in 1..n, l < m PROVE order[l] <= order[m]
      <4>1. Before(key, order[l], order[m])
        BY <1>1, <3>2
      <4>2. key[order[l]] = order[l] /\ key[order[m]] = order[m]
        BY <3>1
      <4> HIDE DEF key
      <4> QED BY <3>1, <4>1, <4>2 DEF Before
    <3>3. order[k] <= order[n]
      BY <1>2, <3>1, <3>2
    <3>4. order[1] <= order[k]
      BY <1>2, <3>1, <3>2
    <3> QED BY <3>3, <3>4
  <2> QED BY <1>1, <2>1
<1>4. order[n] \in S /\ order[1] \in S
  BY <1>1, <1>2
<1>5. Max(S) \in S /\ \A x \in S : Max(S) >= x
  BY <1>3, <1>4 DEF Max
<1>6. Min(S) \in S /\ \A x \in S : Min(S) <= x
  BY <1>3, <1>4 DEF Min
<1> QED BY <1>5, <1>6

\* The values of a function on a finite set are finitely many.
LEMMA FiniteImage ==
  ASSUME NEW I, IsFiniteSet(I), NEW f
  PROVE  IsFiniteSet({f[i] : i \in I})
<1> DEFINE g == [i \in I |-> f[i]]
           T == {f[i] : i \in I}
<1>1. g \in Surjection(I, T)
  BY DEF Surjection
<1> HIDE DEF g, T
<1>2. IsFiniteSet(T)
  BY <1>1, FS_Surjection
<1> QED BY <1>2 DEF T

\* Extrema of up to three numbers.
LEMMA ExtremaOfThree ==
  ASSUME NEW a \in Int, NEW b \in Int, NEW c \in Int
  PROVE  /\ Max({a, b, c}) \in {a, b, c}
         /\ a <= Max({a, b, c}) /\ b <= Max({a, b, c}) /\ c <= Max({a, b, c})
         /\ Min({a, b, c}) \in {a, b, c}
         /\ Min({a, b, c}) <= a /\ Min({a, b, c}) <= b /\ Min({a, b, c}) <= c
<1>1. \E x \in {a, b, c} : \A y \in {a, b, c} : x >= y
  OBVIOUS
<1>2. \E x \in {a, b, c} : \A y \in {a, b, c} : x <= y
  OBVIOUS
<1>3. PICK x : x = Max({a, b, c})
  OBVIOUS
<1>4. PICK z : z = Min({a, b, c})
  OBVIOUS
<1>5. x \in {a, b, c} /\ \A y \in {a, b, c} : x >= y
  BY <1>1, <1>3 DEF Max
<1>6. z \in {a, b, c} /\ \A y \in {a, b, c} : z <= y
  BY <1>2, <1>4 DEF Min
<1>7. a <= x /\ b <= x /\ c <= x
  BY <1>5
<1>8. z <= a /\ z <= b /\ z <= c
  BY <1>6
<1> QED BY <1>3, <1>4, <1>5, <1>6, <1>7, <1>8

LEMMA ExtremaOfTwo ==
  ASSUME NEW a \in Int, NEW b \in Int
  PROVE  /\ Max({a, b}) = IF a <= b THEN b ELSE a
         /\ Min({a, b}) = IF a <= b THEN a ELSE b
<1>1. {a, b} = {a, b, b}
  OBVIOUS
<1> DEFINE x == Max({a, b, b})
           y == Min({a, b, b})
<1>2. x \in {a, b} /\ a <= x /\ b <= x /\ y \in {a, b} /\ y <= a /\ y <= b
  BY <1>1, ExtremaOfThree
<1> HIDE DEF x, y
<1>3. (x = IF a <= b THEN b ELSE a) /\ (y = IF a <= b THEN a ELSE b)
  BY <1>2
<1> QED BY <1>1, <1>3 DEF x, y

-----------------------------------------------------------------------------
(* Concatenation                                                           *)

Flattens(f, seqs, n) ==
  f = [i \in 1..n |-> IF i = 1 THEN seqs[i] ELSE f[i - 1] \o seqs[i]]

LEMMA FlatteningExists ==
  ASSUME NEW seqs
  PROVE  \A n \in Nat : \E f : Flattens(f, seqs, n)
<1> DEFINE S == {n \in Nat : \E f : Flattens(f, seqs, n)}
<1>1. 0 \in S
  <2>1. Flattens([i \in 1..0 |-> 0], seqs, 0)
    BY DEF Flattens
  <2> QED BY <2>1
<1>2. ASSUME NEW n \in Nat, n \in S PROVE n + 1 \in S
  <2>1. PICK f : Flattens(f, seqs, n)
    BY <1>2
  <2> DEFINE g == [i \in 1..(n + 1) |-> IF i = n + 1
                                          THEN IF i = 1 THEN seqs[i] ELSE f[n] \o seqs[i]
                                          ELSE f[i]]
  <2>2. ASSUME NEW i \in 1..(n + 1)
        PROVE  g[i] = IF i = 1 THEN seqs[i] ELSE g[i - 1] \o seqs[i]
    <3>1. CASE i = n + 1
      <4>1. i # 1 => i - 1 \in 1..(n + 1) /\ i - 1 # n + 1 /\ i - 1 = n
        BY <3>1
      <4> QED BY <3>1, <4>1
    <3>2. CASE i # n + 1
      <4>1. i \in 1..n /\ (i # 1 => i - 1 \in 1..(n + 1) /\ i - 1 # n + 1)
        BY <3>2
      <4>2. f[i] = IF i = 1 THEN seqs[i] ELSE f[i - 1] \o seqs[i]
        BY <2>1, <4>1 DEF Flattens
      <4> QED BY <3>2, <4>1, <4>2
    <3> QED BY <3>1, <3>2
  <2>3. g = [i \in 1..(n + 1) |-> g[i]]
    OBVIOUS
  <2> HIDE DEF g
  <2>4. Flattens(g, seqs, n + 1)
    BY <2>2, <2>3 DEF Flattens
  <2> QED BY <2>4
<1> HIDE DEF S
<1>3. Nat \subseteq S
  BY <1>1, <1>2, SetInduction
<1> QED BY <1>3 DEF S

\* What the concatenation of the first 0, 1, ... sequences accumulates.
Flattening(seqs) ==
  CHOOSE g : /\ g[0] = <<>>
             /\ \A k \in 1..Len(seqs) : g[k] = g[k - 1] \o seqs[k]
             /\ FlattenSeq(seqs) = g[Len(seqs)]

\* Concatenation proceeds from the first sequence to the last.
THEOREM FlattenTrace ==
  ASSUME NEW T, NEW seqs \in Seq(Seq(T))
  PROVE  /\ Flattening(seqs)[0] = <<>>
         /\ \A k \in 1..Len(seqs) : Flattening(seqs)[k] = Flattening(seqs)[k - 1] \o seqs[k]
         /\ FlattenSeq(seqs) = Flattening(seqs)[Len(seqs)]
<1> DEFINE n == Len(seqs)
           P(g) == /\ g[0] = <<>>
                   /\ \A k \in 1..Len(seqs) : g[k] = g[k - 1] \o seqs[k]
                   /\ FlattenSeq(seqs) = g[Len(seqs)]
<1>1. ASSUME n = 0 PROVE \E g : P(g)
  <2> DEFINE g == [k \in 0..0 |-> <<>>]
  <2>1. FlattenSeq(seqs) = <<>> /\ Len(seqs) = 0
    BY <1>1 DEF FlattenSeq
  <2>2. P(g)
    BY <2>1
  <2> QED BY <2>2
<1>2. ASSUME n # 0 PROVE \E g : P(g)
  <2> DEFINE f == CHOOSE f : f = [i \in 1..n |-> IF i = 1 THEN seqs[i] ELSE f[i - 1] \o seqs[i]]
  <2>1. Flattens(f, seqs, n)
    <3>1. \E h : h = [i \in 1..n |-> IF i = 1 THEN seqs[i] ELSE h[i - 1] \o seqs[i]]
      <4>1. n \in Nat
        OBVIOUS
      <4>2. PICK h : Flattens(h, seqs, n)
        BY <4>1, FlatteningExists
      <4> QED BY <4>2 DEF Flattens
    <3> QED BY <3>1, Zenon DEF Flattens
  <2>2. FlattenSeq(seqs) = f[n]
    BY <1>2 DEF FlattenSeq
  <2> HIDE DEF f
  <2> DEFINE g == [k \in 0..n |-> IF k = 0 THEN <<>> ELSE f[k]]
  <2>3. g[0] = <<>> /\ FlattenSeq(seqs) = g[Len(seqs)]
    BY <1>2, <2>2
  <2>4. ASSUME NEW k \in 1..n PROVE g[k] = g[k - 1] \o seqs[k]
    <3>1. f[k] = IF k = 1 THEN seqs[k] ELSE f[k - 1] \o seqs[k]
      BY <2>1, Zenon DEF Flattens
    <3>2. seqs[k] \in Seq(T)
      OBVIOUS
    <3>3. <<>> \o seqs[k] = seqs[k]
      BY <3>2
    <3>4. g[k] = f[k] /\ g[k - 1] = IF k = 1 THEN <<>> ELSE f[k - 1]
      OBVIOUS
    <3> QED BY <3>1, <3>3, <3>4
  <2> HIDE DEF g
  <2>5. P(g)
    BY <2>3, <2>4
  <2> QED BY <2>5
<1>3. Flattening(seqs) = CHOOSE g : P(g)
  BY DEF Flattening
<1>4. \E g : P(g)
  BY <1>1, <1>2
<1> HIDE DEF P
<1>5. P(Flattening(seqs))
  BY <1>3, <1>4
<1> QED BY <1>5 DEF P

\* A relation that concatenation keeps holds of the concatenations of two
\* sequences of sequences when it holds of them pair by pair.
THEOREM FlattenPairs ==
  ASSUME NEW R, NEW T, NEW U, NEW A \in Seq(Seq(T)), NEW B \in Seq(Seq(U)), Len(A) = Len(B),
         <<<<>>, <<>>>> \in R, \A i \in 1..Len(A) : <<A[i], B[i]>> \in R,
         \A a \in Seq(T), b \in Seq(U), c \in Seq(T), d \in Seq(U) :
           <<a, b>> \in R /\ <<c, d>> \in R => <<a \o c, b \o d>> \in R
  PROVE  <<FlattenSeq(A), FlattenSeq(B)>> \in R
<1> DEFINE f == Flattening(A)
           g == Flattening(B)
           n == Len(A)
<1>1. f[0] = <<>> /\ FlattenSeq(A) = f[n] /\ \A k \in 1..n : f[k] = f[k - 1] \o A[k]
  BY FlattenTrace
<1>2. g[0] = <<>> /\ FlattenSeq(B) = g[n] /\ \A k \in 1..n : g[k] = g[k - 1] \o B[k]
  BY FlattenTrace
<1>3. n \in Nat /\ \A k \in 1..n : A[k] \in Seq(T) /\ B[k] \in Seq(U) /\ <<A[k], B[k]>> \in R
  <2>1. n \in Nat /\ Len(B) = n
    OBVIOUS
  <2>2. \A k \in 1..n : A[k] \in Seq(T)
    OBVIOUS
  <2>3. \A k \in 1..n : B[k] \in Seq(U)
    OBVIOUS
  <2> QED BY <2>1, <2>2, <2>3
<1> HIDE DEF f, g, n
<1> DEFINE S == {k \in 0..n : f[k] \in Seq(T) /\ g[k] \in Seq(U) /\ <<f[k], g[k]>> \in R}
<1>4. 0 \in S
  <2>1. <<>> \in Seq(T) /\ <<>> \in Seq(U) /\ 0 \in 0..n
    BY <1>3
  <2>2. <<f[0], g[0]>> \in R
    BY <1>1, <1>2
  <2> QED BY <1>1, <1>2, <2>1, <2>2
<1>5. ASSUME NEW k \in 1..n, k - 1 \in S PROVE k \in S
  <2>1. f[k] = f[k - 1] \o A[k] /\ g[k] = g[k - 1] \o B[k]
    BY <1>1, <1>2
  <2> DEFINE a == f[k - 1]
             b == g[k - 1]
  <2>2. a \in Seq(T) /\ b \in Seq(U) /\ <<a, b>> \in R
    BY <1>5
  <2>3. PICK c \in Seq(T) : c = A[k]
    BY <1>3
  <2>4. PICK d \in Seq(U) : d = B[k]
    BY <1>3
  <2> HIDE DEF a, b
  <2>5. a \o c \in Seq(T) /\ b \o d \in Seq(U)
    BY <2>2
  <2>6. <<a \o c, b \o d>> \in R
    BY <1>3, <2>2, <2>3, <2>4
  <2>7. k \in 0..n
    BY <1>3
  <2>8. f[k] \in Seq(T) /\ g[k] \in Seq(U) /\ <<f[k], g[k]>> \in R
    BY <2>1, <2>3, <2>4, <2>5, <2>6 DEF a, b
  <2> QED BY <2>7, <2>8
<1> HIDE DEF S
<1>6. n \in S
  BY <1>3, <1>4, <1>5, StepInduction
<1> QED BY <1>1, <1>2, <1>6 DEF S

\* Concatenation keeps every element of every sequence.
THEOREM FlattenMembers ==
  ASSUME NEW T, NEW seqs \in Seq(Seq(T))
  PROVE  /\ FlattenSeq(seqs) \in Seq(T)
         /\ \A i \in DOMAIN seqs : \A m \in DOMAIN seqs[i] :
              \E p \in DOMAIN FlattenSeq(seqs) : FlattenSeq(seqs)[p] = seqs[i][m]
<1> DEFINE f == Flattening(seqs)
           n == Len(seqs)
<1>1. f[0] = <<>> /\ FlattenSeq(seqs) = f[n] /\ \A k \in 1..n : f[k] = f[k - 1] \o seqs[k]
  BY FlattenTrace
<1>2. n \in Nat /\ DOMAIN seqs = 1..n /\ \A k \in 1..n : seqs[k] \in Seq(T)
  OBVIOUS
<1> HIDE DEF f, n
<1> DEFINE Holds(i, s) == \A m \in DOMAIN seqs[i] : \E p \in DOMAIN s : s[p] = seqs[i][m]
           S == {k \in 0..n : f[k] \in Seq(T) /\ \A i \in 1..k : Holds(i, f[k])}
<1>3. 0 \in S
  <2>1. <<>> \in Seq(T) /\ 0 \in 0..n /\ 1..0 = {}
    BY <1>2
  <2> QED BY <1>1, <2>1
<1>4. ASSUME NEW k \in 1..n, k - 1 \in S PROVE k \in S
  <2> DEFINE a == f[k - 1]
             c == seqs[k]
  <2>1. f[k] = a \o c /\ a \in Seq(T) /\ c \in Seq(T) /\ k \in 0..n
    BY <1>1, <1>2, <1>4
  <2>2. \A i \in 1..(k - 1) : Holds(i, a)
    BY <1>4
  <2> HIDE DEF a
  <2>3. ASSUME NEW i \in 1..k PROVE Holds(i, f[k])
    <3>1. CASE i = k
      <4>1. ASSUME NEW m \in DOMAIN c PROVE \E p \in DOMAIN (a \o c) : (a \o c)[p] = c[m]
        <5> HIDE DEF c
        <5> DEFINE l == Len(a)
        <5>1. l \in Nat /\ m \in 1..Len(c) /\ Len(c) \in Nat /\ DOMAIN (a \o c) = 1..(l + Len(c))
          BY <2>1
        <5>2. (a \o c)[l + m] = c[m] /\ l + m \in 1..(l + Len(c))
          <6>1. \A q \in 1..(l + Len(c)) : (a \o c)[q] = IF q <= l THEN a[q] ELSE c[q - l]
            BY <2>1
          <6> HIDE DEF l
          <6>2. l + m \in 1..(l + Len(c)) /\ ~(l + m <= l) /\ (l + m) - l = m
            BY <5>1
          <6> QED BY <6>1, <6>2
        <5> QED BY <5>1, <5>2
      <4> QED BY <2>1, <3>1, <4>1
    <3>2. CASE i # k
      <4>1. i \in 1..(k - 1)
        BY <3>2
      <4>2. Holds(i, a)
        BY <2>2, <4>1
      <4> HIDE DEF c
      <4>3. \A p \in DOMAIN a : p \in DOMAIN (a \o c) /\ (a \o c)[p] = a[p]
        BY <2>1
      <4> QED BY <2>1, <4>2, <4>3
    <3> QED BY <3>1, <3>2
  <2>4. f[k] \in Seq(T)
    <3> HIDE DEF c
    <3> QED BY <2>1
  <2> QED BY <2>1, <2>3, <2>4
<1> HIDE DEF S
<1>5. n \in S
  BY <1>2, <1>3, <1>4, StepInduction
<1> QED BY <1>1, <1>2, <1>5 DEF S

LEMMA JoinedAt ==
  ASSUME NEW T, NEW a \in Seq(T), NEW c \in Seq(T)
  PROVE  /\ a \o c \in Seq(T) /\ Len(a \o c) = Len(a) + Len(c)
         /\ \A k \in 1..(Len(a) + Len(c)) : (a \o c)[k] = IF k <= Len(a) THEN a[k] ELSE c[k - Len(a)]
  OBVIOUS

LEMMA SeqIsFunction ==
  ASSUME NEW T, NEW s \in Seq(T)
  PROVE  s = [k \in 1..Len(s) |-> s[k]]
  OBVIOUS

\* The elements of a sequence are related to all that come after them.
Ordered(L, s) == \A p, q \in DOMAIN s : p < q => <<s[p], s[q]>> \in L

LEMMA OrderedJoin ==
  ASSUME NEW L, NEW T, NEW a \in Seq(T), NEW c \in Seq(T), Ordered(L, a), Ordered(L, c),
         \A p \in DOMAIN a, q \in DOMAIN c : <<a[p], c[q]>> \in L
  PROVE  Ordered(L, a \o c)
<1> DEFINE l == Len(a)
           m == Len(c)
           ac == a \o c
<1>1. l \in Nat /\ m \in Nat /\ DOMAIN ac = 1..(l + m) /\ DOMAIN a = 1..l /\ DOMAIN c = 1..m
  OBVIOUS
<1>2. \A p \in 1..(l + m) : ac[p] = IF p <= l THEN a[p] ELSE c[p - l]
  OBVIOUS
<1> HIDE DEF l, m, ac
<1>3. ASSUME NEW p \in 1..(l + m), NEW q \in 1..(l + m), p < q PROVE <<ac[p], ac[q]>> \in L
  <2>1. CASE q <= l
    <3>1. p \in 1..l /\ q \in 1..l /\ ac[p] = a[p] /\ ac[q] = a[q]
      BY <1>1, <1>2, <1>3, <2>1
    <3> QED BY <1>1, <1>3, <3>1 DEF Ordered
  <2>2. CASE p > l
    <3>1. p - l \in 1..m /\ q - l \in 1..m /\ p - l < q - l /\ ac[p] = c[p - l] /\ ac[q] = c[q - l]
      BY <1>1, <1>2, <1>3, <2>2
    <3> QED BY <1>1, <3>1 DEF Ordered
  <2>3. CASE p <= l /\ q > l
    <3>1. p \in 1..l /\ q - l \in 1..m /\ ac[p] = a[p] /\ ac[q] = c[q - l]
      BY <1>1, <1>2, <1>3, <2>3
    <3> QED BY <1>1, <3>1
  <2> QED BY <1>1, <2>1, <2>2, <2>3
<1>4. Ordered(L, ac)
  BY <1>1, <1>3 DEF Ordered
<1> QED BY <1>4 DEF ac

\* Concatenation keeps the order when every sequence comes before the later
\* ones, as the words of one window come before those of the next.
THEOREM FlattenOrdered ==
  ASSUME NEW L, NEW T, NEW seqs \in Seq(Seq(T)),
         \A i \in DOMAIN seqs : Ordered(L, seqs[i]),
         \A i, j \in DOMAIN seqs : i < j =>
           \A p \in DOMAIN seqs[i], q \in DOMAIN seqs[j] : <<seqs[i][p], seqs[j][q]>> \in L
  PROVE  Ordered(L, FlattenSeq(seqs))
<1> DEFINE f == Flattening(seqs)
           n == Len(seqs)
<1>1. f[0] = <<>> /\ FlattenSeq(seqs) = f[n] /\ \A k \in 1..n : f[k] = f[k - 1] \o seqs[k]
  BY FlattenTrace
<1>2. n \in Nat /\ DOMAIN seqs = 1..n /\ \A k \in 1..n : seqs[k] \in Seq(T)
  OBVIOUS
<1> HIDE DEF f, n
<1> DEFINE From(x, k) == \E i \in 1..k : \E p \in DOMAIN seqs[i] : x = seqs[i][p]
           S == {k \in 0..n : /\ f[k] \in Seq(T) /\ Ordered(L, f[k])
                              /\ \A p \in DOMAIN f[k] : From(f[k][p], k)}
<1>3. 0 \in S
  <2>1. <<>> \in Seq(T) /\ 0 \in 0..n /\ DOMAIN <<>> = {}
    BY <1>2
  <2>2. Ordered(L, <<>>)
    BY <2>1 DEF Ordered
  <2>3. \A p \in DOMAIN f[0] : From(f[0][p], 0)
    BY <1>1, <2>1
  <2> HIDE DEF From
  <2> QED BY <1>1, <2>1, <2>2, <2>3
<1>4. ASSUME NEW k \in 1..n, k - 1 \in S PROVE k \in S
  <2> DEFINE a == f[k - 1]
             c == seqs[k]
  <2>1. f[k] = a \o c /\ a \in Seq(T) /\ c \in Seq(T) /\ k \in 0..n /\ Ordered(L, a) /\ Ordered(L, c)
    <3>1. f[k] = a \o c /\ c \in Seq(T) /\ k \in 0..n
      BY <1>1, <1>2
    <3>3. Ordered(L, c)
      <4>1. k \in DOMAIN seqs
        BY <1>2
      <4> QED BY <4>1
    <3>2. a \in Seq(T) /\ Ordered(L, a)
      BY <1>4
    <3> QED BY <3>1, <3>2, <3>3
  <2>2. \A p \in DOMAIN a : From(a[p], k - 1)
    BY <1>4
  <2>3. ASSUME NEW p \in DOMAIN a, NEW q \in DOMAIN c PROVE <<a[p], c[q]>> \in L
    <3>1. PICK i \in 1..(k - 1) : \E r \in DOMAIN seqs[i] : a[p] = seqs[i][r]
      BY <2>2
    <3>2. PICK r \in DOMAIN seqs[i] : a[p] = seqs[i][r]
      BY <3>1
    <3>3. i \in DOMAIN seqs /\ k \in DOMAIN seqs /\ i < k
      BY <1>2
    <3> QED BY <3>2, <3>3
  <2> HIDE DEF a, c
  <2>4. Ordered(L, a \o c) /\ a \o c \in Seq(T)
    BY <2>1, <2>3, OrderedJoin
  <2>5. ASSUME NEW p \in DOMAIN (a \o c) PROVE From((a \o c)[p], k)
    <3> DEFINE l == Len(a)
               m == Len(c)
    <3>1. l \in Nat /\ m \in Nat /\ DOMAIN (a \o c) = 1..(l + m) /\ DOMAIN a = 1..l /\ DOMAIN c = 1..m
          /\ (a \o c)[p] = IF p <= l THEN a[p] ELSE c[p - l]
      BY <2>1
    <3> HIDE DEF l, m
    <3>2. CASE p <= l
      <4>1. p \in DOMAIN a /\ (a \o c)[p] = a[p]
        BY <3>1, <3>2
      <4>2. From(a[p], k - 1)
        BY <2>2, <4>1
      <4>3. From(a[p], k)
        BY <4>2
      <4> QED BY <4>1, <4>3
    <3>3. CASE ~(p <= l)
      <4>1. p - l \in DOMAIN c /\ (a \o c)[p] = c[p - l] /\ k \in 1..k
        BY <3>1, <3>3
      <4> QED BY <4>1 DEF c
    <3> QED BY <3>2, <3>3
  <2> HIDE DEF From
  <2> QED BY <2>1, <2>4, <2>5
<1> HIDE DEF S
<1>5. n \in S
  BY <1>2, <1>3, <1>4, StepInduction
<1> QED BY <1>1, <1>5 DEF S

LEMMA FlattenSingletons ==
  ASSUME NEW T, NEW s \in Seq(T)
  PROVE  FlattenSeq([k \in DOMAIN s |-> <<s[k]>>]) = s
<1> DEFINE seqs == [k \in DOMAIN s |-> <<s[k]>>]
           n == Len(s)
           f == Flattening(seqs)
<1>1. n \in Nat /\ DOMAIN s = 1..n /\ seqs \in Seq(Seq(T)) /\ Len(seqs) = n
      /\ \A k \in 1..n : seqs[k] = <<s[k]>> /\ s[k] \in T
  <2>1. n \in Nat /\ DOMAIN s = 1..n /\ \A k \in 1..n : s[k] \in T
    OBVIOUS
  <2>2. \A k \in 1..n : <<s[k]>> \in Seq(T)
    BY <2>1
  <2> HIDE DEF n
  <2>3. seqs = [k \in 1..n |-> <<s[k]>>]
    BY <2>1
  <2> QED BY <2>1, <2>2, <2>3
<1> HIDE DEF seqs
<1>2. f[0] = <<>> /\ FlattenSeq(seqs) = f[n] /\ \A k \in 1..n : f[k] = f[k - 1] \o seqs[k]
  BY <1>1, FlattenTrace
<1> HIDE DEF f, n
<1> DEFINE S == {k \in 0..n : f[k] \in Seq(T) /\ Len(f[k]) = k /\ \A p \in 1..k : f[k][p] = s[p]}
<1>3. 0 \in S
  <2>1. <<>> \in Seq(T) /\ 0 \in 0..n /\ Len(<<>>) = 0 /\ 1..0 = {}
    BY <1>1
  <2> QED BY <1>2, <2>1
<1>4. ASSUME NEW k \in 1..n, k - 1 \in S PROVE k \in S
  <2> DEFINE a == f[k - 1]
             x == s[k]
  <2>1. a \in Seq(T) /\ Len(a) = k - 1 /\ (\A p \in 1..(k - 1) : a[p] = s[p]) /\ x \in T
    BY <1>1, <1>4
  <2>2. f[k] = a \o <<x>>
    BY <1>1, <1>2
  <2> HIDE DEF a
  <2>3. f[k] \in Seq(T) /\ Len(f[k]) = k
    BY <2>1, <2>2
  <2>4. ASSUME NEW p \in 1..k PROVE f[k][p] = s[p]
    <3>1. CASE p = k
      <4> HIDE DEF x
      <4>1. (a \o <<x>>)[k] = x
        BY <2>1, <3>1
      <4> QED BY <2>2, <3>1, <4>1 DEF x
    <3>2. CASE p # k
      <4>1. p \in 1..(k - 1)
        BY <3>2
      <4>2. (a \o <<x>>)[p] = a[p]
        BY <2>1, <4>1
      <4> QED BY <2>1, <2>2, <4>1, <4>2
    <3> QED BY <3>1, <3>2
  <2> QED BY <2>3, <2>4
<1> HIDE DEF S
<1>5. n \in S
  BY <1>1, <1>3, <1>4, StepInduction
<1>6. f[n] \in Seq(T) /\ Len(f[n]) = n /\ \A p \in 1..n : f[n][p] = s[p]
  BY <1>5 DEF S
<1>7. f[n] = s
  BY <1>1, <1>6 DEF n
<1> QED BY <1>2, <1>7 DEF seqs

-----------------------------------------------------------------------------
(* Enumerations                                                            *)

\* f lists the numbers of S in order.
Rises(f, n, S) ==
  /\ f \in [1..n -> S]
  /\ \A x \in S : \E k \in 1..n : f[k] = x
  /\ \A k, l \in 1..n : k < l => f[k] < f[l]

\* There is one such list.
LEMMA OneOrder ==
  ASSUME NEW n \in Nat, NEW S, S \subseteq Int, NEW f, Rises(f, n, S), NEW g, Rises(g, n, S)
  PROVE  f = g
<1>0. /\ f \in [1..n -> S] /\ g \in [1..n -> S]
      /\ \A x \in S : \E k \in 1..n : f[k] = x
      /\ \A x \in S : \E k \in 1..n : g[k] = x
      /\ \A k, l \in 1..n : k < l => f[k] < f[l]
      /\ \A k, l \in 1..n : k < l => g[k] < g[l]
  BY DEF Rises
<1> USE <1>0
<1> DEFINE T == {k \in 0..n : \A l \in 1..k : f[l] = g[l]}
<1>1. 0 \in T
  OBVIOUS
<1>2. ASSUME NEW k \in 1..n, k - 1 \in T PROVE k \in T
  <2>1. \A l \in 1..n : l < k => f[l] = g[l]
    BY <1>2
  <2>2. f[k] \in S /\ g[k] \in S /\ \A l \in 1..n : f[l] \in Int /\ g[l] \in Int
    OBVIOUS
  <2>3. ~ (f[k] < g[k])
    <3> SUFFICES ASSUME f[k] < g[k] PROVE FALSE
      OBVIOUS
    <3>1. PICK l \in 1..n : g[l] = f[k]
      BY <2>2
    <3>2. l < k
      <4>1. l = k \/ k < l \/ l < k
        OBVIOUS
      <4>2. l # k
        BY <2>2, <3>1
      <4>3. ~ (k < l)
        BY <2>2, <3>1
      <4> QED BY <4>1, <4>2, <4>3
    <3>3. f[l] = f[k] /\ f[l] < f[k]
      BY <2>1, <3>1, <3>2
    <3> QED BY <2>2, <3>3
  <2>4. ~ (g[k] < f[k])
    <3> SUFFICES ASSUME g[k] < f[k] PROVE FALSE
      OBVIOUS
    <3>1. PICK l \in 1..n : f[l] = g[k]
      BY <2>2
    <3>2. l < k
      <4>1. l = k \/ k < l \/ l < k
        OBVIOUS
      <4>2. l # k
        BY <2>2, <3>1
      <4>3. ~ (k < l)
        BY <2>2, <3>1
      <4> QED BY <4>1, <4>2, <4>3
    <3>3. g[l] = g[k] /\ g[l] < g[k]
      BY <2>1, <3>1, <3>2
    <3> QED BY <2>2, <3>3
  <2>5. f[k] = g[k]
    BY <2>2, <2>3, <2>4
  <2>6. \A l \in 1..k : l = k \/ (l \in 1..n /\ l < k)
    OBVIOUS
  <2>7. k \in 0..n
    OBVIOUS
  <2> QED BY <2>1, <2>5, <2>6, <2>7
<1> HIDE DEF T
<1>3. n \in T
  BY <1>1, <1>2, StepInduction
<1>4. \A k \in 1..n : f[k] = g[k]
  BY <1>3 DEF T
<1> QED BY <1>4

\* Which InOrder is.
LEMMA InOrderRises ==
  ASSUME NEW S, IsFiniteSet(S), S \subseteq Int
  PROVE  Cardinality(S) \in Nat /\ Rises(InOrder(S), Cardinality(S), S)
<1> DEFINE key == [x \in S |-> x]
           n == Cardinality(S)
           order == SortedBy(S, key)
<1>1. \A x \in S : key[x] = x /\ key[x] \in Int
  OBVIOUS
<1> HIDE DEF key
<1>2. /\ Cardinality(S) \in Nat
      /\ SortedBy(S, key) \in [1..Cardinality(S) -> S]
      /\ \A i \in S : \E k \in 1..Cardinality(S) : SortedBy(S, key)[k] = i
      /\ \A k, l \in 1..Cardinality(S) :
           k < l => Before(key, SortedBy(S, key)[k], SortedBy(S, key)[l])
  BY <1>1, SortedByKey
<1>3. order = InOrder(S)
  BY DEF InOrder, key
<1>4. n \in Nat /\ order \in [1..n -> S] /\ \A x \in S : \E k \in 1..n : order[k] = x
  BY <1>2
<1>5. \A k, l \in 1..n : k < l => Before(key, order[k], order[l])
  BY <1>2
<1> HIDE DEF order, n
<1>6. \A k, l \in 1..n : k < l => order[k] < order[l]
  <2> SUFFICES ASSUME NEW k \in 1..n, NEW l \in 1..n, k < l PROVE order[k] < order[l]
    OBVIOUS
  <2>1. order[k] \in S /\ order[l] \in S /\ Before(key, order[k], order[l])
    BY <1>4, <1>5
  <2>2. key[order[k]] = order[k] /\ key[order[l]] = order[l] /\ order[k] \in Int /\ order[l] \in Int
    BY <1>1, <2>1
  <2> QED BY <2>1, <2>2 DEF Before
<1>7. Rises(order, n, S)
  BY <1>4, <1>6 DEF Rises
<1> QED BY <1>3, <1>4, <1>7 DEF n
=============================================================================
