----------------------------- MODULE FoldLemmas -----------------------------
(***************************************************************************)
(* Folds, step by step.  Op is one step of a fold; p and q are what the    *)
(* step reads besides the value accumulated so far and the next element.   *)
(* A module about a fold instantiates Op with its step.                    *)
(***************************************************************************)
EXTENDS DataLemmas

CONSTANT Op(_, _, _, _)

Fold(p, q, base, seq) == FoldLeft(LAMBDA a, x : Op(p, q, a, x), base, seq)

\* f is the function on sets of positions by which the fold is defined.
Folds(f, p, q, base, seq, m) ==
  f = [s \in SUBSET (1..m) |->
         IF s = {} THEN base ELSE Op(p, q, f[s \ {Max(s)}], seq[Max(s)])]

LEMMA MaxUpTo ==
  ASSUME NEW m \in Nat, NEW s \in SUBSET (1..(m + 1)), m + 1 \in s
  PROVE  Max(s) = m + 1
<1>1. \A x \in s : x \in Int /\ x <= m + 1
  OBVIOUS
<1>2. \E x \in s : \A y \in s : x >= y
  BY <1>1
<1>3. \A x \in s : (\A y \in s : x >= y) => x = m + 1
  BY <1>1
<1>4. PICK x : x = Max(s)
  OBVIOUS
<1>5. x \in s /\ \A y \in s : x >= y
  BY <1>2, <1>4 DEF Max
<1> QED BY <1>3, <1>4, <1>5

LEMMA FoldExists ==
  ASSUME NEW p, NEW q, NEW base, NEW seq
  PROVE  \A m \in Nat : \E f : Folds(f, p, q, base, seq, m)
<1> DEFINE S == {m \in Nat : \E f : Folds(f, p, q, base, seq, m)}
<1>1. 0 \in S
  <2> DEFINE f == [s \in SUBSET (1..0) |-> base]
  <2>1. \A s \in SUBSET (1..0) : s = {}
    OBVIOUS
  <2>2. Folds(f, p, q, base, seq, 0)
    BY <2>1 DEF Folds
  <2> QED BY <2>2
<1>2. ASSUME NEW m \in Nat, m \in S PROVE m + 1 \in S
  <2> PICK f : Folds(f, p, q, base, seq, m)
    BY <1>2
  <2> DEFINE g == [s \in SUBSET (1..(m + 1)) |->
                     IF m + 1 \in s THEN Op(p, q, f[s \ {m + 1}], seq[m + 1]) ELSE f[s]]
  <2>1. ASSUME NEW s \in SUBSET (1..(m + 1)), m + 1 \in s
        PROVE  g[s] = Op(p, q, g[s \ {Max(s)}], seq[Max(s)])
    <3>1. Max(s) = m + 1
      BY <2>1, MaxUpTo
    <3>2. s \ {m + 1} \in SUBSET (1..(m + 1)) /\ m + 1 \notin s \ {m + 1}
      OBVIOUS
    <3> QED BY <3>1, <3>2, <2>1
  <2>2. ASSUME NEW s \in SUBSET (1..(m + 1)), m + 1 \notin s, s # {}
        PROVE  g[s] = Op(p, q, g[s \ {Max(s)}], seq[Max(s)])
    <3>1. s \in SUBSET (1..m)
      BY <2>2
    <3>2. f[s] = Op(p, q, f[s \ {Max(s)}], seq[Max(s)])
      BY <2>2, <3>1 DEF Folds
    <3>3. g[s \ {Max(s)}] = f[s \ {Max(s)}] /\ g[s] = f[s]
      BY <2>2
    <3> QED BY <3>2, <3>3
  <2>3. g[{}] = base
    <3>1. {} \in SUBSET (1..m) /\ {} \in SUBSET (1..(m + 1)) /\ m + 1 \notin {}
      OBVIOUS
    <3> QED BY <3>1 DEF Folds
  <2> HIDE DEF g
  <2>4. g = [s \in SUBSET (1..(m + 1)) |-> g[s]]
    BY DEF g
  <2>5. g = [s \in SUBSET (1..(m + 1)) |->
               IF s = {} THEN base ELSE Op(p, q, g[s \ {Max(s)}], seq[Max(s)])]
    BY <2>1, <2>2, <2>3, <2>4
  <2>6. Folds(g, p, q, base, seq, m + 1)
    BY <2>5, Zenon DEF Folds
  <2>7. m + 1 \in Nat
    OBVIOUS
  <2> QED BY <2>6, <2>7, Zenon
<1> HIDE DEF S
<1>3. Nat \subseteq S
  BY <1>1, <1>2, SetInduction
<1> QED BY <1>3 DEF S

LEMMA TraceExists ==
  ASSUME NEW p, NEW q, NEW base, NEW seq, NEW n \in Nat, DOMAIN seq = 1..n
  PROVE  \E g : /\ g[0] = base
                /\ \A k \in 1..n : g[k] = Op(p, q, g[k - 1], seq[k])
                /\ Fold(p, q, base, seq) = g[n]
<1> DEFINE f == CHOOSE f : f = [s \in SUBSET (1..n) |->
                                  IF s = {} THEN base
                                  ELSE Op(p, q, f[s \ {Max(s)}], seq[Max(s)])]
<1>1. Folds(f, p, q, base, seq, n)
  <2>1. \E h : h = [s \in SUBSET (1..n) |->
                      IF s = {} THEN base ELSE Op(p, q, h[s \ {Max(s)}], seq[Max(s)])]
    <3>1. PICK h : Folds(h, p, q, base, seq, n)
      BY FoldExists
    <3> QED BY <3>1 DEF Folds
  <2> QED BY <2>1, Zenon DEF Folds
<1>2. Fold(p, q, base, seq) = f[1..n]
  BY DEF Fold, FoldLeft, MapThenFoldSet
<1> HIDE DEF f
<1> DEFINE g == [k \in 0..n |-> f[1..k]]
<1>3. g[0] = base
  BY <1>1 DEF Folds
<1>4. ASSUME NEW k \in 1..n PROVE g[k] = Op(p, q, g[k - 1], seq[k])
  <2>1. k - 1 \in Nat /\ (k - 1) + 1 = k /\ k \in 1..k /\ k - 1 \in 0..n /\ k \in 0..n
    OBVIOUS
  <2>2. Max(1..k) = k
    <3> DEFINE m == k - 1
    <3>1. m \in Nat /\ m + 1 = k /\ 1..k \in SUBSET (1..(m + 1)) /\ m + 1 \in 1..k
      BY <2>1
    <3> HIDE DEF m
    <3> QED BY <3>1, MaxUpTo
  <2>3. (1..k) \ {k} = 1..(k - 1) /\ 1..k # {} /\ 1..k \in SUBSET (1..n)
    OBVIOUS
  <2>4. f[1..k] = Op(p, q, f[(1..k) \ {Max(1..k)}], seq[Max(1..k)])
    BY <1>1, <2>3 DEF Folds
  <2> QED BY <2>1, <2>2, <2>3, <2>4
<1>5. Fold(p, q, base, seq) = g[n]
  BY <1>2
<1> HIDE DEF g
<1> QED BY <1>5, <1>3, <1>4, Zenon

\* The values that the fold over the first 0, 1, ..., n elements accumulates.
Trace(p, q, base, seq, n) ==
  CHOOSE g : /\ g[0] = base
             /\ \A k \in 1..n : g[k] = Op(p, q, g[k - 1], seq[k])
             /\ Fold(p, q, base, seq) = g[n]

\* A fold, as which the loops of the pipeline over segments and words are
\* modelled, goes from its base through one step per element.
THEOREM FoldTrace ==
  ASSUME NEW p, NEW q, NEW base, NEW seq, NEW n \in Nat, DOMAIN seq = 1..n
  PROVE  /\ Trace(p, q, base, seq, n)[0] = base
         /\ \A k \in 1..n :
              Trace(p, q, base, seq, n)[k] = Op(p, q, Trace(p, q, base, seq, n)[k - 1], seq[k])
         /\ Fold(p, q, base, seq) = Trace(p, q, base, seq, n)[n]
<1> DEFINE P(g) == /\ g[0] = base
                   /\ \A k \in 1..n : g[k] = Op(p, q, g[k - 1], seq[k])
                   /\ Fold(p, q, base, seq) = g[n]
<1>1. \E g : P(g)
  BY TraceExists
<1>2. Trace(p, q, base, seq, n) = CHOOSE g : P(g)
  BY DEF Trace
<1> HIDE DEF P
<1>3. P(Trace(p, q, base, seq, n))
  BY <1>1, <1>2
<1> QED BY <1>3 DEF P
=============================================================================
