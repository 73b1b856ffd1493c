-------------------------- MODULE LabellingProofs --------------------------
(***************************************************************************)
(* Theorems about Labelling, for recordings with any number of words,      *)
(* turns and speakers, at any times, and any admissible tuning.            *)
(***************************************************************************)
EXTENDS Labelling, DataLemmas

-----------------------------------------------------------------------------
(* Intervals in the order of their starts                                  *)

Sorted(s) == \A i, j \in DOMAIN s : i < j => s[i].start <= s[j].start

\* Sorting by start keeps every interval and puts them in order.
LEMMA ByStartSorts ==
  ASSUME NEW T, NEW s \in Seq(T), \A i \in DOMAIN s : s[i].start \in Int
  PROVE  /\ ByStart(s) \in Seq(T) /\ Len(ByStart(s)) = Len(s)
         /\ Sorted(ByStart(s))
<1> DEFINE n == Len(s)
           key == [i \in DOMAIN s |-> s[i].start]
           order == SortedBy(DOMAIN s, key)
<1>1. n \in Nat /\ DOMAIN s = 1..n
  OBVIOUS
<1>2. IsFiniteSet(1..n) /\ Cardinality(1..n) = n /\ 1..n \subseteq Int
  <2> HIDE DEF n
  <2> QED BY <1>1, FS_Interval
<1>3. \A i \in 1..n : key[i] = s[i].start /\ key[i] \in Int
  BY <1>1
<1>4. order = SortedBy(1..n, key)
  BY <1>1
<1> HIDE DEF key
<1>5. /\ order \in [1..n -> 1..n]
      /\ \A k, l \in 1..n : k < l => Before(key, order[k], order[l])
  <2> HIDE DEF order
  <2> QED BY <1>2, <1>3, <1>4, SortedByKey
<1>6. ByStart(s) = [k \in 1..n |-> s[order[k]]]
  BY <1>1 DEF ByStart, key
<1> HIDE DEF order
<1>7. ByStart(s) \in Seq(T) /\ Len(ByStart(s)) = n
  <2>1. \A k \in 1..n : s[order[k]] \in T
    BY <1>1, <1>5
  <2> QED BY <1>1, <1>6, <2>1
<1>8. Sorted(ByStart(s))
  <2> SUFFICES ASSUME NEW i \in 1..n, NEW j \in 1..n, i < j
               PROVE  s[order[i]].start <= s[order[j]].start
    BY <1>6 DEF Sorted
  <2>1. Before(key, order[i], order[j]) /\ order[i] \in 1..n /\ order[j] \in 1..n
    BY <1>5
  <2> QED BY <2>1, <1>3, SMTT(40) DEF Before
<1> QED BY <1>7, <1>8

-----------------------------------------------------------------------------
(* _smooth_islands                                                         *)

SmoothOp(p, q, acc, next) == SmoothBefore(p, acc, next)
Smoothing == INSTANCE FoldLemmas WITH Op <- SmoothOp

\* What smoothing has made of the labels given, k words done.
SmoothedFrom(acc, given, n, k) ==
  /\ acc.run \in 1..(k + 1)
  /\ DOMAIN acc.labels = 1..n /\ acc.labels = [i \in 1..n |-> acc.labels[i]]
  /\ \A b \in 2..n : acc.labels[b - 1] # acc.labels[b] => given[b - 1] # given[b]

LEMMA IslandFilled ==
  ASSUME NEW n \in Nat, NEW list, list = [i \in 1..n |-> list[i]],
         NEW first \in 2..n, NEW next \in 1..n, list[first - 1] = list[next],
         NEW b \in 2..n, Fill(list, first, next)[b - 1] # Fill(list, first, next)[b]
  PROVE  list[b - 1] # list[b]
<1>1. DOMAIN list = 1..n
  OBVIOUS
<1>2. \A i \in 1..n : Fill(list, first, next)[i] =
                        IF i \in first..(next - 1) THEN list[first - 1] ELSE list[i]
  BY <1>1 DEF Fill, Relabel
<1>3. b - 1 \in 1..n /\ b \in 1..n
  OBVIOUS
<1>4. CASE b \in first..(next - 1) /\ b - 1 \in first..(next - 1)
  BY <1>2, <1>3, <1>4
<1>5. CASE b \in first..(next - 1) /\ b - 1 \notin first..(next - 1)
  <2>1. b = first
    BY <1>5
  <2> QED BY <1>2, <1>3, <1>5, <2>1
<1>6. CASE b \notin first..(next - 1) /\ b - 1 \in first..(next - 1)
  <2>1. b = next
    BY <1>6
  <2> QED BY <1>2, <1>3, <1>6, <2>1
<1>7. CASE b \notin first..(next - 1) /\ b - 1 \notin first..(next - 1)
  BY <1>2, <1>3, <1>7
<1> QED BY <1>4, <1>5, <1>6, <1>7

LEMMA SmoothStep ==
  ASSUME NEW n \in Nat, Len(words) = n, NEW given, NEW acc, NEW k \in 1..n,
         SmoothedFrom(acc, given, n, k - 1)
  PROVE  SmoothedFrom(SmoothBefore(words, acc, k + 1), given, n, k)
<1> DEFINE next == k + 1
           list == acc.labels
           filled == IF Island(words, list, acc.run, next) THEN Fill(list, acc.run, next)
                     ELSE list
<1>1. CASE next <= Len(words) /\ list[next] = list[acc.run]
  <2>1. SmoothBefore(words, acc, next) = acc
    BY <1>1 DEF SmoothBefore
  <2>2. acc.run \in 1..k
    BY DEF SmoothedFrom
  <2>3. acc.run \in 1..(k + 1)
    BY <2>2
  <2>4. SmoothedFrom(acc, given, n, k)
    BY <2>3 DEF SmoothedFrom
  <2> QED BY <2>1, <2>4
<1>2. CASE ~ (next <= Len(words) /\ list[next] = list[acc.run])
  <2>1. SmoothBefore(words, acc, next) = [labels |-> filled, run |-> next]
    BY <1>2 DEF SmoothBefore
  <2>2. DOMAIN filled = 1..n /\ filled = [i \in 1..n |-> filled[i]]
    <3>1. list = [i \in 1..n |-> list[i]] /\ DOMAIN list = 1..n
      BY DEF SmoothedFrom
    <3>2. Fill(list, acc.run, next) = [i \in 1..n |-> Fill(list, acc.run, next)[i]]
      BY <3>1 DEF Fill, Relabel
    <3>3. DOMAIN Fill(list, acc.run, next) = 1..n
      BY <3>1 DEF Fill, Relabel
    <3> QED BY <3>1, <3>2, <3>3
  <2>3. ASSUME NEW b \in 2..n, filled[b - 1] # filled[b] PROVE list[b - 1] # list[b]
    <3>1. CASE ~ Island(words, list, acc.run, next)
      BY <2>3, <3>1
    <3>2. CASE Island(words, list, acc.run, next)
      <4>1. next \in 1..n /\ acc.run \in 2..n /\ list[acc.run - 1] = list[next]
        <5>1. acc.run > 1 /\ next <= Len(words) /\ list[acc.run - 1] = list[next]
          BY <3>2 DEF Island
        <5>2. acc.run \in 1..k /\ next <= n
          BY <5>1 DEF SmoothedFrom
        <5> QED BY <5>1, <5>2
      <4>2. list = [i \in 1..n |-> list[i]]
        BY DEF SmoothedFrom
      <4>3. Fill(list, acc.run, next)[b - 1] # Fill(list, acc.run, next)[b]
        BY <2>3, <3>2
      <4> HIDE DEF list, next
      <4> QED BY <4>1, <4>2, <4>3, IslandFilled, ZenonT(60)
    <3> QED BY <3>1, <3>2
  <2>4. \A b \in 2..n : filled[b - 1] # filled[b] => given[b - 1] # given[b]
    BY <2>3 DEF SmoothedFrom
  <2>5. next \in 1..(k + 1)
    OBVIOUS
  <2> HIDE DEF filled, next
  <2>6. SmoothedFrom([labels |-> filled, run |-> next], given, n, k)
    BY <2>2, <2>4, <2>5 DEF SmoothedFrom
  <2> QED BY <2>1, <2>6 DEF next
<1> QED BY <1>1, <1>2

\* Smoothing keeps the number of labels and adds no change of speaker.
LEMMA SmoothingJoins ==
  ASSUME NEW n \in Nat, Len(words) = n, DOMAIN words = 1..n,
         NEW given, given = [i \in 1..n |-> given[i]]
  PROVE  LET smooth == SmoothIslands(words, given)
         IN /\ DOMAIN smooth = 1..n /\ smooth = [i \in 1..n |-> smooth[i]]
            /\ \A b \in 2..n : smooth[b - 1] # smooth[b] => given[b - 1] # given[b]
<1> DEFINE base == [labels |-> given, run |-> 1]
           nexts == [i \in DOMAIN words |-> i + 1]
           f == Smoothing!Trace(words, 0, base, nexts, n)
           S == {k \in 0..n : SmoothedFrom(f[k], given, n, k)}
<1>1. SmoothIslands(words, given) = Smoothing!Fold(words, 0, base, nexts).labels
  BY DEF SmoothIslands, Smoothing!Fold, SmoothOp, FoldLeft, MapThenFoldSet, Max,
         Smoothing!FoldLeft, Smoothing!MapThenFoldSet, Smoothing!Max
<1>2. DOMAIN nexts = 1..n /\ \A k \in 1..n : nexts[k] = k + 1
  OBVIOUS
<1>3. SmoothedFrom(base, given, n, 0)
  <2>1. DOMAIN given = 1..n
    OBVIOUS
  <2> QED BY <2>1 DEF SmoothedFrom
<1> HIDE DEF base, nexts
<1>4. /\ f[0] = base
      /\ \A k \in 1..n : f[k] = SmoothOp(words, 0, f[k - 1], nexts[k])
      /\ Smoothing!Fold(words, 0, base, nexts) = f[n]
  BY <1>2, Smoothing!FoldTrace
<1> HIDE DEF f
<1>5. 0 \in S
  BY <1>3, <1>4
<1>6. ASSUME NEW k \in 1..n, k - 1 \in S PROVE k \in S
  <2>1. SmoothedFrom(f[k - 1], given, n, k - 1)
    BY <1>6
  <2>2. f[k] = SmoothBefore(words, f[k - 1], k + 1)
    BY <1>2, <1>4 DEF SmoothOp
  <2>3. SmoothedFrom(f[k], given, n, k)
    BY <2>1, <2>2, SmoothStep
  <2> QED BY <2>3
<1> HIDE DEF S
<1>7. n \in S
  BY <1>5, <1>6, StepInduction
<1>8. SmoothedFrom(f[n], given, n, n)
  BY <1>7 DEF S
<1>9. SmoothIslands(words, given) = f[n].labels
  BY <1>1, <1>4
<1> QED BY <1>8, <1>9 DEF SmoothedFrom

-----------------------------------------------------------------------------
(* _label_words                                                            *)

\* A list of n elements.
Listing(s, n) == s = [i \in 1..n |-> s[i]]

LEMMA ListingFacts ==
  ASSUME NEW n \in Nat, NEW s, Listing(s, n)
  PROVE  DOMAIN s = 1..n /\ Len(s) = n /\ s \in Seq({s[i] : i \in 1..n})
<1>1. DOMAIN s = 1..n
  BY DEF Listing
<1>2. s \in [1..n -> {s[i] : i \in 1..n}]
  BY <1>1 DEF Listing
<1> QED BY <1>1, <1>2

LEMMA ListingAppend ==
  ASSUME NEW n \in Nat, NEW s, Listing(s, n), NEW e
  PROVE  Append(s, e) = [i \in 1..(n + 1) |-> IF i = n + 1 THEN e ELSE s[i]]
<1> DEFINE T == {s[i] : i \in 1..n} \cup {e}
           more == Append(s, e)
<1>1. s \in Seq(T) /\ Len(s) = n /\ e \in T
  <2>1. DOMAIN s = 1..n /\ s \in [1..n -> T]
    BY DEF Listing
  <2> QED BY <2>1
<1> HIDE DEF T
<1>2. more \in Seq(T) /\ Len(more) = n + 1
  BY <1>1
<1>3. more[n + 1] = e /\ \A i \in 1..n : more[i] = s[i]
  BY <1>1
<1>4. more = [i \in 1..(n + 1) |-> more[i]]
  <2> HIDE DEF more
  <2> QED BY <1>2
<1> HIDE DEF more
<1>5. \A i \in 1..(n + 1) : more[i] = IF i = n + 1 THEN e ELSE s[i]
  BY <1>3
<1>6. more = [i \in 1..(n + 1) |-> IF i = n + 1 THEN e ELSE s[i]]
  BY <1>4, <1>5
<1> QED BY <1>6 DEF more

\* What an interval needs to be compared.
Interval(a) == a.start \in Int /\ a.end \in Int

LEMMA OverlapFacts ==
  ASSUME NEW a, NEW b, Interval(a), Interval(b)
  PROVE  /\ Overlap(a, b) \in Nat
         /\ Overlap(a, b) > 0 => b.start < a.end /\ a.start < b.end
<1> DEFINE e == Min({a.end, b.end})
           f == Max({a.start, b.start})
<1>1. a.start \in Int /\ a.end \in Int /\ b.start \in Int /\ b.end \in Int
  BY DEF Interval
<1>2. e \in Int /\ e <= a.end /\ e <= b.end
  <2>1. e = IF a.end <= b.end THEN a.end ELSE b.end
    BY <1>1, ExtremaOfTwo
  <2> HIDE DEF e
  <2> QED BY <1>1, <2>1
<1>3. f \in Int /\ a.start <= f /\ b.start <= f
  <2>1. f = IF a.start <= b.start THEN b.start ELSE a.start
    BY <1>1, ExtremaOfTwo
  <2> HIDE DEF f
  <2> QED BY <1>1, <2>1
<1> HIDE DEF e, f
<1> DEFINE d == e - f
<1>4. d \in Int
  BY <1>2, <1>3
<1>5. Overlap(a, b) = Max({0, d})
  BY DEF Overlap, e, f
<1>6. Max({0, d}) = IF 0 <= d THEN d ELSE 0
  <2> HIDE DEF d
  <2> QED BY <1>4, ExtremaOfTwo
<1> QED BY <1>1, <1>2, <1>3, <1>4, <1>5, <1>6

\* The positions at which a key is least.
Least(S, key) == {i \in S : \A k \in S : key[i] <= key[k]}

LEMMA LeastExists ==
  ASSUME NEW S, IsFiniteSet(S), S \subseteq Int, S # {}, NEW key, \A i \in S : key[i] \in Int
  PROVE  Min(Least(S, key)) \in S /\ \A k \in S : key[Min(Least(S, key))] <= key[k]
<1> DEFINE n == Cardinality(S)
           order == SortedBy(S, key)
<1>1. /\ n \in Nat /\ order \in [1..n -> S]
      /\ \A i \in S : \E k \in 1..n : order[k] = i
      /\ \A k, l \in 1..n : k < l => Before(key, order[k], order[l])
  <2>1. /\ Cardinality(S) \in Nat
        /\ SortedBy(S, key) \in [1..Cardinality(S) -> S]
        /\ \A i \in S : \E k \in 1..Cardinality(S) : SortedBy(S, key)[k] = i
        /\ \A k, l \in 1..Cardinality(S) :
             k < l => Before(key, SortedBy(S, key)[k], SortedBy(S, key)[l])
    BY SortedByKey
  <2> QED BY <2>1
<1> HIDE DEF n, order
<1>2. n >= 1
  <2>1. PICK i \in S : TRUE
    OBVIOUS
  <2>2. PICK k \in 1..n : order[k] = i
    BY <1>1
  <2> QED BY <1>1, <2>2
<1>3. order[1] \in S
  BY <1>1, <1>2
<1>4. ASSUME NEW k \in S PROVE key[order[1]] <= key[k]
  <2>1. PICK m \in 1..n : order[m] = k
    BY <1>1
  <2>2. CASE m = 1
    BY <1>3, <2>1, <2>2
  <2>3. CASE m > 1
    <3>1. Before(key, order[1], order[m])
      BY <1>1, <1>2, <2>3
    <3>2. key[order[1]] \in Int /\ key[k] \in Int
      BY <1>3
    <3> QED BY <2>1, <3>1, <3>2 DEF Before
  <2> QED BY <1>1, <2>2, <2>3
<1>5. order[1] \in Least(S, key)
  BY <1>3, <1>4 DEF Least
<1>6. Least(S, key) \subseteq S
  BY DEF Least
<1>7. IsFiniteSet(Least(S, key))
  BY <1>6, FS_Subset
<1> DEFINE L == Least(S, key)
<1> HIDE DEF L
<1>8. Min(L) \in L
  <2>1. IsFiniteSet(L) /\ L \subseteq Int /\ L # {}
    BY <1>5, <1>6, <1>7 DEF L
  <2> QED BY <2>1, Extrema
<1> QED BY <1>6, <1>8 DEF L, Least

\* Turns as they are when the words are labelled.
TurnsOK(ts) ==
  /\ ts \in Seq([start : Int, end : Int, speaker : {ts[i].speaker : i \in DOMAIN ts}])

LEMMA TurnTypes ==
  ASSUME NEW ts, TurnsOK(ts)
  PROVE  /\ Len(ts) \in Nat /\ DOMAIN ts = 1..Len(ts)
         /\ \A i \in DOMAIN ts : i \in Nat /\ Interval(ts[i])
<1> DEFINE R == [start : Int, end : Int, speaker : {ts[i].speaker : i \in DOMAIN ts}]
<1>1. ts \in Seq(R) /\ \A r \in R : Interval(r)
  BY DEF TurnsOK, Interval
<1> HIDE DEF R
<1> QED BY <1>1

\* The turn with the largest overlap is found by the sweep.
LEMMA SweepFinds ==
  ASSUME NEW ts, TurnsOK(ts), Sorted(ts), NEW word, Interval(word),
         NEW t \in DOMAIN ts, Overlap(word, ts[t]) > 0
  PROVE  t \in Sweep(word, ts)
<1> DEFINE first == {i \in DOMAIN ts : ts[i].end > word.start}
           n == Len(ts)
<1>1. n \in Nat /\ DOMAIN ts = 1..n /\ \A i \in DOMAIN ts : Interval(ts[i])
  BY TurnTypes
<1>2. ts[t].start < word.end /\ word.start < ts[t].end
  BY <1>1, OverlapFacts
<1>3. t \in first
  BY <1>1, <1>2 DEF Interval
<1>4. IsFiniteSet(first) /\ first \subseteq Int
  <2>1. first \subseteq 1..n
    BY <1>1
  <2>2. IsFiniteSet(1..n)
    <3> HIDE DEF n
    <3> QED BY <1>1, FS_Interval
  <2> QED BY <2>1, <2>2, FS_Subset
<1> DEFINE m == Min(first)
<1>5. m \in first /\ m <= t
  <2> HIDE DEF first
  <2> QED BY <1>3, <1>4, Extrema
<1>6. m \in 1..n /\ t \in m..n
  BY <1>1, <1>5
<1> HIDE DEF m
<1>7. ASSUME NEW k \in m..t PROVE ts[k].start < word.end
  <2>1. k \in DOMAIN ts /\ t \in DOMAIN ts /\ k <= t
    BY <1>1, <1>6
  <2>2. ts[k].start <= ts[t].start
    BY <1>1, <2>1 DEF Sorted, Interval
  <2> QED BY <1>1, <1>2, <2>1, <2>2 DEF Interval
<1>8. Sweep(word, ts) = IF first = {} THEN {}
        ELSE {i \in m..n : \A k \in m..i : ts[k].start < word.end}
  BY DEF Sweep, m
<1> HIDE DEF first, n
<1> QED BY <1>3, <1>6, <1>7, <1>8

LEMMA OnlyOne ==
  ASSUME NEW b \in Int
  PROVE  Max({b}) = b
<1>1. {b} = {b, b}
  OBVIOUS
<1>2. Max({b, b}) = b
  BY ExtremaOfTwo
<1> QED BY <1>1, <1>2

\* A word most of whose overlap is sufficient is given a turn it overlaps most.
LEMMA BestTurnFits ==
  ASSUME NEW ts, TurnsOK(ts), Sorted(ts), NEW word, Interval(word),
         NEW t \in DOMAIN ts, Sufficient(word, Overlap(word, ts[t])),
         \A u \in DOMAIN ts : Overlap(word, ts[u]) <= Overlap(word, ts[t])
  PROVE  /\ BestTurn(word, ts) # {} /\ Max(BestTurn(word, ts)) \in DOMAIN ts
         /\ Overlap(word, ts[Max(BestTurn(word, ts))]) = Overlap(word, ts[t])
<1> DEFINE sweep == Sweep(word, ts)
           n == Len(ts)
           O(i) == Overlap(word, ts[i])
           key == [i \in DOMAIN ts |-> -O(i)]
           best == Min(Least(sweep, key))
<1>1. n \in Nat /\ DOMAIN ts = 1..n /\ \A i \in DOMAIN ts : Interval(ts[i])
  BY TurnTypes
<1>2. \A i \in DOMAIN ts : O(i) \in Nat
  BY <1>1, OverlapFacts
<1>3. t \in sweep
  <2>1. Overlap(word, ts[t]) > 0
    BY DEF Sufficient
  <2> QED BY <2>1, SweepFinds
<1>4. sweep \subseteq 1..n
  <2> DEFINE first == {i \in DOMAIN ts : ts[i].end > word.start}
  <2>1. CASE first = {}
    BY <2>1 DEF Sweep
  <2>2. CASE first # {}
    <3>1. first \subseteq 1..n
      BY <1>1
    <3>2. IsFiniteSet(1..n) /\ 1..n \subseteq Int
      <4> HIDE DEF n
      <4> QED BY <1>1, FS_Interval
    <3>3. Min(first) \in 1..n
      <4> HIDE DEF first
      <4>1. IsFiniteSet(first) /\ first \subseteq Int
        BY <3>1, <3>2, FS_Subset
      <4> QED BY <2>2, <3>1, <4>1, Extrema
    <3>4. \A i \in Min(first)..n : i \in 1..n
      BY <1>1, <3>3
    <3> QED BY <2>2, <3>4 DEF Sweep
  <2> QED BY <2>1, <2>2
<1>5. IsFiniteSet(sweep) /\ sweep \subseteq Int
  <2>1. IsFiniteSet(1..n)
    <3> HIDE DEF n
    <3> QED BY <1>1, FS_Interval
  <2> QED BY <1>4, <2>1, FS_Subset
<1>6. \A i \in 1..n : key[i] = -O(i) /\ key[i] \in Int
  BY <1>1, <1>2
<1>7. EarliestMin(sweep, LAMBDA i : -Overlap(word, ts[i])) = best
  <2>1. {i \in sweep : \A k \in sweep : -O(i) <= -O(k)} = Least(sweep, key)
    <3> HIDE DEF key, sweep, O
    <3> QED BY <1>4, <1>6 DEF Least
  <2> QED BY <2>1 DEF EarliestMin
<1> HIDE DEF key, sweep
<1>8. best \in sweep /\ \A k \in sweep : key[best] <= key[k]
  <2>1. \A i \in sweep : key[i] \in Int
    BY <1>4, <1>6
  <2> QED BY <1>3, <1>5, <2>1, LeastExists
<1> HIDE DEF best
<1>9. best \in 1..n /\ O(best) \in Nat /\ O(t) \in Nat /\ O(t) <= O(best)
  <2>1. best \in 1..n /\ t \in 1..n
    BY <1>1, <1>4, <1>8
  <2>2. -O(best) <= -O(t)
    BY <1>3, <1>6, <1>8, <2>1
  <2>3. O(best) \in Nat /\ O(t) \in Nat
    BY <1>1, <1>2, <2>1
  <2> HIDE DEF O
  <2> QED BY <2>1, <2>2, <2>3
<1>10. O(best) = O(t)
  <2>1. O(best) <= O(t)
    BY <1>1, <1>9
  <2> HIDE DEF O
  <2> QED BY <1>9, <2>1
<1>11. BestTurn(word, ts) = {best}
  BY <1>3, <1>7, <1>10 DEF BestTurn, sweep
<1>12. Max(BestTurn(word, ts)) = best
  BY <1>9, <1>11, OnlyOne
<1> QED BY <1>1, <1>9, <1>10, <1>11, <1>12

LabelOp(p, q, acc, word) == LabelNext(p, q, acc, word)
Naming == INSTANCE FoldLemmas WITH Op <- LabelOp

\* Who the turns say speaks a word, if they say so.
ByTurn(word, ts, label) ==
  BestTurn(word, ts) # {} => label = ts[Max(BestTurn(word, ts))].speaker

\* The words are labelled one by one, each after its best turn.
LEMMA LabelsByTurn ==
  ASSUME NEW n \in Nat, NEW ws, Listing(ws, n), NEW ts
  PROVE  /\ Listing(LabelWords(ws, ts), n)
         /\ \A i \in 1..n : ByTurn(ws[i], ts, LabelWords(ws, ts)[i])
<1> DEFINE f == Naming!Trace(ws, ts, <<>>, ws, n)
           S == {k \in 0..n : Listing(f[k], k) /\ \A i \in 1..k : ByTurn(ws[i], ts, f[k][i])}
<1>1. LabelWords(ws, ts) = Naming!Fold(ws, ts, <<>>, ws)
  BY DEF LabelWords, Naming!Fold, LabelOp, FoldLeft, MapThenFoldSet, Max,
         Naming!FoldLeft, Naming!MapThenFoldSet, Naming!Max
<1>2. DOMAIN ws = 1..n
  BY ListingFacts
<1>3. /\ f[0] = <<>>
      /\ \A k \in 1..n : f[k] = LabelOp(ws, ts, f[k - 1], ws[k])
      /\ Naming!Fold(ws, ts, <<>>, ws) = f[n]
  BY <1>2, Naming!FoldTrace
<1> HIDE DEF f
<1>4. 0 \in S
  BY <1>3 DEF Listing
<1>5. ASSUME NEW k \in 1..n, k - 1 \in S PROVE k \in S
  <2> DEFINE m == k - 1
  <2>1. m \in Nat /\ m + 1 = k /\ k \in 0..n
    OBVIOUS
  <2>2. Listing(f[m], m) /\ \A i \in 1..m : ByTurn(ws[i], ts, f[m][i])
    BY <1>5
  <2> DEFINE chosen == IF BestTurn(ws[k], ts) # {} THEN ts[Max(BestTurn(ws[k], ts))].speaker
               ELSE IF Len(f[m]) > 0 /\ ws[k].start - ws[Len(f[m])].end <= InheritMaxGap
               THEN Last(f[m]) ELSE NearestTurn(ws[k], ts).speaker
  <2>3. f[k] = Append(f[m], chosen)
    BY <1>3 DEF LabelOp, LabelNext
  <2>4. ByTurn(ws[k], ts, chosen)
    BY DEF ByTurn
  <2> HIDE DEF m, chosen
  <2>5. /\ Listing(f[k], m + 1) /\ f[k][m + 1] = chosen
        /\ \A i \in 1..m : f[k][i] = f[m][i]
    <3> DEFINE said == f[m]
    <3>1. Listing(said, m) /\ m \in Nat
      BY <2>1, <2>2
    <3> HIDE DEF said
    <3>2. Append(said, chosen) = [i \in 1..(m + 1) |-> IF i = m + 1 THEN chosen ELSE said[i]]
      BY <3>1, ListingAppend
    <3>3. f[k] = [i \in 1..(m + 1) |-> IF i = m + 1 THEN chosen ELSE said[i]]
      BY <2>3, <3>2 DEF said
    <3>4. f[k][m + 1] = chosen /\ \A i \in 1..m : f[k][i] = said[i]
      BY <3>1, <3>3
    <3>5. Listing(f[k], m + 1)
      BY <3>1, <3>3 DEF Listing
    <3> QED BY <3>4, <3>5 DEF said
  <2>6. ASSUME NEW i \in 1..k PROVE ByTurn(ws[i], ts, f[k][i])
    <3>1. CASE i = k
      BY <2>1, <2>4, <2>5, <3>1
    <3>2. CASE i # k
      <4>1. i \in 1..m
        BY <2>1, <3>2
      <4> QED BY <2>2, <2>5, <4>1
    <3> QED BY <3>1, <3>2
  <2> QED BY <2>1, <2>5, <2>6
<1> HIDE DEF S
<1>6. n \in S
  BY <1>4, <1>5, StepInduction
<1>7. LabelWords(ws, ts) = f[n]
  BY <1>1, <1>3
<1> QED BY <1>6, <1>7 DEF S

-----------------------------------------------------------------------------
(* _line_end and _group_labelled                                           *)

\* Lines that hold the words from one to another, each once and in order.
Tiles(s, from, to) ==
  /\ s # <<>> => s[1].first = from /\ s[Len(s)].last = to
  /\ s = <<>> => to = from - 1
  /\ \A n \in 1..(Len(s) - 1) : s[n + 1].first = s[n].last + 1
  /\ \A n \in DOMAIN s : s[n].first \in Int /\ s[n].last \in Int /\ s[n].first <= s[n].last

\* One list of lines after the other.
LEMMA TilesJoin ==
  ASSUME NEW T, NEW a \in Seq(T), NEW b \in Seq(T), NEW x \in Int, NEW y \in Int, NEW z \in Int,
         Tiles(a, x, y), Tiles(b, y + 1, z)
  PROVE  Tiles(a \o b, x, z)
<1> DEFINE m == Len(a)
           n == Len(b)
           ab == a \o b
<1>1. m \in Nat /\ n \in Nat /\ DOMAIN a = 1..m /\ DOMAIN b = 1..n
  OBVIOUS
<1>2. /\ ab \in Seq(T) /\ Len(ab) = m + n /\ DOMAIN ab = 1..(m + n)
      /\ \A k \in 1..(m + n) : ab[k] = IF k <= m THEN a[k] ELSE b[k - m]
  <2>1. /\ ab \in Seq(T) /\ Len(ab) = m + n
        /\ \A k \in 1..(m + n) : ab[k] = IF k <= m THEN a[k] ELSE b[k - m]
    BY JoinedAt
  <2> HIDE DEF ab, m, n
  <2> QED BY <1>1, <2>1
<1>3. (a = <<>> <=> m = 0) /\ (b = <<>> <=> n = 0) /\ (ab = <<>> <=> m + n = 0)
  <2>1. (a = <<>> <=> m = 0) /\ (b = <<>> <=> n = 0)
    OBVIOUS
  <2>2. ab = <<>> <=> m + n = 0
    <3> HIDE DEF ab, m, n
    <3> QED BY <1>2
  <2> QED BY <2>1, <2>2
<1> HIDE DEF ab, m, n
<1>4. \A k \in 1..m : a[k].first \in Int /\ a[k].last \in Int /\ a[k].first <= a[k].last
  BY <1>1 DEF Tiles
<1>5. \A k \in 1..n : b[k].first \in Int /\ b[k].last \in Int /\ b[k].first <= b[k].last
  BY <1>1 DEF Tiles
<1>6. /\ m > 0 => a[1].first = x /\ a[m].last = y
      /\ m = 0 => y = x - 1
      /\ n > 0 => b[1].first = y + 1 /\ b[n].last = z
      /\ n = 0 => z = y + 1 - 1
  BY <1>1, <1>3 DEF Tiles, m, n
<1>7. /\ \A k \in 1..(m - 1) : a[k + 1].first = a[k].last + 1
      /\ \A k \in 1..(n - 1) : b[k + 1].first = b[k].last + 1
  BY DEF Tiles, m, n
<1>8. m + n > 0 => ab[1].first = x /\ ab[m + n].last = z
  <2>1. CASE n = 0
    BY <1>1, <1>2, <1>6, <2>1
  <2>2. CASE n > 0
    <3>1. m + n > m /\ (m + n) - m = n /\ m + n \in 1..(m + n) /\ 1 \in 1..(m + n)
      BY <1>1, <2>2
    <3>2. ab[m + n] = b[n]
      BY <1>1, <1>2, <3>1
    <3>3. CASE m = 0
      <4>1. ab[1] = b[1]
        BY <1>1, <1>2, <3>1, <3>3
      <4> QED BY <1>6, <2>2, <3>2, <3>3, <4>1
    <3>4. CASE m > 0
      <4>1. ab[1] = a[1]
        BY <1>1, <1>2, <3>1, <3>4
      <4> QED BY <1>6, <2>2, <3>2, <3>4, <4>1
    <3> QED BY <1>1, <3>3, <3>4
  <2> QED BY <1>1, <2>1, <2>2
<1>9. ASSUME NEW k \in 1..(m + n - 1) PROVE ab[k + 1].first = ab[k].last + 1
  <2>1. k \in 1..(m + n) /\ k + 1 \in 1..(m + n)
    BY <1>1
  <2>2. CASE k < m
    <3>1. ab[k] = a[k] /\ ab[k + 1] = a[k + 1] /\ k \in 1..(m - 1)
      BY <1>1, <1>2, <2>1, <2>2
    <3> QED BY <1>7, <3>1
  <2>3. CASE k = m
    <3>1. ab[k] = a[m] /\ ab[k + 1] = b[1] /\ m > 0 /\ n > 0
      BY <1>1, <1>2, <2>1, <2>3
    <3> QED BY <1>6, <3>1
  <2>4. CASE k > m
    <3> DEFINE l == k - m
    <3>1. ab[k] = b[l] /\ ab[k + 1] = b[(k + 1) - m] /\ (k + 1) - m = l + 1 /\ l \in 1..(n - 1)
      BY <1>1, <1>2, <2>1, <2>4
    <3> HIDE DEF l
    <3> QED BY <1>7, <3>1
  <2> QED BY <1>1, <2>2, <2>3, <2>4
<1>10. ASSUME NEW k \in 1..(m + n)
       PROVE  ab[k].first \in Int /\ ab[k].last \in Int /\ ab[k].first <= ab[k].last
  <2>1. CASE k <= m
    BY <1>1, <1>2, <1>4, <2>1
  <2>2. CASE k > m
    <3>1. k - m \in 1..n /\ ab[k] = b[k - m]
      BY <1>1, <1>2, <2>2
    <3> QED BY <1>5, <3>1
  <2> QED BY <1>1, <2>1, <2>2
<1>11. m + n = 0 => z = x - 1
  BY <1>1, <1>6
<1>12. Tiles(ab, x, z)
  <2>1. Len(ab) = m + n /\ DOMAIN ab = 1..(m + n)
    BY <1>2
  <2>2. ab # <<>> => ab[1].first = x /\ ab[Len(ab)].last = z
    BY <1>1, <1>3, <1>8, <2>1
  <2>3. ab = <<>> => z = x - 1
    BY <1>3, <1>11
  <2>4. \A k \in 1..(Len(ab) - 1) : ab[k + 1].first = ab[k].last + 1
    <3> SUFFICES ASSUME NEW k \in 1..(Len(ab) - 1) PROVE ab[k + 1].first = ab[k].last + 1
      OBVIOUS
    <3>1. k \in 1..(m + n - 1)
      <4> DEFINE N == Len(ab)
      <4>1. N = m + n /\ k \in 1..(N - 1)
        BY <2>1
      <4> HIDE DEF N
      <4> QED BY <1>1, <4>1
    <3> QED BY <1>9, <3>1
  <2>5. \A k \in DOMAIN ab :
          ab[k].first \in Int /\ ab[k].last \in Int /\ ab[k].first <= ab[k].last
    BY <1>10, <2>1
  <2> QED BY <2>2, <2>3, <2>4, <2>5 DEF Tiles
<1> QED BY <1>12 DEF ab

LEMMA OneTile ==
  ASSUME NEW line, line.first \in Int, line.last \in Int, line.first <= line.last
  PROVE  Tiles(<<line>>, line.first, line.last)
<1>1. Len(<<line>>) = 1 /\ DOMAIN <<line>> = {1} /\ <<line>>[1] = line /\ <<line>> # <<>>
  OBVIOUS
<1> DEFINE s == <<line>>
<1> HIDE DEF s
<1>2. Len(s) = 1 /\ DOMAIN s = {1} /\ s[1] = line /\ s # <<>>
  BY <1>1 DEF s
<1>3. Tiles(s, line.first, line.last)
  BY <1>2 DEF Tiles
<1> QED BY <1>3 DEF s

\* Where a line of words ends.
LEMMA LineEndFits ==
  ASSUME NEW n \in Nat, NEW ws, Listing(ws, n), NEW labelling, NEW bounded,
         NEW start \in 1..n
  PROVE  LET end == LineEnd(ws, labelling, start, bounded)
         IN /\ end \in start..n
            /\ bounded /\ start < end => ~ Full(ws, start, end)
<1> DEFINE natural == {i \in (start + 1)..Len(ws) :
                         \/ SpeakerStops(ws, labelling, start, i)
                         \/ SentenceStops(ws, start, i, bounded)}
           full == {i \in (start + 1)..Len(ws) : bounded /\ Full(ws, start, i)}
           stop == Min(natural \cup full)
           sentences == {i \in start..(stop - 1) : ws[i].ends}
           end == LineEnd(ws, labelling, start, bounded)
<1> SUFFICES end \in start..n /\ (bounded /\ start < end => ~ Full(ws, start, end))
  OBVIOUS
<1>1. end = IF natural \cup full = {} THEN Len(ws)
            ELSE IF stop \in natural \/ sentences = {} THEN stop - 1
            ELSE Max(sentences)
  BY DEF LineEnd
<1>2. Len(ws) = n
  BY ListingFacts
<1>3. natural \subseteq (start + 1)..n /\ full \subseteq (start + 1)..n
  BY <1>2
<1>4. \A i \in (start + 1)..n : bounded /\ i \notin full => ~ Full(ws, start, i)
  BY <1>2
<1> HIDE DEF natural, full
<1>5. CASE natural \cup full = {}
  <2>1. end = n
    BY <1>1, <1>2, <1>5
  <2>2. start < n => n \in (start + 1)..n /\ n \notin full
    BY <1>5
  <2> HIDE DEF end
  <2> QED BY <1>4, <2>1, <2>2
<1>6. CASE natural \cup full # {}
  <2>1. stop \in natural \cup full /\ \A i \in natural \cup full : stop <= i
    <3> DEFINE both == natural \cup full
    <3>1. both \subseteq (start + 1)..n /\ both # {} /\ start + 1 \in Int
      BY <1>3, <1>6
    <3>2. IsFiniteSet((start + 1)..n)
      BY FS_Interval
    <3>3. IsFiniteSet(both) /\ both \subseteq Int
      BY <3>1, <3>2, FS_Subset
    <3> HIDE DEF both
    <3>4. Min(both) \in both /\ \A i \in both : Min(both) <= i
      BY <3>1, <3>3, Extrema
    <3> QED BY <3>4 DEF both
  <2>2. stop \in (start + 1)..n
    BY <1>3, <2>1
  <2>3. \A i \in (start + 1)..(stop - 1) : i \in (start + 1)..n /\ i \notin full
    <3> HIDE DEF stop
    <3> SUFFICES ASSUME NEW i \in (start + 1)..(stop - 1) PROVE i \in (start + 1)..n /\ i \notin full
      OBVIOUS
    <3>1. i \in (start + 1)..n /\ i < stop
      BY <2>2
    <3>2. ~ (stop <= i)
      BY <2>2, <3>1
    <3> QED BY <2>1, <3>1, <3>2
  <2>4. end \in start..(stop - 1)
    <3>1. CASE stop \in natural \/ sentences = {}
      <4>1. end = stop - 1
        BY <1>1, <1>6, <3>1
      <4> HIDE DEF stop, end
      <4> QED BY <2>2, <4>1
    <3>2. CASE ~ (stop \in natural \/ sentences = {})
      <4>1. end = Max(sentences)
        BY <1>1, <1>6, <3>2
      <4>2. sentences \subseteq start..(stop - 1) /\ sentences # {}
        BY <3>2
      <4> HIDE DEF stop, sentences, end
      <4>3. IsFiniteSet(start..(stop - 1))
        <5>1. stop - 1 \in Int /\ start \in Int
          BY <2>2
        <5> QED BY <5>1, FS_Interval
      <4>4. IsFiniteSet(sentences) /\ sentences \subseteq Int
        <5>1. start..(stop - 1) \subseteq Int
          BY <2>2
        <5> QED BY <4>2, <4>3, <5>1, FS_Subset
      <4> QED BY <4>1, <4>2, <4>4, Extrema
    <3> QED BY <3>1, <3>2
  <2> HIDE DEF stop, end
  <2>5. end \in start..n /\ (start < end => end \in (start + 1)..(stop - 1))
    BY <2>2, <2>4
  <2> QED BY <1>4, <2>3, <2>5
<1> QED BY <1>5, <1>6

\* A line after the other is laid from each word on.
Lays(f, line, end, a, n) ==
  f = [start \in a..(n + 1) |-> IF start > n THEN <<>> ELSE <<line[start]>> \o f[end[start] + 1]]

LEMMA LayingExists ==
  ASSUME NEW n \in Nat, NEW line, NEW end, \A start \in 1..n : end[start] \in start..n
  PROVE  \E f : Lays(f, line, end, 1, n)
<1> DEFINE S == {m \in 0..n : \E f : Lays(f, line, end, n + 1 - m, n)}
<1>1. 0 \in S
  <2> DEFINE f == [start \in (n + 1)..(n + 1) |-> <<>>]
  <2>1. Lays(f, line, end, n + 1, n)
    BY DEF Lays
  <2>2. n + 1 - 0 = n + 1
    OBVIOUS
  <2> QED BY <2>1, <2>2
<1>2. ASSUME NEW m \in 1..n, m - 1 \in S PROVE m \in S
  <2> DEFINE a == n + 1 - m
  <2>1. n + 1 - (m - 1) = a + 1 /\ a \in 1..n
    OBVIOUS
  <2>2. PICK f : Lays(f, line, end, a + 1, n)
    BY <1>2, <2>1
  <2> DEFINE g == [start \in a..(n + 1) |-> IF start = a THEN <<line[a]>> \o f[end[a] + 1]
                                            ELSE f[start]]
  <2> HIDE DEF a
  <2>3. ASSUME NEW start \in a..(n + 1)
        PROVE  g[start] = IF start > n THEN <<>> ELSE <<line[start]>> \o g[end[start] + 1]
    <3>1. CASE start = a
      <4>1. end[a] + 1 \in (a + 1)..(n + 1)
        BY <2>1
      <4>2. g[end[a] + 1] = f[end[a] + 1]
        BY <2>1, <4>1
      <4>3. g[start] = <<line[a]>> \o f[end[a] + 1] /\ ~ (start > n)
        BY <2>1, <3>1
      <4> QED BY <3>1, <4>2, <4>3
    <3>2. CASE start # a
      <4>1. start \in (a + 1)..(n + 1) /\ g[start] = f[start]
        BY <2>1, <3>2
      <4>2. f[start] = IF start > n THEN <<>> ELSE <<line[start]>> \o f[end[start] + 1]
        BY <2>2, <4>1 DEF Lays
      <4>3. CASE start > n
        BY <4>1, <4>2, <4>3
      <4>4. CASE ~ (start > n)
        <5>1. start \in 1..n /\ end[start] + 1 \in (a + 1)..(n + 1)
          BY <2>1, <4>1, <4>4
        <5>2. g[end[start] + 1] = f[end[start] + 1]
          BY <2>1, <5>1
        <5> QED BY <4>1, <4>2, <4>4, <5>2
      <4> QED BY <4>3, <4>4
    <3> QED BY <3>1, <3>2
  <2>4. g = [start \in a..(n + 1) |-> g[start]]
    OBVIOUS
  <2> HIDE DEF g
  <2>5. Lays(g, line, end, a, n)
    BY <2>3, <2>4, Zenon DEF Lays
  <2> QED BY <2>5 DEF a
<1> HIDE DEF S
<1>3. n \in S
  BY <1>1, <1>2, StepInduction
<1>4. n + 1 - n = 1
  OBVIOUS
<1> QED BY <1>3, <1>4 DEF S

\* The lines that may be made of n words of these speakers.
LinesOf(ws, n, speakers, bounded) ==
  {line \in [speaker : speakers, first : 1..n, last : 1..n] :
     /\ line.first <= line.last
     /\ bounded /\ line.first < line.last => ~ Full(ws, line.first, line.last)}

\* The lines of a transcript hold its words, and are bounded if they should be.
LEMMA LinesLaid ==
  ASSUME NEW n \in Nat, NEW ws, Listing(ws, n), NEW labelling, NEW speakers,
         \A i \in 1..n : labelling[i] \in speakers, NEW bounded \in BOOLEAN
  PROVE  /\ GroupLabelled(ws, labelling, bounded) \in Seq(LinesOf(ws, n, speakers, bounded))
         /\ Tiles(GroupLabelled(ws, labelling, bounded), 1, n)
<1> DEFINE L == LinesOf(ws, n, speakers, bounded)
           end == [start \in 1..n |-> LineEnd(ws, labelling, start, bounded)]
           line == [start \in 1..n |-> [speaker |-> labelling[start], first |-> start,
                                        last |-> end[start]]]
           f == CHOOSE f : Lays(f, line, end, 1, n)
           S == {m \in 0..n : f[n + 1 - m] \in Seq(L) /\ Tiles(f[n + 1 - m], n + 1 - m, n)}
<1>1. ASSUME NEW start \in 1..n
      PROVE  /\ end[start] \in start..n /\ line[start] \in L
             /\ line[start].first = start /\ line[start].last = end[start]
  <2>1. end[start] = LineEnd(ws, labelling, start, bounded)
    OBVIOUS
  <2>2. end[start] \in start..n /\ (bounded /\ start < end[start] => ~ Full(ws, start, end[start]))
    BY <2>1, LineEndFits
  <2> HIDE DEF end
  <2>3. line[start] = [speaker |-> labelling[start], first |-> start, last |-> end[start]]
    OBVIOUS
  <2> HIDE DEF line
  <2> QED BY <2>2, <2>3 DEF LinesOf
<1>2. Lays(f, line, end, 1, n)
  <2> HIDE DEF end, line
  <2>1. \E g : Lays(g, line, end, 1, n)
    BY <1>1, LayingExists
  <2> QED BY <2>1
<1>3. GroupLabelled(ws, labelling, bounded) = f[1]
  <2> DEFINE Laid(g) == g = [start \in 1..(Len(ws) + 1) |->
                IF start > Len(ws) THEN <<>>
                ELSE <<[speaker |-> labelling[start], first |-> start,
                        last |-> LineEnd(ws, labelling, start, bounded)]>>
                     \o g[LineEnd(ws, labelling, start, bounded) + 1]]
  <2>1. GroupLabelled(ws, labelling, bounded) = (CHOOSE g : Laid(g))[1]
    BY DEF GroupLabelled
  <2>2. Len(ws) = n
    BY ListingFacts
  <2>3. ASSUME NEW g PROVE Laid(g) <=> Lays(g, line, end, 1, n)
    <3> DEFINE A(start) == IF start > Len(ws) THEN <<>>
                ELSE <<[speaker |-> labelling[start], first |-> start,
                        last |-> LineEnd(ws, labelling, start, bounded)]>>
                     \o g[LineEnd(ws, labelling, start, bounded) + 1]
               B(start) == IF start > n THEN <<>> ELSE <<line[start]>> \o g[end[start] + 1]
    <3>1. \A start \in 1..(n + 1) : A(start) = B(start)
      <4> SUFFICES ASSUME NEW start \in 1..(n + 1) PROVE A(start) = B(start)
        OBVIOUS
      <4>1. CASE start > n
        BY <2>2, <4>1
      <4>2. CASE ~ (start > n)
        <5>1. start \in 1..n
          BY <4>2
        <5>2. end[start] = LineEnd(ws, labelling, start, bounded)
          BY <5>1
        <5>3. line[start] = [speaker |-> labelling[start], first |-> start,
                             last |-> LineEnd(ws, labelling, start, bounded)]
          BY <5>1, <5>2
        <5> QED BY <2>2, <4>2, <5>2, <5>3
      <4> QED BY <4>1, <4>2
    <3>2. Laid(g) <=> g = [start \in 1..(n + 1) |-> A(start)]
      BY <2>2
    <3>3. Lays(g, line, end, 1, n) <=> g = [start \in 1..(n + 1) |-> B(start)]
      BY DEF Lays
    <3> HIDE DEF A, B, Laid, line, end
    <3> QED BY <3>1, <3>2, <3>3
  <2> HIDE DEF Laid, line, end
  <2>4. (CHOOSE g : Laid(g)) = (CHOOSE g : Lays(g, line, end, 1, n))
    BY <2>3, Zenon
  <2> QED BY <2>1, <2>4
<1> HIDE DEF f
<1>4. 0 \in S
  <2>1. f[n + 1] = <<>>
    BY <1>2 DEF Lays
  <2>2. Tiles(<<>>, n + 1, n)
    BY DEF Tiles
  <2>3. <<>> \in Seq(L) /\ n + 1 - 0 = n + 1
    OBVIOUS
  <2> HIDE DEF L
  <2>4. f[n + 1 - 0] \in Seq(L) /\ Tiles(f[n + 1 - 0], n + 1 - 0, n)
    BY <2>1, <2>2, <2>3
  <2>5. 0 \in 0..n
    OBVIOUS
  <2> QED BY <2>4, <2>5
<1>5. ASSUME NEW m \in 1..n, \A k \in 0..(m - 1) : k \in S PROVE m \in S
  <2> DEFINE start == n + 1 - m
             k == n - end[start]
  <2>1. start \in 1..n
    OBVIOUS
  <2>2. /\ end[start] \in start..n /\ line[start] \in L
        /\ line[start].first = start /\ line[start].last = end[start]
    BY <1>1, <2>1
  <2> HIDE DEF end, line
  <2>3. k \in 0..(m - 1) /\ n + 1 - k = end[start] + 1
    BY <2>2
  <2>4. f[end[start] + 1] \in Seq(L) /\ Tiles(f[end[start] + 1], end[start] + 1, n)
    BY <1>5, <2>3
  <2>5. f[start] = <<line[start]>> \o f[end[start] + 1]
    <3> HIDE DEF start
    <3>1. start \in 1..(n + 1) /\ ~ (start > n)
      BY <2>1
    <3> QED BY <1>2, <3>1 DEF Lays
  <2> DEFINE e == end[start]
             rest == f[e + 1]
             first == <<line[start]>>
  <2>6. first \in Seq(L) /\ Tiles(first, start, e)
    <3>1. Tiles(<<line[start]>>, line[start].first, line[start].last)
      <4> DEFINE one == line[start]
      <4>1. one.first = start /\ one.last = end[start]
        BY <2>2
      <4>2. one.first \in Int /\ one.last \in Int /\ one.first <= one.last
        BY <2>1, <2>2, <4>1
      <4> HIDE DEF one
      <4>3. Tiles(<<one>>, one.first, one.last)
        BY <4>2, OneTile
      <4> QED BY <4>3 DEF one
    <3>2. <<line[start]>> \in Seq(L)
      <4> DEFINE one == line[start]
      <4>1. one \in L
        BY <2>2
      <4> HIDE DEF one, L
      <4>2. <<one>> \in Seq(L)
        BY <4>1
      <4> QED BY <4>2 DEF one
    <3> QED BY <2>2, <3>1, <3>2
  <2>7. rest \in Seq(L) /\ Tiles(rest, e + 1, n) /\ f[start] = first \o rest
    BY <2>4, <2>5
  <2>8. start \in Int /\ e \in Int /\ n \in Int
    BY <2>1, <2>2
  <2> HIDE DEF rest, first, e, L
  <2>9. Tiles(first \o rest, start, n)
    BY <2>6, <2>7, <2>8, TilesJoin
  <2>10. first \o rest \in Seq(L)
    BY <2>6, <2>7
  <2> HIDE DEF start
  <2>11. f[start] \in Seq(L) /\ Tiles(f[start], start, n)
    BY <2>7, <2>9, <2>10
  <2> QED BY <2>11 DEF start
<1> HIDE DEF S
<1>6. n \in S
  <2> DEFINE U == {m \in 0..n : \A k \in 0..m : k \in S}
  <2>1. 0 \in U
    BY <1>4
  <2>2. ASSUME NEW m \in 1..n, m - 1 \in U PROVE m \in U
    <3>1. \A k \in 0..(m - 1) : k \in S
      BY <2>2
    <3>2. m \in S
      BY <1>5, <3>1
    <3>3. \A k \in 0..m : k \in S
      BY <3>1, <3>2
    <3> QED BY <3>3
  <2> HIDE DEF U
  <2>3. n \in U
    BY <2>1, <2>2, StepInduction
  <2> QED BY <2>3 DEF U
<1>7. n + 1 - n = 1
  OBVIOUS
<1>8. f[1] \in Seq(L) /\ Tiles(f[1], 1, n)
  BY <1>6, <1>7 DEF S
<1> QED BY <1>3, <1>8

-----------------------------------------------------------------------------
(* _merge_short_orphans                                                    *)

\* The last element of a list is replaced.
LEMMA LastReplaced ==
  ASSUME NEW T, NEW s \in Seq(T), s # <<>>, NEW e \in T
  PROVE  /\ Front(s) \o <<e>> \in Seq(T) /\ Len(Front(s) \o <<e>>) = Len(s)
         /\ \A k \in 1..Len(s) : (Front(s) \o <<e>>)[k] = IF k = Len(s) THEN e ELSE s[k]
<1> DEFINE n == Len(s)
           front == Front(s)
           new == front \o <<e>>
<1>1. n \in Nat /\ n > 0 /\ DOMAIN s = 1..n
  OBVIOUS
<1>2. front = [k \in 1..(n - 1) |-> s[k]]
  BY DEF Front
<1>3. front \in Seq(T) /\ Len(front) = n - 1 /\ \A k \in 1..(n - 1) : front[k] = s[k]
  <2> HIDE DEF front
  <2>1. \A k \in 1..(n - 1) : s[k] \in T
    BY <1>1
  <2> HIDE DEF n
  <2> QED BY <1>1, <1>2, <2>1
<1>4. <<e>> \in Seq(T) /\ Len(<<e>>) = 1 /\ <<e>>[1] = e
  OBVIOUS
<1> HIDE DEF front, n
<1> DEFINE one == <<e>>
<1>5. one \in Seq(T) /\ Len(one) = 1 /\ one[1] = e
  BY <1>4
<1> HIDE DEF one
<1>6. /\ front \o one \in Seq(T) /\ Len(front \o one) = (n - 1) + 1
      /\ \A k \in 1..((n - 1) + 1) : (front \o one)[k] = IF k <= n - 1 THEN front[k] ELSE one[k - (n - 1)]
  <2> DEFINE l == Len(front)
  <2>1. /\ front \o one \in Seq(T) /\ Len(front \o one) = Len(front) + Len(one)
        /\ \A k \in 1..(Len(front) + Len(one)) :
             (front \o one)[k] = IF k <= Len(front) THEN front[k] ELSE one[k - Len(front)]
    BY <1>3, <1>5, JoinedAt
  <2> QED BY <1>3, <1>5, <2>1
<1>7. (n - 1) + 1 = n
  BY <1>1
<1>8. ASSUME NEW k \in 1..n PROVE (front \o one)[k] = IF k = n THEN e ELSE s[k]
  <2>1. (front \o one)[k] = IF k <= n - 1 THEN front[k] ELSE one[k - (n - 1)]
    BY <1>6, <1>7
  <2>2. CASE k = n
    <3>1. k - (n - 1) = 1 /\ ~ (k <= n - 1)
      BY <1>1, <2>2
    <3> QED BY <1>5, <2>1, <2>2, <3>1
  <2>3. CASE k # n
    <3>1. k \in 1..(n - 1) /\ k <= n - 1
      BY <1>1, <2>3
    <3> QED BY <1>3, <2>1, <2>3, <3>1
  <2> QED BY <2>2, <2>3
<1> QED BY <1>6, <1>7, <1>8 DEF front, one, n

LEMMA LastTileGrows ==
  ASSUME NEW T, NEW s \in Seq(T), s # <<>>, NEW e \in T, NEW x, NEW y, Tiles(s, x, y),
         e.first = Last(s).first, e.last \in Int, y <= e.last
  PROVE  Tiles(Front(s) \o <<e>>, x, e.last)
<1> DEFINE n == Len(s)
           new == Front(s) \o <<e>>
<1>1. n \in Nat /\ n > 0 /\ DOMAIN s = 1..n /\ Last(s) = s[n]
  BY DEF Last
<1>2. /\ new \in Seq(T) /\ Len(new) = n
      /\ \A k \in 1..n : new[k] = IF k = n THEN e ELSE s[k]
  BY LastReplaced
<1> HIDE DEF new
<1>3. DOMAIN new = 1..n /\ new # <<>>
  <2> HIDE DEF n
  <2> QED BY <1>1, <1>2
<1>4. /\ s[1].first = x /\ s[n].last = y
      /\ \A k \in 1..(n - 1) : s[k + 1].first = s[k].last + 1
      /\ \A k \in 1..n : s[k].first \in Int /\ s[k].last \in Int /\ s[k].first <= s[k].last
  BY <1>1 DEF Tiles
<1>5. \A k \in 1..n : new[k].first = s[k].first
  BY <1>1, <1>2
<1> HIDE DEF n
<1>6. \A k \in 1..(n - 1) : new[k] = s[k]
  <2> SUFFICES ASSUME NEW k \in 1..(n - 1) PROVE new[k] = s[k]
    OBVIOUS
  <2>1. k \in 1..n /\ k # n
    BY <1>1
  <2> QED BY <1>2, <2>1
<1>7. new[n] = e /\ e.first = s[n].first
  <2>1. n \in 1..n
    BY <1>1
  <2> QED BY <1>1, <1>2, <2>1
<1>8. new[1].first = x /\ new[n].last = e.last
  BY <1>1, <1>4, <1>5, <1>7
<1>9. \A k \in 1..(n - 1) : new[k + 1].first = new[k].last + 1
  <2> SUFFICES ASSUME NEW k \in 1..(n - 1) PROVE new[k + 1].first = new[k].last + 1
    OBVIOUS
  <2>1. k + 1 \in 1..n
    BY <1>1
  <2> QED BY <1>4, <1>5, <1>6, <2>1
<1>10. \A k \in 1..n : new[k].first \in Int /\ new[k].last \in Int /\ new[k].first <= new[k].last
  <2> SUFFICES ASSUME NEW k \in 1..n
               PROVE  new[k].first \in Int /\ new[k].last \in Int /\ new[k].first <= new[k].last
    OBVIOUS
  <2>1. CASE k = n
    <3>1. s[n].first <= s[n].last /\ s[n].last = y /\ s[n].first \in Int /\ s[n].last \in Int
      BY <1>1, <1>4
    <3> QED BY <1>7, <2>1, <3>1
  <2>2. CASE k # n
    <3>1. k \in 1..(n - 1)
      BY <1>1, <2>2
    <3> QED BY <1>4, <1>6, <3>1
  <2> QED BY <2>1, <2>2
<1>11. Tiles(new, x, e.last)
  BY <1>2, <1>3, <1>8, <1>9, <1>10 DEF Tiles
<1> QED BY <1>11 DEF new

LEMMA TileAdded ==
  ASSUME NEW T, NEW s \in Seq(T), NEW e \in T, NEW x \in Int, NEW y \in Int, Tiles(s, x, y),
         e.first = y + 1, e.last \in Int, e.first <= e.last
  PROVE  Tiles(Append(s, e), x, e.last)
<1>1. <<e>> \in Seq(T)
  OBVIOUS
<1>2. Append(s, e) = s \o <<e>>
  OBVIOUS
<1>3. e.first \in Int
  OBVIOUS
<1>4. Tiles(<<e>>, y + 1, e.last)
  <2>1. Tiles(<<e>>, e.first, e.last)
    BY <1>3, OneTile
  <2> QED BY <2>1
<1> DEFINE one == <<e>>
           z == e.last
<1>5. one \in Seq(T) /\ Tiles(one, y + 1, z) /\ z \in Int
  BY <1>1, <1>4
<1> HIDE DEF one, z
<1>6. Tiles(s \o one, x, z)
  BY <1>5, TilesJoin
<1> QED BY <1>2, <1>6 DEF one, z

\* The lines given while the first k of them are merged.
MergedUpTo(acc, given, L, n, k) ==
  /\ acc \in [lines : Seq(L), merged : Seq(L)]
  /\ Len(acc.lines) = Len(given)
  /\ \A i \in (k + 1)..Len(given) : acc.lines[i].last = given[i].last
  /\ \A i \in (k + 2)..Len(given) : acc.lines[i].first = given[i].first
  /\ k < Len(given) => Tiles(acc.merged, 1, acc.lines[k + 1].first - 1)
  /\ k = Len(given) => Tiles(acc.merged, 1, n)

MergeOp(p, q, acc, i) == MergeLine(p, acc, i)
Merging == INSTANCE FoldLemmas WITH Op <- MergeOp

\* A line joins the next, joins the one before it, or stays.
LEMMA MergeCases ==
  ASSUME NEW ws, NEW acc, NEW i
  PROVE  \/ /\ i # Len(acc.lines)
            /\ MergeLine(ws, acc, i) =
                 [acc EXCEPT !.lines[i + 1] = Join(acc.lines[i], @, @.speaker)]
         \/ /\ acc.merged # <<>>
            /\ MergeLine(ws, acc, i) =
                 [acc EXCEPT !.merged =
                    Front(@) \o <<Join(Last(@), acc.lines[i], Last(@).speaker)>>]
         \/ MergeLine(ws, acc, i) = [acc EXCEPT !.merged = Append(@, acc.lines[i])]
<1> DEFINE line == acc.lines[i]
           previous == IF acc.merged = <<>> THEN <<>> ELSE <<Last(acc.merged)>>
           following == IF i = Len(acc.lines) THEN <<>> ELSE <<acc.lines[i + 1]>>
           A == /\ Orphan(ws, line, previous, following) /\ following # <<>>
                /\ ~ws[line.last].ends /\ ws[line.last + 1].low
           B == /\ Orphan(ws, line, previous, following) /\ previous # <<>>
                /\ ~ws[line.first - 1].ends
                /\ ws[line.first].low /\ ws[line.last].ends
           X == [acc EXCEPT !.lines[i + 1] = Join(line, @, @.speaker)]
           Y == [acc EXCEPT !.merged = Front(@) \o <<Join(Last(@), line, Last(@).speaker)>>]
           Z == [acc EXCEPT !.merged = Append(@, line)]
<1>1. MergeLine(ws, acc, i) = IF A THEN X ELSE IF B THEN Y ELSE Z
  BY DEF MergeLine
<1>2. A => i # Len(acc.lines)
  OBVIOUS
<1>3. B => acc.merged # <<>>
  OBVIOUS
<1> HIDE DEF A, B
<1>4. \/ A /\ MergeLine(ws, acc, i) = X
      \/ B /\ MergeLine(ws, acc, i) = Y
      \/ MergeLine(ws, acc, i) = Z
  <2> HIDE DEF X, Y, Z
  <2> QED BY <1>1
<1> QED BY <1>2, <1>3, <1>4

LEMMA MergeStep ==
  ASSUME NEW n \in Nat, NEW ws, NEW speakers, NEW given \in Seq(LinesOf(ws, n, speakers, FALSE)),
         Tiles(given, 1, n), NEW acc, NEW i \in 1..Len(given),
         MergedUpTo(acc, given, LinesOf(ws, n, speakers, FALSE), n, i - 1)
  PROVE  MergedUpTo(MergeLine(ws, acc, i), given, LinesOf(ws, n, speakers, FALSE), n, i)
<1> DEFINE L == LinesOf(ws, n, speakers, FALSE)
           N == Len(given)
           ls == acc.lines
           ms == acc.merged
           line == ls[i]
           new == MergeLine(ws, acc, i)
<1>1. /\ acc = [lines |-> ls, merged |-> ms] /\ ls \in Seq(L) /\ ms \in Seq(L)
      /\ N \in Nat /\ Len(ls) = N /\ DOMAIN ls = 1..N /\ DOMAIN given = 1..N
      /\ i \in 1..N
  <2>1. acc \in [lines : Seq(L), merged : Seq(L)] /\ Len(acc.lines) = Len(given)
    BY DEF MergedUpTo
  <2> HIDE DEF L
  <2> QED BY <2>1
<1>2. \A l \in L : /\ l.first \in 1..n /\ l.last \in 1..n /\ l.first <= l.last
                   /\ l.speaker \in speakers
  BY DEF LinesOf
<1>3. \A a, b \in L : a.first <= b.last =>
        /\ Join(a, b, a.speaker) \in L /\ Join(a, b, b.speaker) \in L
        /\ Join(a, b, a.speaker).first = a.first /\ Join(a, b, a.speaker).last = b.last
        /\ Join(a, b, b.speaker).first = a.first /\ Join(a, b, b.speaker).last = b.last
  BY DEF LinesOf, Join
<1>4. /\ (i - 1) + 1 = i /\ (i - 1) + 2 = i + 1 /\ i - 1 < N
      /\ \A k \in i..N : ls[k].last = given[k].last
      /\ \A k \in (i + 1)..N : ls[k].first = given[k].first
      /\ Tiles(ms, 1, line.first - 1)
  <2>1. (i - 1) + 1 = i /\ (i - 1) + 2 = i + 1 /\ i - 1 < N
    BY <1>1
  <2> QED BY <2>1 DEF MergedUpTo
<1>5. /\ \A k \in 1..(N - 1) : given[k + 1].first = given[k].last + 1
      /\ given[N].last = n
  <2>1. given # <<>>
    BY <1>1
  <2> QED BY <2>1 DEF Tiles
<1> HIDE DEF L, N, ls, ms
<1>6. line \in L
  BY <1>1
<1>7. i < N => ls[i + 1] \in L /\ ls[i + 1].first = line.last + 1
  <2> SUFFICES ASSUME i < N PROVE ls[i + 1] \in L /\ ls[i + 1].first = line.last + 1
    OBVIOUS
  <2>1. i + 1 \in (i + 1)..N /\ i \in i..N /\ i \in 1..(N - 1) /\ i + 1 \in 1..N
    BY <1>1
  <2>2. ls[i + 1].first = given[i + 1].first /\ given[i].last = ls[i].last
    BY <1>4, <2>1
  <2>3. given[i + 1].first = given[i].last + 1
    BY <1>5, <2>1
  <2> QED BY <1>1, <2>1, <2>2, <2>3
<1>8. i = N => line.last = n
  BY <1>1, <1>4, <1>5
<1> DEFINE OK(x, y) == MergedUpTo([lines |-> x, merged |-> y], given, L, n, i)
<1>9. ASSUME i # N PROVE OK([ls EXCEPT ![i + 1] = Join(line, @, @.speaker)], ms)
  <2> DEFINE next == ls[i + 1]
             joined == Join(line, next, next.speaker)
             x == [ls EXCEPT ![i + 1] = Join(line, @, @.speaker)]
  <2>1. i < N /\ i + 1 \in 1..N
    BY <1>1, <1>9
  <2>2. next \in L /\ next.first = line.last + 1
    BY <1>7, <2>1
  <2>3. joined \in L /\ joined.first = line.first /\ joined.last = next.last
    <3>1. line.first <= next.last
      <4>1. line.first \in Int /\ line.last \in Int /\ next.first \in Int /\ next.last \in Int
        BY <1>2, <1>6, <2>2
      <4>2. line.first <= line.last /\ next.first <= next.last
        BY <1>2, <1>6, <2>2
      <4> HIDE DEF next, line
      <4> QED BY <2>2, <4>1, <4>2
    <3> HIDE DEF next, line
    <3> QED BY <1>3, <1>6, <2>2, <3>1
  <2>4. x = [ls EXCEPT ![i + 1] = joined]
    OBVIOUS
  <2> HIDE DEF joined
  <2>5. /\ x \in Seq(L) /\ Len(x) = N
        /\ \A k \in 1..N : x[k] = IF k = i + 1 THEN joined ELSE ls[k]
    <3> HIDE DEF x, next
    <3> QED BY <1>1, <2>1, <2>3, <2>4
  <2> HIDE DEF x
  <2>6. \A k \in (i + 1)..N : x[k].last = given[k].last
    <3> SUFFICES ASSUME NEW k \in (i + 1)..N PROVE x[k].last = given[k].last
      OBVIOUS
    <3>1. k \in 1..N /\ k \in i..N
      BY <1>1
    <3>2. CASE k = i + 1
      BY <1>4, <2>3, <2>5, <3>1, <3>2
    <3>3. CASE k # i + 1
      BY <1>4, <2>5, <3>1, <3>3
    <3> QED BY <3>2, <3>3
  <2>7. \A k \in (i + 2)..N : x[k].first = given[k].first
    <3> SUFFICES ASSUME NEW k \in (i + 2)..N PROVE x[k].first = given[k].first
      OBVIOUS
    <3>1. k \in 1..N /\ k \in (i + 1)..N /\ k # i + 1
      BY <1>1
    <3> QED BY <1>4, <2>5, <3>1
  <2>8. Tiles(ms, 1, x[i + 1].first - 1)
    BY <1>4, <2>1, <2>3, <2>5
  <2> HIDE DEF next, line
  <2> DEFINE a == [lines |-> x, merged |-> ms]
  <2>9. a \in [lines : Seq(L), merged : Seq(L)] /\ a.lines = x /\ a.merged = ms
    BY <1>1, <2>5
  <2> HIDE DEF a
  <2>10. MergedUpTo(a, given, L, n, i)
    BY <1>9, <2>5, <2>6, <2>7, <2>8, <2>9 DEF MergedUpTo, N
  <2> QED BY <2>10 DEF a, x
<1>10. ASSUME NEW y \in Seq(L), Tiles(y, 1, line.last) PROVE OK(ls, y)
  <2> DEFINE a == [lines |-> ls, merged |-> y]
  <2>1. a \in [lines : Seq(L), merged : Seq(L)] /\ a.lines = ls /\ a.merged = y
    BY <1>1, <1>10
  <2>2. \A k \in (i + 1)..N : ls[k].last = given[k].last
    <3>1. \A k \in (i + 1)..N : k \in i..N
      BY <1>1
    <3> QED BY <1>4, <3>1
  <2>3. \A k \in (i + 2)..N : ls[k].first = given[k].first
    <3>1. \A k \in (i + 2)..N : k \in (i + 1)..N
      BY <1>1
    <3> QED BY <1>4, <3>1
  <2>4. i < N => Tiles(y, 1, ls[i + 1].first - 1)
    <3>1. line.last \in Int
      BY <1>2, <1>6
    <3>2. i < N => ls[i + 1].first - 1 = line.last
      <4> HIDE DEF line
      <4> QED BY <1>7, <3>1
    <3> QED BY <1>10, <3>2
  <2>5. i = N => Tiles(y, 1, n)
    BY <1>8, <1>10
  <2> HIDE DEF line, a
  <2>6. MergedUpTo(a, given, L, n, i)
    BY <1>1, <2>1, <2>2, <2>3, <2>4, <2>5 DEF MergedUpTo, N
  <2> QED BY <2>6 DEF a
<1>11. line.first \in Int /\ line.last \in Int /\ line.first <= line.last
  BY <1>2, <1>6
<1>12. ASSUME ms # <<>> PROVE OK(ls, Front(ms) \o <<Join(Last(ms), line, Last(ms).speaker)>>)
  <2> DEFINE last == Last(ms)
             joined == Join(last, line, last.speaker)
             y == Front(ms) \o <<joined>>
  <2>1. last \in L /\ last = ms[Len(ms)] /\ Len(ms) \in DOMAIN ms
    BY <1>1, <1>12 DEF Last
  <2>2. last.last = line.first - 1 /\ last.first \in Int /\ last.last \in Int
        /\ last.first <= last.last
    <3>1. ms[Len(ms)].last = line.first - 1
      BY <1>4, <1>12 DEF Tiles
    <3> HIDE DEF last
    <3> QED BY <1>2, <2>1, <3>1
  <2>3. joined \in L /\ joined.first = last.first /\ joined.last = line.last
    <3>1. last.first <= line.last
      <4> HIDE DEF last, line
      <4> QED BY <1>11, <2>2
    <3> HIDE DEF last, line
    <3> QED BY <1>3, <1>6, <2>1, <3>1
  <2> HIDE DEF joined
  <2>4. y \in Seq(L)
    BY <1>1, <1>12, <2>3, LastReplaced
  <2>5. line.first - 1 <= joined.last /\ joined.last \in Int
    <3> HIDE DEF line
    <3> QED BY <1>11, <2>3
  <2>6. Tiles(y, 1, joined.last)
    BY <1>1, <1>4, <1>12, <2>3, <2>5, LastTileGrows
  <2> HIDE DEF y, line, last
  <2>7. OK(ls, y)
    BY <1>10, <2>3, <2>4, <2>6
  <2> QED BY <2>7 DEF y, last, joined
<1>13. OK(ls, Append(ms, line))
  <2> DEFINE y == Append(ms, line)
             b == line.first - 1
  <2>1. b \in Int /\ line.first = b + 1 /\ 1 \in Int
    <3> HIDE DEF line
    <3> QED BY <1>11
  <2>2. Tiles(ms, 1, b)
    BY <1>4
  <2> HIDE DEF b, line
  <2>3. y \in Seq(L)
    BY <1>1, <1>6
  <2>4. Tiles(y, 1, line.last)
    BY <1>1, <1>6, <1>11, <2>1, <2>2, TileAdded
  <2> HIDE DEF y
  <2>5. OK(ls, y)
    BY <1>10, <2>3, <2>4
  <2> QED BY <2>5 DEF y
<1>14. \/ i # N /\ new = [lines |-> [ls EXCEPT ![i + 1] = Join(line, @, @.speaker)], merged |-> ms]
       \/ /\ ms # <<>>
          /\ new = [lines |-> ls,
                    merged |-> Front(ms) \o <<Join(Last(ms), line, Last(ms).speaker)>>]
       \/ new = [lines |-> ls, merged |-> Append(ms, line)]
  <2>1. \/ /\ i # Len(acc.lines)
           /\ new = [acc EXCEPT !.lines[i + 1] = Join(acc.lines[i], @, @.speaker)]
        \/ /\ acc.merged # <<>>
           /\ new = [acc EXCEPT !.merged =
                       Front(@) \o <<Join(Last(@), acc.lines[i], Last(@).speaker)>>]
        \/ new = [acc EXCEPT !.merged = Append(@, acc.lines[i])]
    BY MergeCases
  <2> HIDE DEF new
  <2>2. Len(acc.lines) = N
    BY <1>1 DEF ls
  <2> QED BY <1>1, <2>1, <2>2 DEF ls, ms
<1> HIDE DEF OK, new
<1>15. MergedUpTo(new, given, L, n, i)
  BY <1>9, <1>12, <1>13, <1>14 DEF OK
<1> QED BY <1>15 DEF new, L

\* Joining short lines to their neighbours loses no word.
LEMMA LinesMerged ==
  ASSUME NEW n \in Nat, NEW ws, NEW speakers, NEW given \in Seq(LinesOf(ws, n, speakers, FALSE)),
         Tiles(given, 1, n)
  PROVE  /\ MergeShortOrphans(ws, given) \in Seq(LinesOf(ws, n, speakers, FALSE))
         /\ Tiles(MergeShortOrphans(ws, given), 1, n)
<1> DEFINE L == LinesOf(ws, n, speakers, FALSE)
           N == Len(given)
           base == [lines |-> given, merged |-> <<>>]
           places == [i \in DOMAIN given |-> i]
           f == Merging!Trace(ws, 0, base, places, N)
           S == {k \in 0..N : MergedUpTo(f[k], given, L, n, k)}
<1>1. MergeShortOrphans(ws, given) = Merging!Fold(ws, 0, base, places).merged
  BY DEF MergeShortOrphans, Merging!Fold, MergeOp, FoldLeft, MapThenFoldSet, Max,
         Merging!FoldLeft, Merging!MapThenFoldSet, Merging!Max
<1>2. N \in Nat /\ DOMAIN places = 1..N /\ \A k \in 1..N : places[k] = k
  OBVIOUS
<1>3. MergedUpTo(base, given, L, n, 0)
  <2>1. base.lines = given /\ base.merged = <<>> /\ base \in [lines : Seq(L), merged : Seq(L)]
    <3>1. given \in Seq(L)
      OBVIOUS
    <3> HIDE DEF L
    <3> QED BY <3>1
  <2>2. N > 0 => given[1].first = 1
    BY <1>2 DEF Tiles
  <2>3. N = 0 => n = 0
    BY <1>2 DEF Tiles
  <2>4. Tiles(<<>>, 1, 0)
    BY DEF Tiles
  <2>5. 0 + 1 = 1 /\ 1 - 1 = 0
    OBVIOUS
  <2>6. N > 0 => Tiles(base.merged, 1, base.lines[0 + 1].first - 1)
    BY <2>1, <2>2, <2>4, <2>5
  <2>7. 0 = N => Tiles(base.merged, 1, n)
    BY <2>1, <2>3, <2>4
  <2> HIDE DEF base, L
  <2> QED BY <1>2, <2>1, <2>6, <2>7 DEF MergedUpTo
<1> HIDE DEF base, places
<1>4. /\ f[0] = base
      /\ \A k \in 1..N : f[k] = MergeOp(ws, 0, f[k - 1], places[k])
      /\ Merging!Fold(ws, 0, base, places) = f[N]
  BY <1>2, Merging!FoldTrace
<1> HIDE DEF f
<1>5. 0 \in S
  <2>1. 0 \in 0..N /\ MergedUpTo(f[0], given, L, n, 0)
    <3> HIDE DEF N, L
    <3> QED BY <1>2, <1>3, <1>4
  <2> QED BY <2>1
<1>6. ASSUME NEW k \in 1..N, k - 1 \in S PROVE k \in S
  <2>1. MergedUpTo(f[k - 1], given, L, n, k - 1)
    BY <1>6
  <2>2. f[k] = MergeLine(ws, f[k - 1], k)
    BY <1>2, <1>4 DEF MergeOp
  <2>3. MergedUpTo(f[k], given, L, n, k)
    BY <2>1, <2>2, MergeStep
  <2>4. k \in 0..N
    BY <1>2
  <2> QED BY <2>3, <2>4
<1> HIDE DEF S
<1>7. N \in S
  <2> HIDE DEF N
  <2> QED BY <1>2, <1>5, <1>6, StepInduction
<1>8. MergedUpTo(f[N], given, L, n, N)
  BY <1>7 DEF S
<1>9. MergeShortOrphans(ws, given) = f[N].merged
  BY <1>1, <1>4
<1>10. f[N].merged \in Seq(L) /\ Tiles(f[N].merged, 1, n)
  <2> HIDE DEF L
  <2> QED BY <1>8 DEF MergedUpTo
<1> QED BY <1>9, <1>10

-----------------------------------------------------------------------------
(* apply_speaker_review                                                    *)

\* The pieces of a line, each flagged as its words are.
PiecesOf(n, speakers, ids) ==
  {piece \in [speaker : speakers, first : 1..n, last : 1..n,
              ids : {ids[i] : i \in DOMAIN ids}] :
     \A i \in piece.first..piece.last : i \in DOMAIN ids /\ ids[i] = piece.ids}

ReviewOp(p, q, acc, k) == ReviewWord(p, q, acc, k)
Reviewing == INSTANCE FoldLemmas WITH Op <- ReviewOp

LEMMA ReviewStep ==
  ASSUME NEW n \in Nat, NEW speakers, NEW line, line.speaker \in speakers,
         NEW from \in 1..n, NEW to \in 1..n, line.first = from, line.last = to,
         NEW ids, DOMAIN ids = from..to,
         NEW pieces \in Seq(PiecesOf(n, speakers, ids)), NEW k \in 1..(to - from + 1),
         Tiles(pieces, from, from + k - 2)
  PROVE  /\ ReviewWord(line, ids, pieces, k) \in Seq(PiecesOf(n, speakers, ids))
         /\ Tiles(ReviewWord(line, ids, pieces, k), from, from + k - 1)
<1> DEFINE P == PiecesOf(n, speakers, ids)
           i == from + k - 1
           new == ReviewWord(line, ids, pieces, k)
<1>1. /\ i \in from..to /\ i \in 1..n /\ i \in Int /\ from + k - 2 = i - 1 /\ from \in Int
      /\ pieces \in Seq(P)
  OBVIOUS
<1>2. Tiles(pieces, from, i - 1)
  BY <1>1
<1>3. CASE k > 1 /\ ids[i] = ids[i - 1]
  <2> DEFINE last == Last(pieces)
             more == [last EXCEPT !.last = i]
  <2>1. new = Front(pieces) \o <<more>>
    BY <1>3 DEF ReviewWord
  <2>2. pieces # <<>>
    <3>1. i - 1 # from - 1
      BY <1>3
    <3> HIDE DEF i
    <3> QED BY <1>2, <3>1 DEF Tiles
  <2>3. last = pieces[Len(pieces)] /\ Len(pieces) \in DOMAIN pieces
    BY <2>2 DEF Last
  <2>4. last.last = i - 1 /\ last \in P
    <3>1. pieces[Len(pieces)].last = i - 1
      BY <1>2, <2>2 DEF Tiles
    <3>2. pieces[Len(pieces)] \in P
      <4> HIDE DEF P
      <4> QED BY <1>1, <2>3
    <3> HIDE DEF P, i, last
    <3> QED BY <2>3, <3>1, <3>2
  <2>5. /\ last \in [speaker : speakers, first : 1..n, last : 1..n,
                     ids : {ids[j] : j \in DOMAIN ids}]
        /\ \A j \in last.first..last.last : j \in DOMAIN ids /\ ids[j] = last.ids
        /\ last.first <= last.last
    <3>1. last.first <= last.last
      BY <1>2, <2>3 DEF Tiles
    <3> HIDE DEF last
    <3> QED BY <2>4, <3>1 DEF PiecesOf
  <2> HIDE DEF last
  <2>6. /\ more.first = last.first /\ more.last = i /\ more.ids = last.ids
        /\ more \in [speaker : speakers, first : 1..n, last : 1..n,
                     ids : {ids[j] : j \in DOMAIN ids}]
    <3> HIDE DEF i
    <3> QED BY <1>1, <2>5
  <2> HIDE DEF more, i
  <2>7. last.first \in Int /\ last.first <= i - 1 /\ i - 1 \in last.first..last.last
    BY <1>1, <2>4, <2>5
  <2>8. \A j \in more.first..more.last : j \in DOMAIN ids /\ ids[j] = more.ids
    <3> SUFFICES ASSUME NEW j \in last.first..i PROVE j \in DOMAIN ids /\ ids[j] = last.ids
      BY <2>6
    <3>1. CASE j = i
      BY <1>1, <1>3, <2>5, <2>7, <3>1
    <3>2. CASE j # i
      <4>1. j \in last.first..last.last
        BY <1>1, <2>4, <2>7, <3>2
      <4> QED BY <2>5, <4>1
    <3> QED BY <3>1, <3>2
  <2>9. more \in P
    BY <2>6, <2>8 DEF PiecesOf
  <2> HIDE DEF P
  <2>10. new \in Seq(P)
    BY <1>1, <2>1, <2>2, <2>9, LastReplaced
  <2>11. Tiles(new, from, more.last)
    <3>1. more.first = Last(pieces).first /\ more.last \in Int /\ i - 1 <= more.last
      BY <1>1, <2>6 DEF last
    <3>2. Tiles(Front(pieces) \o <<more>>, from, more.last)
      BY <1>1, <1>2, <2>2, <2>9, <3>1, LastTileGrows
    <3> QED BY <2>1, <3>2
  <2> HIDE DEF new
  <2> QED BY <2>6, <2>10, <2>11 DEF new, P, i
<1>4. CASE ~ (k > 1 /\ ids[i] = ids[i - 1])
  <2> DEFINE one == [speaker |-> line.speaker, first |-> i, last |-> i, ids |-> ids[i]]
  <2>1. new = Append(pieces, one)
    BY <1>4 DEF ReviewWord
  <2>2. /\ one.first = i /\ one.last = i
        /\ one \in P
    <3>1. \A j \in i..i : j = i
      BY <1>1
    <3> HIDE DEF i
    <3> QED BY <1>1, <3>1 DEF PiecesOf
  <2> HIDE DEF one, P
  <2>3. new \in Seq(P)
    BY <1>1, <2>1, <2>2
  <2>4. Tiles(Append(pieces, one), from, one.last)
    <3> DEFINE y == i - 1
    <3>1. y \in Int /\ one.first = y + 1 /\ one.last \in Int /\ one.first <= one.last
      BY <1>1, <2>2
    <3>2. Tiles(pieces, from, y)
      BY <1>2
    <3> HIDE DEF y
    <3> QED BY <1>1, <2>2, <3>1, <3>2, TileAdded
  <2> HIDE DEF new
  <2> QED BY <2>1, <2>2, <2>3, <2>4 DEF new, P, i
<1> QED BY <1>3, <1>4

\* Cutting a line whose words lie in these overlaps flags each piece as its words.
CutLine(line, ids) ==
  FoldLeft(LAMBDA pieces, k : ReviewWord(line, ids, pieces, k), <<>>,
           [k \in 1..(line.last - line.first + 1) |-> k])

LEMMA LineCut ==
  ASSUME NEW n \in Nat, NEW speakers, NEW line, line.speaker \in speakers,
         NEW from \in 1..n, NEW to \in 1..n, line.first = from, line.last = to, from <= to,
         NEW ids, DOMAIN ids = from..to
  PROVE  /\ CutLine(line, ids) \in Seq(PiecesOf(n, speakers, ids))
         /\ Tiles(CutLine(line, ids), from, to)
<1> DEFINE P == PiecesOf(n, speakers, ids)
           m == to - from + 1
           places == [k \in 1..m |-> k]
           none == <<>>
           f == Reviewing!Trace(line, ids, none, places, m)
           S == {k \in 0..m : f[k] \in Seq(P) /\ Tiles(f[k], from, from + k - 1)}
           parts == CutLine(line, ids)
<1>1. parts = Reviewing!Fold(line, ids, none, places)
  BY DEF CutLine, Reviewing!Fold, ReviewOp, FoldLeft, MapThenFoldSet, Max,
         Reviewing!FoldLeft, Reviewing!MapThenFoldSet, Reviewing!Max
<1> HIDE DEF parts
<1>2. m \in Nat /\ DOMAIN places = 1..m /\ \A k \in 1..m : places[k] = k
  OBVIOUS
<1> HIDE DEF places, none
<1>3. /\ f[0] = none
      /\ \A k \in 1..m : f[k] = ReviewOp(line, ids, f[k - 1], places[k])
      /\ Reviewing!Fold(line, ids, none, places) = f[m]
  <2>1. m \in Nat /\ DOMAIN places = 1..m
    BY <1>2
  <2> HIDE DEF m
  <2> QED BY <2>1, Reviewing!FoldTrace
<1> HIDE DEF f
<1>4. 0 \in S
  <2>1. <<>> \in Seq(P) /\ 0 \in 0..m
    <3> HIDE DEF P, m
    <3> QED BY <1>2
  <2>2. Tiles(<<>>, from, from + 0 - 1)
    BY DEF Tiles
  <2>3. f[0] = <<>>
    BY <1>3 DEF none
  <2> HIDE DEF P
  <2> QED BY <2>1, <2>2, <2>3
<1>5. ASSUME NEW k \in 1..m, k - 1 \in S PROVE k \in S
  <2> DEFINE before == f[k - 1]
  <2>1. before \in Seq(P) /\ Tiles(before, from, from + k - 2) /\ k \in 0..m
    <3>1. from + (k - 1) - 1 = from + k - 2 /\ k \in 0..m
      BY <1>2
    <3>2. before \in Seq(P) /\ Tiles(before, from, from + (k - 1) - 1)
      <4> HIDE DEF P
      <4> QED BY <1>5
    <3> QED BY <3>1, <3>2
  <2>2. f[k] = ReviewWord(line, ids, before, k)
    BY <1>2, <1>3 DEF ReviewOp
  <2> HIDE DEF before
  <2>3. k \in 1..(to - from + 1)
    OBVIOUS
  <2>4. /\ ReviewWord(line, ids, before, k) \in Seq(PiecesOf(n, speakers, ids))
        /\ Tiles(ReviewWord(line, ids, before, k), from, from + k - 1)
    BY <2>1, <2>3, ReviewStep
  <2>5. f[k] \in Seq(P) /\ Tiles(f[k], from, from + k - 1)
    BY <2>2, <2>4
  <2> QED BY <2>1, <2>5
<1> HIDE DEF S
<1>6. m \in S
  <2> HIDE DEF m
  <2> QED BY <1>2, <1>4, <1>5, StepInduction
<1>7. f[m] \in Seq(P) /\ Tiles(f[m], from, from + m - 1)
  BY <1>6 DEF S
<1>8. from + m - 1 = to
  OBVIOUS
<1>9. parts \in Seq(P) /\ Tiles(parts, from, to)
  BY <1>1, <1>3, <1>7, <1>8
<1> QED BY <1>9 DEF parts

\* The overlaps looked up for a line are all that its span and its words touch.
Suffice(near, ws, line, span, ovs) ==
  /\ near \subseteq DOMAIN ovs
  /\ Ids(span, near, ovs) = Ids(span, DOMAIN ovs, ovs)
  /\ \A i \in line.first..line.last : Ids(ws[i], near, ovs) = Ids(ws[i], DOMAIN ovs, ovs)

LEMMA CandidatesSuffice ==
  ASSUME NEW ws, NEW line, line.first \in Int, line.last \in Int,
         \A i \in line.first..line.last : Interval(ws[i]),
         NEW ovs, \A o \in DOMAIN ovs : Interval(ovs[o]), NEW span, Interval(span)
  PROVE  Suffice(Candidates(ws, line, span, ovs), ws, line, span, ovs)
<1> DEFINE I == line.first..line.last
           starts == {span.start} \cup Starts(ws, line)
           ends == {span.end} \cup Ends(ws, line)
           near == Candidates(ws, line, span, ovs)
           low == LineStart(ws, line, span)
           high == LineStop(ws, line, span)
<1>1. IsFiniteSet(I) /\ \A i \in I : ws[i].start \in Int /\ ws[i].end \in Int
  <2>1. IsFiniteSet(I)
    BY FS_Interval
  <2>2. \A i \in I : Interval(ws[i])
    OBVIOUS
  <2> HIDE DEF I
  <2> QED BY <2>1, <2>2 DEF Interval
<1>2. span.start \in Int /\ span.end \in Int
  BY DEF Interval
<1>3. low \in Int /\ \A x \in starts : low <= x
  <2> DEFINE g == [i \in I |-> ws[i].start]
             image == {g[i] : i \in I}
  <2>1. Starts(ws, line) = image
    BY DEF Starts
  <2>2. IsFiniteSet(image)
    <3> HIDE DEF g, I
    <3> QED BY <1>1, FiniteImage
  <2>3. image \subseteq Int
    BY <1>1
  <2> HIDE DEF image
  <2>4. IsFiniteSet(starts) /\ starts \subseteq Int /\ starts # {}
    BY <1>2, <2>1, <2>2, <2>3, FS_Singleton, FS_Union
  <2>5. low = Min(starts)
    BY DEF LineStart
  <2> HIDE DEF starts, low
  <2> QED BY <2>4, <2>5, Extrema
<1>4. high \in Int /\ \A x \in ends : x <= high
  <2> DEFINE g == [i \in I |-> ws[i].end]
             image == {g[i] : i \in I}
  <2>1. Ends(ws, line) = image
    BY DEF Ends
  <2>2. IsFiniteSet(image)
    <3> HIDE DEF g, I
    <3> QED BY <1>1, FiniteImage
  <2>3. image \subseteq Int
    BY <1>1
  <2> HIDE DEF image
  <2>4. IsFiniteSet(ends) /\ ends \subseteq Int /\ ends # {}
    BY <1>2, <2>1, <2>2, <2>3, FS_Singleton, FS_Union
  <2>5. high = Max(ends)
    BY DEF LineStop
  <2> HIDE DEF ends, high
  <2> QED BY <2>4, <2>5, Extrema
<1>5. near = {o \in DOMAIN ovs : ovs[o].end > low /\ ovs[o].start < high}
  BY DEF Candidates
<1>6. \A i \in I : ws[i].start \in starts /\ ws[i].end \in ends
  BY DEF Starts, Ends
<1>7. span.start \in starts /\ span.end \in ends
  OBVIOUS
<1>8. \A o \in DOMAIN ovs : ovs[o].start \in Int /\ ovs[o].end \in Int
  BY DEF Interval
<1> HIDE DEF starts, ends, low, high, near, I
<1>9. ASSUME NEW x, x.start \in Int, x.end \in Int, x.start \in starts, x.end \in ends
      PROVE  Ids(x, near, ovs) = Ids(x, DOMAIN ovs, ovs)
  <2>1. low <= x.start /\ x.end <= high
    BY <1>3, <1>4, <1>9
  <2>2. ASSUME NEW o \in DOMAIN ovs, x.start < ovs[o].end, x.end > ovs[o].start
        PROVE  o \in near
    BY <1>3, <1>4, <1>5, <1>8, <1>9, <2>1, <2>2
  <2>3. near \subseteq DOMAIN ovs
    BY <1>5
  <2> QED BY <2>2, <2>3 DEF Ids
<1>10. Ids(span, near, ovs) = Ids(span, DOMAIN ovs, ovs)
  BY <1>2, <1>7, <1>9
<1>11. \A i \in I : Ids(ws[i], near, ovs) = Ids(ws[i], DOMAIN ovs, ovs)
  BY <1>1, <1>6, <1>9
<1>12. near \subseteq DOMAIN ovs
  BY <1>5
<1> QED BY <1>10, <1>11, <1>12 DEF Suffice, near, I

\* The parts of a line, each with the words and the overlaps it should have.
PartsOf(ws, line, span, ovs, speakers) ==
  {part \in [speaker : speakers, first : Int, last : Int, ids : SUBSET (DOMAIN ovs)] :
     FlaggedAs(part, ws, line, span, ovs)}

\* Words are reviewed as they should be, in a line or in a segment.
LEMMA WordsReviewed ==
  ASSUME NEW n \in Nat, NEW ws, \A i \in 1..n : Interval(ws[i]),
         NEW ovs, \A o \in DOMAIN ovs : Interval(ovs[o]), NEW span, Interval(span),
         NEW speakers, NEW line, line.speaker \in speakers,
         NEW from \in Int, NEW to \in Int, line.first = from, line.last = to,
         from..to \subseteq 1..n
  PROVE  LET parts == ReviewWords(ws, line, span, ovs)
         IN /\ parts \in Seq(PartsOf(ws, line, span, ovs, speakers))
            /\ from <= to => Tiles(parts, from, to)
            /\ ~Divisible(ws, line) => Len(parts) = 1
<1> DEFINE parts == ReviewWords(ws, line, span, ovs)
           F == PartsOf(ws, line, span, ovs, speakers)
           near == Candidates(ws, line, span, ovs)
           ids == [i \in from..to |-> Ids(ws[i], near, ovs)]
           Touched(x) == Ids(x, DOMAIN ovs, ovs)
<1>1. /\ near \subseteq DOMAIN ovs /\ Ids(span, near, ovs) = Touched(span)
      /\ \A i \in from..to : Ids(ws[i], near, ovs) = Touched(ws[i])
  <2>1. \A i \in line.first..line.last : Interval(ws[i])
    <3>1. \A i \in from..to : Interval(ws[i])
      OBVIOUS
    <3> QED BY <3>1
  <2>2. line.first \in Int /\ line.last \in Int
    OBVIOUS
  <2>3. Suffice(Candidates(ws, line, span, ovs), ws, line, span, ovs)
    <3> HIDE DEF parts, F, near, ids, Touched
    <3> QED BY <2>1, <2>2, CandidatesSuffice
  <2> QED BY <2>3 DEF Suffice
<1>2. DOMAIN ids = from..to /\ \A i \in from..to : ids[i] = Touched(ws[i])
  BY <1>1
<1>3. \A x : Touched(x) \subseteq DOMAIN ovs
  BY DEF Ids
<1>4. Divisible(ws, line) <=> Anchored(ws, line)
  <2>1. from..to # {} <=> from <= to
    OBVIOUS
  <2> QED BY <2>1 DEF Divisible, Anchored
<1>5. CASE Anchored(ws, line)
  <2> DEFINE cut == CutLine(line, ids)
             P == PiecesOf(n, speakers, ids)
  <2>1. parts = cut
    BY <1>5 DEF ReviewWords, CutLine
  <2>2. from <= to /\ from \in 1..n /\ to \in 1..n
    <3>1. from <= to
      BY <1>5 DEF Anchored
    <3>2. from \in from..to /\ to \in from..to
      BY <3>1
    <3> HIDE DEF ids, near, cut, P, F, parts
    <3> QED BY <3>1, <3>2
  <2> HIDE DEF ids
  <2>3. cut \in Seq(P) /\ Tiles(cut, from, to)
    <3>1. DOMAIN ids = from..to
      BY <1>2
    <3> QED BY <2>2, <3>1, LineCut
  <2> HIDE DEF cut
  <2>4. ASSUME NEW k \in DOMAIN cut PROVE cut[k] \in F
    <3> DEFINE p == cut[k]
    <3>1. p \in P
      <4> HIDE DEF P
      <4> QED BY <2>3
    <3>2. p.first <= p.last
      BY <2>3 DEF Tiles
    <3> HIDE DEF p
    <3>3. /\ p \in [speaker : speakers, first : 1..n, last : 1..n, ids : {ids[i] : i \in DOMAIN ids}]
          /\ \A i \in p.first..p.last : i \in DOMAIN ids /\ ids[i] = p.ids
      BY <3>1 DEF PiecesOf
    <3>4. {ids[i] : i \in DOMAIN ids} \subseteq SUBSET (DOMAIN ovs)
      BY <1>2, <1>3
    <3>5. p \in [speaker : speakers, first : Int, last : Int, ids : SUBSET (DOMAIN ovs)]
      BY <3>3, <3>4
    <3>6. \A i \in p.first..p.last : p.ids = Touched(ws[i])
      BY <1>2, <3>3
    <3>7. p.first \in from..to /\ p.last \in from..to
      <4>1. p.first \in p.first..p.last /\ p.last \in p.first..p.last
        BY <3>2, <3>3
      <4> QED BY <1>2, <3>3, <4>1
    <3>8. FlaggedAs(p, ws, line, span, ovs)
      BY <1>4, <1>5, <3>2, <3>6, <3>7 DEF FlaggedAs
    <3>9. p \in F
      BY <3>5, <3>8 DEF PartsOf
    <3> QED BY <3>9 DEF p
  <2> HIDE DEF P, F
  <2>5. cut \in Seq(F)
    BY <2>3, <2>4
  <2> QED BY <1>4, <1>5, <2>1, <2>3, <2>5 DEF F, parts
<1>6. CASE ~Anchored(ws, line)
  <2> DEFINE one == [speaker |-> line.speaker, first |-> from, last |-> to,
                     ids |-> Ids(span, near, ovs) \cup UNION {ids[i] : i \in DOMAIN ids}]
  <2>1. parts = <<one>>
    BY <1>6 DEF ReviewWords
  <2>2. UNION {ids[i] : i \in DOMAIN ids} = UNION {Touched(ws[i]) : i \in from..to}
    BY <1>2
  <2>3. one.ids = Touched(span) \cup UNION {Touched(ws[i]) : i \in from..to}
    BY <1>1, <2>2
  <2>4. one.ids \subseteq DOMAIN ovs
    BY <1>3, <2>3
  <2>5. /\ one \in [speaker : speakers, first : Int, last : Int, ids : SUBSET (DOMAIN ovs)]
        /\ one.first = from /\ one.last = to
    BY <2>4
  <2> HIDE DEF one
  <2>6. FlaggedAs(one, ws, line, span, ovs)
    BY <1>4, <1>6, <2>3, <2>5 DEF FlaggedAs
  <2>7. one \in F
    BY <2>5, <2>6 DEF PartsOf
  <2>8. <<one>> \in Seq(F) /\ Len(<<one>>) = 1
    <3> HIDE DEF F
    <3> QED BY <2>7
  <2>9. from <= to => Tiles(<<one>>, from, to)
    BY <2>5, OneTile
  <2> QED BY <2>1, <2>8, <2>9
<1> QED BY <1>5, <1>6

\* The review of a transcript keeps its words, and its lines stem from those
\* reviewed and are flagged as they should be.
ReviewedLines(ws, given, ovs, speakers) ==
  {flagged \in [speaker : speakers, first : Int, last : Int, ids : SUBSET (DOMAIN ovs)] :
     \E k \in DOMAIN given :
       FlaggedAs(flagged, ws, given[k], LineSpan(ws, given[k]), ovs)}

LEMMA LinesReviewed ==
  ASSUME NEW n \in Nat, NEW ws, \A i \in 1..n : Interval(ws[i]),
         NEW ovs, \A o \in DOMAIN ovs : Interval(ovs[o]),
         NEW speakers, NEW given \in Seq(LinesOf(ws, n, speakers, FALSE)), Tiles(given, 1, n)
  PROVE  /\ ApplySpeakerReview(ws, given, ovs) \in Seq(ReviewedLines(ws, given, ovs, speakers))
         /\ Tiles(ApplySpeakerReview(ws, given, ovs), 1, n)
<1> DEFINE L == LinesOf(ws, n, speakers, FALSE)
           F == ReviewedLines(ws, given, ovs, speakers)
           N == Len(given)
           seqs == [k \in DOMAIN given |-> ReviewLine(ws, given[k], ovs)]
           f == Flattening(seqs)
           upto(k) == IF k = 0 THEN 0 ELSE given[k].last
           S == {k \in 0..N : f[k] \in Seq(F) /\ Tiles(f[k], 1, upto(k))}
<1>1. N \in Nat /\ DOMAIN given = 1..N /\ \A k \in 1..N : given[k] \in L
  <2>1. given \in Seq(L)
    OBVIOUS
  <2> HIDE DEF L
  <2> QED BY <2>1
<1>2. \A k \in 1..N : /\ given[k].first \in 1..n /\ given[k].last \in 1..n
                     /\ given[k].first <= given[k].last /\ given[k].speaker \in speakers
  BY <1>1 DEF LinesOf
<1>3. \A k \in 1..N : seqs[k] \in Seq(F) /\ Tiles(seqs[k], given[k].first, given[k].last)
  <2> SUFFICES ASSUME NEW k \in 1..N
               PROVE  seqs[k] \in Seq(F) /\ Tiles(seqs[k], given[k].first, given[k].last)
    OBVIOUS
  <2> DEFINE line == given[k]
             span == LineSpan(ws, line)
             from == line.first
             to == line.last
             P == PartsOf(ws, line, span, ovs, speakers)
  <2>1. /\ from \in 1..n /\ to \in 1..n /\ from <= to /\ line.speaker \in speakers
        /\ seqs[k] = ReviewWords(ws, line, span, ovs)
    BY <1>1, <1>2 DEF ReviewLine
  <2>2. Interval(span)
    BY <2>1 DEF LineSpan, Interval
  <2> HIDE DEF line, seqs, span
  <2>3. from \in Int /\ to \in Int /\ from..to \subseteq 1..n
    BY <2>1
  <2>4. seqs[k] \in Seq(P) /\ Tiles(seqs[k], from, to)
    <3> DEFINE a == from
               b == to
    <3>1. /\ a \in Int /\ b \in Int /\ line.first = a /\ line.last = b /\ a..b \subseteq 1..n
          /\ a <= b /\ line.speaker \in speakers
      BY <2>1, <2>3
    <3> HIDE DEF a, b
    <3>2. LET parts == ReviewWords(ws, line, span, ovs)
          IN parts \in Seq(PartsOf(ws, line, span, ovs, speakers)) /\ Tiles(parts, a, b)
      BY <2>2, <3>1, WordsReviewed
    <3> QED BY <2>1, <3>2 DEF a, b
  <2>5. P \subseteq F
    BY <1>1 DEF PartsOf, ReviewedLines, line, span
  <2>6. seqs[k] \in Seq(F)
    <3> HIDE DEF P, F
    <3> QED BY <2>4, <2>5
  <2> QED BY <2>4, <2>6 DEF line
<1>4. \A k \in 1..N : given[k].first = upto(k - 1) + 1
  <2> SUFFICES ASSUME NEW k \in 1..N PROVE given[k].first = upto(k - 1) + 1
    OBVIOUS
  <2>1. CASE k = 1
    <3>1. given # <<>>
      BY <1>1
    <3> QED BY <2>1, <3>1 DEF Tiles
  <2>2. CASE k # 1
    <3>1. k - 1 \in 1..(N - 1) /\ (k - 1) + 1 = k /\ k - 1 # 0
      BY <1>1, <2>2
    <3>2. given[(k - 1) + 1].first = given[k - 1].last + 1
      BY <3>1 DEF Tiles
    <3> QED BY <3>1, <3>2
  <2> QED BY <2>1, <2>2
<1>5. DOMAIN seqs = 1..N /\ seqs \in Seq(Seq(F)) /\ Len(seqs) = N
  <2>1. DOMAIN seqs = 1..N /\ seqs = [k \in 1..N |-> seqs[k]]
    BY <1>1
  <2> HIDE DEF seqs, N, F
  <2> QED BY <1>1, <1>3, <2>1
<1>6. upto(N) = n
  <2>1. CASE N = 0
    <3>1. given = <<>>
      BY <2>1
    <3> QED BY <2>1, <3>1 DEF Tiles
  <2>2. CASE N # 0
    <3>1. given # <<>>
      BY <2>2
    <3> QED BY <2>2, <3>1 DEF Tiles
  <2> QED BY <2>1, <2>2
<1>7. ApplySpeakerReview(ws, given, ovs) = FlattenSeq(seqs)
  BY DEF ApplySpeakerReview
<1> HIDE DEF seqs, F, N
<1>8. /\ f[0] = <<>>
      /\ \A k \in 1..N : f[k] = f[k - 1] \o seqs[k]
      /\ FlattenSeq(seqs) = f[N]
  BY <1>5, FlattenTrace
<1> HIDE DEF f
<1>9. \A k \in 0..N : upto(k) \in Int
  BY <1>2
<1> HIDE DEF upto
<1>10. 0 \in S
  <2>1. Tiles(<<>>, 1, 0) /\ <<>> \in Seq(F) /\ 0 \in 0..N
    BY <1>1 DEF Tiles
  <2> QED BY <1>8, <2>1 DEF upto
<1>11. ASSUME NEW k \in 1..N, k - 1 \in S PROVE k \in S
  <2> DEFINE a == f[k - 1]
             b == seqs[k]
             y == upto(k - 1)
             z == upto(k)
  <2>1. k \in 0..N /\ k - 1 \in 0..N
    BY <1>1
  <2>2. a \in Seq(F) /\ Tiles(a, 1, y) /\ y \in Int /\ z \in Int /\ 1 \in Int
    BY <1>9, <1>11, <2>1
  <2>3. b \in Seq(F) /\ Tiles(b, y + 1, z)
    <3>1. given[k].first = y + 1 /\ z = given[k].last
      BY <1>1, <1>4 DEF upto
    <3> QED BY <1>3, <3>1
  <2>4. f[k] = a \o b
    BY <1>8
  <2> HIDE DEF a, b, y, z
  <2>5. a \o b \in Seq(F) /\ Tiles(a \o b, 1, z)
    BY <2>2, <2>3, TilesJoin
  <2> QED BY <2>1, <2>4, <2>5 DEF z
<1> HIDE DEF S
<1>12. N \in S
  BY <1>1, <1>10, <1>11, StepInduction
<1>13. f[N] \in Seq(F) /\ Tiles(f[N], 1, n)
  BY <1>6, <1>12 DEF S
<1> QED BY <1>7, <1>8, <1>13 DEF F

-----------------------------------------------------------------------------
(* detect_overlaps                                                         *)

\* on gives the voices at each time; the intervals found before now.
IntervalsUpTo(ivs, on, now) ==
  /\ ivs \in Seq([start : Nat, end : Nat, count : Nat])
  /\ \A o \in DOMAIN ivs : ivs[o].start < ivs[o].end /\ ivs[o].end <= now
  /\ \A o, p \in DOMAIN ivs : o < p => ivs[o].end <= ivs[p].start
  /\ \A o \in DOMAIN ivs : \A t \in ivs[o].start..(ivs[o].end - 1) :
       ivs[o].count = Cardinality(on[t]) /\ ivs[o].count >= 2
  /\ \A o \in DOMAIN ivs : \A t \in ivs[o].start..(ivs[o].end - 2) : on[t] = on[t + 1]
  /\ \A o \in 2..Len(ivs) :
       ivs[o].start = ivs[o - 1].end => on[ivs[o].start] # on[ivs[o].start - 1]
  /\ \A t \in 0..(now - 1) : Cardinality(on[t]) >= 2 =>
       \E o \in DOMAIN ivs : ivs[o].start <= t /\ t < ivs[o].end

LEMMA IntervalTypes ==
  ASSUME NEW ivs, NEW on, NEW now \in Nat, IntervalsUpTo(ivs, on, now)
  PROVE  /\ Len(ivs) \in Nat /\ DOMAIN ivs = 1..Len(ivs)
         /\ \A o \in DOMAIN ivs :
              /\ ivs[o].start \in Nat /\ ivs[o].end \in Nat /\ ivs[o].count \in Nat
              /\ ivs[o].start < ivs[o].end /\ ivs[o].end <= now
<1> DEFINE R == [start : Nat, end : Nat, count : Nat]
<1>1. ivs \in Seq(R)
  BY DEF IntervalsUpTo
<1>2. \A r \in R : r.start \in Nat /\ r.end \in Nat /\ r.count \in Nat
  OBVIOUS
<1> HIDE DEF R
<1>3. \A o \in DOMAIN ivs : ivs[o] \in R
  BY <1>1
<1>4. \A o \in DOMAIN ivs : ivs[o].start < ivs[o].end /\ ivs[o].end <= now
  BY DEF IntervalsUpTo
<1> QED BY <1>1, <1>2, <1>3, <1>4

\* Fewer than two voices for a while.
LEMMA NobodyOverlaps ==
  ASSUME NEW ivs, NEW on, NEW now \in Nat, IntervalsUpTo(ivs, on, now),
         NEW next \in Nat, now <= next,
         \A t \in now..(next - 1) : ~ (Cardinality(on[t]) >= 2)
  PROVE  IntervalsUpTo(ivs, on, next)
<1>1. \A o \in DOMAIN ivs : ivs[o].end <= next
  BY IntervalTypes
<1>2. \A t \in 0..(next - 1) : Cardinality(on[t]) >= 2 =>
        \E o \in DOMAIN ivs : ivs[o].start <= t /\ t < ivs[o].end
  <2> SUFFICES ASSUME NEW t \in 0..(next - 1), Cardinality(on[t]) >= 2
               PROVE  \E o \in DOMAIN ivs : ivs[o].start <= t /\ t < ivs[o].end
    OBVIOUS
  <2>1. t \in 0..(now - 1)
    <3>1. t \notin now..(next - 1)
      OBVIOUS
    <3> QED BY <3>1
  <2> QED BY <2>1 DEF IntervalsUpTo
<1> QED BY <1>1, <1>2 DEF IntervalsUpTo

\* Other voices than before: a new interval.
LEMMA IntervalAdded ==
  ASSUME NEW ivs, NEW on, NEW now \in Nat, IntervalsUpTo(ivs, on, now),
         NEW next \in Nat, now < next, NEW voices,
         \A t \in now..(next - 1) : on[t] = voices,
         Cardinality(voices) \in Nat, Cardinality(voices) >= 2,
         ivs # <<>> /\ Last(ivs).end = now => on[now - 1] # voices
  PROVE  IntervalsUpTo(Append(ivs, [start |-> now, end |-> next, count |-> Cardinality(voices)]),
                       on, next)
<1> DEFINE R == [start : Nat, end : Nat, count : Nat]
           n == Len(ivs)
           e == [start |-> now, end |-> next, count |-> Cardinality(voices)]
           new == Append(ivs, e)
<1>1. ivs \in Seq(R) /\ e \in R /\ n \in Nat /\ DOMAIN ivs = 1..n
  BY DEF IntervalsUpTo
<1>2. e.start = now /\ e.end = next /\ e.count = Cardinality(voices)
  OBVIOUS
<1>3. \A o \in 1..n : /\ ivs[o].start \in Nat /\ ivs[o].end \in Nat
                      /\ ivs[o].start < ivs[o].end /\ ivs[o].end <= now
  BY <1>1, IntervalTypes
<1> HIDE DEF R, e
<1>4. /\ new \in Seq(R) /\ Len(new) = n + 1 /\ new[n + 1] = e
      /\ \A o \in 1..n : new[o] = ivs[o]
  BY <1>1
<1> HIDE DEF new
<1>5. DOMAIN new = 1..(n + 1)
  BY <1>1, <1>4
<1>6. \A o \in 1..(n + 1) : new[o].start < new[o].end /\ new[o].end <= next
  <2> SUFFICES ASSUME NEW o \in 1..(n + 1) PROVE new[o].start < new[o].end /\ new[o].end <= next
    OBVIOUS
  <2>1. CASE o = n + 1
    BY <1>2, <1>4, <2>1
  <2>2. CASE o # n + 1
    <3>1. o \in 1..n
      BY <1>1, <2>2
    <3> QED BY <1>3, <1>4, <3>1
  <2> QED BY <2>1, <2>2
<1>7. \A o, p \in 1..(n + 1) : o < p => new[o].end <= new[p].start
  <2> SUFFICES ASSUME NEW o \in 1..(n + 1), NEW p \in 1..(n + 1), o < p
               PROVE  new[o].end <= new[p].start
    OBVIOUS
  <2>1. o \in 1..n
    BY <1>1
  <2>2. CASE p = n + 1
    BY <1>2, <1>3, <1>4, <2>1, <2>2
  <2>3. CASE p # n + 1
    <3>1. p \in 1..n
      BY <1>1, <2>3
    <3> QED BY <1>1, <1>4, <2>1, <3>1 DEF IntervalsUpTo
  <2> QED BY <2>2, <2>3
<1>8. \A o \in 1..(n + 1) : \A t \in new[o].start..(new[o].end - 1) :
        new[o].count = Cardinality(on[t]) /\ new[o].count >= 2
  <2> SUFFICES ASSUME NEW o \in 1..(n + 1), NEW t \in new[o].start..(new[o].end - 1)
               PROVE  new[o].count = Cardinality(on[t]) /\ new[o].count >= 2
    OBVIOUS
  <2>1. CASE o = n + 1
    <3>1. t \in now..(next - 1) /\ new[o].count = Cardinality(voices)
      BY <1>2, <1>4, <2>1
    <3> QED BY <3>1
  <2>2. CASE o # n + 1
    <3>1. o \in 1..n
      BY <1>1, <2>2
    <3>2. new[o] = ivs[o] /\ t \in ivs[o].start..(ivs[o].end - 1)
      BY <1>4, <3>1
    <3> QED BY <1>1, <3>1, <3>2 DEF IntervalsUpTo
  <2> QED BY <2>1, <2>2
<1>9. \A o \in 1..(n + 1) : \A t \in new[o].start..(new[o].end - 2) : on[t] = on[t + 1]
  <2> SUFFICES ASSUME NEW o \in 1..(n + 1), NEW t \in new[o].start..(new[o].end - 2)
               PROVE  on[t] = on[t + 1]
    OBVIOUS
  <2>1. CASE o = n + 1
    <3>1. t \in now..(next - 2)
      BY <1>2, <1>4, <2>1
    <3>2. t \in now..(next - 1) /\ t + 1 \in now..(next - 1)
      BY <3>1
    <3> QED BY <3>2
  <2>2. CASE o # n + 1
    <3>1. o \in 1..n
      BY <1>1, <2>2
    <3>2. new[o] = ivs[o] /\ t \in ivs[o].start..(ivs[o].end - 2)
      BY <1>4, <3>1
    <3> QED BY <1>1, <3>1, <3>2 DEF IntervalsUpTo
  <2> QED BY <2>1, <2>2
<1>10. \A o \in 2..(n + 1) :
         new[o].start = new[o - 1].end => on[new[o].start] # on[new[o].start - 1]
  <2> SUFFICES ASSUME NEW o \in 2..(n + 1), new[o].start = new[o - 1].end
               PROVE  on[new[o].start] # on[new[o].start - 1]
    OBVIOUS
  <2>1. CASE o = n + 1
    <3>1. n \in 1..n /\ o - 1 = n
      BY <1>1, <2>1
    <3>2. ivs # <<>> /\ Last(ivs) = ivs[n]
      BY <3>1 DEF Last
    <3>3. new[o].start = now /\ ivs[n].end = now
      BY <1>2, <1>4, <2>1, <3>1
    <3>4. on[now - 1] # voices
      BY <3>2, <3>3
    <3>5. on[now] = voices
      <4>1. now \in now..(next - 1)
        OBVIOUS
      <4> QED BY <4>1
    <3> QED BY <3>3, <3>4, <3>5
  <2>2. CASE o # n + 1
    <3>1. o \in 2..n /\ o \in 1..n /\ o - 1 \in 1..n
      BY <1>1, <2>2
    <3>2. new[o] = ivs[o] /\ new[o - 1] = ivs[o - 1]
      BY <1>4, <3>1
    <3> QED BY <1>1, <3>1, <3>2 DEF IntervalsUpTo
  <2> QED BY <2>1, <2>2
<1>11. \A t \in 0..(next - 1) : Cardinality(on[t]) >= 2 =>
         \E o \in 1..(n + 1) : new[o].start <= t /\ t < new[o].end
  <2> SUFFICES ASSUME NEW t \in 0..(next - 1), Cardinality(on[t]) >= 2
               PROVE  \E o \in 1..(n + 1) : new[o].start <= t /\ t < new[o].end
    OBVIOUS
  <2>1. CASE t < now
    <3>1. t \in 0..(now - 1)
      BY <2>1
    <3>2. PICK o \in DOMAIN ivs : ivs[o].start <= t /\ t < ivs[o].end
      BY <3>1 DEF IntervalsUpTo
    <3>3. o \in 1..(n + 1) /\ new[o] = ivs[o]
      BY <1>1, <1>4
    <3> QED BY <3>2, <3>3
  <2>2. CASE ~ (t < now)
    <3>1. n + 1 \in 1..(n + 1) /\ now <= t /\ t < next
      BY <1>1, <2>2
    <3> QED BY <1>2, <1>4, <3>1
  <2> QED BY <2>1, <2>2
<1>12. IntervalsUpTo(new, on, next)
  BY <1>4, <1>5, <1>6, <1>7, <1>8, <1>9, <1>10, <1>11 DEF IntervalsUpTo, R
<1> QED BY <1>12 DEF new, e

\* The same voices as before: the last interval goes on.
LEMMA IntervalGrows ==
  ASSUME NEW ivs, NEW on, NEW now \in Nat, IntervalsUpTo(ivs, on, now),
         NEW next \in Nat, now < next, NEW voices,
         \A t \in now..(next - 1) : on[t] = voices,
         ivs # <<>>, Last(ivs).end = now, on[now - 1] = voices
  PROVE  IntervalsUpTo(Front(ivs) \o <<[Last(ivs) EXCEPT !.end = next]>>, on, next)
<1> DEFINE R == [start : Nat, end : Nat, count : Nat]
           n == Len(ivs)
           e == [Last(ivs) EXCEPT !.end = next]
           new == Front(ivs) \o <<e>>
<1>1. ivs \in Seq(R) /\ n \in Nat /\ n >= 1 /\ DOMAIN ivs = 1..n /\ n \in 1..n
  <2>1. ivs \in Seq(R)
    BY DEF IntervalsUpTo
  <2> HIDE DEF R
  <2> QED BY <2>1
<1>2. Last(ivs) = ivs[n] /\ ivs[n].end = now /\ ivs[n] \in R
  <2>1. Last(ivs) = ivs[n]
    BY DEF Last
  <2> HIDE DEF R, n
  <2> QED BY <1>1, <2>1
<1>3. e \in R /\ e.start = ivs[n].start /\ e.end = next /\ e.count = ivs[n].count
  BY <1>2
<1>4. \A o \in 1..n : /\ ivs[o].start \in Nat /\ ivs[o].end \in Nat
                      /\ ivs[o].start < ivs[o].end /\ ivs[o].end <= now
  BY <1>1, IntervalTypes
<1> HIDE DEF R, e
<1>5. /\ new \in Seq(R) /\ Len(new) = n
      /\ \A o \in 1..n : new[o] = IF o = n THEN e ELSE ivs[o]
  BY <1>1, <1>3, LastReplaced, ZenonT(60)
<1> HIDE DEF new
<1> HIDE DEF n
<1>6. DOMAIN new = 1..n
  BY <1>1, <1>5
<1>7. \A o \in 1..n : new[o].start = ivs[o].start /\ new[o].count = ivs[o].count
  BY <1>3, <1>5
<1>8. \A o \in 1..n : o # n => new[o].end = ivs[o].end
  BY <1>5
<1>9. new[n].end = next
  BY <1>1, <1>3, <1>5
<1>10. \A o \in 1..n : new[o].start < new[o].end /\ new[o].end <= next
  <2> SUFFICES ASSUME NEW o \in 1..n PROVE new[o].start < new[o].end /\ new[o].end <= next
    OBVIOUS
  <2>1. CASE o = n
    BY <1>2, <1>4, <1>7, <1>9, <2>1
  <2>2. CASE o # n
    BY <1>4, <1>7, <1>8, <2>2
  <2> QED BY <2>1, <2>2
<1>11. \A o, p \in 1..n : o < p => new[o].end <= new[p].start
  <2> SUFFICES ASSUME NEW o \in 1..n, NEW p \in 1..n, o < p PROVE new[o].end <= new[p].start
    OBVIOUS
  <2>1. o # n
    BY <1>1
  <2>2. ivs[o].end <= ivs[p].start
    BY <1>1 DEF IntervalsUpTo
  <2> QED BY <1>7, <1>8, <2>1, <2>2
<1>12. \A t \in (now - 1)..(next - 1) : on[t] = voices
  <2> SUFFICES ASSUME NEW t \in (now - 1)..(next - 1) PROVE on[t] = voices
    OBVIOUS
  <2>1. CASE t = now - 1
    BY <2>1
  <2>2. CASE t # now - 1
    <3>1. t \in now..(next - 1)
      BY <2>2
    <3> QED BY <3>1
  <2> QED BY <2>1, <2>2
<1>13. \A o \in 1..n : \A t \in new[o].start..(new[o].end - 1) :
         new[o].count = Cardinality(on[t]) /\ new[o].count >= 2
  <2> SUFFICES ASSUME NEW o \in 1..n, NEW t \in new[o].start..(new[o].end - 1)
               PROVE  new[o].count = Cardinality(on[t]) /\ new[o].count >= 2
    OBVIOUS
  <2>1. CASE o # n \/ t < now
    <3>1. t \in ivs[o].start..(ivs[o].end - 1)
      BY <1>2, <1>4, <1>7, <1>8, <2>1
    <3>2. ivs[o].count = Cardinality(on[t]) /\ ivs[o].count >= 2
      BY <1>1, <3>1 DEF IntervalsUpTo
    <3> QED BY <1>7, <3>2
  <2>2. CASE o = n /\ ~ (t < now)
    <3>1. t \in (now - 1)..(next - 1) /\ now - 1 \in (now - 1)..(next - 1)
      BY <1>4, <1>7, <1>9, <2>2
    <3>2. now - 1 \in ivs[n].start..(ivs[n].end - 1)
      BY <1>1, <1>2, <1>4
    <3>3. ivs[n].count = Cardinality(on[now - 1]) /\ ivs[n].count >= 2
      BY <1>1, <3>2 DEF IntervalsUpTo
    <3>4. on[t] = on[now - 1]
      BY <1>12, <3>1
    <3> QED BY <1>7, <2>2, <3>3, <3>4
  <2> QED BY <2>1, <2>2
<1>14. \A o \in 1..n : \A t \in new[o].start..(new[o].end - 2) : on[t] = on[t + 1]
  <2> SUFFICES ASSUME NEW o \in 1..n, NEW t \in new[o].start..(new[o].end - 2)
               PROVE  on[t] = on[t + 1]
    OBVIOUS
  <2>1. CASE o # n \/ t < now - 1
    <3>1. t \in ivs[o].start..(ivs[o].end - 2)
      BY <1>2, <1>4, <1>7, <1>8, <2>1
    <3> QED BY <1>1, <3>1 DEF IntervalsUpTo
  <2>2. CASE o = n /\ ~ (t < now - 1)
    <3>1. t \in (now - 1)..(next - 1) /\ t + 1 \in (now - 1)..(next - 1)
      BY <1>4, <1>7, <1>9, <2>2
    <3> QED BY <1>12, <3>1
  <2> QED BY <2>1, <2>2
<1>15. \A o \in 2..n :
         new[o].start = new[o - 1].end => on[new[o].start] # on[new[o].start - 1]
  <2> SUFFICES ASSUME NEW o \in 2..n, new[o].start = new[o - 1].end
               PROVE  on[new[o].start] # on[new[o].start - 1]
    OBVIOUS
  <2>1. o \in 1..n /\ o - 1 \in 1..n /\ o - 1 # n
    BY <1>1
  <2>2. ivs[o].start = ivs[o - 1].end
    BY <1>7, <1>8, <2>1
  <2>3. on[ivs[o].start] # on[ivs[o].start - 1]
    BY <2>2 DEF IntervalsUpTo, n
  <2> QED BY <1>7, <2>1, <2>3
<1>16. \A t \in 0..(next - 1) : Cardinality(on[t]) >= 2 =>
         \E o \in 1..n : new[o].start <= t /\ t < new[o].end
  <2> SUFFICES ASSUME NEW t \in 0..(next - 1), Cardinality(on[t]) >= 2
               PROVE  \E o \in 1..n : new[o].start <= t /\ t < new[o].end
    OBVIOUS
  <2>1. CASE t < now
    <3>1. t \in 0..(now - 1)
      BY <2>1
    <3>2. PICK o \in 1..n : ivs[o].start <= t /\ t < ivs[o].end
      BY <1>1, <3>1 DEF IntervalsUpTo
    <3>3. CASE o = n
      BY <1>7, <1>9, <3>2, <3>3
    <3>4. CASE o # n
      BY <1>7, <1>8, <3>2, <3>4
    <3> QED BY <3>3, <3>4
  <2>2. CASE ~ (t < now)
    BY <1>1, <1>2, <1>4, <1>7, <1>9, <2>2, SMTT(40)
  <2> QED BY <2>1, <2>2
<1>17. IntervalsUpTo(new, on, next)
  BY <1>5, <1>6, <1>10, <1>11, <1>13, <1>14, <1>15, <1>16 DEF IntervalsUpTo, R
<1> QED BY <1>17 DEF new, e

\* When the turns of the sweep begin, all its times, and who speaks at each.
Begins(ts, i) == Clipped(ts[i]).start
Times(ts) == UNION {{Begins(ts, i), ts[i].end} : i \in Voiced(ts)}
On(ts) == [t \in Nat |-> {ts[i].speaker : i \in {k \in DOMAIN ts : ts[k].start <= t /\ t < ts[k].end}}]

\* The sweep stands after its k-th time.
At(ts, k) == IF k = 0 THEN -1 ELSE EventTimes(ts)[k]

\* The turns of a voice that the sweep is in.
Within(ts, v, t) ==
  {i \in {k \in Voiced(ts) : ts[k].speaker = v} : Begins(ts, i) <= t /\ t < ts[i].end}

LEMMA VoicedFacts ==
  ASSUME NEW ts, TurnsOK(ts)
  PROVE  /\ Voiced(ts) \subseteq DOMAIN ts /\ IsFiniteSet(Voiced(ts))
         /\ \A i \in Voiced(ts) : /\ Begins(ts, i) \in Nat /\ ts[i].end \in Nat
                                  /\ Begins(ts, i) < ts[i].end
                                  /\ \A t \in Nat : Begins(ts, i) <= t <=> ts[i].start <= t
         /\ \A i \in DOMAIN ts : \A t \in Nat :
              ts[i].start <= t /\ t < ts[i].end => i \in Voiced(ts)
<1> DEFINE R == [start : Int, end : Int, speaker : {ts[i].speaker : i \in DOMAIN ts}]
           n == Len(ts)
<1>1. /\ n \in Nat /\ DOMAIN ts = 1..n
      /\ \A i \in DOMAIN ts : ts[i] \in R /\ ts[i].start \in Int /\ ts[i].end \in Int
  <2>1. ts \in Seq(R)
    BY DEF TurnsOK
  <2>2. \A r \in R : r.start \in Int /\ r.end \in Int
    OBVIOUS
  <2> HIDE DEF R
  <2> QED BY <2>1, <2>2
<1>2. \A i \in DOMAIN ts : /\ Begins(ts, i) = IF ts[i].start <= 0 THEN 0 ELSE ts[i].start
                           /\ Clipped(ts[i]).end = ts[i].end
  <2> SUFFICES ASSUME NEW i \in DOMAIN ts
               PROVE  /\ Begins(ts, i) = IF ts[i].start <= 0 THEN 0 ELSE ts[i].start
                      /\ Clipped(ts[i]).end = ts[i].end
    OBVIOUS
  <2> DEFINE r == ts[i]
             a == r.start
  <2>1. r \in R /\ a \in Int
    BY <1>1
  <2> HIDE DEF r
  <2>2. Clipped(r).start = Max({0, a}) /\ Clipped(r).end = r.end
    BY <2>1 DEF Clipped
  <2> HIDE DEF a
  <2>3. Max({0, a}) = IF 0 <= a THEN a ELSE 0
    BY <2>1, ExtremaOfTwo
  <2>4. Max({0, a}) = IF a <= 0 THEN 0 ELSE a
    BY <2>1, <2>3
  <2> QED BY <2>2, <2>4 DEF a, r, Begins
<1>3. Voiced(ts) = {i \in DOMAIN ts : ts[i].end > Begins(ts, i)}
  BY <1>2 DEF Voiced, Begins
<1>4. IsFiniteSet(Voiced(ts))
  <2>1. IsFiniteSet(1..n)
    <3> HIDE DEF n
    <3> QED BY <1>1, FS_Interval
  <2> QED BY <1>1, <1>3, <2>1, FS_Subset
<1> HIDE DEF R, n
<1>5. ASSUME NEW i \in Voiced(ts)
      PROVE  /\ Begins(ts, i) \in Nat /\ ts[i].end \in Nat /\ Begins(ts, i) < ts[i].end
             /\ \A t \in Nat : Begins(ts, i) <= t <=> ts[i].start <= t
  <2>1. i \in DOMAIN ts /\ ts[i].end > Begins(ts, i)
    BY <1>3
  <2> DEFINE a == ts[i].start
             b == ts[i].end
             c == Begins(ts, i)
  <2>2. a \in Int /\ b \in Int /\ b > c /\ c = IF a <= 0 THEN 0 ELSE a
    BY <1>1, <1>2, <2>1
  <2> HIDE DEF a, b, c
  <2>3. c \in Nat /\ b \in Nat /\ c < b /\ \A t \in Nat : c <= t <=> a <= t
    BY <2>2
  <2> QED BY <2>3 DEF a, b, c
<1>6. ASSUME NEW i \in DOMAIN ts, NEW t \in Nat, ts[i].start <= t, t < ts[i].end
      PROVE  i \in Voiced(ts)
  <2> DEFINE a == ts[i].start
             b == ts[i].end
             c == Begins(ts, i)
  <2>1. a \in Int /\ b \in Int /\ a <= t /\ t < b /\ c = IF a <= 0 THEN 0 ELSE a
    BY <1>1, <1>2, <1>6
  <2> HIDE DEF a, b, c
  <2>2. b > c
    BY <2>1
  <2> QED BY <1>3, <2>2 DEF b, c
<1>7. Voiced(ts) \subseteq DOMAIN ts
  BY <1>3
<1> QED BY <1>4, <1>5, <1>6, <1>7

LEMMA EventFacts ==
  ASSUME NEW ts, TurnsOK(ts)
  PROVE  /\ Cardinality(Times(ts)) \in Nat /\ Times(ts) \subseteq Nat
         /\ EventTimes(ts) \in [1..Cardinality(Times(ts)) -> Times(ts)]
         /\ \A t \in Times(ts) : \E k \in 1..Cardinality(Times(ts)) : EventTimes(ts)[k] = t
         /\ \A k, l \in 1..Cardinality(Times(ts)) :
              k < l => EventTimes(ts)[k] < EventTimes(ts)[l]
<1> DEFINE T == Times(ts)
           events == EventTimes(ts)
<1>1. events = InOrder(T)
  BY DEF EventTimes, Times, Begins
<1>2. T \subseteq Nat /\ T \subseteq Int
  BY VoicedFacts DEF Times
<1>3. IsFiniteSet(T)
  <2> DEFINE V == Voiced(ts)
             f == [i \in V |-> Begins(ts, i)]
             g == [i \in V |-> ts[i].end]
             A == {f[i] : i \in V}
             B == {g[i] : i \in V}
  <2>1. T = A \cup B
    BY DEF Times
  <2>2. IsFiniteSet(V)
    BY VoicedFacts
  <2>3. IsFiniteSet(A) /\ IsFiniteSet(B)
    <3> HIDE DEF f, g, V
    <3> QED BY <2>2, FiniteImage
  <2> HIDE DEF A, B
  <2> QED BY <2>1, <2>3, FS_Union
<1> DEFINE m == Cardinality(T)
<1> HIDE DEF T, events
<1>4. m \in Nat /\ Rises(events, m, T)
  BY <1>1, <1>2, <1>3, InOrderRises
<1> HIDE DEF m
<1> QED BY <1>2, <1>4 DEF Rises, T, m, events

\* Between two times of the sweep nobody begins or ends.
LEMMA NothingBetween ==
  ASSUME NEW ts, TurnsOK(ts), NEW k \in 1..Cardinality(Times(ts))
  PROVE  /\ At(ts, k - 1) \in Int /\ At(ts, k) \in Nat /\ At(ts, k - 1) < At(ts, k)
         /\ \A i \in Voiced(ts) :
              /\ Begins(ts, i) < At(ts, k) <=> Begins(ts, i) <= At(ts, k - 1)
              /\ ts[i].end < At(ts, k) <=> ts[i].end <= At(ts, k - 1)
<1> DEFINE T == Times(ts)
           m == Cardinality(T)
           events == EventTimes(ts)
           a == At(ts, k - 1)
           b == At(ts, k)
<1>1. /\ m \in Nat /\ T \subseteq Nat /\ events \in [1..m -> T]
      /\ \A t \in T : \E l \in 1..m : events[l] = t
      /\ \A l, p \in 1..m : l < p => events[l] < events[p]
  BY EventFacts
<1>2. \A i \in Voiced(ts) : Begins(ts, i) \in T /\ ts[i].end \in T
  BY DEF Times
<1>3. k \in 1..m /\ b = events[k] /\ a = IF k = 1 THEN -1 ELSE events[k - 1]
  BY DEF At
<1> HIDE DEF m, T, events, a, b
<1>4. \A l \in 1..m : events[l] \in Nat
  BY <1>1
<1>5. a \in Int /\ b \in Nat /\ a < b
  BY <1>1, <1>3, <1>4
<1>6. ASSUME NEW t \in T PROVE t \in Nat /\ (t < b <=> t <= a)
  <2> PICK l \in 1..m : events[l] = t
    BY <1>1
  <2>1. t \in Nat
    BY <1>1
  <2>2. CASE l < k
    <3>1. k # 1 /\ k - 1 \in 1..m /\ a = events[k - 1]
      BY <1>1, <1>3, <2>2
    <3>2. events[l] <= events[k - 1]
      <4>1. l = k - 1 \/ l < k - 1
        BY <1>3, <2>2
      <4> QED BY <1>1, <1>4, <3>1, <4>1
    <3> QED BY <1>3, <1>5, <2>1, <3>1, <3>2
  <2>3. CASE ~ (l < k)
    <3>1. events[k] <= events[l]
      <4>1. l = k \/ k < l
        BY <1>3, <2>3
      <4> QED BY <1>1, <1>3, <1>4, <4>1
    <3> QED BY <1>3, <1>5, <2>1, <3>1
  <2> QED BY <2>2, <2>3
<1> QED BY <1>2, <1>5, <1>6 DEF a, b

\* Who speaks between two times of the sweep.
LEMMA VoicesBetween ==
  ASSUME NEW ts, TurnsOK(ts), NEW k \in 1..Cardinality(Times(ts)),
         NEW t \in Nat, At(ts, k - 1) <= t, t < At(ts, k)
  PROVE  On(ts)[t] = {v \in Voices(ts) : Cardinality(Within(ts, v, At(ts, k - 1))) > 0}
<1> DEFINE a == At(ts, k - 1)
           b == At(ts, k)
           V == Voiced(ts)
<1>1. /\ a \in Int /\ b \in Nat /\ a <= t /\ t < b
      /\ \A i \in V : /\ Begins(ts, i) < b <=> Begins(ts, i) <= a
                      /\ ts[i].end < b <=> ts[i].end <= a
  BY NothingBetween
<1>2. /\ V \subseteq DOMAIN ts /\ IsFiniteSet(V)
      /\ \A i \in V : /\ Begins(ts, i) \in Nat /\ ts[i].end \in Nat
                      /\ Begins(ts, i) <= t <=> ts[i].start <= t
      /\ \A i \in DOMAIN ts : ts[i].start <= t /\ t < ts[i].end => i \in V
  BY VoicedFacts
<1> HIDE DEF a, b, V
<1>3. \A i \in V : Begins(ts, i) <= t /\ t < ts[i].end <=> Begins(ts, i) <= a /\ a < ts[i].end
  BY <1>1, <1>2
<1>4. \A i \in DOMAIN ts :
        ts[i].start <= t /\ t < ts[i].end <=> i \in V /\ Begins(ts, i) <= a /\ a < ts[i].end
  BY <1>2, <1>3
<1>5. On(ts)[t] = {ts[i].speaker : i \in {j \in V : Begins(ts, j) <= a /\ a < ts[j].end}}
  BY <1>2, <1>4 DEF On
<1>6. ASSUME NEW v PROVE Cardinality(Within(ts, v, a)) > 0 <=> Within(ts, v, a) # {}
  <2> DEFINE W == Within(ts, v, a)
  <2>1. W \subseteq V
    BY DEF Within, V
  <2> HIDE DEF W
  <2>2. IsFiniteSet(W)
    BY <1>2, <2>1, FS_Subset
  <2>3. Cardinality(W) \in Nat /\ (Cardinality(W) = 0 <=> W = {})
    BY <2>2, FS_CardinalityType, FS_EmptySet
  <2>4. Cardinality(W) > 0 <=> W # {}
    BY <2>3
  <2> QED BY <2>4 DEF W
<1>7. \A v : v \in On(ts)[t] <=> v \in Voices(ts) /\ Within(ts, v, a) # {}
  BY <1>2, <1>5 DEF Voices, Within, V
<1> QED BY <1>6, <1>7 DEF a

LEMMA VoicesCounted ==
  ASSUME NEW ts, TurnsOK(ts), NEW t \in Nat
  PROVE  IsFiniteSet(On(ts)[t]) /\ Cardinality(On(ts)[t]) \in Nat
<1> DEFINE n == Len(ts)
           I == {k \in DOMAIN ts : ts[k].start <= t /\ t < ts[k].end}
           f == [i \in I |-> ts[i].speaker]
<1>1. n \in Nat /\ DOMAIN ts = 1..n
  BY TurnTypes
<1>2. IsFiniteSet(1..n)
  <2> HIDE DEF n
  <2> QED BY <1>1, FS_Interval
<1>3. IsFiniteSet(I)
  BY <1>1, <1>2, FS_Subset
<1>4. On(ts)[t] = {f[i] : i \in I}
  BY DEF On
<1> HIDE DEF I, f
<1>5. IsFiniteSet({f[i] : i \in I})
  BY <1>3, FiniteImage
<1> QED BY <1>4, <1>5, FS_CardinalityType

\* A voice goes on in the turns that it was in or has begun, but for those ended.
LEMMA VoiceCounted ==
  ASSUME NEW ts, TurnsOK(ts), NEW k \in 1..Cardinality(Times(ts)), NEW v
  PROVE  Cardinality(Within(ts, v, At(ts, k))) =
           Max({0, Cardinality(Within(ts, v, At(ts, k - 1))) + Change(ts, At(ts, k), v)})
<1> DEFINE a == At(ts, k - 1)
           b == At(ts, k)
           V == Voiced(ts)
           mine == {i \in V : ts[i].speaker = v}
           begun == {i \in mine : Begins(ts, i) = b}
           ended == {i \in mine : ts[i].end = b}
           before == Within(ts, v, a)
           after == Within(ts, v, b)
<1>1. /\ a \in Int /\ b \in Nat /\ a < b
      /\ \A i \in V : /\ Begins(ts, i) < b <=> Begins(ts, i) <= a
                      /\ ts[i].end < b <=> ts[i].end <= a
  BY NothingBetween
<1>2. /\ IsFiniteSet(V)
      /\ \A i \in V : /\ Begins(ts, i) \in Nat /\ ts[i].end \in Nat
                      /\ Begins(ts, i) < ts[i].end
  BY VoicedFacts
<1>3. Change(ts, b, v) = Cardinality(begun) - Cardinality(ended)
  BY DEF Change, Begins
<1>4. /\ before = {i \in mine : Begins(ts, i) <= a /\ a < ts[i].end}
      /\ after = {i \in mine : Begins(ts, i) <= b /\ b < ts[i].end}
  BY DEF Within
<1> HIDE DEF a, b, V, before, after
<1>5. before \cap begun = {} /\ ended \subseteq before /\ after = (before \cup begun) \ ended
  <2>1. \A i \in mine :
          /\ Begins(ts, i) \in Nat /\ ts[i].end \in Nat /\ Begins(ts, i) < ts[i].end
          /\ Begins(ts, i) < b <=> Begins(ts, i) <= a
          /\ ts[i].end < b <=> ts[i].end <= a
    BY <1>1, <1>2
  <2> HIDE DEF mine
  <2>2. \A i \in mine : ~ (i \in before /\ i \in begun)
    BY <1>1, <1>4, <2>1
  <2>3. \A i \in mine : i \in ended => i \in before
    BY <1>1, <1>4, <2>1
  <2>4. \A i \in mine : i \in after <=> (i \in before \/ i \in begun) /\ i \notin ended
    BY <1>1, <1>4, <2>1
  <2>5. before \subseteq mine /\ begun \subseteq mine /\ ended \subseteq mine /\ after \subseteq mine
    BY <1>4
  <2> HIDE DEF begun, ended
  <2> QED BY <2>2, <2>3, <2>4, <2>5
<1>6. IsFiniteSet(before) /\ IsFiniteSet(begun) /\ IsFiniteSet(ended)
  <2>1. before \subseteq V /\ begun \subseteq V /\ ended \subseteq V
    BY <1>4
  <2> HIDE DEF begun, ended
  <2> QED BY <1>2, <2>1, FS_Subset
<1> HIDE DEF begun, ended
<1> DEFINE all == before \cup begun
           p == Cardinality(before)
           q == Cardinality(begun)
           r == Cardinality(ended)
<1>7. p \in Nat /\ q \in Nat /\ r \in Nat
  BY <1>6, FS_CardinalityType
<1>8. IsFiniteSet(all) /\ Cardinality(all) = p + q
  <2>1. /\ IsFiniteSet(all)
        /\ Cardinality(all) = p + q - Cardinality(before \cap begun)
    BY <1>6, FS_Union
  <2>2. Cardinality(before \cap begun) = 0
    BY <1>5, FS_EmptySet
  <2> HIDE DEF p, q, all
  <2> QED BY <1>7, <2>1, <2>2
<1>9. Cardinality(after) = p + q - r /\ Cardinality(after) \in Nat
  <2>1. ended = all \cap ended
    BY <1>5
  <2> HIDE DEF all
  <2>2. /\ IsFiniteSet(all \ ended)
        /\ Cardinality(all \ ended) = Cardinality(all) - Cardinality(all \cap ended)
    BY <1>8, FS_Difference
  <2>3. after = all \ ended
    BY <1>5 DEF all
  <2>4. Cardinality(after) \in Nat
    BY <2>2, <2>3, FS_CardinalityType
  <2>5. Cardinality(all \cap ended) = r
    BY <2>1
  <2>6. Cardinality(all) = p + q
    BY <1>8 DEF all
  <2> HIDE DEF p, q, r
  <2> QED BY <1>7, <2>2, <2>3, <2>4, <2>5, <2>6
<1> HIDE DEF p, q, r
<1> DEFINE d == p + (q - r)
<1>10. d \in Nat /\ d \in Int /\ Cardinality(after) = d
  BY <1>7, <1>9
<1>11. Max({0, d}) = d
  <2>1. Max({0, d}) = IF 0 <= d THEN d ELSE 0
    <3> HIDE DEF d
    <3> QED BY <1>10, ExtremaOfTwo
  <2> HIDE DEF d
  <2> QED BY <1>10, <2>1
<1>12. Cardinality(before) + Change(ts, b, v) = d
  BY <1>3 DEF p, q, r
<1> QED BY <1>10, <1>11, <1>12 DEF a, b, before, after

\* The sweep over the first k times.
SweptTo(acc, ts, k) ==
  /\ acc.time = IF k = 0 THEN 0 ELSE At(ts, k)
  /\ \A v \in Voices(ts) : acc.active[v] = Cardinality(Within(ts, v, At(ts, k)))
  /\ IntervalsUpTo(acc.intervals, On(ts), acc.time)
  /\ acc.time > 0 => acc.speakers = On(ts)[acc.time - 1]

LEMMA SweepStep ==
  ASSUME NEW ts, TurnsOK(ts), NEW k \in 1..Cardinality(Times(ts)), NEW acc,
         SweptTo(acc, ts, k - 1)
  PROVE  SweptTo(SweepTo(ts, acc, At(ts, k)), ts, k)
<1> DEFINE on == On(ts)
           ivs == acc.intervals
           now == acc.time
           next == At(ts, k)
           voices == {v \in Voices(ts) : acc.active[v] > 0}
           grown == IF Cardinality(voices) < 2 THEN ivs
                    ELSE IF Extends(acc, voices)
                    THEN Front(ivs) \o <<[Last(ivs) EXCEPT !.end = next]>>
                    ELSE Append(ivs, [start |-> now, end |-> next, count |-> Cardinality(voices)])
           active == [v \in Voices(ts) |-> Max({0, acc.active[v] + Change(ts, next, v)})]
<1>1. SweepTo(ts, acc, next) =
        [intervals |-> grown, time |-> next, speakers |-> voices, active |-> active]
  BY DEF SweepTo
<1>2. At(ts, k - 1) \in Int /\ next \in Nat /\ At(ts, k - 1) < next
  BY NothingBetween
<1>3. now = IF k = 1 THEN 0 ELSE At(ts, k - 1)
  BY DEF SweptTo
<1>4. now \in Nat /\ now <= next /\ At(ts, k - 1) <= now
  <2>1. CASE k = 1
    <3>1. At(ts, k - 1) = -1
      BY <2>1 DEF At
    <3> HIDE DEF next, now
    <3> QED BY <1>2, <1>3, <2>1, <3>1
  <2>2. CASE k # 1
    <3>1. k - 1 \in 1..Cardinality(Times(ts))
      BY <2>2, EventFacts
    <3>2. At(ts, k - 1) \in Nat
      BY <3>1, NothingBetween
    <3> HIDE DEF next, now
    <3> QED BY <1>2, <1>3, <2>2, <3>2
  <2> QED BY <2>1, <2>2
<1>5. IntervalsUpTo(ivs, on, now) /\ (now > 0 => acc.speakers = on[now - 1])
  BY DEF SweptTo
<1>6. \A v \in Voices(ts) : acc.active[v] = Cardinality(Within(ts, v, At(ts, k - 1)))
  BY DEF SweptTo
<1>7. voices = {v \in Voices(ts) : Cardinality(Within(ts, v, At(ts, k - 1))) > 0}
  BY <1>6
<1>8. \A t \in now..(next - 1) : on[t] = voices
  <2> SUFFICES ASSUME NEW t \in now..(next - 1) PROVE on[t] = voices
    OBVIOUS
  <2>1. t \in Nat /\ At(ts, k - 1) <= t /\ t < next
    <3> HIDE DEF next, now
    <3> QED BY <1>2, <1>4
  <2> HIDE DEF voices
  <2> QED BY <1>7, <2>1, VoicesBetween
<1>9. \A v \in Voices(ts) : active[v] = Cardinality(Within(ts, v, next))
  BY <1>6, VoiceCounted
<1>10. now < next => Cardinality(voices) \in Nat
  <2> HAVE now < next
  <2>1. now \in now..(next - 1)
    <3> HIDE DEF next, now
    <3> QED BY <1>2, <1>4
  <2>2. Cardinality(on[now]) \in Nat
    BY <1>4, VoicesCounted
  <2>3. on[now] = voices
    BY <1>8, <2>1
  <2> QED BY <2>2, <2>3
<1>11. now = next => Cardinality(voices) < 2
  <2> HAVE now = next
  <2>1. k = 1
    <3> HIDE DEF next, now
    <3> QED BY <1>2, <1>3
  <2>2. At(ts, k - 1) = -1
    BY <2>1 DEF At
  <2>3. \A v : Within(ts, v, -1) = {}
    BY VoicedFacts DEF Within
  <2>4. voices = {}
    <3>1. \A v : Cardinality(Within(ts, v, -1)) = 0
      BY <2>3, FS_EmptySet
    <3> HIDE DEF voices
    <3> QED BY <1>7, <2>2, <3>1
  <2>5. Cardinality(voices) = 0
    <3> HIDE DEF voices
    <3> QED BY <2>4, FS_EmptySet
  <2> HIDE DEF voices
  <2> QED BY <2>5
<1> HIDE DEF on, ivs, now, next, voices, active
<1>12. IntervalsUpTo(grown, on, next)
  <2>1. CASE Cardinality(voices) < 2
    <3>1. \A t \in now..(next - 1) : ~ (Cardinality(on[t]) >= 2)
      BY <1>2, <1>4, <1>8, <1>10, <2>1
    <3>2. grown = ivs
      BY <2>1
    <3> QED BY <1>2, <1>4, <1>5, <3>1, <3>2, NobodyOverlaps
  <2>2. CASE ~ (Cardinality(voices) < 2) /\ Extends(acc, voices)
    <3>1. now < next
      BY <1>2, <1>4, <1>11, <2>2
    <3>2. ivs # <<>> /\ Last(ivs).end = now /\ voices = acc.speakers
      BY <2>2 DEF Extends, ivs, now
    <3>3. now > 0
      <4>1. Len(ivs) \in DOMAIN ivs
        <5>1. Len(ivs) \in Nat /\ DOMAIN ivs = 1..Len(ivs)
          BY <1>4, <1>5, IntervalTypes
        <5>2. ivs \in Seq([start : Nat, end : Nat, count : Nat])
          BY <1>5 DEF IntervalsUpTo
        <5> QED BY <3>2, <5>1, <5>2
      <4>2. ivs[Len(ivs)].start \in Nat /\ ivs[Len(ivs)].start < ivs[Len(ivs)].end
        BY <1>4, <1>5, <4>1, IntervalTypes
      <4>3. ivs[Len(ivs)].end = now
        BY <3>2 DEF Last
      <4> QED BY <1>4, <4>2, <4>3
    <3>4. on[now - 1] = voices
      BY <1>5, <3>2, <3>3
    <3>5. grown = Front(ivs) \o <<[Last(ivs) EXCEPT !.end = next]>>
      BY <2>2
    <3> QED BY <1>2, <1>4, <1>5, <1>8, <3>1, <3>2, <3>4, <3>5, IntervalGrows
  <2>3. CASE ~ (Cardinality(voices) < 2) /\ ~ Extends(acc, voices)
    <3>1. now < next
      BY <1>2, <1>4, <1>11, <2>3
    <3>2. Cardinality(voices) \in Nat /\ Cardinality(voices) >= 2
      BY <1>10, <2>3, <3>1
    <3>3. ivs # <<>> /\ Last(ivs).end = now => on[now - 1] # voices
      <4> HAVE ivs # <<>> /\ Last(ivs).end = now
      <4>1. voices # acc.speakers
        BY <2>3 DEF Extends, ivs, now
      <4>2. now > 0
        <5>1. Len(ivs) \in DOMAIN ivs
          <6>1. Len(ivs) \in Nat /\ DOMAIN ivs = 1..Len(ivs)
            BY <1>4, <1>5, IntervalTypes
          <6>2. ivs \in Seq([start : Nat, end : Nat, count : Nat])
            BY <1>5 DEF IntervalsUpTo
          <6> QED BY <6>1, <6>2
        <5>2. ivs[Len(ivs)].start \in Nat /\ ivs[Len(ivs)].start < ivs[Len(ivs)].end
          BY <1>4, <1>5, <5>1, IntervalTypes
        <5>3. ivs[Len(ivs)].end = now
          BY DEF Last
        <5> QED BY <1>4, <5>2, <5>3
      <4> QED BY <1>5, <4>1, <4>2
    <3>4. grown = Append(ivs, [start |-> now, end |-> next, count |-> Cardinality(voices)])
      BY <2>3
    <3> QED BY <1>2, <1>4, <1>5, <1>8, <3>1, <3>2, <3>3, <3>4, IntervalAdded
  <2> QED BY <2>1, <2>2, <2>3
<1> HIDE DEF grown
<1>13. next > 0 => voices = on[next - 1]
  <2> HAVE next > 0
  <2>1. CASE now < next
    <3>1. next - 1 \in now..(next - 1)
      BY <1>2, <1>4, <2>1
    <3> QED BY <1>8, <3>1
  <2>2. CASE ~ (now < next)
    <3>1. now = next
      BY <1>2, <1>4, <2>2
    <3>2. FALSE
      <4>1. k # 1
        BY <1>3, <3>1
      <4> QED BY <1>2, <1>3, <3>1, <4>1
    <3> QED BY <3>2
  <2> QED BY <2>1, <2>2
<1>14. SweptTo([intervals |-> grown, time |-> next, speakers |-> voices, active |-> active], ts, k)
  <2>1. next = IF k = 0 THEN 0 ELSE At(ts, k)
    BY DEF next
  <2>2. \A v \in Voices(ts) : active[v] = Cardinality(Within(ts, v, At(ts, k)))
    BY <1>9 DEF next
  <2> QED BY <1>12, <1>13, <2>1, <2>2 DEF SweptTo, on
<1> QED BY <1>1, <1>14 DEF next

SweepOp(p, q, acc, t) == SweepTo(p, acc, t)
Sweeping == INSTANCE FoldLemmas WITH Op <- SweepOp

\* The last time of the sweep.
SweepEnd(ts) == IF Cardinality(Times(ts)) = 0 THEN 0 ELSE At(ts, Cardinality(Times(ts)))

\* The sweep finds the intervals with two or more voices, and nobody speaks later.
LEMMA OverlapsFound ==
  ASSUME NEW ts, TurnsOK(ts)
  PROVE  /\ SweepEnd(ts) \in Nat /\ IntervalsUpTo(DetectOverlaps(ts), On(ts), SweepEnd(ts))
         /\ \A t \in Nat : SweepEnd(ts) <= t => Cardinality(On(ts)[t]) = 0
<1> DEFINE m == Cardinality(Times(ts))
           events == EventTimes(ts)
           f == Sweeping!Trace(ts, 0, Silent(ts), events, m)
           S == {k \in 0..m : SweptTo(f[k], ts, k)}
<1>1. DetectOverlaps(ts) = Sweeping!Fold(ts, 0, Silent(ts), events).intervals
  BY DEF DetectOverlaps, Sweeping!Fold, SweepOp, FoldLeft, MapThenFoldSet, Max,
         Sweeping!FoldLeft, Sweeping!MapThenFoldSet, Sweeping!Max
<1>2. m \in Nat /\ DOMAIN events = 1..m /\ \A k \in 1..m : events[k] = At(ts, k)
  <2>1. m \in Nat /\ events \in [1..m -> Times(ts)]
    BY EventFacts
  <2>2. \A k \in 1..m : k # 0
    BY <2>1
  <2> QED BY <2>1, <2>2 DEF At
<1>3. SweptTo(Silent(ts), ts, 0)
  <2>1. \A v : Within(ts, v, -1) = {}
    BY VoicedFacts DEF Within
  <2>2. \A v : Cardinality(Within(ts, v, At(ts, 0))) = 0
    BY <2>1, FS_EmptySet DEF At
  <2>3. IntervalsUpTo(<<>>, On(ts), 0)
    BY DEF IntervalsUpTo
  <2> QED BY <2>2, <2>3 DEF SweptTo, Silent
<1> HIDE DEF m, events
<1>4. /\ f[0] = Silent(ts)
      /\ \A k \in 1..m : f[k] = SweepOp(ts, 0, f[k - 1], events[k])
      /\ Sweeping!Fold(ts, 0, Silent(ts), events) = f[m]
  BY <1>2, Sweeping!FoldTrace
<1> HIDE DEF f
<1>5. 0 \in S
  BY <1>2, <1>3, <1>4
<1>6. ASSUME NEW k \in 1..m, k - 1 \in S PROVE k \in S
  <2>1. SweptTo(f[k - 1], ts, k - 1)
    BY <1>6
  <2>2. f[k] = SweepTo(ts, f[k - 1], At(ts, k))
    BY <1>2, <1>4 DEF SweepOp
  <2>3. SweptTo(f[k], ts, k)
    BY <2>1, <2>2, SweepStep DEF m
  <2>4. k \in 0..m
    BY <1>2
  <2> QED BY <2>3, <2>4
<1> HIDE DEF S
<1>7. m \in S
  BY <1>2, <1>5, <1>6, StepInduction
<1>8. SweptTo(f[m], ts, m)
  BY <1>7 DEF S
<1>9. f[m].time = SweepEnd(ts)
  BY <1>8 DEF SweptTo, SweepEnd, m
<1>10. SweepEnd(ts) \in Nat
  <2>1. CASE m = 0
    BY <2>1 DEF SweepEnd, m
  <2>2. CASE m # 0
    <3>1. m \in 1..m
      BY <1>2, <2>2
    <3>2. At(ts, m) \in Nat
      BY <3>1, NothingBetween DEF m
    <3> QED BY <2>2, <3>2 DEF SweepEnd, m
  <2> QED BY <2>1, <2>2
<1>11. IntervalsUpTo(DetectOverlaps(ts), On(ts), SweepEnd(ts))
  BY <1>1, <1>4, <1>8, <1>9 DEF SweptTo
<1>12. ASSUME NEW i \in Voiced(ts) PROVE ts[i].end <= SweepEnd(ts)
  <2>1. ts[i].end \in Times(ts)
    BY DEF Times
  <2>2. PICK l \in 1..m : events[l] = ts[i].end
    BY <2>1, EventFacts DEF m, events
  <2>3. m # 0 /\ m \in 1..m
    BY <1>2, <2>2
  <2>4. SweepEnd(ts) = events[m]
    BY <1>2, <2>3 DEF SweepEnd, m
  <2>5. events[l] \in Nat /\ (l < m => events[l] < events[m])
    BY <2>3, EventFacts DEF m, events
  <2> QED BY <1>2, <1>10, <2>2, <2>3, <2>4, <2>5
<1>13. ASSUME NEW t \in Nat, SweepEnd(ts) <= t PROVE Cardinality(On(ts)[t]) = 0
  <2>1. \A i \in DOMAIN ts : ~ (ts[i].start <= t /\ t < ts[i].end)
    <3> SUFFICES ASSUME NEW i \in DOMAIN ts, ts[i].start <= t, t < ts[i].end PROVE FALSE
      OBVIOUS
    <3>1. i \in Voiced(ts)
      BY VoicedFacts
    <3>2. ts[i].end \in Nat /\ ts[i].end <= SweepEnd(ts)
      BY <1>12, <3>1, VoicedFacts
    <3> QED BY <1>10, <1>13, <3>2
  <2>2. On(ts)[t] = {}
    BY <2>1 DEF On
  <2> QED BY <2>2, FS_EmptySet
<1> QED BY <1>10, <1>11, <1>13

-----------------------------------------------------------------------------
(* Relabelling and snapping                                                *)

LEMMA TurnsTyped ==
  ASSUME NEW S, NEW ts \in Seq([start : Int, end : Int, speaker : S])
  PROVE  TurnsOK(ts)
<1> DEFINE n == Len(ts)
           A == {ts[i].speaker : i \in DOMAIN ts}
           R == [start : Int, end : Int, speaker : S]
           Q == [start : Int, end : Int, speaker : A]
<1>1. n \in Nat /\ DOMAIN ts = 1..n /\ \A i \in 1..n : ts[i] \in R
  <2>1. ts \in Seq(R)
    OBVIOUS
  <2> HIDE DEF R
  <2> QED BY <2>1
<1>2. DOMAIN ts = 1..n /\ ts = [i \in 1..n |-> ts[i]]
  <2>1. ts \in Seq(R)
    OBVIOUS
  <2> HIDE DEF R
  <2> QED BY <2>1
<1>3. \A i \in 1..n : ts[i] \in Q
  <2>1. \A i \in 1..n : ts[i].speaker \in A
    BY <1>1
  <2> HIDE DEF A
  <2> QED BY <1>1, <2>1
<1>4. n \in Nat
  OBVIOUS
<1> HIDE DEF n, Q
<1>5. ts \in Seq(Q)
  BY <1>2, <1>3, <1>4, SMTT(40)
<1> QED BY <1>5 DEF TurnsOK, Q

\* Renaming the clusters changes no turn's times.
LEMMA RelabelKeepsTurns ==
  ASSUME NEW ts, TurnsOK(ts), NEW ref
  PROVE  TurnsOK(RelabelTurns(ts, ref))
<1>1. CASE ref = <<>>
  BY <1>1 DEF RelabelTurns
<1>2. CASE ref # <<>>
  <2> DEFINE n == Len(ts)
             name == [c \in Clusters(ts) |-> ClusterName(ts, ref, c)]
             new == [i \in DOMAIN ts |-> [ts[i] EXCEPT !.speaker = name[@]]]
             A == {name[ts[i].speaker] : i \in DOMAIN ts}
             R == [start : Int, end : Int, speaker : {ts[i].speaker : i \in DOMAIN ts}]
             Q == [start : Int, end : Int, speaker : A]
  <2>1. RelabelTurns(ts, ref) = new
    BY <1>2 DEF RelabelTurns
  <2>2. n \in Nat /\ DOMAIN ts = 1..n /\ \A i \in 1..n : ts[i] \in R
    <3>1. ts \in Seq(R)
      BY DEF TurnsOK
    <3> HIDE DEF R
    <3> QED BY <3>1
  <2> HIDE DEF name
  <2>3. \A i \in 1..n : new[i] \in Q
    <3> SUFFICES ASSUME NEW i \in 1..n PROVE new[i] \in Q
      OBVIOUS
    <3> DEFINE r == ts[i]
               b == name[r.speaker]
    <3>1. r \in R /\ new[i] = [r EXCEPT !.speaker = b] /\ b \in A
      BY <2>2
    <3> HIDE DEF r, b, A, new
    <3> QED BY <3>1
  <2>4. DOMAIN new = 1..n /\ new = [i \in 1..n |-> new[i]]
    BY <2>2
  <2> HIDE DEF new, n, Q
  <2>5. new \in Seq(Q)
    <3>1. n \in Nat
      BY <2>2
    <3> QED BY <2>3, <2>4, <3>1
  <2>6. new \in Seq([start : Int, end : Int, speaker : A])
    BY <2>5 DEF Q
  <2> HIDE DEF A
  <2>7. TurnsOK(new)
    BY <2>6, TurnsTyped
  <2> QED BY <2>1, <2>7
<1> QED BY <1>1, <1>2

LEMMA TurnsSorted ==
  ASSUME NEW ts, TurnsOK(ts)
  PROVE  TurnsOK(ByStart(ts)) /\ Sorted(ByStart(ts))
<1> DEFINE S == {ts[i].speaker : i \in DOMAIN ts}
           R == [start : Int, end : Int, speaker : S]
<1>1. ts \in Seq(R)
  BY DEF TurnsOK
<1>2. \A i \in DOMAIN ts : ts[i].start \in Int
  BY TurnTypes DEF Interval
<1> HIDE DEF S
<1>3. ByStart(ts) \in Seq([start : Int, end : Int, speaker : S]) /\ Sorted(ByStart(ts))
  <2> HIDE DEF R
  <2>1. ByStart(ts) \in Seq(R) /\ Sorted(ByStart(ts))
    BY <1>1, <1>2, ByStartSorts
  <2> QED BY <2>1 DEF R
<1> DEFINE sorted == ByStart(ts)
<1>4. TurnsOK(sorted)
  <2>1. sorted \in Seq([start : Int, end : Int, speaker : S])
    BY <1>3
  <2> HIDE DEF sorted
  <2> QED BY <2>1, TurnsTyped
<1> QED BY <1>3, <1>4

SnapOp(p, q, acc, b) == SnapAt(p, acc, b)
Snapping == INSTANCE FoldLemmas WITH Op <- SnapOp

\* Where the turns of a speaker begin, and those places in order.
Begun(l) == Changes(l) \cup {1}
Firsts(l) == InOrder(Begun(l))

LEMMA TurnsInOrder ==
  ASSUME NEW n \in Nat, NEW l, Listing(l, n)
  PROVE  /\ IsFiniteSet(Begun(l)) /\ Cardinality(Begun(l)) \in Nat /\ Begun(l) \subseteq Int
         /\ Firsts(l) \in [1..Cardinality(Begun(l)) -> Begun(l)]
         /\ \A i \in Begun(l) : \E k \in 1..Cardinality(Begun(l)) : Firsts(l)[k] = i
         /\ \A k, j \in 1..Cardinality(Begun(l)) : k < j => Firsts(l)[k] < Firsts(l)[j]
         /\ Turntaking(l) = [k \in 1..Cardinality(Begun(l)) |-> l[Firsts(l)[k]]]
<1> DEFINE S == Begun(l)
           m == Cardinality(S)
           order == InOrder(S)
<1>1. S \subseteq (2..n) \cup {1}
  BY ListingFacts DEF Begun, Changes
<1>2. IsFiniteSet((2..n) \cup {1})
  <2>1. IsFiniteSet(2..n)
    BY FS_Interval
  <2> QED BY <2>1, FS_AddElement
<1>3. IsFiniteSet(S) /\ S \subseteq Int
  <2>1. IsFiniteSet(S)
    BY <1>1, <1>2, FS_Subset
  <2> QED BY <1>1, <2>1
<1>4. Turntaking(l) = [k \in DOMAIN order |-> l[order[k]]]
  BY DEF Turntaking, Begun
<1> HIDE DEF S
<1>5. m \in Nat /\ Rises(order, m, S)
  BY <1>3, InOrderRises
<1> HIDE DEF m, order
<1>6. /\ order \in [1..m -> S] /\ DOMAIN order = 1..m
      /\ \A i \in S : \E k \in 1..m : order[k] = i
      /\ \A k, j \in 1..m : k < j => order[k] < order[j]
  BY <1>5 DEF Rises
<1>7. Turntaking(l) = [k \in 1..m |-> l[order[k]]]
  BY <1>4, <1>6
<1> QED BY <1>3, <1>5, <1>6, <1>7 DEF S, m, order, Firsts

\* One change of speaker is elsewhere, between the same two others.
LEMMA TurnMoved ==
  ASSUME NEW n \in Nat, NEW l, Listing(l, n), NEW m, Listing(m, n),
         NEW b \in Changes(l), NEW x \in 2..n, Changes(m) = (Changes(l) \ {b}) \cup {x},
         m[x] = l[b], \A c \in Begun(l) \ {b} : c # x /\ (c < b <=> c < x) /\ m[c] = l[c]
  PROVE  Turntaking(m) = Turntaking(l)
<1> DEFINE R == Begun(l)
           M == Begun(m)
           size == Cardinality(R)
           order == Firsts(l)
           moved == Firsts(m)
           g == [k \in 1..size |-> IF order[k] = b THEN x ELSE order[k]]
<1>1. b \in R /\ x \in M /\ b # 1 /\ M = (R \ {b}) \cup {x} /\ b \in Int
  <2>1. b \in 2..n
    BY ListingFacts DEF Changes
  <2> QED BY <2>1 DEF Begun
<1>2. /\ IsFiniteSet(R) /\ size \in Nat /\ R \subseteq Int /\ order \in [1..size -> R]
      /\ \A i \in R : \E k \in 1..size : order[k] = i
      /\ \A k, j \in 1..size : k < j => order[k] < order[j]
      /\ Turntaking(l) = [k \in 1..size |-> l[order[k]]]
  BY TurnsInOrder
<1>3. /\ M \subseteq Int /\ moved \in [1..Cardinality(M) -> M]
      /\ \A i \in M : \E k \in 1..Cardinality(M) : moved[k] = i
      /\ \A k, j \in 1..Cardinality(M) : k < j => moved[k] < moved[j]
      /\ Turntaking(m) = [k \in 1..Cardinality(M) |-> m[moved[k]]]
  BY TurnsInOrder
<1>4. \A c \in R \ {b} : c # x /\ (c < b <=> c < x) /\ m[c] = l[c]
  OBVIOUS
<1> HIDE DEF R, M, order, moved
<1>5. Cardinality(M) = size
  <2> DEFINE Q == R \ {b}
  <2>1. IsFiniteSet(Q) /\ Cardinality(Q) = size - 1
    BY <1>1, <1>2, FS_RemoveElement
  <2>2. x \notin Q /\ M = Q \cup {x}
    BY <1>1, <1>4
  <2> HIDE DEF Q, size
  <2>3. Cardinality(M) = Cardinality(Q) + 1
    BY <2>1, <2>2, FS_AddElement
  <2> QED BY <1>2, <2>1, <2>3
<1> HIDE DEF size
<1>6. g \in [1..size -> M]
  BY <1>1, <1>2
<1>7. ASSUME NEW i \in M PROVE \E k \in 1..size : g[k] = i
  <2>1. CASE i = x
    BY <1>1, <1>2, <2>1
  <2>2. CASE i # x
    <3>1. i \in R /\ i # b
      BY <1>1, <1>7, <2>2
    <3> QED BY <1>2, <3>1
  <2> QED BY <2>1, <2>2
<1>8. ASSUME NEW k \in 1..size, NEW j \in 1..size, k < j PROVE g[k] < g[j]
  <2>1. order[k] \in R /\ order[j] \in R /\ order[k] < order[j]
    BY <1>2, <1>8
  <2>2. order[k] \in Int /\ order[j] \in Int
    BY <1>2, <2>1
  <2>3. g[k] = (IF order[k] = b THEN x ELSE order[k]) /\ g[j] = IF order[j] = b THEN x ELSE order[j]
    OBVIOUS
  <2> HIDE DEF g
  <2>4. CASE order[k] = b
    <3>1. order[j] \in R \ {b} /\ ~(order[j] < b) /\ order[j] # b
      BY <1>1, <2>1, <2>2, <2>4
    <3>2. order[j] # x /\ ~(order[j] < x)
      BY <1>4, <3>1
    <3> QED BY <2>2, <2>3, <2>4, <3>1, <3>2
  <2>5. CASE order[j] = b
    <3>1. order[k] \in R \ {b} /\ order[k] < b /\ order[k] # b
      BY <1>1, <2>1, <2>2, <2>5
    <3>2. order[k] < x
      BY <1>4, <3>1
    <3> QED BY <2>3, <2>5, <3>1, <3>2
  <2>6. CASE order[k] # b /\ order[j] # b
    BY <2>1, <2>3, <2>6
  <2> QED BY <2>4, <2>5, <2>6
<1> HIDE DEF g
<1>9. g = moved
  <2>1. Rises(g, size, M)
    BY <1>6, <1>7, <1>8 DEF Rises
  <2>2. Rises(moved, size, M)
    BY <1>3, <1>5 DEF Rises
  <2> QED BY <1>2, <1>3, <2>1, <2>2, OneOrder
<1>10. ASSUME NEW k \in 1..size PROVE m[moved[k]] = l[order[k]]
  <2>1. moved[k] = IF order[k] = b THEN x ELSE order[k]
    BY <1>9 DEF g
  <2>2. order[k] \in R
    BY <1>2
  <2> QED BY <1>4, <2>1, <2>2
<1> QED BY <1>2, <1>3, <1>5, <1>10

\* The change at b, drawn back behind word e or ahead of it.
Drawn(ws, n, l, m, b, e) ==
  /\ e + 1 \in 2..n /\ ws[e].ends
  /\ \/ /\ e < b - 1 /\ \A k \in e..(b - 2) : l[k] = l[b - 1]
        /\ m = Relabel(l, e + 1, b - 1, l[b])
     \/ /\ e >= b /\ (\A k \in b..e : l[k] = l[b]) /\ l[e + 1] = l[b]
        /\ m = Relabel(l, b, e, l[b - 1])

LEMMA ChangeDrawn ==
  ASSUME NEW n \in Nat, NEW l, Listing(l, n), NEW m, NEW ws, NEW b \in 2..n, NEW e \in Int,
         l[b - 1] # l[b], Drawn(ws, n, l, m, b, e)
  PROVE  /\ Listing(m, n) /\ Turntaking(m) = Turntaking(l)
         /\ Changes(m) \subseteq Changes(l) \cup {e + 1}
<1> DEFINE x == e + 1
<1>1. DOMAIN l = 1..n /\ Len(l) = n
  BY ListingFacts
<1>2. Listing(m, n)
  BY <1>1 DEF Drawn, Relabel, Listing
<1>3. DOMAIN m = 1..n /\ Len(m) = n
  BY <1>2, ListingFacts
<1>4. b \in Changes(l)
  BY <1>1 DEF Changes
<1>5. /\ m[x] = l[b] /\ m[x - 1] # m[x]
      /\ \A c \in 2..n : c # x => ((m[c - 1] # m[c]) <=> (c # b /\ l[c - 1] # l[c]))
      /\ \A c \in 1..n : c # b /\ (c = 1 \/ l[c - 1] # l[c]) =>
           c # x /\ (c < b <=> c < x) /\ m[c] = l[c]
  <2>1. CASE /\ e < b - 1 /\ \A k \in e..(b - 2) : l[k] = l[b - 1]
             /\ m = Relabel(l, e + 1, b - 1, l[b])
    <3>1. \A c \in 1..n : m[c] = IF e + 1 <= c /\ c <= b - 1 THEN l[b] ELSE l[c]
      BY <1>1, <2>1 DEF Relabel
    <3>2. 1 <= e /\ e + 1 <= b - 1 /\ \A k \in 1..n : e <= k /\ k <= b - 1 => l[k] = l[b - 1]
      BY <2>1 DEF Drawn
    <3> HIDE DEF Drawn
    <3> QED BY <3>1, <3>2
  <2>2. CASE /\ e >= b /\ (\A k \in b..e : l[k] = l[b]) /\ l[e + 1] = l[b]
             /\ m = Relabel(l, b, e, l[b - 1])
    <3>1. \A c \in 1..n : m[c] = IF b <= c /\ c <= e THEN l[b - 1] ELSE l[c]
      BY <1>1, <2>2 DEF Relabel
    <3>2. e + 1 <= n /\ \A k \in 1..n : b <= k /\ k <= e + 1 => l[k] = l[b]
      BY <2>2 DEF Drawn
    <3> QED BY <2>2, <3>1, <3>2
  <2> QED BY <2>1, <2>2 DEF Drawn
<1>6. x \in 2..n
  BY DEF Drawn
<1>7. Changes(m) = (Changes(l) \ {b}) \cup {x}
  <2>1. Changes(m) = {c \in 2..n : m[c - 1] # m[c]} /\ Changes(l) = {c \in 2..n : l[c - 1] # l[c]}
    BY <1>1, <1>3 DEF Changes
  <2> HIDE DEF x
  <2> QED BY <1>5, <1>6, <2>1
<1>8. \A c \in Begun(l) \ {b} : c # x /\ (c < b <=> c < x) /\ m[c] = l[c]
  <2>1. \A c \in Begun(l) : c \in 1..n /\ (c = 1 \/ l[c - 1] # l[c])
    BY <1>1 DEF Begun, Changes
  <2> HIDE DEF x
  <2> QED BY <1>5, <2>1
<1> HIDE DEF x
<1>9. m[x] = l[b]
  BY <1>5
<1>10. Turntaking(m) = Turntaking(l)
  BY <1>2, <1>4, <1>6, <1>7, <1>8, <1>9, TurnMoved
<1> QED BY <1>2, <1>7, <1>10 DEF x

\* One step of the loop leaves the labels alone, or draws the change behind or
\* ahead of the end of a sentence.
LEMMA SnapDraws ==
  ASSUME NEW n \in Nat, NEW ws, Len(ws) = n, NEW l, Listing(l, n), NEW b \in 2..n,
         SnapAt(ws, l, b) # l
  PROVE  l[b - 1] # l[b] /\ \E e \in Int : Drawn(ws, n, l, SnapAt(ws, l, b), b, e)
<1> DEFINE behind == SentenceEndBehind(ws, l, b)
           ahead == SentenceEndAhead(ws, l, b)
           m == SnapAt(ws, l, b)
<1>1. /\ l[b - 1] # l[b]
      /\ \/ behind # {} /\ m = Relabel(l, Max(behind) + 1, b - 1, l[b])
         \/ ahead # {} /\ m = Relabel(l, b, Max(ahead), l[b - 1])
  BY DEF SnapAt, MidSentence
<1>2. CASE behind # {} /\ m = Relabel(l, Max(behind) + 1, b - 1, l[b])
  <2> DEFINE near == {i \in (b - 1 - BoundaryMaxWords)..(b - 2) : i >= 1 /\ ws[i].ends}
             inside == {i \in near : \A k \in i..(b - 2) : l[k] = l[b - 1]}
             e == Max(inside)
  <2>1. inside # {} /\ behind = {e}
    BY <1>2 DEF SentenceEndBehind
  <2>2. inside \subseteq 1..(b - 2)
    OBVIOUS
  <2>3. IsFiniteSet(inside) /\ inside \subseteq Int
    <3> DEFINE all == 1..(b - 2)
    <3> HIDE DEF inside
    <3>1. IsFiniteSet(all)
      BY FS_Interval
    <3>2. inside \in SUBSET all /\ inside \subseteq Int
      BY <2>2
    <3> HIDE DEF all
    <3> QED BY <3>1, <3>2, FS_Subset
  <2>4. e \in inside
    <3> HIDE DEF inside
    <3> QED BY <2>1, <2>3, Extrema
  <2>5. e \in 1..(b - 2) /\ ws[e].ends /\ \A k \in e..(b - 2) : l[k] = l[b - 1]
    <3> HIDE DEF e
    <3> QED BY <2>4
  <2>6. Max(behind) = e
    <3> HIDE DEF behind, e
    <3>1. e \in Int
      BY <2>5
    <3>2. IsFiniteSet({e})
      BY FS_Singleton
    <3> QED BY <2>1, <3>1, <3>2, Extrema
  <2> HIDE DEF behind, inside, near, e, m
  <2>7. Drawn(ws, n, l, m, b, e)
    BY <1>2, <2>5, <2>6 DEF Drawn
  <2> QED BY <1>1, <2>5, <2>7 DEF m
<1>3. CASE ahead # {} /\ m = Relabel(l, b, Max(ahead), l[b - 1])
  <2> DEFINE near == {i \in b..(b + BoundaryMaxWords - 1) : i <= Len(ws) /\ ws[i].ends}
             inside == {i \in near : \A k \in b..i : l[k] = l[b]}
             e == Min(inside)
  <2>1. ahead = {i \in inside : i = e /\ i < Len(ws) /\ l[i + 1] = l[b]}
    BY DEF SentenceEndAhead
  <2>2. inside \subseteq b..n
    OBVIOUS
  <2>3. ahead = {e} /\ e \in inside /\ e < n /\ l[e + 1] = l[b]
    <3> HIDE DEF inside, e, ahead
    <3> QED BY <1>3, <2>1
  <2>4. e \in b..n /\ ws[e].ends /\ \A k \in b..e : l[k] = l[b]
    <3> HIDE DEF e, ahead
    <3> QED BY <2>3
  <2>5. Max(ahead) = e
    <3> HIDE DEF ahead, e
    <3>1. e \in Int
      BY <2>4
    <3>2. IsFiniteSet({e})
      BY FS_Singleton
    <3> QED BY <2>3, <3>1, <3>2, Extrema
  <2> HIDE DEF ahead, inside, near, e, m
  <2>6. Drawn(ws, n, l, m, b, e)
    BY <1>3, <2>3, <2>4, <2>5 DEF Drawn
  <2> QED BY <1>1, <2>4, <2>6 DEF m
<1> HIDE DEF behind, ahead, m
<1> QED BY <1>1, <1>2, <1>3

\* What snapping keeps of the labels it is given.
Snapped(ws, n, given, acc) ==
  /\ Listing(acc, n)
  /\ Turntaking(acc) = Turntaking(given)
  /\ \A b \in Changes(acc) \ Changes(given) : ws[b - 1].ends

LEMMA SnappingKeeps ==
  ASSUME NEW n \in Nat, NEW ws, Len(ws) = n, NEW given, Listing(given, n)
  PROVE  Snapped(ws, n, given, SnapBoundaries(ws, given))
<1> DEFINE places == [i \in 1..(Len(ws) - 1) |-> i + 1]
           m == IF n = 0 THEN 0 ELSE n - 1
           f == Snapping!Trace(ws, 0, given, places, m)
           S == {k \in 0..m : Snapped(ws, n, given, f[k])}
<1>1. SnapBoundaries(ws, given) = Snapping!Fold(ws, 0, given, places)
  BY DEF SnapBoundaries, Snapping!Fold, SnapOp, FoldLeft, MapThenFoldSet, Max,
         Snapping!FoldLeft, Snapping!MapThenFoldSet, Snapping!Max
<1>2. m \in Nat /\ DOMAIN places = 1..m /\ \A k \in 1..m : places[k] \in 2..n
  OBVIOUS
<1> HIDE DEF places, m
<1>3. /\ f[0] = given
      /\ \A k \in 1..m : f[k] = SnapOp(ws, 0, f[k - 1], places[k])
      /\ Snapping!Fold(ws, 0, given, places) = f[m]
  BY <1>2, Snapping!FoldTrace
<1> HIDE DEF f
<1>4. 0 \in S
  BY <1>2, <1>3 DEF Snapped
<1>5. ASSUME NEW acc, Snapped(ws, n, given, acc), NEW b \in 2..n
      PROVE  Snapped(ws, n, given, SnapAt(ws, acc, b))
  <2> DEFINE next == SnapAt(ws, acc, b)
  <2>1. CASE next = acc
    BY <1>5, <2>1
  <2>2. CASE next # acc
    <3>1. Listing(acc, n)
      BY <1>5 DEF Snapped
    <3>2. PICK e \in Int : acc[b - 1] # acc[b] /\ Drawn(ws, n, acc, next, b, e)
      BY <2>2, <3>1, SnapDraws
    <3> HIDE DEF next
    <3>3. /\ Listing(next, n) /\ Turntaking(next) = Turntaking(acc)
          /\ Changes(next) \subseteq Changes(acc) \cup {e + 1}
      BY <3>1, <3>2, ChangeDrawn
    <3>4. ws[e].ends /\ (e + 1) - 1 = e
      BY <3>2 DEF Drawn
    <3>5. /\ Turntaking(acc) = Turntaking(given)
          /\ \A c \in Changes(acc) \ Changes(given) : ws[c - 1].ends
      BY <1>5 DEF Snapped
    <3>6. \A c \in Changes(next) \ Changes(given) :
            c = e + 1 \/ c \in Changes(acc) \ Changes(given)
      BY <3>3
    <3>7. \A c \in Changes(next) \ Changes(given) : ws[c - 1].ends
      BY <3>4, <3>5, <3>6
    <3>8. Snapped(ws, n, given, next)
      BY <3>3, <3>5, <3>7 DEF Snapped
    <3> QED BY <3>8 DEF next
  <2> QED BY <2>1, <2>2
<1>6. ASSUME NEW k \in 1..m, k - 1 \in S PROVE k \in S
  <2>1. f[k] = SnapAt(ws, f[k - 1], places[k])
    BY <1>3 DEF SnapOp
  <2>2. Snapped(ws, n, given, f[k - 1]) /\ k \in 0..m
    BY <1>2, <1>6
  <2> QED BY <1>2, <1>5, <2>1, <2>2
<1> HIDE DEF S
<1>7. m \in S
  BY <1>2, <1>4, <1>6, StepInduction
<1> QED BY <1>1, <1>3, <1>7 DEF S

LEMMA OverlapsTyped ==
  ASSUME NEW ts, TurnsOK(ts)
  PROVE  \A o \in DOMAIN DetectOverlaps(ts) : Interval(DetectOverlaps(ts)[o])
<1> DEFINE ivs == DetectOverlaps(ts)
           now == SweepEnd(ts)
           on == On(ts)
<1>1. now \in Nat /\ IntervalsUpTo(ivs, on, now)
  BY OverlapsFound
<1> HIDE DEF ivs, now, on
<1>2. \A o \in DOMAIN ivs : ivs[o].start \in Nat /\ ivs[o].end \in Nat
  BY <1>1, IntervalTypes
<1> QED BY <1>2 DEF ivs, Interval

-----------------------------------------------------------------------------
(* relabel_turns                                                           *)

Spoken == [start : Int, end : Int, speaker : Nat]

LEMMA NumbersOf ==
  ASSUME NEW s \in Seq(Spoken)
  PROVE  /\ Len(s) \in Nat /\ DOMAIN s = 1..Len(s)
         /\ \A i \in DOMAIN s : s[i].start \in Int /\ s[i].end \in Int /\ s[i].speaker \in Nat
         /\ {s[i].speaker : i \in DOMAIN s} \subseteq Nat
         /\ IsFiniteSet({s[i].speaker : i \in DOMAIN s})
<1> DEFINE n == Len(s)
           I == DOMAIN s
           f == [i \in I |-> s[i].speaker]
<1>1. n \in Nat /\ I = 1..n
  OBVIOUS
<1>2. \A r \in Spoken : r.start \in Int /\ r.end \in Int /\ r.speaker \in Nat
  BY DEF Spoken
<1>3. \A i \in I : s[i].start \in Int /\ s[i].end \in Int /\ s[i].speaker \in Nat
  BY <1>2
<1>4. IsFiniteSet(I)
  <2> HIDE DEF n, I
  <2> QED BY <1>1, FS_Interval
<1>5. {s[i].speaker : i \in I} = {f[i] : i \in I}
  OBVIOUS
<1>6. IsFiniteSet({f[i] : i \in I})
  <2> HIDE DEF f, I
  <2> QED BY <1>4, FiniteImage
<1>7. IsFiniteSet({s[i].speaker : i \in I})
  BY <1>5, <1>6
<1> QED BY <1>1, <1>3, <1>7

TimeOp(c, q, acc, turn) == TimeWith(c, acc, turn)
Timing == INSTANCE FoldLemmas WITH Op <- TimeOp

LEMMA SpeakingTimeCounts ==
  ASSUME NEW ts \in Seq(Spoken), NEW c
  PROVE  SpeakingTime(ts, c) \in Int
<1> DEFINE n == Len(ts)
           none == 0
           list == ts
           f == Timing!Trace(c, none, none, list, n)
           S == {k \in 0..n : f[k] \in Int}
<1>1. SpeakingTime(ts, c) = Timing!Fold(c, none, none, list)
  BY DEF SpeakingTime, Timing!Fold, TimeOp, FoldLeft, MapThenFoldSet, Max,
         Timing!FoldLeft, Timing!MapThenFoldSet, Timing!Max
<1>2. n \in Nat /\ DOMAIN list = 1..n /\ \A k \in 1..n : Length(list[k]) \in Int
  <2>1. \A k \in DOMAIN ts : ts[k].start \in Int /\ ts[k].end \in Int
    BY NumbersOf
  <2> QED BY <2>1 DEF Length
<1>3. none = 0
  OBVIOUS
<1> HIDE DEF n, none, list
<1>7. /\ f[0] = none
      /\ \A k \in 1..n : f[k] = TimeOp(c, none, f[k - 1], list[k])
      /\ Timing!Fold(c, none, none, list) = f[n]
  <2>1. n \in Nat /\ DOMAIN list = 1..n
    BY <1>2
  <2> QED BY <2>1, Timing!FoldTrace
<1> HIDE DEF f
<1>4. 0 \in S
  BY <1>2, <1>3, <1>7
<1>5. ASSUME NEW k \in 1..n, k - 1 \in S PROVE k \in S
  <2>1. f[k] = TimeWith(c, f[k - 1], list[k]) /\ f[k - 1] \in Int /\ k \in 0..n
    BY <1>2, <1>7, <1>5 DEF TimeOp
  <2> QED BY <1>2, <2>1 DEF TimeWith
<1> HIDE DEF S
<1>6. n \in S
  BY <1>2, <1>4, <1>5, StepInduction
<1> QED BY <1>1, <1>7, <1>6 DEF S

\* The first number not in use.
LEMMA FreshNameFree ==
  ASSUME NEW used, IsFiniteSet(used)
  PROVE  FreshName(used) \in Nat /\ FreshName(used) \notin used
<1> DEFINE n == Cardinality(used)
           I == 0..n
           free == I \ used
<1>1. n \in Nat
  BY FS_CardinalityType
<1>2. IsFiniteSet(I) /\ Cardinality(I) = n + 1 /\ I \subseteq Nat
  <2> HIDE DEF n
  <2>1. 0 \in Int /\ n \in Int /\ n - 0 + 1 = n + 1 /\ ~ (0 > n)
    BY <1>1
  <2>2. IsFiniteSet(0..n) /\ Cardinality(0..n) = n - 0 + 1
    BY <2>1, FS_Interval
  <2> QED BY <1>1, <2>1, <2>2
<1>3. ~ (I \subseteq used)
  <2> SUFFICES ASSUME I \subseteq used PROVE FALSE
    OBVIOUS
  <2>1. Cardinality(I) <= n
    <3> HIDE DEF I
    <3> QED BY FS_Subset
  <2> HIDE DEF n, I
  <2> QED BY <1>1, <1>2, <2>1
<1>4. free # {}
  BY <1>3
<1>5. IsFiniteSet(free) /\ free \subseteq Int /\ free \subseteq Nat
  <2>1. free \in SUBSET I /\ IsFiniteSet(I) /\ I \subseteq Nat
    BY <1>2
  <2> HIDE DEF I, free
  <2>2. IsFiniteSet(free)
    BY <2>1, FS_Subset
  <2> QED BY <2>1, <2>2
<1>6. FreshName(used) = Min(free)
  BY DEF FreshName
<1>7. free \cap used = {}
  OBVIOUS
<1> HIDE DEF free
<1>8. Min(free) \in free
  BY <1>4, <1>5, Extrema
<1> QED BY <1>5, <1>6, <1>7, <1>8

\* Names given so far: numbers, all different, none the caller's.
NamesUpTo(names, ref, k) ==
  /\ names = [i \in 1..k |-> names[i]]
  /\ \A i \in 1..k : names[i] \in Nat /\ names[i] \notin CallerLabels(ref)
  /\ \A i, j \in 1..k : i # j => names[i] # names[j]

LEMMA NameAdded ==
  ASSUME NEW ref \in Seq(Spoken), NEW k \in Nat, NEW names, NamesUpTo(names, ref, k)
  PROVE  NamesUpTo(Append(names, FreshName(ToSet(names) \cup CallerLabels(ref))), ref, k + 1)
<1> DEFINE used == ToSet(names) \cup CallerLabels(ref)
           name == FreshName(used)
           new == Append(names, name)
<1>1. DOMAIN names = 1..k /\ ToSet(names) = {names[i] : i \in 1..k}
  BY DEF NamesUpTo, ToSet
<1>2. IsFiniteSet(used)
  <2>1. IsFiniteSet(1..k)
    BY FS_Interval
  <2>2. IsFiniteSet({names[i] : i \in 1..k})
    BY <2>1, FiniteImage
  <2>3. IsFiniteSet(CallerLabels(ref))
    BY NumbersOf DEF CallerLabels
  <2> QED BY <1>1, <2>2, <2>3, FS_Union
<1>3. name \in Nat /\ name \notin used
  <2> HIDE DEF used
  <2> QED BY <1>2, FreshNameFree
<1>4. name \notin CallerLabels(ref) /\ \A i \in 1..k : names[i] # name
  BY <1>1, <1>3
<1>5. Listing(names, k)
  BY DEF Listing, NamesUpTo
<1> HIDE DEF name
<1>6. new = [i \in 1..(k + 1) |-> IF i = k + 1 THEN name ELSE names[i]]
  BY <1>5, ListingAppend
<1> HIDE DEF new
<1>7. new = [i \in 1..(k + 1) |-> new[i]]
      /\ \A i \in 1..(k + 1) : new[i] = IF i = k + 1 THEN name ELSE names[i]
  BY <1>6
<1>8. \A i \in 1..(k + 1) : i # k + 1 => i \in 1..k
  OBVIOUS
<1>9. \A i \in 1..k : names[i] \in Nat /\ names[i] \notin CallerLabels(ref)
  BY DEF NamesUpTo
<1>10. \A i, j \in 1..k : i # j => names[i] # names[j]
  BY DEF NamesUpTo
<1>11. \A i, j \in 1..(k + 1) : i # j => new[i] # new[j]
  BY <1>4, <1>7, <1>8, <1>10
<1>12. \A i \in 1..(k + 1) : new[i] \in Nat /\ new[i] \notin CallerLabels(ref)
  BY <1>3, <1>4, <1>7, <1>8, <1>9
<1> QED BY <1>7, <1>11, <1>12 DEF NamesUpTo, new, name

NameOp(taken, q, acc, c) == Append(acc, FreshName(ToSet(acc) \cup taken))
Freshening == INSTANCE FoldLemmas WITH Op <- NameOp

LEMMA FreshNamesApart ==
  ASSUME NEW ts, NEW ref \in Seq(Spoken), NEW n \in Nat, DOMAIN Unmatched(ts, ref) = 1..n
  PROVE  NamesUpTo(FreshNames(ts, ref), ref, n)
<1> DEFINE rest == Unmatched(ts, ref)
           taken == CallerLabels(ref)
           f == Freshening!Trace(taken, 0, <<>>, rest, n)
           S == {k \in 0..n : NamesUpTo(f[k], ref, k)}
<1>1. FreshNames(ts, ref) = Freshening!Fold(taken, 0, <<>>, rest)
  BY DEF FreshNames, Taken, Freshening!Fold, NameOp, FoldLeft, MapThenFoldSet, Max,
         Freshening!FoldLeft, Freshening!MapThenFoldSet, Freshening!Max
<1>2. DOMAIN rest = 1..n
  OBVIOUS
<1> HIDE DEF rest, taken
<1>3. /\ f[0] = <<>>
      /\ \A k \in 1..n : f[k] = NameOp(taken, 0, f[k - 1], rest[k])
      /\ Freshening!Fold(taken, 0, <<>>, rest) = f[n]
  BY <1>2, Freshening!FoldTrace
<1> HIDE DEF f
<1>4. 0 \in S
  <2>1. NamesUpTo(<<>>, ref, 0)
    <3>1. <<>> = [i \in 1..0 |-> <<>>[i]]
      OBVIOUS
    <3> QED BY <3>1 DEF NamesUpTo
  <2> QED BY <1>3, <2>1
<1>5. ASSUME NEW k \in 1..n, k - 1 \in S PROVE k \in S
  <2>1. f[k] = Append(f[k - 1], FreshName(ToSet(f[k - 1]) \cup taken))
    BY <1>3 DEF NameOp
  <2>2. k - 1 \in Nat /\ (k - 1) + 1 = k /\ k \in 0..n /\ NamesUpTo(f[k - 1], ref, k - 1)
    BY <1>5
  <2>3. NamesUpTo(f[k], ref, (k - 1) + 1)
    BY <2>1, <2>2, NameAdded DEF taken
  <2> QED BY <2>2, <2>3
<1> HIDE DEF S
<1>6. n \in S
  BY <1>4, <1>5, StepInduction
<1> QED BY <1>1, <1>3, <1>6 DEF S

\* The clusters that no caller's speaker won.
Unwon(ts, ref) == {c \in Clusters(ts) : Winner(ts, ref, c) = {}}

LEMMA UnmatchedListed ==
  ASSUME NEW ts \in Seq(Spoken), NEW ref
  PROVE  /\ Cardinality(Unwon(ts, ref)) \in Nat
         /\ Unmatched(ts, ref) \in [1..Cardinality(Unwon(ts, ref)) -> Unwon(ts, ref)]
         /\ \A c \in Unwon(ts, ref) :
              \E k \in 1..Cardinality(Unwon(ts, ref)) : Unmatched(ts, ref)[k] = c
<1> DEFINE U == Unwon(ts, ref)
           key == [c \in Clusters(ts) |-> -SpeakingTime(ts, c)]
<1>1. IsFiniteSet(Clusters(ts)) /\ Clusters(ts) \subseteq Nat
  BY NumbersOf DEF Clusters
<1>2. IsFiniteSet(U) /\ U \subseteq Int
  BY <1>1, FS_Subset DEF Unwon
<1>3. \A c \in U : key[c] \in Int
  BY SpeakingTimeCounts DEF Unwon
<1>4. Unmatched(ts, ref) = SortedBy(U, key)
  BY DEF Unmatched, Unwon
<1> HIDE DEF U, key
<1>5. /\ Cardinality(U) \in Nat
      /\ SortedBy(U, key) \in [1..Cardinality(U) -> U]
      /\ \A c \in U : \E k \in 1..Cardinality(U) : SortedBy(U, key)[k] = c
      /\ \A k, l \in 1..Cardinality(U) :
           k < l => Before(key, SortedBy(U, key)[k], SortedBy(U, key)[l])
  BY <1>2, <1>3, SortedByKey
<1> QED BY <1>4, <1>5 DEF U

\* The place of a cluster in the list.
LEMMA PlaceOf ==
  ASSUME NEW n \in Nat, NEW T, NEW list \in [1..n -> T], NEW k \in 1..n
  PROVE  LET at == SelectInSeq(list, LAMBDA d : d = list[k])
         IN at \in 1..n /\ list[at] = list[k]
<1> DEFINE I == {i \in 1..n : list[i] = list[k]}
           at == SelectInSeq(list, LAMBDA d : d = list[k])
<1>1. Len(list) = n
  OBVIOUS
<1>2. at = IF I # {} THEN Min(I) ELSE 0
  BY <1>1 DEF SelectInSeq
<1>3. k \in I /\ I \subseteq 1..n /\ I \subseteq Int
  OBVIOUS
<1>4. IsFiniteSet(I)
  <2>1. IsFiniteSet(1..n)
    BY FS_Interval
  <2> QED BY <1>3, <2>1, FS_Subset
<1>5. \A i \in I : i \in 1..n /\ list[i] = list[k]
  OBVIOUS
<1> HIDE DEF I
<1>6. Min(I) \in I
  BY <1>3, <1>4, Extrema
<1> QED BY <1>2, <1>3, <1>5, <1>6

\* A cluster without a winner gets a name of its own.
LEMMA NamesApart ==
  ASSUME NEW ts \in Seq(Spoken), NEW ref \in Seq(Spoken),
         NEW c \in Clusters(ts), NEW d \in Clusters(ts), Winner(ts, ref, c) = {}
  PROVE  /\ ClusterName(ts, ref, c) \notin CallerLabels(ref)
         /\ c # d => ClusterName(ts, ref, c) # ClusterName(ts, ref, d)
<1> DEFINE U == Unwon(ts, ref)
           n == Cardinality(U)
           list == Unmatched(ts, ref)
           names == FreshNames(ts, ref)
           Place(e) == SelectInSeq(list, LAMBDA g : g = e)
<1>1. n \in Nat /\ list \in [1..n -> U] /\ \A e \in U : \E k \in 1..n : list[k] = e
  BY UnmatchedListed
<1>2. NamesUpTo(names, ref, n)
  <2>1. DOMAIN Unmatched(ts, ref) = 1..n
    BY <1>1
  <2> HIDE DEF n
  <2> QED BY <1>1, <2>1, FreshNamesApart
<1>3. ASSUME NEW e \in U PROVE ClusterName(ts, ref, e) = names[Place(e)]
  BY <1>3 DEF ClusterName, Unwon
<1> HIDE DEF U, n, list, names
<1>4. ASSUME NEW e \in U PROVE Place(e) \in 1..n /\ list[Place(e)] = e
  <2> PICK k \in 1..n : list[k] = e
    BY <1>1
  <2>1. LET at == SelectInSeq(list, LAMBDA g : g = list[k])
        IN at \in 1..n /\ list[at] = list[k]
    BY <1>1, PlaceOf, ZenonT(60)
  <2> QED BY <2>1
<1> HIDE DEF Place
<1>5. c \in U
  BY DEF U, Unwon
<1>6. ClusterName(ts, ref, c) \notin CallerLabels(ref)
  BY <1>2, <1>3, <1>4, <1>5 DEF NamesUpTo
<1>7. ASSUME c # d PROVE ClusterName(ts, ref, c) # ClusterName(ts, ref, d)
  <2>1. CASE d \in U
    <3>1. Place(c) # Place(d)
      BY <1>4, <1>5, <1>7, <2>1
    <3>2. Place(c) \in 1..n /\ Place(d) \in 1..n
      BY <1>4, <1>5, <2>1
    <3>3. ClusterName(ts, ref, c) = names[Place(c)] /\ ClusterName(ts, ref, d) = names[Place(d)]
      BY <1>3, <1>5, <2>1
    <3>4. names[Place(c)] # names[Place(d)]
      BY <1>2, <3>1, <3>2 DEF NamesUpTo
    <3> QED BY <3>3, <3>4
  <2>2. CASE d \notin U
    <3> DEFINE W == Winner(ts, ref, d)
    <3>1. W # {} /\ ClusterName(ts, ref, d) = Max(W)
      BY <2>2 DEF U, Unwon, ClusterName
    <3>2. W \subseteq CallerLabels(ref)
      BY DEF Winner
    <3>3. IsFiniteSet(CallerLabels(ref)) /\ CallerLabels(ref) \subseteq Nat
      BY NumbersOf DEF CallerLabels
    <3> HIDE DEF W
    <3>4. IsFiniteSet(W) /\ W \subseteq Int
      BY <3>2, <3>3, FS_Subset
    <3>5. Max(W) \in W
      BY <3>1, <3>4, Extrema
    <3> QED BY <1>6, <3>1, <3>2, <3>5
  <2> QED BY <2>1, <2>2
<1> QED BY <1>6, <1>7

-----------------------------------------------------------------------------
(* The state machine                                                       *)

Words == [start : Int, end : Int, ends : BOOLEAN, low : BOOLEAN, anchored : BOOLEAN]
TotalWords == Len(words)
Labelled == {labels[i] : i \in 1..TotalWords}

InputsInv ==
  /\ words \in Seq(Words)
  /\ TurnsOK(turns)
  /\ reference \in Seq(Spoken)
  /\ pc \in {"diarize", "relabel"} => turns \in Seq(Spoken)
  /\ diarize \in BOOLEAN

\* The turns are sorted when words are attributed by them.
TurnsInv ==
  /\ pc \in {"label", "smooth"} => Sorted(turns)
  /\ pc = "relabel" => overlaps = DetectOverlaps(turns)
  /\ \A o \in DOMAIN overlaps : Interval(overlaps[o])

LabelsInv ==
  /\ Listing(labels, TotalWords)
  /\ pc = "smooth" => \A i \in 1..TotalWords : ByTurn(words[i], turns, labels[i])

LinesInv ==
  /\ pc \in {"merge", "review"} => diarize
  /\ words # <<>> =>
       /\ pc \in {"merge", "review"} =>
            lines \in Seq(LinesOf(words, TotalWords, Labelled, FALSE))
       /\ pc = "done" /\ ~diarize =>
            lines \in Seq(LinesOf(words, TotalWords, Labelled, TRUE))
       /\ pc \in {"merge", "review", "done"} => Tiles(lines, 1, TotalWords)

LabelInv == InputsInv /\ TurnsInv /\ LabelsInv /\ LinesInv

LEMMA WordFacts ==
  ASSUME words \in Seq(Words)
  PROVE  /\ TotalWords \in Nat /\ DOMAIN words = 1..TotalWords /\ Listing(words, TotalWords)
         /\ (words = <<>> <=> TotalWords = 0)
         /\ \A i \in 1..TotalWords : Interval(words[i])
<1>1. \A w \in Words : Interval(w)
  BY DEF Words, Interval
<1> QED BY <1>1 DEF TotalWords, Listing

\* Every recording that comes in.
LEMMA InitLabels ==
  ASSUME Init
  PROVE  LabelInv
<1> PICK family \in Recordings : \E r \in family :
      /\ words = ByStart(r.words)
      /\ segments = r.segments
      /\ turns = r.turns
      /\ reference = r.reference
      /\ diarize = r.diarize
      /\ pc = IF r.diarize THEN "diarize" ELSE "group"
      /\ labels = [i \in DOMAIN r.words |-> NoSpeaker]
      /\ overlaps = <<>> /\ lines = <<>>
  BY DEF Init
<1> PICK r \in family :
      /\ words = ByStart(r.words)
      /\ segments = r.segments
      /\ turns = r.turns
      /\ reference = r.reference
      /\ diarize = r.diarize
      /\ pc = IF r.diarize THEN "diarize" ELSE "group"
      /\ labels = [i \in DOMAIN r.words |-> NoSpeaker]
      /\ overlaps = <<>> /\ lines = <<>>
  OBVIOUS
<1>1. /\ r.words \in Seq(Words)
      /\ turns \in Seq(Spoken) /\ reference \in Seq(Spoken)
      /\ diarize \in BOOLEAN
  BY RecordingsAssumption DEF Words, Spoken
<1> DEFINE given == r.words
<1>2. /\ given \in Seq(Words) /\ words = ByStart(given)
      /\ labels = [i \in DOMAIN given |-> NoSpeaker]
  BY <1>1
<1>3. pc \in {"diarize", "group"} /\ overlaps = <<>>
  OBVIOUS
<1> HIDE DEF given
<1>4. \A i \in DOMAIN given : given[i].start \in Int
  <2>1. \A w \in Words : w.start \in Int
    BY DEF Words
  <2> QED BY <1>2, <2>1
<1>5. words \in Seq(Words) /\ Len(words) = Len(given)
  BY <1>2, <1>4, ByStartSorts
<1>6. TurnsOK(turns)
  BY <1>1, TurnsTyped DEF Spoken
<1>7. Listing(labels, TotalWords)
  <2>1. DOMAIN given = 1..TotalWords
    BY <1>2, <1>5 DEF TotalWords
  <2> QED BY <1>2, <2>1 DEF Listing
<1>8. InputsInv
  BY <1>1, <1>5, <1>6 DEF InputsInv
<1>9. TurnsInv
  BY <1>3 DEF TurnsInv
<1>10. LabelsInv
  BY <1>3, <1>7 DEF LabelsInv
<1>11. LinesInv
  BY <1>3 DEF LinesInv
<1> QED BY <1>8, <1>9, <1>10, <1>11 DEF LabelInv

LEMMA DiarizeKeeps ==
  ASSUME LabelInv, Diarize
  PROVE  LabelInv'
<1>1. /\ pc = "diarize" /\ pc' = "relabel" /\ overlaps' = DetectOverlaps(turns)
      /\ reference' = reference /\ words' = words /\ turns' = turns /\ diarize' = diarize /\ labels' = labels
  BY DEF Diarize
<1>2. InputsInv'
  BY <1>1 DEF LabelInv, InputsInv
<1>3. TurnsInv'
  <2>1. TurnsOK(turns)
    BY DEF LabelInv, InputsInv
  <2>2. \A o \in DOMAIN overlaps' : Interval(overlaps'[o])
    BY <1>1, <2>1, OverlapsTyped
  <2> QED BY <1>1, <2>2 DEF TurnsInv
<1>4. LabelsInv'
  BY <1>1 DEF LabelInv, LabelsInv, TotalWords
<1>5. LinesInv'
  BY <1>1 DEF LinesInv
<1> QED BY <1>2, <1>3, <1>4, <1>5 DEF LabelInv

LEMMA RelabelKeeps ==
  ASSUME LabelInv, RelabelClusters
  PROVE  LabelInv'
<1>1. /\ pc' \in {"group", "label"} /\ turns' = ByStart(RelabelTurns(turns, reference))
      /\ reference' = reference /\ words' = words /\ overlaps' = overlaps /\ diarize' = diarize /\ labels' = labels
  BY DEF RelabelClusters
<1>2. TurnsOK(turns') /\ Sorted(turns')
  <2>1. TurnsOK(RelabelTurns(turns, reference))
    BY RelabelKeepsTurns DEF LabelInv, InputsInv
  <2> QED BY <1>1, <2>1, TurnsSorted
<1>3. InputsInv'
  BY <1>1, <1>2 DEF LabelInv, InputsInv
<1>4. TurnsInv'
  BY <1>1, <1>2 DEF LabelInv, TurnsInv
<1>5. LabelsInv'
  BY <1>1 DEF LabelInv, LabelsInv, TotalWords
<1>6. LinesInv'
  BY <1>1 DEF LinesInv
<1> QED BY <1>3, <1>4, <1>5, <1>6 DEF LabelInv

LEMMA MergeSegmentsKeeps ==
  ASSUME LabelInv, MergeSegments
  PROVE  LabelInv'
<1>1. /\ words = <<>> /\ pc' = IF diarize THEN "review" ELSE "done"
      /\ reference' = reference /\ words' = words /\ turns' = turns /\ overlaps' = overlaps
      /\ diarize' = diarize /\ labels' = labels
  BY DEF MergeSegments
<1>2. InputsInv'
  BY <1>1 DEF LabelInv, InputsInv
<1>3. TurnsInv'
  BY <1>1 DEF LabelInv, TurnsInv
<1>4. LabelsInv'
  BY <1>1 DEF LabelInv, LabelsInv, TotalWords
<1>5. LinesInv'
  BY <1>1 DEF LinesInv
<1> QED BY <1>2, <1>3, <1>4, <1>5 DEF LabelInv

LEMMA AttributeKeeps ==
  ASSUME LabelInv, Attribute
  PROVE  LabelInv'
<1>1. /\ pc = "label" /\ pc' = "smooth" /\ labels' = LabelWords(words, turns)
      /\ reference' = reference /\ words' = words /\ turns' = turns /\ overlaps' = overlaps /\ diarize' = diarize
  BY DEF Attribute
<1>2. InputsInv'
  BY <1>1 DEF LabelInv, InputsInv
<1>3. TurnsInv'
  BY <1>1 DEF LabelInv, TurnsInv
<1>4. LabelsInv'
  <2>1. TotalWords \in Nat /\ Listing(words, TotalWords) /\ TotalWords' = TotalWords
    BY <1>1, WordFacts DEF LabelInv, InputsInv, TotalWords
  <2>2. /\ Listing(labels', TotalWords)
        /\ \A i \in 1..TotalWords : ByTurn(words[i], turns, labels'[i])
    BY <1>1, <2>1, LabelsByTurn
  <2> QED BY <1>1, <2>1, <2>2 DEF LabelsInv
<1>5. LinesInv'
  BY <1>1 DEF LinesInv
<1> QED BY <1>2, <1>3, <1>4, <1>5 DEF LabelInv

LEMMA SmoothKeeps ==
  ASSUME LabelInv, Smooth
  PROVE  LabelInv'
<1>1. /\ pc' = "snap" /\ labels' = SmoothIslands(words, labels)
      /\ reference' = reference /\ words' = words /\ turns' = turns /\ overlaps' = overlaps /\ diarize' = diarize
  BY DEF Smooth
<1>2. InputsInv'
  BY <1>1 DEF LabelInv, InputsInv
<1>3. TurnsInv'
  BY <1>1 DEF LabelInv, TurnsInv
<1>4. LabelsInv'
  <2>1. /\ TotalWords \in Nat /\ DOMAIN words = 1..TotalWords /\ TotalWords' = TotalWords
        /\ Len(words) = TotalWords /\ labels = [i \in 1..TotalWords |-> labels[i]]
    BY <1>1, WordFacts DEF LabelInv, InputsInv, LabelsInv, Listing, TotalWords
  <2>2. SmoothIslands(words, labels) =
          [i \in 1..TotalWords |-> SmoothIslands(words, labels)[i]]
    BY <2>1, SmoothingJoins
  <2> QED BY <1>1, <2>1, <2>2 DEF LabelsInv, Listing
<1>5. LinesInv'
  BY <1>1 DEF LinesInv
<1> QED BY <1>2, <1>3, <1>4, <1>5 DEF LabelInv

LEMMA SnapKeeps ==
  ASSUME LabelInv, Snap
  PROVE  LabelInv'
<1>1. /\ pc' = "group" /\ labels' = SnapBoundaries(words, labels)
      /\ reference' = reference /\ words' = words /\ turns' = turns /\ overlaps' = overlaps /\ diarize' = diarize
  BY DEF Snap
<1>2. InputsInv'
  BY <1>1 DEF LabelInv, InputsInv
<1>3. TurnsInv'
  BY <1>1 DEF LabelInv, TurnsInv
<1>4. LabelsInv'
  <2>1. /\ TotalWords \in Nat /\ TotalWords' = TotalWords
        /\ Len(words) = TotalWords /\ Listing(labels, TotalWords)
    BY <1>1, WordFacts DEF LabelInv, InputsInv, LabelsInv, TotalWords
  <2>2. Listing(labels', TotalWords)
    BY <1>1, <2>1, SnappingKeeps DEF Snapped
  <2> QED BY <1>1, <2>1, <2>2 DEF LabelsInv
<1>5. LinesInv'
  BY <1>1 DEF LinesInv
<1> QED BY <1>2, <1>3, <1>4, <1>5 DEF LabelInv

LEMMA LinesKeeps ==
  ASSUME LabelInv, Lines
  PROVE  LabelInv'
<1>1. /\ words # <<>> /\ lines' = GroupLabelled(words, labels, ~diarize)
      /\ pc' = IF ~diarize THEN "done" ELSE IF turns = <<>> THEN "review" ELSE "merge"
      /\ reference' = reference /\ words' = words /\ turns' = turns /\ overlaps' = overlaps
      /\ diarize' = diarize /\ labels' = labels
  BY DEF Lines
<1>2. InputsInv'
  BY <1>1 DEF LabelInv, InputsInv
<1>3. TurnsInv'
  BY <1>1 DEF LabelInv, TurnsInv
<1>4. LabelsInv'
  BY <1>1 DEF LabelInv, LabelsInv, TotalWords
<1>5. LinesInv'
  <2>1. /\ TotalWords \in Nat /\ Listing(words, TotalWords) /\ TotalWords' = TotalWords
        /\ Labelled' = Labelled
    BY <1>1, WordFacts DEF LabelInv, InputsInv, TotalWords, Labelled
  <2>2. diarize \in BOOLEAN
    BY DEF LabelInv, InputsInv
  <2>3. \A i \in 1..TotalWords : labels[i] \in Labelled
    BY DEF Labelled
  <2>4. /\ lines' \in Seq(LinesOf(words, TotalWords, Labelled, ~diarize))
        /\ Tiles(lines', 1, TotalWords)
    <3> DEFINE bounded == ~diarize
    <3>1. bounded \in BOOLEAN
      OBVIOUS
    <3>2. lines' = GroupLabelled(words, labels, bounded)
      BY <1>1
    <3> HIDE DEF bounded
    <3>3. /\ GroupLabelled(words, labels, bounded)
               \in Seq(LinesOf(words, TotalWords, Labelled, bounded))
          /\ Tiles(GroupLabelled(words, labels, bounded), 1, TotalWords)
      BY <2>1, <2>3, <3>1, LinesLaid
    <3>4. /\ lines' \in Seq(LinesOf(words, TotalWords, Labelled, bounded))
          /\ Tiles(lines', 1, TotalWords)
      BY <3>2, <3>3
    <3> QED BY <3>4 DEF bounded
  <2>5. CASE diarize = TRUE
    <3>1. pc' \in {"merge", "review"} /\ diarize' = TRUE
      BY <1>1, <2>5
    <3>2. lines' \in Seq(LinesOf(words, TotalWords, Labelled, FALSE))
      <4>1. (~diarize) = FALSE
        BY <2>5
      <4> QED BY <2>4, <4>1
    <3> QED BY <1>1, <2>1, <2>4, <3>1, <3>2 DEF LinesInv
  <2>6. CASE diarize = FALSE
    <3>1. pc' = "done" /\ diarize' = FALSE
      BY <1>1, <2>6
    <3>2. lines' \in Seq(LinesOf(words, TotalWords, Labelled, TRUE))
      <4>1. (~diarize) = TRUE
        BY <2>6
      <4> QED BY <2>4, <4>1
    <3> QED BY <1>1, <2>1, <2>4, <3>1, <3>2 DEF LinesInv
  <2> QED BY <2>2, <2>5, <2>6
<1> QED BY <1>2, <1>3, <1>4, <1>5 DEF LabelInv

LEMMA MergeOrphansKeeps ==
  ASSUME LabelInv, MergeOrphans
  PROVE  LabelInv'
<1>1. /\ pc = "merge" /\ pc' = "review" /\ lines' = MergeShortOrphans(words, lines)
      /\ reference' = reference /\ words' = words /\ turns' = turns /\ overlaps' = overlaps
      /\ diarize' = diarize /\ labels' = labels
  BY DEF MergeOrphans
<1>2. InputsInv'
  BY <1>1 DEF LabelInv, InputsInv
<1>3. TurnsInv'
  BY <1>1 DEF LabelInv, TurnsInv
<1>4. LabelsInv'
  BY <1>1 DEF LabelInv, LabelsInv, TotalWords
<1>5. LinesInv'
  <2>1. TotalWords \in Nat /\ TotalWords' = TotalWords /\ Labelled' = Labelled
    BY <1>1, WordFacts DEF LabelInv, InputsInv, TotalWords, Labelled
  <2>2. diarize
    BY <1>1 DEF LabelInv, LinesInv
  <2>3. words # <<>> =>
          /\ lines' \in Seq(LinesOf(words, TotalWords, Labelled, FALSE))
          /\ Tiles(lines', 1, TotalWords)
    <3> HAVE words # <<>>
    <3>1. /\ lines \in Seq(LinesOf(words, TotalWords, Labelled, FALSE))
          /\ Tiles(lines, 1, TotalWords)
      BY <1>1 DEF LabelInv, LinesInv
    <3>2. /\ MergeShortOrphans(words, lines) \in Seq(LinesOf(words, TotalWords, Labelled, FALSE))
          /\ Tiles(MergeShortOrphans(words, lines), 1, TotalWords)
      BY <2>1, <3>1, LinesMerged
    <3> QED BY <1>1, <3>2
  <2> QED BY <1>1, <2>1, <2>2, <2>3 DEF LinesInv
<1> QED BY <1>2, <1>3, <1>4, <1>5 DEF LabelInv

LEMMA ReviewKeeps ==
  ASSUME LabelInv, Review
  PROVE  LabelInv'
<1>1. /\ pc = "review" /\ pc' = "done"
      /\ words # <<>> => lines' = ApplySpeakerReview(words, lines, overlaps)
      /\ reference' = reference /\ words' = words /\ turns' = turns /\ overlaps' = overlaps
      /\ diarize' = diarize /\ labels' = labels
  BY DEF Review
<1>2. InputsInv'
  BY <1>1 DEF LabelInv, InputsInv
<1>3. TurnsInv'
  BY <1>1 DEF LabelInv, TurnsInv
<1>4. LabelsInv'
  BY <1>1 DEF LabelInv, LabelsInv, TotalWords
<1>5. LinesInv'
  <2>1. /\ TotalWords \in Nat /\ TotalWords' = TotalWords /\ Labelled' = Labelled
        /\ \A i \in 1..TotalWords : Interval(words[i])
    BY <1>1, WordFacts DEF LabelInv, InputsInv, TotalWords, Labelled
  <2>2. \A o \in DOMAIN overlaps : Interval(overlaps[o])
    BY DEF LabelInv, TurnsInv
  <2>3. diarize
    BY <1>1 DEF LabelInv, LinesInv
  <2>4. words # <<>> => Tiles(lines', 1, TotalWords)
    <3> HAVE words # <<>>
    <3>1. /\ lines \in Seq(LinesOf(words, TotalWords, Labelled, FALSE))
          /\ Tiles(lines, 1, TotalWords)
      BY <1>1 DEF LabelInv, LinesInv
    <3>2. Tiles(ApplySpeakerReview(words, lines, overlaps), 1, TotalWords)
      BY <2>1, <2>2, <3>1, LinesReviewed
    <3> QED BY <1>1, <3>2
  <2> QED BY <1>1, <2>1, <2>3, <2>4 DEF LinesInv
<1> QED BY <1>2, <1>3, <1>4, <1>5 DEF LabelInv

LEMMA StutterKeeps ==
  ASSUME LabelInv, UNCHANGED vars
  PROVE  LabelInv'
BY DEF LabelInv, InputsInv, TurnsInv, LabelsInv, LinesInv, TotalWords, Labelled, vars

\* The invariant of label_speakers: the turns are sorted when words are looked
\* up in them, every word has one label, and the lines, bounded where they have
\* no speakers, tile the words, however often they are cut and joined.
THEOREM LabelInvariant == Spec => []LabelInv
<1>1. Init => LabelInv
  BY InitLabels
<1>2. LabelInv /\ [Next]_vars => LabelInv'
  BY DiarizeKeeps, RelabelKeeps, AttributeKeeps, SmoothKeeps, SnapKeeps, LinesKeeps,
     MergeOrphansKeeps, MergeSegmentsKeeps, ReviewKeeps, StutterKeeps DEF Next
<1> QED BY <1>1, <1>2, PTL DEF Spec

-----------------------------------------------------------------------------
(* The properties                                                          *)

\* The sweep over turns sorted by start, which stops at the first one past the
\* word, misses no turn that the word overlaps most.
THEOREM AlwaysBestOverlapWins == Spec => []BestOverlapWins
<1>1. LabelInv => BestOverlapWins
  <2> SUFFICES ASSUME LabelInv, pc = "smooth", NEW i \in DOMAIN words, NEW t \in DOMAIN turns,
                      Sufficient(words[i], Overlap(words[i], turns[t])),
                      \A u \in DOMAIN turns :
                        Overlap(words[i], turns[u]) <= Overlap(words[i], turns[t])
               PROVE  \E u \in DOMAIN turns :
                        /\ turns[u].speaker = labels[i]
                        /\ Overlap(words[i], turns[u]) = Overlap(words[i], turns[t])
    BY DEF BestOverlapWins
  <2> DEFINE word == words[i]
             best == Max(BestTurn(word, turns))
  <2>1. i \in 1..TotalWords /\ Interval(word)
    BY WordFacts DEF LabelInv, InputsInv
  <2>2. TurnsOK(turns) /\ Sorted(turns)
    BY DEF LabelInv, InputsInv, TurnsInv
  <2>3. ByTurn(word, turns, labels[i])
    BY <2>1 DEF LabelInv, LabelsInv
  <2>4. /\ Sufficient(word, Overlap(word, turns[t]))
        /\ \A u \in DOMAIN turns : Overlap(word, turns[u]) <= Overlap(word, turns[t])
    OBVIOUS
  <2> HIDE DEF word
  <2>5. /\ BestTurn(word, turns) # {} /\ best \in DOMAIN turns
        /\ Overlap(word, turns[best]) = Overlap(word, turns[t])
    BY <2>1, <2>2, <2>4, BestTurnFits
  <2>6. turns[best].speaker = labels[i]
    BY <2>3, <2>5 DEF ByTurn
  <2> QED BY <2>5, <2>6 DEF word
<1> QED BY <1>1, LabelInvariant, PTL

\* Grouping, merging of orphans and review, which cut the words three times
\* and rejoin the pieces, lose, repeat and reorder none.
THEOREM AlwaysWordsKeptInOrder == Spec => []WordsKeptInOrder
<1>1. LabelInv => WordsKeptInOrder
  <2> SUFFICES ASSUME LabelInv, pc \in {"merge", "review", "done"}, words # <<>>
               PROVE  /\ lines[1].first = 1 /\ Last(lines).last = Len(words)
                      /\ \A n \in 1..(Len(lines) - 1) : lines[n + 1].first = lines[n].last + 1
                      /\ \A n \in DOMAIN lines : lines[n].first <= lines[n].last
    BY DEF WordsKeptInOrder
  <2>1. TotalWords \in Nat /\ TotalWords # 0
    BY WordFacts DEF LabelInv, InputsInv
  <2>2. Tiles(lines, 1, TotalWords)
    BY DEF LabelInv, LinesInv
  <2>3. lines # <<>>
    BY <2>1, <2>2 DEF Tiles
  <2> QED BY <2>2, <2>3 DEF Tiles, Last, TotalWords
<1> QED BY <1>1, LabelInvariant, PTL

\* Lines without speakers respect both limits, wherever the line is cut: at the
\* sentence end found by looking back, or at the word over the limit.
THEOREM AlwaysLinesBounded == Spec => []LinesBounded
<1>1. LabelInv => LinesBounded
  <2> SUFFICES ASSUME LabelInv, pc = "done", ~diarize, words # <<>>, NEW n \in DOMAIN lines
               PROVE  /\ lines[n].last - lines[n].first + 1 <= LineMaxWords
                      /\ \/ lines[n].first = lines[n].last
                         \/ words[lines[n].last].end - words[lines[n].first].start <= LineMax
    BY DEF LinesBounded
  <2> DEFINE L == LinesOf(words, TotalWords, Labelled, TRUE)
             a == lines[n].first
             b == lines[n].last
  <2>1. lines \in Seq(L)
    BY DEF LabelInv, LinesInv
  <2>2. lines[n] \in L
    <3> HIDE DEF L
    <3> QED BY <2>1
  <2>3. a \in 1..TotalWords /\ b \in 1..TotalWords /\ a <= b /\ (a < b => ~ Full(words, a, b))
    BY <2>2 DEF LinesOf
  <2>4. TotalWords \in Nat /\ \A i \in 1..TotalWords : Interval(words[i])
    BY WordFacts DEF LabelInv, InputsInv
  <2>5. words[a].start \in Int /\ words[b].end \in Int /\ a \in Int /\ b \in Int
    BY <2>3, <2>4 DEF Interval
  <2>6. LineMax \in Nat /\ LineMaxWords \in Nat /\ 1 <= LineMaxWords
    BY TuningAssumption
  <2> HIDE DEF a, b
  <2>7. b - a + 1 <= LineMaxWords /\ (a = b \/ words[b].end - words[a].start <= LineMax)
    BY <2>3, <2>5, <2>6 DEF Full
  <2> QED BY <2>7 DEF a, b
<1> QED BY <1>1, LabelInvariant, PTL

\* The sweep over beginnings and ends, which counts the turns of each voice,
\* finds the stretches of simultaneous speech and nothing else.
THEOREM AlwaysOverlapsAreSimultaneousSpeech == Spec => []OverlapsAreSimultaneousSpeech
<1>1. LabelInv => OverlapsAreSimultaneousSpeech
  <2> SUFFICES ASSUME LabelInv, pc = "relabel" PROVE OverlapsAreSimultaneousSpeech
    BY DEF OverlapsAreSimultaneousSpeech
  <2> DEFINE on == On(turns)
             now == SweepEnd(turns)
             Holding(t) == {o \in DOMAIN overlaps : overlaps[o].start <= t /\ t < overlaps[o].end}
  <2>1. TurnsOK(turns) /\ overlaps = DetectOverlaps(turns)
    BY DEF LabelInv, InputsInv, TurnsInv
  <2>2. /\ now \in Nat /\ IntervalsUpTo(overlaps, on, now)
        /\ \A t \in Nat : now <= t => Cardinality(on[t]) = 0
    BY <2>1, OverlapsFound
  <2>3. \A t \in Nat : Speaking(t) = on[t] /\ Cardinality(on[t]) \in Nat
    BY <2>1, VoicesCounted DEF Speaking, On
  <2> HIDE DEF on, now
  <2>4. /\ DOMAIN overlaps = 1..Len(overlaps) /\ Len(overlaps) \in Nat
        /\ \A o \in DOMAIN overlaps :
             /\ overlaps[o].start \in Nat /\ overlaps[o].end \in Nat /\ overlaps[o].count \in Nat
             /\ overlaps[o].start < overlaps[o].end /\ overlaps[o].end <= now
    BY <2>2, IntervalTypes
  <2>5. \A t \in Ticks : t \in Nat
    BY DEF Ticks
  <2>6. ASSUME NEW t \in Nat, NEW o \in Holding(t)
        PROVE  overlaps[o].count = Cardinality(on[t]) /\ overlaps[o].count >= 2
    <3>1. o \in DOMAIN overlaps /\ t \in overlaps[o].start..(overlaps[o].end - 1)
      BY <2>4
    <3> QED BY <2>2, <3>1 DEF IntervalsUpTo
  <2>7. ASSUME NEW t \in Nat, NEW o \in Holding(t), NEW p \in Holding(t) PROVE o = p
    <3>1. o \in DOMAIN overlaps /\ p \in DOMAIN overlaps /\ o \in Nat /\ p \in Nat
      BY <2>4
    <3>2. ~ (o < p)
      <4>1. o < p => overlaps[o].end <= overlaps[p].start
        BY <2>2, <3>1 DEF IntervalsUpTo
      <4> QED BY <2>4, <3>1, <4>1
    <3>3. ~ (p < o)
      <4>1. p < o => overlaps[p].end <= overlaps[o].start
        BY <2>2, <3>1 DEF IntervalsUpTo
      <4> QED BY <2>4, <3>1, <4>1
    <3> QED BY <3>1, <3>2, <3>3
  <2>8. ASSUME NEW t \in Ticks
        PROVE  IF Cardinality(Speaking(t)) < 2 THEN Holding(t) = {}
               ELSE \E o \in DOMAIN overlaps :
                      Holding(t) = {o} /\ overlaps[o].count = Cardinality(Speaking(t))
    <3>1. t \in Nat /\ Speaking(t) = on[t] /\ Cardinality(on[t]) \in Nat
      BY <2>3, <2>5
    <3>2. CASE Cardinality(on[t]) < 2
      <4>1. ASSUME NEW o \in Holding(t) PROVE FALSE
        <5>1. overlaps[o].count = Cardinality(on[t]) /\ overlaps[o].count >= 2
          BY <2>6, <3>1
        <5> QED BY <3>1, <3>2, <5>1
      <4>2. Holding(t) = {}
        BY <4>1
      <4> HIDE DEF Holding
      <4> QED BY <3>1, <3>2, <4>2
    <3>3. CASE ~ (Cardinality(on[t]) < 2)
      <4>1. t \in 0..(now - 1) /\ Cardinality(on[t]) >= 2
        BY <2>2, <3>1, <3>3
      <4>2. PICK o \in DOMAIN overlaps : overlaps[o].start <= t /\ t < overlaps[o].end
        BY <2>2, <4>1 DEF IntervalsUpTo
      <4>3. o \in Holding(t)
        BY <4>2
      <4>4. Holding(t) = {o}
        BY <2>7, <3>1, <4>3
      <4>5. overlaps[o].count = Cardinality(on[t])
        BY <2>6, <3>1, <4>3
      <4> HIDE DEF Holding
      <4> QED BY <3>1, <3>3, <4>4, <4>5
    <3> QED BY <3>2, <3>3
  <2>9. ASSUME NEW o \in DOMAIN overlaps, NEW t \in overlaps[o].start..(overlaps[o].end - 2)
        PROVE  Speaking(t) = Speaking(t + 1)
    <3>1. t \in Nat /\ t + 1 \in Nat
      BY <2>4
    <3>2. on[t] = on[t + 1]
      BY <2>2 DEF IntervalsUpTo
    <3> QED BY <2>3, <3>1, <3>2
  <2>10. ASSUME NEW o \in 2..Len(overlaps), overlaps[o].start = overlaps[o - 1].end
         PROVE  Speaking(overlaps[o].start) # Speaking(overlaps[o].start - 1)
    <3>1. o \in DOMAIN overlaps /\ o - 1 \in DOMAIN overlaps
      BY <2>4
    <3>2. overlaps[o].start \in Nat /\ overlaps[o].start - 1 \in Nat
      BY <2>4, <2>10, <3>1
    <3>3. on[overlaps[o].start] # on[overlaps[o].start - 1]
      BY <2>2, <2>10 DEF IntervalsUpTo
    <3> QED BY <2>3, <3>2, <3>3
  <2> QED BY <2>8, <2>9, <2>10 DEF OverlapsAreSimultaneousSpeech
<1> QED BY <1>1, LabelInvariant, PTL

\* Smoothing, which relabels as it goes and looks at what it relabelled, adds
\* and moves no change of speaker.
THEOREM AlwaysSmoothingOnlyJoins == Spec => SmoothingOnlyJoins
<1>1. LabelInv /\ [Next]_vars => [pc = "smooth" => Changes(labels') \subseteq Changes(labels)]_vars
  <2> SUFFICES ASSUME LabelInv, Next, pc = "smooth" PROVE Changes(labels') \subseteq Changes(labels)
    OBVIOUS
  <2>1. labels' = SmoothIslands(words, labels)
    BY DEF Next, Diarize, RelabelClusters, Attribute, Smooth, Snap, Lines, MergeOrphans,
           MergeSegments, Review
  <2> DEFINE n == TotalWords
             smooth == SmoothIslands(words, labels)
  <2>2. /\ n \in Nat /\ Len(words) = n /\ DOMAIN words = 1..n
        /\ labels = [i \in 1..n |-> labels[i]]
    BY WordFacts DEF LabelInv, InputsInv, LabelsInv, Listing, TotalWords
  <2> HIDE DEF n
  <2>3. /\ DOMAIN smooth = 1..n /\ smooth = [i \in 1..n |-> smooth[i]]
        /\ \A b \in 2..n : smooth[b - 1] # smooth[b] => labels[b - 1] # labels[b]
    BY <2>2, SmoothingJoins
  <2> HIDE DEF smooth
  <2>4. Len(labels) = n /\ Len(smooth) = n
    BY <2>2, <2>3, ListingFacts DEF Listing
  <2>5. Changes(smooth) \subseteq Changes(labels)
    BY <2>3, <2>4 DEF Changes
  <2> QED BY <2>1, <2>5 DEF smooth
<1> QED BY <1>1, LabelInvariant, PTL DEF Spec, SmoothingOnlyJoins

\* Snapping moves changes of speaker one at a time, each within the turns it
\* lies between, and each to behind the end of a sentence.
THEOREM AlwaysSnappingKeepsTurns == Spec => SnappingKeepsTurns
<1>1. LabelInv /\ [Next]_vars =>
        [pc = "snap" =>
           /\ Turntaking(labels') = Turntaking(labels)
           /\ \A b \in Changes(labels') \ Changes(labels) : words[b - 1].ends]_vars
  <2> SUFFICES ASSUME LabelInv, Next, pc = "snap"
               PROVE  /\ Turntaking(labels') = Turntaking(labels)
                      /\ \A b \in Changes(labels') \ Changes(labels) : words[b - 1].ends
    OBVIOUS
  <2>1. labels' = SnapBoundaries(words, labels)
    BY DEF Next, Diarize, RelabelClusters, Attribute, Smooth, Snap, Lines, MergeOrphans,
           MergeSegments, Review
  <2>2. TotalWords \in Nat /\ Len(words) = TotalWords /\ Listing(labels, TotalWords)
    BY WordFacts DEF LabelInv, InputsInv, LabelsInv, TotalWords
  <2>3. Snapped(words, TotalWords, labels, labels')
    BY <2>1, <2>2, SnappingKeeps
  <2> QED BY <2>3 DEF Snapped
<1> QED BY <1>1, LabelInvariant, PTL DEF Spec, SnappingKeepsTurns

\* Fresh names are given to the clusters nobody won, one by one, and none is
\* given twice or is one of the caller's.
THEOREM AlwaysNewSpeakersKeptApart == Spec => []NewSpeakersKeptApart
<1>1. LabelInv => NewSpeakersKeptApart
  <2> SUFFICES ASSUME LabelInv, pc = "relabel", NEW c \in Clusters(turns), NEW d \in Clusters(turns),
                      Winner(turns, reference, c) = {}
               PROVE  LET name == ClusterName(turns, reference, c)
                      IN /\ name \notin CallerLabels(reference)
                         /\ c # d => name # ClusterName(turns, reference, d)
    BY DEF NewSpeakersKeptApart
  <2>1. turns \in Seq(Spoken) /\ reference \in Seq(Spoken)
    BY DEF LabelInv, InputsInv
  <2> QED BY <2>1, NamesApart
<1> QED BY <1>1, LabelInvariant, PTL

-----------------------------------------------------------------------------
(* assign_speakers_to_segments                                             *)

\* n intervals with speakers: turns, or the spans of a segment.
Voiceline(vs, n) == DOMAIN vs = 1..n /\ \A i \in 1..n : Interval(vs[i])

ShareOp(p, q, acc, turn) == ShareWith(p, q, acc, turn)
Sharing == INSTANCE FoldLemmas WITH Op <- ShareOp

\* A speaker's share, in which every turn of his counts and nothing else.
LEMMA ShareCounts ==
  ASSUME NEW n \in Nat, NEW vs, Voiceline(vs, n), NEW s, Interval(s), NEW v
  PROVE  /\ SpeakerShare(s, vs, v) \in Nat
         /\ \A i \in 1..n : vs[i].speaker = v => Overlap(s, vs[i]) <= SpeakerShare(s, vs, v)
         /\ SpeakerShare(s, vs, v) > 0 => \E i \in 1..n : vs[i].speaker = v /\ Overlap(s, vs[i]) > 0
<1> DEFINE none == 0
           f == Sharing!Trace(s, v, none, vs, n)
           Mine(i) == vs[i].speaker = v
           O(i) == Overlap(s, vs[i])
           S == {k \in 0..n : /\ f[k] \in Nat
                              /\ \A i \in 1..k : Mine(i) => O(i) <= f[k]
                              /\ f[k] > 0 => \E i \in 1..k : Mine(i) /\ O(i) > 0}
<1>1. SpeakerShare(s, vs, v) = Sharing!Fold(s, v, none, vs)
  BY DEF SpeakerShare, Sharing!Fold, ShareOp, FoldLeft, MapThenFoldSet, Max,
         Sharing!FoldLeft, Sharing!MapThenFoldSet, Sharing!Max
<1>2. DOMAIN vs = 1..n /\ \A i \in 1..n : Interval(vs[i])
  BY DEF Voiceline
<1>3. none = 0
  OBVIOUS
<1>4. \A i \in 1..n : O(i) \in Nat
  BY <1>2, OverlapFacts
<1> HIDE DEF none
<1>5. /\ f[0] = none
      /\ \A k \in 1..n : f[k] = ShareOp(s, v, f[k - 1], vs[k])
      /\ Sharing!Fold(s, v, none, vs) = f[n]
  BY <1>2, Sharing!FoldTrace
<1>6. \A k \in 1..n : f[k] = IF Mine(k) THEN f[k - 1] + O(k) ELSE f[k - 1]
  BY <1>5 DEF ShareOp, ShareWith
<1> HIDE DEF f, Mine, O
<1>7. 0 \in S
  BY <1>3, <1>5
<1>8. ASSUME NEW k \in 1..n, k - 1 \in S PROVE k \in S
  <2>1. /\ f[k - 1] \in Nat
        /\ \A i \in 1..(k - 1) : Mine(i) => O(i) <= f[k - 1]
        /\ f[k - 1] > 0 => \E i \in 1..(k - 1) : Mine(i) /\ O(i) > 0
        /\ O(k) \in Nat /\ f[k] = IF Mine(k) THEN f[k - 1] + O(k) ELSE f[k - 1]
    BY <1>4, <1>6, <1>8
  <2>2. f[k] \in Nat
    BY <2>1
  <2>3. ASSUME NEW i \in 1..k, Mine(i) PROVE O(i) <= f[k]
    <3>1. CASE i = k
      BY <2>1, <2>3, <3>1
    <3>2. CASE i # k
      <4>1. i \in 1..(k - 1) /\ O(i) \in Nat
        BY <1>4, <3>2
      <4>2. O(i) <= f[k - 1]
        BY <2>1, <2>3, <4>1
      <4> QED BY <2>1, <4>1, <4>2
    <3> QED BY <3>1, <3>2
  <2>4. ASSUME f[k] > 0 PROVE \E i \in 1..k : Mine(i) /\ O(i) > 0
    <3>1. CASE f[k - 1] > 0
      <4>1. 1..(k - 1) \subseteq 1..k
        OBVIOUS
      <4> QED BY <2>1, <3>1, <4>1
    <3>2. CASE ~(f[k - 1] > 0)
      <4>1. k \in 1..k /\ Mine(k) /\ O(k) > 0
        BY <2>1, <2>4, <3>2
      <4> QED BY <4>1
    <3> QED BY <3>1, <3>2
  <2>5. k \in 0..n
    OBVIOUS
  <2> QED BY <2>2, <2>3, <2>4, <2>5
<1> HIDE DEF S
<1>9. n \in S
  BY <1>7, <1>8, StepInduction
<1>10. /\ f[n] \in Nat
       /\ \A i \in 1..n : Mine(i) => O(i) <= f[n]
       /\ f[n] > 0 => \E i \in 1..n : Mine(i) /\ O(i) > 0
  BY <1>9 DEF S
<1>11. SpeakerShare(s, vs, v) = f[n]
  BY <1>1, <1>5
<1> HIDE DEF S
<1> QED BY <1>10, <1>11 DEF Mine, O

\* The largest share among some intervals is that of one of them.
LEMMA LargestOfSome ==
  ASSUME NEW n \in Nat, NEW vs, Voiceline(vs, n), NEW s, Interval(s), NEW S \in SUBSET (1..n), S # {}
  PROVE  \E i \in S :
           /\ LargestShare(s, vs, S) = vs[i].speaker
           /\ \A k \in S : SpeakerShare(s, vs, vs[k].speaker) <= SpeakerShare(s, vs, vs[i].speaker)
<1> DEFINE Part(i) == SpeakerShare(s, vs, vs[i].speaker)
           key == [i \in S |-> -Part(i)]
           at == Min(Least(S, key))
<1>1. \A i \in S : Part(i) \in Nat
  BY ShareCounts
<1>2. IsFiniteSet(S) /\ S \subseteq Int
  <2> DEFINE all == 1..n
  <2>1. IsFiniteSet(all) /\ S \in SUBSET all /\ S \subseteq Int
    BY FS_Interval
  <2> HIDE DEF all
  <2> QED BY <2>1, FS_Subset
<1>3. LargestShare(s, vs, S) = vs[at].speaker
  BY DEF LargestShare, EarliestMin, Least
<1> HIDE DEF Part
<1>4. \A i \in S : key[i] = -Part(i) /\ key[i] \in Int
  BY <1>1
<1> HIDE DEF key
<1>5. at \in S /\ \A k \in S : key[at] <= key[k]
  BY <1>2, <1>4, LeastExists
<1> HIDE DEF at
<1>6. \A k \in S : Part(k) <= Part(at)
  BY <1>1, <1>4, <1>5
<1> QED BY <1>3, <1>5, <1>6 DEF Part

\* Two intervals overlap if each ends behind the start of both.
LEMMA OverlapPositive ==
  ASSUME NEW a, NEW b, Interval(a), Interval(b)
  PROVE  Overlap(a, b) > 0 <=>
           a.start < a.end /\ a.start < b.end /\ b.start < a.end /\ b.start < b.end
<1> DEFINE e == Min({a.end, b.end})
           f == Max({a.start, b.start})
<1>1. a.start \in Int /\ a.end \in Int /\ b.start \in Int /\ b.end \in Int
  BY DEF Interval
<1>2. e = IF a.end <= b.end THEN a.end ELSE b.end
  BY <1>1, ExtremaOfTwo
<1>3. f = IF a.start <= b.start THEN b.start ELSE a.start
  BY <1>1, ExtremaOfTwo
<1> HIDE DEF e, f
<1> DEFINE d == e - f
<1>4. d \in Int /\ (d > 0 <=> f < e)
  BY <1>1, <1>2, <1>3
<1>5. Overlap(a, b) = Max({0, d})
  BY DEF Overlap, e, f
<1>6. Max({0, d}) = IF 0 <= d THEN d ELSE 0
  <2> HIDE DEF d
  <2> QED BY <1>4, ExtremaOfTwo
<1>7. Overlap(a, b) > 0 <=> f < e
  <2> HIDE DEF d
  <2> QED BY <1>4, <1>5, <1>6
<1> HIDE DEF d
<1> QED BY <1>1, <1>2, <1>3, <1>7

\* What a turn covers of a segment that it touches.
ClipStart(s, turn) == Max({turn.start, s.start})
ClipEnd(s, turn) == Min({turn.end, s.end})
TimesOf(s, ts) ==
  {s.start, s.end} \cup UNION {{ClipStart(s, ts[i]), ClipEnd(s, ts[i])} : i \in Touching(s, ts)}

Marks(s, ts) == Cardinality(TimesOf(s, ts))

\* The bounds of a segment rise from its start to its end.
BoundsFit(s, bounds, m) ==
  /\ DOMAIN bounds = 1..m /\ Len(bounds) = m /\ m >= 2
  /\ \A k \in 1..m : bounds[k] \in Int /\ s.start <= bounds[k] /\ bounds[k] <= s.end
  /\ \A k, l \in 1..m : k < l => bounds[k] < bounds[l]
  /\ bounds[1] = s.start /\ bounds[m] = s.end

LEMMA TouchingClipped ==
  ASSUME NEW s, Interval(s), NEW turn, Interval(turn), Overlap(s, turn) > 0
  PROVE  /\ ClipStart(s, turn) \in Int /\ ClipEnd(s, turn) \in Int
         /\ s.start <= ClipStart(s, turn) /\ ClipStart(s, turn) < ClipEnd(s, turn)
         /\ ClipEnd(s, turn) <= s.end
         /\ turn.start <= ClipStart(s, turn) /\ ClipEnd(s, turn) <= turn.end
         /\ s.start < s.end
<1>1. s.start \in Int /\ s.end \in Int /\ turn.start \in Int /\ turn.end \in Int
  BY DEF Interval
<1>2. s.start < s.end /\ s.start < turn.end /\ turn.start < s.end /\ turn.start < turn.end
  BY OverlapPositive
<1>3. ClipStart(s, turn) = IF turn.start <= s.start THEN s.start ELSE turn.start
  BY <1>1, ExtremaOfTwo DEF ClipStart
<1>4. ClipEnd(s, turn) = IF turn.end <= s.end THEN turn.end ELSE s.end
  BY <1>1, ExtremaOfTwo DEF ClipEnd
<1> QED BY <1>1, <1>2, <1>3, <1>4

LEMMA BoundsRise ==
  ASSUME NEW s, Interval(s), NEW n \in Nat, NEW ts, Voiceline(ts, n), Touching(s, ts) # {}
  PROVE  /\ Marks(s, ts) \in Nat /\ BoundsFit(s, Bounds(s, ts), Marks(s, ts))
         /\ \A i \in Touching(s, ts) : \E k, l \in 1..Marks(s, ts) :
              /\ Bounds(s, ts)[k] = ClipStart(s, ts[i])
              /\ Bounds(s, ts)[l] = ClipEnd(s, ts[i])
<1> DEFINE T == TimesOf(s, ts)
           m == Marks(s, ts)
           bounds == Bounds(s, ts)
           V == Touching(s, ts)
           f == [i \in V |-> ClipStart(s, ts[i])]
           g == [i \in V |-> ClipEnd(s, ts[i])]
           A == {f[i] : i \in V}
           B == {g[i] : i \in V}
<1>1. bounds = InOrder(T)
  BY DEF Bounds, TimesOf, ClipStart, ClipEnd
<1>2. \A i \in V : i \in 1..n /\ Interval(ts[i]) /\ Overlap(s, ts[i]) > 0
  BY DEF Touching, Voiceline
<1>3. T = {s.start, s.end} \cup A \cup B
  BY DEF TimesOf
<1>4. IsFiniteSet(V)
  <2> DEFINE all == 1..n
  <2>1. IsFiniteSet(all) /\ V \in SUBSET all
    BY <1>2, FS_Interval
  <2> HIDE DEF all, V
  <2> QED BY <2>1, FS_Subset
<1> HIDE DEF V
<1>5. \A i \in V : /\ f[i] \in Int /\ g[i] \in Int /\ s.start <= f[i] /\ f[i] < g[i] /\ g[i] <= s.end
                   /\ s.start < s.end
  BY <1>2, TouchingClipped
<1>6. s.start \in Int /\ s.end \in Int /\ s.start < s.end
  <2>1. PICK i \in V : TRUE
    BY DEF V
  <2> QED BY <1>5, <2>1 DEF Interval
<1>7. f = [i \in V |-> f[i]] /\ g = [i \in V |-> g[i]]
  OBVIOUS
<1>8. \A i \in V : f[i] = ClipStart(s, ts[i]) /\ g[i] = ClipEnd(s, ts[i])
  OBVIOUS
<1> HIDE DEF f, g
<1>9. \A t \in T : t \in Int /\ s.start <= t /\ t <= s.end
  <2>1. \A t \in A : t \in Int /\ s.start <= t /\ t <= s.end
    BY <1>5, <1>6
  <2>2. \A t \in B : t \in Int /\ s.start <= t /\ t <= s.end
    BY <1>5, <1>6
  <2> HIDE DEF A, B
  <2> QED BY <1>3, <1>6, <2>1, <2>2
<1>10. IsFiniteSet(T)
  <2>1. IsFiniteSet(A) /\ IsFiniteSet(B)
    BY <1>4, FiniteImage
  <2> HIDE DEF A, B
  <2>2. IsFiniteSet({s.start} \cup {s.end})
    BY FS_Singleton, FS_Union
  <2>3. {s.start} \cup {s.end} = {s.start, s.end}
    OBVIOUS
  <2>4. IsFiniteSet({s.start, s.end} \cup A)
    BY <2>1, <2>2, <2>3, FS_Union
  <2> QED BY <1>3, <2>1, <2>4, FS_Union
<1>11. s.start \in T /\ s.end \in T /\ \A i \in V : f[i] \in T /\ g[i] \in T
  BY <1>3
<1> HIDE DEF T, bounds, m, A, B
<1>12. T \subseteq Int
  BY <1>9
<1>13. m \in Nat /\ Rises(bounds, m, T)
  BY <1>1, <1>10, <1>12, InOrderRises DEF m, Marks, T
<1>14. /\ bounds \in [1..m -> T] /\ DOMAIN bounds = 1..m /\ Len(bounds) = m
       /\ \A x \in T : \E k \in 1..m : bounds[k] = x
       /\ \A k, l \in 1..m : k < l => bounds[k] < bounds[l]
  <2>1. /\ bounds \in [1..m -> T]
        /\ \A x \in T : \E k \in 1..m : bounds[k] = x
        /\ \A k, l \in 1..m : k < l => bounds[k] < bounds[l]
    BY <1>13 DEF Rises
  <2> QED BY <1>13, <2>1
<1>15. \A k \in 1..m : bounds[k] \in Int /\ s.start <= bounds[k] /\ bounds[k] <= s.end
  BY <1>9, <1>14
<1>16. PICK a \in 1..m : bounds[a] = s.start
  BY <1>11, <1>14
<1>17. PICK b \in 1..m : bounds[b] = s.end
  BY <1>11, <1>14
<1>18. a = 1
  <2>1. ~(1 < a)
    <3> SUFFICES ASSUME 1 < a PROVE FALSE
      OBVIOUS
    <3>1. 1 \in 1..m /\ bounds[1] < bounds[a]
      BY <1>13, <1>14
    <3> QED BY <1>6, <1>15, <1>16, <3>1
  <2> QED BY <1>13, <2>1
<1>19. b = m
  <2>1. ~(b < m)
    <3> SUFFICES ASSUME b < m PROVE FALSE
      OBVIOUS
    <3>1. m \in 1..m /\ bounds[b] < bounds[m]
      BY <1>13, <1>14
    <3> QED BY <1>6, <1>15, <1>17, <3>1
  <2> QED BY <1>13, <2>1
<1>20. m >= 2
  <2>1. m # 1
    BY <1>6, <1>16, <1>17, <1>18, <1>19
  <2> QED BY <1>13, <1>16, <2>1
<1>21. BoundsFit(s, bounds, m)
  BY <1>14, <1>15, <1>16, <1>17, <1>18, <1>19, <1>20 DEF BoundsFit
<1>22. \A i \in V : \E k, l \in 1..m : bounds[k] = ClipStart(s, ts[i]) /\ bounds[l] = ClipEnd(s, ts[i])
  <2> SUFFICES ASSUME NEW i \in V
               PROVE  \E k, l \in 1..m : bounds[k] = f[i] /\ bounds[l] = g[i]
    BY <1>8
  <2>1. f[i] \in T /\ g[i] \in T
    BY <1>11
  <2> QED BY <1>14, <2>1
<1> QED BY <1>13, <1>21, <1>22 DEF T, bounds, m, V

\* A turn that covers the middle between two bounds overlaps whatever holds both.
LEMMA CoveringOverlaps ==
  ASSUME NEW s, NEW bounds, NEW m \in Nat, BoundsFit(s, bounds, m),
         NEW n \in Nat, NEW ts, Voiceline(ts, n),
         NEW k \in 1..(m - 1), NEW i \in Covering(ts, bounds)[k],
         NEW a, Interval(a), a.start <= bounds[k], bounds[k + 1] <= a.end
  PROVE  i \in 1..n /\ Overlap(ts[i], a) > 0
<1>1. /\ i \in DOMAIN ts /\ 2 * ts[i].start < bounds[k] + bounds[k + 1]
      /\ bounds[k] + bounds[k + 1] < 2 * ts[i].end
  BY DEF Covering, BoundsFit
<1>2. i \in 1..n /\ Interval(ts[i])
  BY <1>1 DEF Voiceline
<1>3. bounds[k] \in Int /\ bounds[k + 1] \in Int /\ bounds[k] < bounds[k + 1]
  BY DEF BoundsFit
<1>4. /\ ts[i].start \in Int /\ ts[i].end \in Int /\ a.start \in Int /\ a.end \in Int
  BY <1>2 DEF Interval
<1>5. ts[i].start < ts[i].end /\ ts[i].start < a.end /\ a.start < ts[i].end /\ a.start < a.end
  BY <1>1, <1>3, <1>4
<1> QED BY <1>2, <1>5, OverlapPositive

\* Somebody speaks somewhere in a segment that is touched.
LEMMA SomebodySpeaks ==
  ASSUME NEW s, Interval(s), NEW n \in Nat, NEW ts, Voiceline(ts, n), Touching(s, ts) # {}
  PROVE  \E k \in 1..(Marks(s, ts) - 1) : Covering(ts, Bounds(s, ts))[k] # {}
<1> DEFINE m == Marks(s, ts)
           bounds == Bounds(s, ts)
<1> PICK i \in Touching(s, ts) : TRUE
  OBVIOUS
<1>1. m \in Nat /\ BoundsFit(s, bounds, m)
  BY BoundsRise
<1>2. i \in 1..n /\ i \in DOMAIN ts /\ Interval(ts[i]) /\ Overlap(s, ts[i]) > 0
  BY DEF Touching, Voiceline
<1> DEFINE from == ClipStart(s, ts[i])
           to == ClipEnd(s, ts[i])
<1>3. PICK k \in 1..m, l \in 1..m : bounds[k] = from /\ bounds[l] = to
  BY BoundsRise
<1>4. from \in Int /\ to \in Int /\ from < to /\ ts[i].start <= from /\ to <= ts[i].end
  BY <1>2, TouchingClipped
<1>5. ts[i].start \in Int /\ ts[i].end \in Int
  BY <1>2 DEF Interval
<1> HIDE DEF m, bounds, from, to
<1>6. /\ DOMAIN bounds = 1..m /\ Len(bounds) = m
      /\ \A a \in 1..m : bounds[a] \in Int
      /\ \A a, b \in 1..m : a < b => bounds[a] < bounds[b]
  BY <1>1 DEF BoundsFit
<1>7. k < l
  <2>1. ~(l < k) /\ l # k
    BY <1>3, <1>4, <1>6
  <2> QED BY <1>1, <2>1
<1>8. k \in 1..(m - 1) /\ k + 1 \in 1..m /\ (k + 1 = l \/ k + 1 < l) /\ k < k + 1
  BY <1>1, <1>7
<1>9. bounds[k] < bounds[k + 1] /\ bounds[k + 1] \in Int /\ bounds[k + 1] <= to
  BY <1>3, <1>6, <1>8
<1>10. 2 * ts[i].start < bounds[k] + bounds[k + 1] /\ bounds[k] + bounds[k + 1] < 2 * ts[i].end
  BY <1>3, <1>4, <1>5, <1>9
<1>11. i \in Covering(ts, bounds)[k]
  BY <1>2, <1>6, <1>8, <1>10 DEF Covering
<1> QED BY <1>8, <1>11 DEF m, bounds

\* Who is heard in a silence is heard until he speaks, or since he spoke.
LEMMA HeardFacts ==
  ASSUME NEW q \in Nat, NEW spoken \in SUBSET (1..q), spoken # {}, NEW k \in 1..q
  PROVE  /\ Heard(spoken, k) \in spoken
         /\ \A l \in 1..q : \/ Heard(spoken, k) <= l /\ l <= k
                            \/ k <= l /\ l <= Heard(spoken, k)
                            => Heard(spoken, l) = Heard(spoken, k)
<1> DEFINE before(l) == {x \in spoken : x <= l}
<1>1. IsFiniteSet(spoken) /\ spoken \subseteq Int
  <2> DEFINE all == 1..q
  <2>1. IsFiniteSet(all) /\ spoken \in SUBSET all /\ spoken \subseteq Int
    BY FS_Interval
  <2> HIDE DEF all
  <2> QED BY <2>1, FS_Subset
<1>2. \A l \in 1..q : before(l) \subseteq spoken /\ IsFiniteSet(before(l)) /\ before(l) \subseteq Int
  BY <1>1, FS_Subset
<1>3. Min(spoken) \in spoken /\ \A x \in spoken : Min(spoken) <= x
  BY <1>1, Extrema
<1>4. \A l \in 1..q : before(l) # {} =>
        Max(before(l)) \in before(l) /\ \A x \in before(l) : x <= Max(before(l))
  BY <1>2, Extrema
<1>5. \A l \in 1..q : Heard(spoken, l) = IF before(l) # {} THEN Max(before(l)) ELSE Min(spoken)
  BY DEF Heard
<1> DEFINE j == Heard(spoken, k)
           least == Min(spoken)
<1>6. CASE before(k) # {}
  <2>1. j \in spoken /\ j <= k /\ \A x \in spoken : x <= k => x <= j
    <3>1. j = Max(before(k))
      BY <1>5, <1>6
    <3>2. j \in before(k) /\ \A x \in before(k) : x <= j
      <4> HIDE DEF before, j
      <4> QED BY <1>4, <1>6, <3>1
    <3> HIDE DEF j
    <3> QED BY <3>2
  <2>2. ASSUME NEW l \in 1..q, j <= l, l <= k PROVE Heard(spoken, l) = j
    <3> DEFINE h == Max(before(l))
    <3>1. j \in before(l) /\ j \in Int /\ k \in Int
      <4> HIDE DEF j
      <4> QED BY <1>1, <2>1, <2>2
    <3>2. Heard(spoken, l) = h /\ h \in spoken /\ h <= l /\ j <= h
      BY <1>4, <1>5, <3>1
    <3> HIDE DEF h, j, before
    <3>3. h \in Int /\ h <= k
      BY <1>1, <2>2, <3>2
    <3>4. h <= j
      BY <2>1, <3>2, <3>3
    <3> QED BY <3>1, <3>2, <3>3, <3>4
  <2> HIDE DEF j, before
  <2>3. \A l \in 1..q : k <= l /\ l <= j => l = k /\ j <= l
    BY <1>1, <2>1
  <2> QED BY <2>1, <2>2, <2>3 DEF j
<1>7. CASE before(k) = {}
  <2>1. j = least /\ least \in spoken /\ \A x \in spoken : least <= x /\ ~(x <= k)
    BY <1>3, <1>5, <1>7
  <2>2. ASSUME NEW l \in 1..q, k <= l, l <= j PROVE Heard(spoken, l) = j
    <3>1. CASE before(l) = {}
      BY <1>5, <2>1, <3>1
    <3>2. CASE before(l) # {}
      <4> DEFINE h == Max(before(l))
      <4>1. Heard(spoken, l) = h /\ h \in spoken /\ h <= l
        BY <1>4, <1>5, <3>2
      <4> HIDE DEF h, j, least
      <4>2. h \in Int /\ j \in Int /\ j <= h
        BY <1>1, <2>1, <4>1
      <4> QED BY <2>2, <4>1, <4>2
    <3> QED BY <3>1, <3>2
  <2> HIDE DEF j, least
  <2>3. \A l \in 1..q : ~(j <= l /\ l <= k)
    <3>1. j \in Int /\ k < j
      BY <1>1, <2>1
    <3> QED BY <3>1
  <2> QED BY <2>1, <2>2, <2>3 DEF j
<1> QED BY <1>6, <1>7

\* Interval j is given to somebody who speaks in it.
SpokenIn(ts, bounds, sp, j) == \E i \in Covering(ts, bounds)[j] : ts[i].speaker = sp[j]

\* From interval k to interval j, whichever comes first, one is heard.
SameVoice(sp, q, k, j) ==
  \A l \in 1..q : (j <= l /\ l <= k) \/ (k <= l /\ l <= j) => sp[l] = sp[k]

SpokenNearby(ts, bounds, sp, q) ==
  \A k \in 1..q : \E j \in 1..q : SpokenIn(ts, bounds, sp, j) /\ SameVoice(sp, q, k, j)

SpeakersOf(s, ts) == Speakers(s, ts, Covering(ts, Bounds(s, ts)))

LEMMA VoiceNearby ==
  ASSUME NEW s, Interval(s), NEW n \in Nat, NEW ts, Voiceline(ts, n), Touching(s, ts) # {}
  PROVE  /\ DOMAIN SpeakersOf(s, ts) = 1..(Marks(s, ts) - 1)
         /\ SpokenNearby(ts, Bounds(s, ts), SpeakersOf(s, ts), Marks(s, ts) - 1)
<1> DEFINE m == Marks(s, ts)
           q == m - 1
           bounds == Bounds(s, ts)
           covering == Covering(ts, bounds)
           spoken == {k \in DOMAIN covering : covering[k] # {}}
           sp == SpeakersOf(s, ts)
<1>1. m \in Nat /\ BoundsFit(s, bounds, m)
  BY BoundsRise
<1>2. DOMAIN covering = 1..q /\ q \in Nat
  <2> HIDE DEF bounds, m
  <2> QED BY <1>1 DEF Covering, BoundsFit
<1>3. spoken \in SUBSET (1..q) /\ spoken # {}
  <2>1. \E k \in 1..q : covering[k] # {}
    BY SomebodySpeaks
  <2> HIDE DEF covering
  <2> QED BY <1>2, <2>1
<1>4. sp = [k \in 1..q |-> LargestShare(s, ts, covering[Heard(spoken, k)])]
  BY <1>2 DEF SpeakersOf, Speakers
<1>5. \A k \in 1..q : covering[k] \in SUBSET (1..n)
  <2>1. \A k \in 1..q : covering[k] \subseteq DOMAIN ts
    <3> HIDE DEF bounds, m
    <3> QED BY <1>2 DEF Covering
  <2> HIDE DEF covering
  <2> QED BY <2>1 DEF Voiceline
<1> HIDE DEF m, q, bounds, covering, spoken, sp
<1>6. ASSUME NEW k \in 1..q
      PROVE  \E j \in 1..q : SpokenIn(ts, bounds, sp, j) /\ SameVoice(sp, q, k, j)
  <2> DEFINE j == Heard(spoken, k)
  <2>1. j \in spoken /\ \A l \in 1..q : (j <= l /\ l <= k) \/ (k <= l /\ l <= j) => Heard(spoken, l) = j
    <3>1. q \in Nat /\ spoken \in SUBSET (1..q) /\ spoken # {}
      BY <1>2, <1>3
    <3>2. /\ Heard(spoken, k) \in spoken
          /\ \A l \in 1..q : \/ Heard(spoken, k) <= l /\ l <= k
                             \/ k <= l /\ l <= Heard(spoken, k)
                             => Heard(spoken, l) = Heard(spoken, k)
      <4> HIDE DEF j
      <4> QED BY <3>1, HeardFacts
    <3> QED BY <3>2
  <2>2. j \in 1..q /\ covering[j] # {} /\ covering[j] \in SUBSET (1..n)
    BY <1>2, <1>3, <1>5, <2>1 DEF spoken
  <2>3. k <= k /\ (j <= k \/ k <= j)
    <3> HIDE DEF j
    <3> QED BY <2>2
  <2>4. Heard(spoken, j) = j
    <3>1. (j <= j /\ j <= k) \/ (k <= j /\ j <= j)
      <4> HIDE DEF j
      <4> QED BY <2>2
    <3> HIDE DEF j
    <3> QED BY <2>1, <2>2, <3>1
  <2>5. PICK i \in covering[j] : LargestShare(s, ts, covering[j]) = ts[i].speaker
    BY <2>2, LargestOfSome
  <2> HIDE DEF j
  <2>6. sp[j] = ts[i].speaker
    BY <1>4, <2>2, <2>4, <2>5
  <2>7. SpokenIn(ts, bounds, sp, j)
    BY <2>6 DEF SpokenIn, covering
  <2>8. sp[k] = LargestShare(s, ts, covering[j])
    BY <1>4 DEF j
  <2>9. SameVoice(sp, q, k, j)
    BY <1>4, <2>1, <2>8 DEF SameVoice
  <2> QED BY <2>2, <2>7, <2>9
<1>7. DOMAIN sp = 1..q
  BY <1>4
<1>8. SpokenNearby(ts, bounds, sp, q)
  BY <1>6 DEF SpokenNearby
<1> QED BY <1>7, <1>8 DEF sp, q, m, bounds

\* Span number r of the spans of the first k intervals: intervals lo to hi, one
\* speaker's, and no longer than they are together.
Stretch(spans, r, lo, hi, bounds, sp, k) ==
  /\ lo \in 1..k /\ hi \in lo..k
  /\ spans[r].start = bounds[lo] /\ spans[r].end = bounds[hi + 1]
  /\ \A l \in lo..hi : sp[l] = spans[r].speaker
  /\ lo = 1 \/ sp[lo - 1] # spans[r].speaker
  /\ r = Len(spans) => hi = k
  /\ r # Len(spans) => hi < k /\ sp[hi + 1] # spans[r].speaker

SpanRecords(sp, q) == [start : Int, end : Int, speaker : {sp[l] : l \in 1..q}]

\* The spans of the first k of q intervals.
JoinedUpTo(spans, bounds, sp, q, k) ==
  /\ spans \in Seq(SpanRecords(sp, q))
  /\ k = 0 => spans = <<>>
  /\ k > 0 => Len(spans) >= 1 /\ spans[1].start = bounds[1]
  /\ \A r \in 1..Len(spans) : \E lo, hi \in 1..k : Stretch(spans, r, lo, hi, bounds, sp, k)
  /\ \A r \in 1..Len(spans) : spans[r].start < spans[r].end /\ spans[r].end <= bounds[k + 1]
  /\ \A a, b \in 1..Len(spans) : a < b => spans[a].end <= spans[b].start

LEMMA SpanJoined ==
  ASSUME NEW s, NEW bounds, NEW m \in Nat, BoundsFit(s, bounds, m), NEW sp, DOMAIN sp = 1..(m - 1),
         NEW spans, NEW k \in 1..(m - 1), JoinedUpTo(spans, bounds, sp, m - 1, k - 1)
  PROVE  JoinedUpTo(JoinSpan(bounds, sp, spans, k), bounds, sp, m - 1, k)
<1> DEFINE q == m - 1
           L == Len(spans)
           next == JoinSpan(bounds, sp, spans, k)
<1>1. /\ k + 1 \in 1..m /\ k \in 1..m /\ bounds[k] \in Int /\ bounds[k + 1] \in Int
      /\ bounds[k] < bounds[k + 1]
  BY DEF BoundsFit
<1>2. /\ spans \in Seq(SpanRecords(sp, q))
      /\ k = 1 => spans = <<>>
      /\ k > 1 => L >= 1 /\ spans[1].start = bounds[1]
      /\ \A r \in 1..L : spans[r].start < spans[r].end /\ spans[r].end <= bounds[k]
      /\ \A a, b \in 1..L : a < b => spans[a].end <= spans[b].start
  BY DEF JoinedUpTo
<1>3. \A r \in 1..L : \E lo, hi \in 1..(k - 1) : Stretch(spans, r, lo, hi, bounds, sp, k - 1)
  BY DEF JoinedUpTo
<1>4. L \in Nat /\ DOMAIN spans = 1..L /\ \A r \in 1..L : spans[r] \in SpanRecords(sp, q)
  BY <1>2
<1>5. \A r \in 1..L : spans[r].start \in Int /\ spans[r].end \in Int
  BY <1>4 DEF SpanRecords
<1> HIDE DEF L, next, q
<1>6. CASE k > 1 /\ sp[k] = sp[k - 1]
  <2>1. L >= 1 /\ L \in 1..L
    BY <1>2, <1>4, <1>6
  <2>2. next = [spans EXCEPT ![L].end = bounds[k + 1]]
    BY <1>6 DEF next, JoinSpan, L
  <2>3. /\ \A r \in 1..L : r # L => next[r] = spans[r]
        /\ next[L] = [spans[L] EXCEPT !.end = bounds[k + 1]]
        /\ DOMAIN next = 1..L
    BY <1>4, <2>1, <2>2
  <2>4. /\ next[L].start = spans[L].start /\ next[L].end = bounds[k + 1]
        /\ next[L].speaker = spans[L].speaker /\ next[L] \in SpanRecords(sp, q)
    BY <1>1, <1>4, <2>1, <2>3 DEF SpanRecords
  <2>5. next \in Seq(SpanRecords(sp, q)) /\ Len(next) = L
    <3>1. \A r \in 1..L : next[r] \in SpanRecords(sp, q)
      BY <1>4, <2>3, <2>4
    <3>2. next = [r \in 1..L |-> next[r]]
      BY <1>4, <2>2
    <3> HIDE DEF SpanRecords
    <3> QED BY <1>4, <3>1, <3>2
  <2>6. ASSUME NEW r \in 1..L PROVE \E lo, hi \in 1..k : Stretch(next, r, lo, hi, bounds, sp, k)
    <3> PICK lo \in 1..(k - 1), hi \in 1..(k - 1) : Stretch(spans, r, lo, hi, bounds, sp, k - 1)
      BY <1>3
    <3>1. lo \in 1..k /\ hi \in 1..k
      OBVIOUS
    <3>2. CASE r = L
      <4>1. /\ hi = k - 1 /\ spans[L].start = bounds[lo] /\ lo <= k - 1
            /\ \A l \in lo..(k - 1) : sp[l] = spans[L].speaker
            /\ lo = 1 \/ sp[lo - 1] # spans[L].speaker
        BY <3>2 DEF Stretch, L
      <4>2. \A l \in lo..k : sp[l] = spans[L].speaker
        <5>1. sp[k - 1] = spans[L].speaker
          BY <4>1
        <5> QED BY <1>6, <4>1, <5>1
      <4>3. Stretch(next, r, lo, k, bounds, sp, k)
        <5>1. lo \in 1..k /\ k \in lo..k
          BY <3>1
        <5>2. /\ next[L].start = bounds[lo] /\ next[L].end = bounds[k + 1]
              /\ \A l \in lo..k : sp[l] = next[L].speaker
              /\ lo = 1 \/ sp[lo - 1] # next[L].speaker
          BY <2>4, <4>1, <4>2
        <5> QED BY <2>5, <3>2, <5>1, <5>2 DEF Stretch
      <4>4. k \in 1..k
        OBVIOUS
      <4> QED BY <3>1, <4>3, <4>4
    <3>3. CASE r # L
      <4>1. Stretch(next, r, lo, hi, bounds, sp, k)
        BY <2>3, <2>5, <3>3 DEF Stretch, L
      <4> QED BY <3>1, <4>1
    <3> QED BY <3>2, <3>3
  <2>7. ASSUME NEW r \in 1..L PROVE next[r].start < next[r].end /\ next[r].end <= bounds[k + 1]
    <3>1. /\ spans[r].start < spans[r].end /\ spans[r].end <= bounds[k]
          /\ spans[r].start \in Int /\ spans[r].end \in Int
      BY <1>2, <1>5
    <3>2. next[r].start = spans[r].start /\ (next[r].end = spans[r].end \/ next[r].end = bounds[k + 1])
      BY <2>3, <2>4
    <3> QED BY <1>1, <3>1, <3>2
  <2>8. \A a, b \in 1..L : a < b => next[a].end <= next[b].start
    <3>1. \A a \in 1..L : next[a].start = spans[a].start
      BY <2>3, <2>4
    <3>2. \A a, b \in 1..L : a < b => a # L
      BY <1>4
    <3> QED BY <1>2, <2>3, <3>1, <3>2
  <2>9. next[1].start = bounds[1]
    <3>1. 1 \in 1..L /\ spans[1].start = bounds[1]
      BY <1>2, <1>4, <1>6
    <3>2. next[1].start = spans[1].start
      BY <2>3, <2>4, <3>1
    <3> QED BY <3>1, <3>2
  <2>10. JoinedUpTo(next, bounds, sp, q, k)
    BY <2>1, <2>5, <2>6, <2>7, <2>8, <2>9 DEF JoinedUpTo
  <2> QED BY <2>10 DEF next, q
<1>7. CASE ~(k > 1 /\ sp[k] = sp[k - 1])
  <2> DEFINE new == [start |-> bounds[k], end |-> bounds[k + 1], speaker |-> sp[k]]
  <2>1. next = Append(spans, new)
    BY <1>7 DEF next, JoinSpan
  <2>2. new \in SpanRecords(sp, q) /\ new.start = bounds[k] /\ new.end = bounds[k + 1] /\ new.speaker = sp[k]
    BY <1>1 DEF SpanRecords, q
  <2> HIDE DEF new
  <2>3. /\ next \in Seq(SpanRecords(sp, q)) /\ Len(next) = L + 1
        /\ next[L + 1] = new /\ \A r \in 1..L : next[r] = spans[r]
    <3> HIDE DEF SpanRecords
    <3> QED BY <1>2, <2>1, <2>2 DEF L
  <2>4. \A r \in 1..(L + 1) : r = L + 1 \/ r \in 1..L
    BY <1>4
  <2>5. ASSUME NEW r \in 1..(L + 1) PROVE \E lo, hi \in 1..k : Stretch(next, r, lo, hi, bounds, sp, k)
    <3>1. CASE r = L + 1
      <4>1. k \in 1..k
        OBVIOUS
      <4>2. Stretch(next, r, k, k, bounds, sp, k)
        BY <1>7, <2>2, <2>3, <3>1, <4>1 DEF Stretch
      <4> QED BY <4>1, <4>2
    <3>2. CASE r # L + 1
      <4>1. r \in 1..L /\ next[r] = spans[r]
        BY <2>3, <2>4, <3>2
      <4> PICK lo \in 1..(k - 1), hi \in 1..(k - 1) : Stretch(spans, r, lo, hi, bounds, sp, k - 1)
        BY <1>3, <4>1
      <4>2. lo \in 1..k /\ hi \in 1..k
        OBVIOUS
      <4>3. hi < k /\ sp[hi + 1] # spans[r].speaker
        <5>1. CASE r = L
          <6>1. hi = k - 1 /\ sp[hi] = spans[r].speaker
            BY <5>1 DEF Stretch, L
          <6> QED BY <1>7, <6>1
        <5>2. CASE r # L
          BY <5>2 DEF Stretch, L
        <5> QED BY <5>1, <5>2
      <4>4. Stretch(next, r, lo, hi, bounds, sp, k)
        BY <2>3, <3>2, <4>1, <4>3 DEF Stretch
      <4> QED BY <4>2, <4>4
    <3> QED BY <3>1, <3>2
  <2>6. \A r \in 1..(L + 1) : next[r].start < next[r].end /\ next[r].end <= bounds[k + 1]
    <3>1. next[L + 1].start < next[L + 1].end /\ next[L + 1].end <= bounds[k + 1]
      BY <1>1, <2>2, <2>3
    <3>2. ASSUME NEW r \in 1..L PROVE next[r].start < next[r].end /\ next[r].end <= bounds[k + 1]
      <4>1. spans[r].start < spans[r].end /\ spans[r].end <= bounds[k] /\ spans[r].end \in Int
        BY <1>2, <1>5
      <4>2. next[r] = spans[r]
        BY <2>3
      <4> QED BY <1>1, <4>1, <4>2
    <3> QED BY <2>4, <3>1, <3>2
  <2>7. \A a, b \in 1..(L + 1) : a < b => next[a].end <= next[b].start
    <3> SUFFICES ASSUME NEW a \in 1..(L + 1), NEW b \in 1..(L + 1), a < b
                 PROVE  next[a].end <= next[b].start
      OBVIOUS
    <3>1. a \in 1..L
      BY <1>4
    <3> QED BY <1>2, <2>2, <2>3, <2>4, <3>1
  <2>8. next[1].start = bounds[1]
    <3>1. CASE k = 1
      <4>1. L = 0
        BY <1>2, <3>1 DEF L
      <4> QED BY <2>2, <2>3, <3>1, <4>1
    <3>2. CASE k > 1
      BY <1>2, <1>4, <2>3, <3>2
    <3> QED BY <3>1, <3>2
  <2>9. JoinedUpTo(next, bounds, sp, q, k)
    BY <1>4, <2>3, <2>5, <2>6, <2>7, <2>8 DEF JoinedUpTo
  <2> QED BY <2>9 DEF next, q
<1> QED BY <1>6, <1>7

\* The spans of a segment: inside it, apart, and each of somebody who speaks there.
SpansFit(s, n, ts, spans) ==
  /\ Len(spans) \in Nat \ {0} /\ Voiceline(spans, Len(spans))
  /\ spans[1].start = s.start
  /\ \A r \in 1..Len(spans) :
       s.start <= spans[r].start /\ spans[r].start < spans[r].end /\ spans[r].end <= s.end
  /\ \A a, b \in 1..Len(spans) : a < b => spans[a].end <= spans[b].start
  /\ \A r \in 1..Len(spans) :
       \E i \in 1..n : ts[i].speaker = spans[r].speaker /\ Overlap(ts[i], spans[r]) > 0

\* A stretch of one speaker, heard before and behind it no further, is where he speaks.
LEMMA StretchSpoken ==
  ASSUME NEW s, NEW bounds, NEW m \in Nat, BoundsFit(s, bounds, m),
         NEW n \in Nat, NEW ts, Voiceline(ts, n), NEW sp,
         SpokenNearby(ts, bounds, sp, m - 1),
         NEW spans, NEW r \in 1..Len(spans), Interval(spans[r]),
         NEW lo \in 1..(m - 1), NEW hi \in 1..(m - 1), Stretch(spans, r, lo, hi, bounds, sp, m - 1)
  PROVE  \E i \in 1..n : ts[i].speaker = spans[r].speaker /\ Overlap(ts[i], spans[r]) > 0
<1> DEFINE q == m - 1
           v == spans[r].speaker
<1>1. PICK j \in 1..q : SpokenIn(ts, bounds, sp, j) /\ SameVoice(sp, q, lo, j)
  BY DEF SpokenNearby
<1>2. /\ lo <= hi /\ spans[r].start = bounds[lo] /\ spans[r].end = bounds[hi + 1]
      /\ sp[lo] = v
      /\ lo = 1 \/ sp[lo - 1] # v
      /\ hi = q \/ (hi < q /\ sp[hi + 1] # v)
  BY DEF Stretch
<1> HIDE DEF v
<1>3. \A l \in 1..q : (j <= l /\ l <= lo) \/ (lo <= l /\ l <= j) => sp[l] = v
  BY <1>1, <1>2 DEF SameVoice
<1>4. lo <= j
  <2> SUFFICES ASSUME j < lo PROVE FALSE
    OBVIOUS
  <2>1. lo - 1 \in 1..q /\ j <= lo - 1 /\ lo - 1 <= lo /\ lo # 1
    OBVIOUS
  <2> QED BY <1>2, <1>3, <2>1
<1>5. j <= hi
  <2> SUFFICES ASSUME hi < j PROVE FALSE
    OBVIOUS
  <2>1. hi + 1 \in 1..q /\ lo <= hi + 1 /\ hi + 1 <= j /\ hi # q
    BY <1>2
  <2> QED BY <1>2, <1>3, <2>1
<1>6. sp[j] = v
  BY <1>3, <1>4
<1>7. PICK i \in Covering(ts, bounds)[j] : ts[i].speaker = sp[j]
  BY <1>1 DEF SpokenIn
<1>8. bounds[lo] <= bounds[j] /\ bounds[j + 1] <= bounds[hi + 1]
  <2>1. \A l \in 1..(m - 1) : l \in 1..m /\ l + 1 \in 1..m
    OBVIOUS
  <2>2. lo \in 1..m /\ j \in 1..m /\ j + 1 \in 1..m /\ hi + 1 \in 1..m
    BY <2>1
  <2>3. lo = j \/ lo < j
    BY <1>4, <2>2
  <2>4. j + 1 = hi + 1 \/ j + 1 < hi + 1
    BY <1>5
  <2>5. /\ lo \in 1..m /\ j \in 1..m /\ j + 1 \in 1..m /\ hi + 1 \in 1..m
        /\ (lo = j \/ lo < j) /\ (j + 1 = hi + 1 \/ j + 1 < hi + 1)
    BY <2>2, <2>3, <2>4
  <2>6. /\ \A k \in 1..m : bounds[k] \in Int
        /\ \A k, l \in 1..m : k < l => bounds[k] < bounds[l]
    BY DEF BoundsFit
  <2>7. bounds[lo] \in Int /\ bounds[j + 1] \in Int
    BY <2>5, <2>6
  <2>8. bounds[lo] = bounds[j] \/ bounds[lo] < bounds[j]
    BY <2>5, <2>6
  <2>9. bounds[j + 1] = bounds[hi + 1] \/ bounds[j + 1] < bounds[hi + 1]
    BY <2>5, <2>6
  <2>10. bounds[j] \in Int /\ bounds[hi + 1] \in Int
    BY <2>5, <2>6
  <2> DEFINE a == bounds[lo]  b == bounds[j]  c == bounds[j + 1]  d == bounds[hi + 1]
  <2>11. a \in Int /\ b \in Int /\ c \in Int /\ d \in Int /\ (a = b \/ a < b) /\ (c = d \/ c < d)
    BY <2>7, <2>8, <2>9, <2>10
  <2> HIDE DEF a, b, c, d
  <2>12. a <= b /\ c <= d
    BY <2>11
  <2> QED BY <2>12 DEF a, b, c, d
<1>9. i \in 1..n /\ Overlap(ts[i], spans[r]) > 0
  BY <1>2, <1>8, CoveringOverlaps
<1> QED BY <1>6, <1>7, <1>9 DEF v

JoinOp(p, q, acc, k) == JoinSpan(p, q, acc, k)
Joining == INSTANCE FoldLemmas WITH Op <- JoinOp

\* The spans of a segment that somebody speaks in.
LEMMA SpansMade ==
  ASSUME NEW s, Interval(s), NEW n \in Nat, NEW ts, Voiceline(ts, n), Touching(s, ts) # {}
  PROVE  SpansFit(s, n, ts, SpeakerSpans(s, ts))
<1> DEFINE m == Marks(s, ts)
           q == m - 1
           bounds == Bounds(s, ts)
           sp == SpeakersOf(s, ts)
           none == <<>>
           list == [k \in DOMAIN sp |-> k]
           f == Joining!Trace(bounds, sp, none, list, q)
           S == {k \in 0..q : JoinedUpTo(f[k], bounds, sp, q, k)}
           spans == SpeakerSpans(s, ts)
<1>1. m \in Nat /\ BoundsFit(s, bounds, m)
  BY BoundsRise
<1>2. q \in Nat /\ q >= 1
  <2> HIDE DEF m, bounds
  <2> QED BY <1>1 DEF BoundsFit
<1>3. DOMAIN sp = 1..q
  BY VoiceNearby
<1>4. SpokenNearby(ts, bounds, sp, q)
  BY VoiceNearby
<1>5. spans = Joining!Fold(bounds, sp, none, list)
  BY DEF SpeakerSpans, SpeakersOf, Joined, Joining!Fold, JoinOp, FoldLeft, MapThenFoldSet, Max,
         Joining!FoldLeft, Joining!MapThenFoldSet, Joining!Max
<1>6. none = <<>>
  OBVIOUS
<1> HIDE DEF sp, bounds, m, none, spans
<1>7. DOMAIN list = 1..q /\ \A k \in 1..q : list[k] = k
  BY <1>3
<1> HIDE DEF list, q
<1>8. /\ f[0] = none
      /\ \A k \in 1..q : f[k] = JoinOp(bounds, sp, f[k - 1], list[k])
      /\ Joining!Fold(bounds, sp, none, list) = f[q]
  BY <1>2, <1>7, Joining!FoldTrace
<1> HIDE DEF f
<1>9. 0 \in S
  <2>1. f[0] = <<>> /\ Len(f[0]) = 0 /\ 1..Len(f[0]) = {}
    BY <1>6, <1>8
  <2>2. f[0] \in Seq(SpanRecords(sp, q))
    BY <2>1
  <2>3. JoinedUpTo(f[0], bounds, sp, q, 0)
    BY <2>1, <2>2 DEF JoinedUpTo
  <2>4. 0 \in 0..q
    BY <1>2
  <2> QED BY <2>3, <2>4
<1>10. ASSUME NEW k \in 1..q, k - 1 \in S PROVE k \in S
  <2>1. f[k] = JoinSpan(bounds, sp, f[k - 1], k)
    BY <1>7, <1>8 DEF JoinOp
  <2>2. JoinedUpTo(f[k - 1], bounds, sp, q, k - 1)
    BY <1>10
  <2>3. JoinedUpTo(f[k], bounds, sp, q, k)
    BY <1>1, <1>3, <2>1, <2>2, SpanJoined DEF q
  <2>4. k \in 0..q
    BY <1>2
  <2> QED BY <2>3, <2>4
<1> HIDE DEF S
<1>11. q \in S
  BY <1>2, <1>9, <1>10, StepInduction
<1>12. JoinedUpTo(spans, bounds, sp, q, q)
  BY <1>5, <1>8, <1>11 DEF S
<1> DEFINE L == Len(spans)
<1>13. /\ spans \in Seq(SpanRecords(sp, q)) /\ L >= 1 /\ spans[1].start = bounds[1]
       /\ \A r \in 1..L : spans[r].start < spans[r].end
       /\ \A a, b \in 1..L : a < b => spans[a].end <= spans[b].start
  BY <1>2, <1>12 DEF JoinedUpTo
<1>14. \A r \in 1..L : \E lo, hi \in 1..q : Stretch(spans, r, lo, hi, bounds, sp, q)
  BY <1>12 DEF JoinedUpTo
<1>15. L \in Nat \ {0} /\ Voiceline(spans, L)
  <2>1. L \in Nat /\ DOMAIN spans = 1..L /\ \A r \in 1..L : spans[r] \in SpanRecords(sp, q)
    BY <1>13
  <2>2. \A x \in SpanRecords(sp, q) : Interval(x)
    BY DEF SpanRecords, Interval
  <2> HIDE DEF L
  <2> QED BY <1>13, <2>1, <2>2 DEF Voiceline
<1> HIDE DEF L
<1>16. ASSUME NEW r \in 1..L
       PROVE  /\ s.start <= spans[r].start /\ spans[r].start < spans[r].end /\ spans[r].end <= s.end
              /\ \E i \in 1..n : ts[i].speaker = spans[r].speaker /\ Overlap(ts[i], spans[r]) > 0
  <2> PICK lo \in 1..q, hi \in 1..q : Stretch(spans, r, lo, hi, bounds, sp, q)
    BY <1>14
  <2>1. spans[r].start = bounds[lo] /\ spans[r].end = bounds[hi + 1]
    BY DEF Stretch
  <2>2. lo \in 1..m /\ hi + 1 \in 1..m
    BY <1>1 DEF q
  <2>3. s.start <= bounds[lo] /\ bounds[hi + 1] <= s.end
    BY <1>1, <2>2 DEF BoundsFit
  <2>4. Interval(spans[r])
    BY <1>15 DEF Voiceline
  <2>5. \E i \in 1..n : ts[i].speaker = spans[r].speaker /\ Overlap(ts[i], spans[r]) > 0
    <3>1. r \in 1..Len(spans)
      BY DEF L
    <3>2. /\ lo \in 1..(m - 1) /\ hi \in 1..(m - 1) /\ Stretch(spans, r, lo, hi, bounds, sp, m - 1)
          /\ SpokenNearby(ts, bounds, sp, m - 1)
      BY <1>4 DEF q
    <3>3. m \in Nat /\ BoundsFit(s, bounds, m) /\ Voiceline(ts, n) /\ Interval(spans[r])
      BY <1>1, <2>4
    <3> QED BY <3>1, <3>2, <3>3, StretchSpoken, SMTT(40)
  <2> QED BY <1>13, <2>1, <2>3, <2>5
<1>17. spans[1].start = s.start
  BY <1>1, <1>13 DEF BoundsFit
<1> QED BY <1>13, <1>15, <1>16, <1>17 DEF SpansFit, L, spans

\* A time at which no span is cut through.
AtSpans(spans, t) == \A b \in 1..Len(spans) : t <= spans[b].start \/ spans[b].end <= t

\* Whoever is given a piece made of whole spans speaks in it.
LEMMA DominantSpeaks ==
  ASSUME NEW s, NEW n \in Nat, NEW ts, Voiceline(ts, n), NEW spans, SpansFit(s, n, ts, spans),
         NEW piece, Interval(piece), piece.start < piece.end,
         NEW a \in 1..Len(spans), piece.start = spans[a].start,
         AtSpans(spans, piece.start), AtSpans(spans, piece.end)
  PROVE  \E i \in 1..n : ts[i].speaker = DominantSpeaker(spans, piece) /\ Overlap(ts[i], piece) > 0
<1> DEFINE m == Len(spans)
           Part(v) == SpeakerShare(piece, spans, v)
<1>1. /\ m \in Nat /\ Voiceline(spans, m) /\ DOMAIN spans = 1..m
      /\ \A b \in 1..m : Interval(spans[b]) /\ spans[b].start < spans[b].end
  BY DEF SpansFit, Voiceline
<1>2. /\ \A b \in 1..m : spans[b].start \in Int /\ spans[b].end \in Int
      /\ piece.start \in Int /\ piece.end \in Int
  BY <1>1 DEF Interval
<1>3. /\ \A v : Part(v) \in Nat
      /\ \A b \in 1..m : Overlap(piece, spans[b]) <= Part(spans[b].speaker)
      /\ \A v : Part(v) > 0 => \E b \in 1..m : spans[b].speaker = v /\ Overlap(piece, spans[b]) > 0
  BY <1>1, ShareCounts
<1>4. 1..m \in SUBSET (1..m) /\ 1..m # {} /\ a \in 1..m
  OBVIOUS
<1>5. PICK c \in 1..m :
        /\ LargestShare(piece, spans, 1..m) = spans[c].speaker
        /\ \A b \in 1..m : Part(spans[b].speaker) <= Part(spans[c].speaker)
  <2> DEFINE all == 1..m
  <2>1. all \in SUBSET (1..m) /\ all # {}
    BY <1>4
  <2> HIDE DEF all
  <2>2. \E c \in all :
          /\ LargestShare(piece, spans, all) = spans[c].speaker
          /\ \A b \in all : SpeakerShare(piece, spans, spans[b].speaker) <= SpeakerShare(piece, spans, spans[c].speaker)
    BY <1>1, <2>1, LargestOfSome
  <2> QED BY <2>2 DEF all
<1>6. DominantSpeaker(spans, piece) = spans[c].speaker
  BY <1>1, <1>5 DEF DominantSpeaker
<1> HIDE DEF m, Part
<1>7. Overlap(piece, spans[a]) > 0
  <2>1. Interval(spans[a]) /\ spans[a].start < spans[a].end
    BY <1>1, <1>4
  <2> QED BY <1>2, <1>4, <2>1, OverlapPositive
<1>8. Part(spans[c].speaker) > 0
  <2>1. /\ Overlap(piece, spans[a]) \in Nat /\ Part(spans[a].speaker) \in Nat
        /\ Part(spans[c].speaker) \in Nat
    BY <1>1, <1>3, <1>4, OverlapFacts
  <2>2. Overlap(piece, spans[a]) <= Part(spans[a].speaker)
    BY <1>3, <1>4
  <2>3. Part(spans[a].speaker) <= Part(spans[c].speaker)
    BY <1>4, <1>5
  <2> QED BY <1>7, <2>1, <2>2, <2>3
<1>9. PICK b \in 1..m : spans[b].speaker = spans[c].speaker /\ Overlap(piece, spans[b]) > 0
  BY <1>3, <1>8
<1>10. piece.start <= spans[b].start /\ spans[b].end <= piece.end
  <2>1. piece.start < spans[b].end /\ spans[b].start < piece.end
    BY <1>1, <1>9, OverlapPositive
  <2>2. piece.start <= spans[b].start \/ spans[b].end <= piece.start
    BY DEF AtSpans, m
  <2>3. piece.end <= spans[b].start \/ spans[b].end <= piece.end
    BY DEF AtSpans, m
  <2>4. spans[b].start \in Int /\ spans[b].end \in Int
    BY <1>2
  <2> QED BY <1>2, <2>1, <2>2, <2>3, <2>4
<1>11. PICK i \in 1..n : ts[i].speaker = spans[b].speaker /\ Overlap(ts[i], spans[b]) > 0
  BY DEF SpansFit, m
<1>12. Interval(ts[i]) /\ Interval(spans[b])
  BY <1>1 DEF Voiceline
<1>13. Overlap(ts[i], piece) > 0
  <2>1. /\ ts[i].start < ts[i].end /\ ts[i].start < spans[b].end
        /\ spans[b].start < ts[i].end
    BY <1>11, <1>12, OverlapPositive
  <2>2. ts[i].start \in Int /\ ts[i].end \in Int /\ spans[b].start \in Int /\ spans[b].end \in Int
    BY <1>12 DEF Interval
  <2>3. ts[i].start < piece.end /\ piece.start < ts[i].end
    BY <1>2, <1>10, <2>1, <2>2
  <2> QED BY <1>12, <2>1, <2>3, OverlapPositive
<1> QED BY <1>6, <1>9, <1>11, <1>13

\* Cuts snap to whitespace.
LEMMA SnapsToSpaces ==
  ASSUME NEW text \in StrippedTexts, NEW offset \in Int
  PROVE  SnapOffset(text, offset) \subseteq text.spaces /\ \A p, r \in SnapOffset(text, offset) : p = r
<1> DEFINE spaces == text.spaces
           near == {p \in text.stops : Away(p, offset) <= PunctuationSnapChars}
           Nearest(S) == EarliestMin(S, LAMBDA p : Away(p, offset))
<1>1. spaces \subseteq Int /\ IsFiniteSet(spaces)
  <2> DEFINE all == 1..(text.length - 2)
  <2>1. spaces \in SUBSET all /\ all \subseteq Int /\ text.length \in Nat
    BY DEF StrippedTexts
  <2>2. IsFiniteSet(all)
    BY <2>1, FS_Interval
  <2> HIDE DEF all, spaces
  <2> QED BY <2>1, <2>2, FS_Subset
<1>2. near \subseteq spaces
  BY DEF StrippedTexts
<1>3. ASSUME NEW S \in SUBSET spaces, S # {} PROVE Nearest(S) \in S
  <2> DEFINE key == [p \in S |-> Away(p, offset)]
  <2>1. IsFiniteSet(S) /\ S \subseteq Int
    BY <1>1, FS_Subset
  <2>2. \A p \in S : Away(p, offset) \in Int
    <3> SUFFICES ASSUME NEW p \in S PROVE Away(p, offset) \in Int
      OBVIOUS
    <3> DEFINE a == p - offset  b == offset - p
    <3>1. a \in Int /\ b \in Int
      BY <2>1
    <3>2. Away(p, offset) = Max({a, b})
      BY DEF Away
    <3> HIDE DEF a, b
    <3> QED BY <3>1, <3>2, ExtremaOfTwo
  <2>3. Nearest(S) = Min(Least(S, key))
    BY DEF EarliestMin, Least
  <2>4. \A p \in S : key[p] \in Int
    BY <2>2
  <2> HIDE DEF key, Nearest
  <2> QED BY <1>3, <2>1, <2>3, <2>4, LeastExists
<1>4. SnapOffset(text, offset) = IF near # {} THEN {Nearest(near)}
                                 ELSE IF spaces # {} THEN {Nearest(spaces)} ELSE {}
  BY DEF SnapOffset
<1> HIDE DEF near, spaces, Nearest
<1>5. near # {} => Nearest(near) \in spaces
  BY <1>2, <1>3
<1>6. spaces # {} => Nearest(spaces) \in spaces
  BY <1>3
<1> QED BY <1>4, <1>5, <1>6 DEF spaces

CutRecords == [time : Int, offset : Int]

\* The cuts at spans 2 to k + 1.
CutUpTo(cuts, s, spans, k) ==
  /\ cuts \in Seq(CutRecords) /\ Len(cuts) >= 1
  /\ cuts[1].time = s.start /\ cuts[1].offset = 0
  /\ \A c \in 1..Len(cuts) : \E a \in 1..(k + 1) : cuts[c].time = spans[a].start
  /\ \A c \in 2..Len(cuts) : cuts[c].offset \in s.text.spaces
  /\ \A c, d \in 1..Len(cuts) : c < d => cuts[c].time < cuts[d].time /\ cuts[c].offset < cuts[d].offset

LEMMA RoundedInt ==
  ASSUME NEW a \in Int, NEW b \in Nat \ {0}
  PROVE  Rounded(a, b) \in Int
<1>1. a \div b \in Int
  OBVIOUS
<1> DEFINE below == a \div b
<1> HIDE DEF below
<1>2. Rounded(a, b) = below \/ Rounded(a, b) = below + 1
  BY DEF Rounded, below
<1>3. below \in Int /\ below + 1 \in Int
  BY <1>1 DEF below
<1> QED BY <1>2, <1>3

LEMMA CutAdded ==
  ASSUME NEW s, Interval(s), s.text \in StrippedTexts, s.start < s.end,
         NEW n \in Nat, NEW ts, NEW spans, SpansFit(s, n, ts, spans),
         NEW k \in 1..(Len(spans) - 1), NEW cuts, CutUpTo(cuts, s, spans, k - 1)
  PROVE  CutUpTo(AddCut(s, spans, cuts, k + 1), s, spans, k)
<1> DEFINE L == Len(cuts)
           text == s.text
           time == spans[k + 1].start
           raw == Rounded(text.length * (time - s.start), Length(s))
           fits == {p \in SnapOffset(text, raw) : Advances(Last(cuts).offset, p, text)}
           next == AddCut(s, spans, cuts, k + 1)
           x == Max(fits)
           new == [time |-> time, offset |-> x]
<1>1. next = IF fits = {} THEN cuts ELSE Append(cuts, new)
  BY DEF AddCut
<1>2. /\ cuts \in Seq(CutRecords) /\ L >= 1 /\ L \in Nat
      /\ cuts[1].time = s.start /\ cuts[1].offset = 0
      /\ \A c \in 2..L : cuts[c].offset \in text.spaces
      /\ \A c, d \in 1..L : c < d => cuts[c].time < cuts[d].time /\ cuts[c].offset < cuts[d].offset
  BY DEF CutUpTo
<1>3. \A c \in 1..L : \E a \in 1..k : cuts[c].time = spans[a].start
  BY DEF CutUpTo
<1>4. k \in 1..(k + 1) /\ 1..k \subseteq 1..(k + 1) /\ k + 1 \in 1..(k + 1)
  OBVIOUS
<1>5. CASE fits = {}
  <2>1. next = cuts
    BY <1>1, <1>5
  <2>2. \A c \in 1..L : \E a \in 1..(k + 1) : cuts[c].time = spans[a].start
    BY <1>3, <1>4
  <2> HIDE DEF fits, next, x, new, raw, time
  <2> QED BY <1>2, <2>1, <2>2 DEF CutUpTo, next
<1>6. CASE fits # {}
  <2>1. /\ \A a, b \in 1..Len(spans) : a < b => spans[a].end <= spans[b].start
        /\ \A a \in 1..Len(spans) : spans[a].start \in Int /\ spans[a].end \in Int /\ spans[a].start < spans[a].end
        /\ Len(spans) \in Nat
    BY DEF SpansFit, Voiceline, Interval
  <2>2. s.start \in Int /\ s.end \in Int /\ text.length \in Nat /\ text.spaces \subseteq Int
    BY DEF Interval, StrippedTexts
  <2>3. time \in Int /\ \A a \in 1..k : spans[a].start < time
    <3>1. k + 1 \in 1..Len(spans) /\ \A a \in 1..k : a \in 1..Len(spans) /\ a < k + 1
      BY <2>1
    <3>2. time \in Int
      BY <2>1, <3>1
    <3>3. ASSUME NEW a \in 1..k PROVE spans[a].start < time
      <4>1. spans[a].start < spans[a].end /\ spans[a].end <= time
            /\ spans[a].start \in Int /\ spans[a].end \in Int
        BY <2>1, <3>1
      <4> HIDE DEF time
      <4> QED BY <3>2, <4>1
    <3> QED BY <3>2, <3>3
  <2> HIDE DEF time
  <2>4. raw \in Int
    <3> DEFINE product == text.length * (time - s.start)
    <3>1. product \in Int
      <4> DEFINE t == time - s.start  l == text.length
      <4>1. t \in Int /\ l \in Int
        BY <2>2, <2>3
      <4> HIDE DEF t, l
      <4>2. l * t \in Int
        BY <4>1
      <4> QED BY <4>2 DEF t, l
    <3>2. Length(s) \in Nat \ {0}
      BY <2>2 DEF Length
    <3>3. raw = Rounded(product, Length(s))
      OBVIOUS
    <3> HIDE DEF product, raw
    <3> QED BY <3>1, <3>2, <3>3, RoundedInt
  <2> HIDE DEF raw, next
  <2>5. SnapOffset(text, raw) \subseteq text.spaces /\ \A p, r \in SnapOffset(text, raw) : p = r
    <3>1. text \in StrippedTexts
      OBVIOUS
    <3> HIDE DEF text
    <3> QED BY <2>4, <3>1, SnapsToSpaces
  <2>6. PICK p \in fits : TRUE
    BY <1>6
  <2>7. fits = {p} /\ p \in text.spaces /\ Last(cuts).offset < p
    BY <2>5, <2>6 DEF Advances
  <2> HIDE DEF fits, text
  <2>8. p \in Int
    BY <2>2, <2>7
  <2>9. x = p
    <3>1. IsFiniteSet({p}) /\ {p} \subseteq Int
      BY <2>8, FS_Singleton
    <3>2. Max({p}) \in {p}
      BY <3>1, Extrema
    <3> QED BY <2>7, <3>2
  <2> HIDE DEF x
  <2>10. new \in CutRecords /\ new.time = time /\ new.offset = p
    BY <2>3, <2>8, <2>9 DEF CutRecords
  <2> HIDE DEF new
  <2>11. /\ next \in Seq(CutRecords) /\ Len(next) = L + 1 /\ next[L + 1] = new
         /\ \A c \in 1..L : next[c] = cuts[c]
    <3>1. next = Append(cuts, new)
      BY <1>1, <1>6
    <3> HIDE DEF CutRecords
    <3> QED BY <1>2, <2>10, <3>1
  <2>12. \A c \in 1..L : cuts[c].time \in Int /\ cuts[c].offset \in Int
    <3>1. \A c \in 1..L : cuts[c] \in CutRecords
      BY <1>2
    <3> QED BY <3>1 DEF CutRecords
  <2>13. Last(cuts) = cuts[L]
    BY DEF Last
  <2> HIDE DEF L
  <2>14. \A c \in 1..(L + 1) : c = L + 1 \/ c \in 1..L
    BY <1>2
  <2>15. \A c \in 1..L : cuts[c].time < time
    BY <1>3, <2>3
  <2>16. \A c \in 1..L : cuts[c].offset < p
    <3> SUFFICES ASSUME NEW c \in 1..L PROVE cuts[c].offset < p
      OBVIOUS
    <3>1. c = L \/ (c < L /\ L \in 1..L)
      BY <1>2
    <3>2. L \in 1..L /\ cuts[L].offset \in Int /\ cuts[c].offset \in Int /\ cuts[L].offset < p
      BY <1>2, <2>7, <2>12, <2>13
    <3>3. c < L => cuts[c].offset < cuts[L].offset
      BY <1>2, <3>2
    <3> QED BY <2>8, <3>1, <3>2, <3>3
  <2>17. \A c, d \in 1..(L + 1) : c < d => next[c].time < next[d].time /\ next[c].offset < next[d].offset
    <3> SUFFICES ASSUME NEW c \in 1..(L + 1), NEW d \in 1..(L + 1), c < d
                 PROVE  next[c].time < next[d].time /\ next[c].offset < next[d].offset
      OBVIOUS
    <3>1. c \in 1..L /\ next[c] = cuts[c]
      BY <1>2, <2>11
    <3>2. CASE d = L + 1
      BY <2>10, <2>11, <2>15, <2>16, <3>1, <3>2
    <3>3. CASE d \in 1..L
      BY <1>2, <2>11, <3>1, <3>3
    <3> QED BY <2>14, <3>2, <3>3
  <2>18. \A c \in 2..(L + 1) : next[c].offset \in text.spaces
    <3>1. \A c \in 2..(L + 1) : c = L + 1 \/ (c \in 2..L /\ c \in 1..L)
      BY <1>2
    <3> QED BY <1>2, <2>7, <2>10, <2>11, <3>1
  <2>19. \A c \in 1..(L + 1) : \E a \in 1..(k + 1) : next[c].time = spans[a].start
    <3>1. next[L + 1].time = spans[k + 1].start
      BY <2>10, <2>11 DEF time
    <3> QED BY <1>3, <1>4, <2>11, <2>14, <3>1
  <2>20. next[1].time = s.start /\ next[1].offset = 0
    BY <1>2, <2>11
  <2>21. CutUpTo(next, s, spans, k)
    BY <1>2, <2>11, <2>17, <2>18, <2>19, <2>20 DEF CutUpTo, text
  <2> QED BY <2>21 DEF next
<1> QED BY <1>5, <1>6

\* The cuts of a segment: at spans, in order, and at whitespace of its text.
CutsFit(cuts, s, spans) ==
  /\ Len(cuts) \in Nat /\ Len(cuts) >= 2
  /\ \A c \in 1..Len(cuts) : cuts[c].time \in Int /\ cuts[c].offset \in Int /\ AtSpans(spans, cuts[c].time)
  /\ \A c \in 1..(Len(cuts) - 1) : \E a \in 1..Len(spans) : cuts[c].time = spans[a].start
  /\ cuts[1].time = s.start /\ cuts[1].offset = 0
  /\ cuts[Len(cuts)].time = s.end /\ cuts[Len(cuts)].offset = s.text.length
  /\ \A c, d \in 1..Len(cuts) : c < d => cuts[c].time < cuts[d].time /\ cuts[c].offset < cuts[d].offset
  /\ \A c \in 2..(Len(cuts) - 1) : cuts[c].offset \in s.text.spaces

LEMMA StartsAtSpans ==
  ASSUME NEW s, NEW n \in Nat, NEW ts, NEW spans, SpansFit(s, n, ts, spans), NEW a \in 1..Len(spans)
  PROVE  AtSpans(spans, spans[a].start)
<1>1. /\ \A b, c \in 1..Len(spans) : b < c => spans[b].end <= spans[c].start
      /\ \A b \in 1..Len(spans) : spans[b].start \in Int /\ spans[b].end \in Int /\ spans[b].start < spans[b].end
  BY DEF SpansFit, Voiceline, Interval
<1>2. ASSUME NEW b \in 1..Len(spans) PROVE spans[a].start <= spans[b].start \/ spans[b].end <= spans[a].start
  <2>1. CASE b < a
    BY <1>1, <2>1
  <2>2. CASE b = a
    BY <1>1, <2>2
  <2>3. CASE a < b
    <3>1. spans[a].start < spans[a].end /\ spans[a].end <= spans[b].start
      BY <1>1, <2>3
    <3>2. spans[a].start \in Int /\ spans[a].end \in Int /\ spans[b].start \in Int
      BY <1>1
    <3> QED BY <3>1, <3>2
  <2> QED BY <2>1, <2>2, <2>3
<1> QED BY <1>2 DEF AtSpans

CutOp(p, q, acc, k) == AddCut(p, q, acc, k)
Cutting == INSTANCE FoldLemmas WITH Op <- CutOp

LEMMA InnerCuts ==
  ASSUME NEW s, Interval(s), s.text \in StrippedTexts, s.start < s.end,
         NEW n \in Nat, NEW ts, NEW spans, SpansFit(s, n, ts, spans)
  PROVE  \E inner : /\ CutUpTo(inner, s, spans, Len(spans) - 1)
                    /\ Cuts(s, spans) = Append(inner, [time |-> s.end, offset |-> s.text.length])
<1> DEFINE base == <<[time |-> s.start, offset |-> 0]>>
           m == Len(spans) - 1
           places == [k \in 1..(Len(spans) - 1) |-> k + 1]
           f == Cutting!Trace(s, spans, base, places, m)
           inner == Cutting!Fold(s, spans, base, places)
           S == {k \in 0..m : CutUpTo(f[k], s, spans, k)}
<1>1. Cuts(s, spans) = Append(inner, [time |-> s.end, offset |-> s.text.length])
  BY DEF Cuts, Cutting!Fold, CutOp, FoldLeft, MapThenFoldSet, Max,
         Cutting!FoldLeft, Cutting!MapThenFoldSet, Cutting!Max
<1>2. m \in Nat /\ DOMAIN places = 1..m /\ \A k \in 1..m : places[k] = k + 1
  BY DEF SpansFit
<1>3. /\ base \in Seq(CutRecords) /\ Len(base) = 1
      /\ base[1].time = s.start /\ base[1].offset = 0
  BY DEF CutRecords, Interval
<1> HIDE DEF places, base
<1>4. /\ f[0] = base
      /\ \A k \in 1..m : f[k] = CutOp(s, spans, f[k - 1], places[k])
      /\ inner = f[m]
  <2> HIDE DEF m
  <2> QED BY <1>2, Cutting!FoldTrace
<1> HIDE DEF f, inner
<1>5. 0 \in S
  <2>1. \A c \in 1..Len(base) : c = 1
    BY <1>3
  <2>2. s.start = spans[1].start /\ 1 \in 1..(0 + 1)
    BY DEF SpansFit
  <2>3. \A c \in 1..Len(base) : \E a \in 1..(0 + 1) : base[c].time = spans[a].start
    BY <1>3, <2>1, <2>2
  <2>4. 2..Len(base) = {} /\ \A c, d \in 1..Len(base) : ~(c < d)
    BY <1>3
  <2>5. CutUpTo(base, s, spans, 0)
    BY <1>3, <2>3, <2>4 DEF CutUpTo
  <2>6. 0 \in 0..m
    BY <1>2
  <2> QED BY <1>4, <2>5, <2>6
<1>6. ASSUME NEW k \in 1..m, k - 1 \in S PROVE k \in S
  <2>1. f[k] = AddCut(s, spans, f[k - 1], k + 1)
    BY <1>2, <1>4 DEF CutOp
  <2>2. CutUpTo(f[k - 1], s, spans, k - 1)
    BY <1>6
  <2>3. CutUpTo(f[k], s, spans, k)
    BY <2>1, <2>2, CutAdded
  <2>4. k \in 0..m
    BY <1>2
  <2> QED BY <2>3, <2>4
<1> HIDE DEF S
<1>7. m \in S
  <2> HIDE DEF m
  <2> QED BY <1>2, <1>5, <1>6, StepInduction
<1>8. CutUpTo(inner, s, spans, m)
  BY <1>4, <1>7 DEF S
<1> QED BY <1>1, <1>8

LEMMA CutsMade ==
  ASSUME NEW s, Interval(s), s.text \in StrippedTexts, s.text.length >= 1, s.start < s.end,
         NEW n \in Nat, NEW ts, NEW spans, SpansFit(s, n, ts, spans)
  PROVE  CutsFit(Cuts(s, spans), s, spans)
<1> DEFINE cuts == Cuts(s, spans)
           last == [time |-> s.end, offset |-> s.text.length]
           M == Len(spans)
<1> PICK inner : /\ CutUpTo(inner, s, spans, M - 1)
                 /\ cuts = Append(inner, last)
  BY InnerCuts
<1> DEFINE L == Len(inner)
<1> HIDE DEF cuts
<1>1. /\ M \in Nat \ {0} /\ s.start \in Int /\ s.end \in Int
      /\ s.text.length \in Nat /\ s.text.spaces \subseteq 1..(s.text.length - 2)
  BY DEF SpansFit, Interval, StrippedTexts
<1>2. \A a \in 1..M : /\ AtSpans(spans, spans[a].start) /\ spans[a].start \in Int
                      /\ spans[a].end \in Int
                      /\ spans[a].start < spans[a].end /\ spans[a].end <= s.end
  <2>1. \A a \in 1..M : AtSpans(spans, spans[a].start)
    BY StartsAtSpans
  <2> QED BY <2>1 DEF SpansFit, Voiceline, Interval
<1>3. /\ inner \in Seq(CutRecords) /\ L >= 1 /\ L \in Nat
      /\ inner[1].time = s.start /\ inner[1].offset = 0
      /\ \A c \in 2..L : inner[c].offset \in s.text.spaces
      /\ \A c, d \in 1..L : c < d => inner[c].time < inner[d].time /\ inner[c].offset < inner[d].offset
  BY DEF CutUpTo
<1>4. \A c \in 1..L : \E a \in 1..M : inner[c].time = spans[a].start
  <2>1. M - 1 + 1 = M
    BY <1>1
  <2> HIDE DEF M
  <2> QED BY <2>1 DEF CutUpTo
<1>5. \A c \in 1..L : inner[c].time \in Int /\ inner[c].offset \in Int
  <2>1. \A c \in 1..L : inner[c] \in CutRecords
    BY <1>3
  <2> QED BY <2>1 DEF CutRecords
<1>6. last \in CutRecords /\ last.time = s.end /\ last.offset = s.text.length
  BY <1>1 DEF CutRecords
<1> HIDE DEF last
<1>7. /\ Len(cuts) = L + 1 /\ cuts[L + 1] = last /\ \A c \in 1..L : cuts[c] = inner[c]
  BY <1>3, <1>6
<1> HIDE DEF L, M
<1>8. \A c \in 1..(L + 1) : c = L + 1 \/ c \in 1..L
  BY <1>3
<1>9. ASSUME NEW c \in 1..L
      PROVE  AtSpans(spans, inner[c].time) /\ inner[c].time < s.end /\ inner[c].offset < s.text.length
  <2> PICK a \in 1..M : inner[c].time = spans[a].start
    BY <1>4
  <2>1. AtSpans(spans, inner[c].time) /\ inner[c].time < s.end
    <3>1. AtSpans(spans, spans[a].start)
      BY <1>2
    <3>2. /\ spans[a].start \in Int /\ spans[a].end \in Int /\ s.end \in Int
          /\ spans[a].start < spans[a].end /\ spans[a].end <= s.end
      BY <1>1, <1>2
    <3>3. spans[a].start < s.end
      BY <3>2
    <3> QED BY <3>1, <3>3
  <2>2. inner[c].offset < s.text.length
    <3>1. CASE c = 1
      BY <1>1, <1>3, <3>1
    <3>2. CASE c # 1
      <4>1. c \in 2..L
        BY <1>3, <3>2
      <4>2. inner[c].offset \in 1..(s.text.length - 2)
        BY <1>1, <1>3, <4>1
      <4> DEFINE l == s.text.length
      <4>3. l \in Nat /\ inner[c].offset \in 1..(l - 2)
        BY <1>1, <4>2
      <4> HIDE DEF l
      <4>4. inner[c].offset < l
        BY <4>3
      <4> QED BY <4>4 DEF l
    <3> QED BY <3>1, <3>2
  <2> QED BY <2>1, <2>2
<1>10. AtSpans(spans, s.end)
  BY <1>2 DEF AtSpans, M
<1>11. \A c \in 1..(L + 1) : cuts[c].time \in Int /\ cuts[c].offset \in Int /\ AtSpans(spans, cuts[c].time)
  BY <1>1, <1>5, <1>6, <1>7, <1>8, <1>9, <1>10
<1>12. \A c, d \in 1..(L + 1) : c < d => cuts[c].time < cuts[d].time /\ cuts[c].offset < cuts[d].offset
  <2> SUFFICES ASSUME NEW c \in 1..(L + 1), NEW d \in 1..(L + 1), c < d
               PROVE  cuts[c].time < cuts[d].time /\ cuts[c].offset < cuts[d].offset
    OBVIOUS
  <2>1. c \in 1..L /\ cuts[c] = inner[c]
    BY <1>3, <1>7
  <2>2. CASE d = L + 1
    BY <1>6, <1>7, <1>9, <2>1, <2>2
  <2>3. CASE d \in 1..L
    BY <1>3, <1>7, <2>1, <2>3
  <2> QED BY <1>8, <2>2, <2>3
<1>13. \A c \in 2..L : cuts[c].offset \in s.text.spaces
  <2>1. \A c \in 2..L : c \in 1..L
    BY <1>3
  <2> QED BY <1>3, <1>7, <2>1
<1>14. \A c \in 1..L : \E a \in 1..M : cuts[c].time = spans[a].start
  BY <1>4, <1>7
<1>15. L + 1 \in Nat /\ L + 1 >= 2 /\ (L + 1) - 1 = L /\ cuts[1].time = s.start /\ cuts[1].offset = 0
  BY <1>3, <1>7
<1> QED BY <1>6, <1>7, <1>11, <1>12, <1>13, <1>14, <1>15 DEF CutsFit, cuts, M

\* Pieces of segment number of.
Clips(of, n, ts) ==
  [of : {of}, speaker : {ts[i].speaker : i \in 1..n}, start : Int, end : Int, from : Int, to : Int]

SpokenBy(piece, n, ts) == \E i \in 1..n : ts[i].speaker = piece.speaker /\ Overlap(ts[i], piece) > 0

DoubleSpace(text) == \E p \in text.spaces : p + 1 \in text.spaces

\* Cuts number 1 to m.
Numbered(cuts, s, m) ==
  /\ m \in Nat /\ m >= 1 /\ Len(cuts) = m + 1
  /\ \A c \in 1..(m + 1) : cuts[c].time \in Int /\ cuts[c].offset \in Int
  /\ cuts[1].time = s.start /\ cuts[m + 1].time = s.end
  /\ cuts[1].offset = 0 /\ cuts[m + 1].offset = s.text.length
  /\ \A c, d \in 1..(m + 1) : c < d => cuts[c].time < cuts[d].time /\ cuts[c].offset < cuts[d].offset
  /\ \A c \in 2..m : cuts[c].offset \in s.text.spaces

LEMMA CutFacts ==
  ASSUME NEW s, NEW spans, NEW cuts, CutsFit(cuts, s, spans)
  PROVE  Numbered(cuts, s, Len(cuts) - 1)
<1> DEFINE M == Len(cuts)
           m == M - 1
<1>1. /\ M \in Nat /\ M >= 2
      /\ \A c \in 1..M : cuts[c].time \in Int /\ cuts[c].offset \in Int
      /\ cuts[1].time = s.start /\ cuts[M].time = s.end
      /\ cuts[1].offset = 0 /\ cuts[M].offset = s.text.length
      /\ \A c, d \in 1..M : c < d => cuts[c].time < cuts[d].time /\ cuts[c].offset < cuts[d].offset
      /\ \A c \in 2..(M - 1) : cuts[c].offset \in s.text.spaces
  BY DEF CutsFit
<1> HIDE DEF M
<1>2. m \in Nat /\ m >= 1 /\ m + 1 = M
  BY <1>1
<1>3. m = M - 1
  OBVIOUS
<1> HIDE DEF m
<1>4. Numbered(cuts, s, m)
  BY <1>1, <1>2, <1>3 DEF Numbered, M
<1> QED BY <1>4 DEF m, M

\* What is between cuts number k and k + 1.
LEMMA PieceCut ==
  ASSUME NEW s, NEW n \in Nat, NEW ts, Voiceline(ts, n), NEW spans, SpansFit(s, n, ts, spans),
         NEW cuts, CutsFit(cuts, s, spans), NEW of, NEW k \in 1..(Len(cuts) - 1)
  PROVE  /\ Piece(of, spans, cuts[k], cuts[k + 1]) \in Clips(of, n, ts)
         /\ Piece(of, spans, cuts[k], cuts[k + 1]).start = cuts[k].time
         /\ Piece(of, spans, cuts[k], cuts[k + 1]).end = cuts[k + 1].time
         /\ Piece(of, spans, cuts[k], cuts[k + 1]).from = cuts[k].offset
         /\ Piece(of, spans, cuts[k], cuts[k + 1]).to = cuts[k + 1].offset
         /\ SpokenBy(Piece(of, spans, cuts[k], cuts[k + 1]), n, ts)
<1> DEFINE piece == Piece(of, spans, cuts[k], cuts[k + 1])
           between == [start |-> cuts[k].time, end |-> cuts[k + 1].time]
<1>1. k \in 1..Len(cuts) /\ k + 1 \in 1..Len(cuts) /\ k < k + 1
  BY DEF CutsFit
<1>2. /\ cuts[k].time \in Int /\ cuts[k + 1].time \in Int
      /\ cuts[k].offset \in Int /\ cuts[k + 1].offset \in Int
      /\ AtSpans(spans, cuts[k].time) /\ AtSpans(spans, cuts[k + 1].time)
      /\ cuts[k].time < cuts[k + 1].time
  BY <1>1 DEF CutsFit
<1>3. PICK a \in 1..Len(spans) : cuts[k].time = spans[a].start
  BY DEF CutsFit
<1>4. between.start = cuts[k].time /\ between.end = cuts[k + 1].time /\ Interval(between)
  BY <1>2 DEF Interval
<1>5. /\ piece.start = cuts[k].time /\ piece.end = cuts[k + 1].time
      /\ piece.from = cuts[k].offset /\ piece.to = cuts[k + 1].offset
      /\ piece.of = of /\ piece.speaker = DominantSpeaker(spans, between)
  BY DEF Piece
<1> HIDE DEF between
<1>6. PICK i \in 1..n : ts[i].speaker = DominantSpeaker(spans, between) /\ Overlap(ts[i], between) > 0
  <2>1. /\ Interval(between) /\ between.start < between.end /\ between.start = spans[a].start
        /\ AtSpans(spans, between.start) /\ AtSpans(spans, between.end)
    BY <1>2, <1>3, <1>4
  <2> QED BY <2>1, DominantSpeaks
<1>7. piece \in Clips(of, n, ts)
  BY <1>2, <1>4, <1>6 DEF Clips, Piece, between
<1>8. Overlap(ts[i], piece) = Overlap(ts[i], between)
  BY <1>4, <1>5 DEF Overlap
<1> HIDE DEF piece
<1>9. SpokenBy(piece, n, ts)
  BY <1>5, <1>6, <1>8 DEF SpokenBy
<1> QED BY <1>5, <1>7, <1>9 DEF piece

\* The pieces up to cut number k + 1 of a segment.
PiecesUpTo(acc, of, s, n, ts, cuts, k) ==
  /\ acc \in Seq(Clips(of, n, ts))
  /\ k = 0 => acc = <<>>
  /\ k > 0 => Len(acc) >= 1 /\ acc[1].start = s.start
  /\ Len(acc) >= 1 => \/ acc[Len(acc)].end = cuts[k + 1].time
                      \/ k < Len(cuts) - 1 /\ DoubleSpace(s.text)
  /\ \A a \in 1..Len(acc) :
       /\ acc[a].from < acc[a].to /\ acc[a].to <= cuts[k + 1].offset
       /\ acc[a].start < acc[a].end /\ acc[a].end <= cuts[k + 1].time
       /\ SpokenBy(acc[a], n, ts)
  /\ \A a, b \in 1..Len(acc) : a < b => acc[a].to <= acc[b].from /\ acc[a].end <= acc[b].start
  /\ \A a \in 2..Len(acc) :
       /\ acc[a].speaker # acc[a - 1].speaker /\ acc[a].from \in s.text.spaces
       /\ acc[a].start = acc[a - 1].end \/ DoubleSpace(s.text)
  /\ \A p \in 0..(cuts[k + 1].offset - 1) \ s.text.spaces :
       \E a \in 1..Len(acc) : p \in acc[a].from..(acc[a].to - 1)

\* A piece of nothing but whitespace is dropped.
LEMMA PieceDropped ==
  ASSUME NEW s, Interval(s), s.text \in StrippedTexts, s.text.length >= 1,
         NEW n \in Nat, NEW ts, NEW spans, NEW cuts, CutsFit(cuts, s, spans), NEW of,
         NEW k \in 1..(Len(cuts) - 1), NEW acc, PiecesUpTo(acc, of, s, n, ts, cuts, k - 1),
         cuts[k].offset..(cuts[k + 1].offset - 1) \subseteq s.text.spaces
  PROVE  PiecesUpTo(acc, of, s, n, ts, cuts, k)
<1> DEFINE L == Len(acc)
           q == Len(cuts) - 1
           spaces == s.text.spaces
           from == cuts[k].offset
           to == cuts[k + 1].offset
           start == cuts[k].time
           end == cuts[k + 1].time
<1>1. /\ q \in Nat /\ q >= 1 /\ Len(cuts) = q + 1
      /\ \A c \in 1..(q + 1) : cuts[c].time \in Int /\ cuts[c].offset \in Int
      /\ cuts[1].offset = 0 /\ cuts[q + 1].offset = s.text.length
      /\ \A c, d \in 1..(q + 1) : c < d => cuts[c].time < cuts[d].time /\ cuts[c].offset < cuts[d].offset
      /\ \A c \in 2..q : cuts[c].offset \in spaces
  BY CutFacts DEF Numbered
<1>2. k \in 1..q /\ k \in 1..(q + 1) /\ k + 1 \in 1..(q + 1) /\ k < k + 1
  BY <1>1
<1>3. /\ from \in Int /\ to \in Int /\ start \in Int /\ end \in Int /\ from < to /\ start < end
  BY <1>1, <1>2
<1>4. /\ spaces \subseteq 1..(s.text.length - 2) /\ s.text.length \in Nat \ {0}
  BY DEF StrippedTexts
<1>5. from..(to - 1) \subseteq spaces
  OBVIOUS
<1>6. /\ k - 1 = 0 => acc = <<>>
      /\ k - 1 > 0 => L >= 1 /\ acc[1].start = s.start
      /\ acc \in Seq(Clips(of, n, ts))
      /\ \A a \in 1..L : /\ acc[a].from < acc[a].to /\ acc[a].to <= cuts[(k - 1) + 1].offset
                         /\ acc[a].start < acc[a].end /\ acc[a].end <= cuts[(k - 1) + 1].time
                         /\ SpokenBy(acc[a], n, ts)
      /\ \A a, b \in 1..L : a < b => acc[a].to <= acc[b].from /\ acc[a].end <= acc[b].start
      /\ \A a \in 2..L : /\ acc[a].speaker # acc[a - 1].speaker /\ acc[a].from \in spaces
                         /\ acc[a].start = acc[a - 1].end \/ DoubleSpace(s.text)
  BY DEF PiecesUpTo
<1>7. \A p \in 0..(cuts[(k - 1) + 1].offset - 1) \ spaces : \E a \in 1..L : p \in acc[a].from..(acc[a].to - 1)
  BY DEF PiecesUpTo
<1>8. (k - 1) + 1 = k /\ k > 0
  OBVIOUS
<1> HIDE DEF L, q, from, to, start, end
<1>9. k # 1
  <2> SUFFICES ASSUME k = 1 PROVE FALSE
    OBVIOUS
  <2>1. from = 0
    BY <1>1 DEF from
  <2>2. 0 \in from..(to - 1)
    BY <1>3, <2>1
  <2> QED BY <1>4, <1>5, <2>2
<1>10. k # q
  <2> SUFFICES ASSUME k = q PROVE FALSE
    OBVIOUS
  <2>1. to = s.text.length
    BY <1>1 DEF to
  <2>2. to - 1 \in from..(to - 1)
    BY <1>3
  <2>3. to - 1 \in spaces
    BY <1>5, <2>2
  <2> DEFINE l == s.text.length
  <2> HIDE DEF spaces
  <2>4. l \in Nat /\ l - 1 \in 1..(l - 2)
    BY <1>4, <2>1, <2>3
  <2> HIDE DEF l
  <2> QED BY <2>4
<1>11. DoubleSpace(s.text)
  <2>1. k + 1 \in 2..q
    BY <1>1, <1>2, <1>10
  <2>2. to \in spaces
    BY <1>1, <2>1 DEF to
  <2>3. to - 1 \in spaces /\ (to - 1) + 1 = to
    BY <1>3, <1>5
  <2> QED BY <2>2, <2>3 DEF DoubleSpace
<1>12. L >= 1 /\ acc[1].start = s.start
  BY <1>2, <1>6, <1>9
<1>13. \A a \in 1..L : acc[a] \in Clips(of, n, ts)
  BY <1>6 DEF L
<1>14. ASSUME NEW a \in 1..L PROVE acc[a].to <= to /\ acc[a].end <= end
  <2>1. acc[a].to \in Int /\ acc[a].end \in Int
    BY <1>13 DEF Clips
  <2>2. acc[a].to <= from /\ acc[a].end <= start
    BY <1>6, <1>8 DEF from, start
  <2> QED BY <1>3, <2>1, <2>2
<1>15. ASSUME NEW p \in 0..(to - 1) \ spaces PROVE \E a \in 1..L : p \in acc[a].from..(acc[a].to - 1)
  <2>1. p \in Int /\ ~(p \in from..(to - 1))
    BY <1>3, <1>5
  <2>2. p \in 0..(from - 1) \ spaces
    BY <1>3, <2>1
  <2> QED BY <1>7, <1>8, <2>2 DEF from
<1>16. k < Len(cuts) - 1
  BY <1>1, <1>2, <1>10
<1> HIDE DEF spaces
<1> QED BY <1>6, <1>8, <1>11, <1>12, <1>14, <1>15, <1>16 DEF PiecesUpTo, L, to, end, spaces

\* Piece is what is between cuts number k and k + 1.
CutOut(piece, n, ts, cuts, k) ==
  /\ piece.start = cuts[k].time /\ piece.end = cuts[k + 1].time
  /\ piece.from = cuts[k].offset /\ piece.to = cuts[k + 1].offset
  /\ SpokenBy(piece, n, ts)

\* A piece of the speaker of the last one is joined to it.
LEMMA PieceJoined ==
  ASSUME NEW s, NEW n \in Nat, NEW ts, Voiceline(ts, n), NEW of, NEW cuts,
         Numbered(cuts, s, Len(cuts) - 1), NEW k \in 1..(Len(cuts) - 1),
         NEW acc, PiecesUpTo(acc, of, s, n, ts, cuts, k - 1), acc # <<>>,
         NEW piece, CutOut(piece, n, ts, cuts, k)
  PROVE  PiecesUpTo([acc EXCEPT ![Len(acc)].end = piece.end, ![Len(acc)].to = piece.to],
                    of, s, n, ts, cuts, k)
<1> DEFINE L == Len(acc)
           q == Len(cuts) - 1
           from == cuts[k].offset
           to == cuts[k + 1].offset
           start == cuts[k].time
           end == cuts[k + 1].time
           next == [acc EXCEPT ![L].end = piece.end, ![L].to = piece.to]
           all == Clips(of, n, ts)
<1>1. /\ q \in Nat /\ q >= 1
      /\ \A c \in 1..(q + 1) : cuts[c].time \in Int /\ cuts[c].offset \in Int
      /\ \A c, d \in 1..(q + 1) : c < d => cuts[c].time < cuts[d].time /\ cuts[c].offset < cuts[d].offset
  BY DEF Numbered
<1>2. k \in 1..q /\ k \in 1..(q + 1) /\ k + 1 \in 1..(q + 1) /\ k < k + 1
  BY <1>1
<1>3. /\ from \in Int /\ to \in Int /\ start \in Int /\ end \in Int /\ from < to /\ start < end
  BY <1>1, <1>2
<1>4. /\ acc \in Seq(all)
      /\ k - 1 > 0 => L >= 1 /\ acc[1].start = s.start
      /\ k - 1 = 0 => acc = <<>>
      /\ \A a \in 1..L : /\ acc[a].from < acc[a].to /\ acc[a].to <= cuts[(k - 1) + 1].offset
                         /\ acc[a].start < acc[a].end /\ acc[a].end <= cuts[(k - 1) + 1].time
                         /\ SpokenBy(acc[a], n, ts)
      /\ \A a, b \in 1..L : a < b => acc[a].to <= acc[b].from /\ acc[a].end <= acc[b].start
      /\ \A a \in 2..L : /\ acc[a].speaker # acc[a - 1].speaker /\ acc[a].from \in s.text.spaces
                         /\ acc[a].start = acc[a - 1].end \/ DoubleSpace(s.text)
      /\ \A p \in 0..(cuts[(k - 1) + 1].offset - 1) \ s.text.spaces :
           \E a \in 1..L : p \in acc[a].from..(acc[a].to - 1)
  BY DEF PiecesUpTo
<1>5. (k - 1) + 1 = k /\ k > 0
  OBVIOUS
<1>6. piece.end = end /\ piece.to = to
  BY DEF CutOut
<1> HIDE DEF L, q, from, to, start, end
<1>7. L \in Nat /\ L >= 1 /\ L \in 1..L /\ DOMAIN acc = 1..L /\ \A a \in 1..L : acc[a] \in all
  BY <1>4 DEF L
<1>8. acc[1].start = s.start
  BY <1>2, <1>4
<1>9. /\ DOMAIN next = 1..L /\ \A a \in 1..L : a # L => next[a] = acc[a]
      /\ next[L] = [acc[L] EXCEPT !.end = end, !.to = to]
  <2> HIDE DEF all
  <2> QED BY <1>6, <1>7
<1>10. /\ next[L].of = acc[L].of /\ next[L].speaker = acc[L].speaker
       /\ next[L].start = acc[L].start /\ next[L].from = acc[L].from
       /\ next[L].end = end /\ next[L].to = to /\ next[L] \in all
  BY <1>3, <1>7, <1>9 DEF Clips
<1>11. next \in Seq(all) /\ Len(next) = L
  <2>1. \A a \in 1..L : next[a] \in all
    BY <1>7, <1>9, <1>10
  <2>2. next = [a \in 1..L |-> next[a]]
    BY <1>7
  <2> HIDE DEF all, next
  <2> QED BY <1>7, <2>1, <2>2
<1> HIDE DEF next
<1>12. \A a \in 1..L : /\ acc[a].start \in Int /\ acc[a].end \in Int
                       /\ acc[a].from \in Int /\ acc[a].to \in Int
  BY <1>7 DEF Clips
<1>13. \A a \in 1..L : /\ acc[a].to <= from /\ acc[a].end <= start
                       /\ acc[a].from < acc[a].to /\ acc[a].start < acc[a].end
  BY <1>4, <1>5 DEF from, start
<1>14. SpokenBy(next[L], n, ts)
  <2> PICK i \in 1..n : ts[i].speaker = acc[L].speaker /\ Overlap(ts[i], acc[L]) > 0
    BY <1>4, <1>7 DEF SpokenBy
  <2>1. Interval(ts[i]) /\ Interval(acc[L]) /\ Interval(next[L])
    BY <1>3, <1>7, <1>10, <1>12 DEF Voiceline, Interval
  <2>2. ts[i].start < ts[i].end /\ ts[i].start < acc[L].end /\ acc[L].start < ts[i].end
        /\ acc[L].start < acc[L].end
    BY <2>1, OverlapPositive
  <2>3. acc[L].end <= start
    BY <1>7, <1>13
  <2>4. ts[i].start < next[L].end /\ next[L].start < ts[i].end /\ next[L].start < next[L].end
    <3>1. next[L].start = acc[L].start /\ next[L].end = end
      BY <1>10
    <3>2. acc[L].start \in Int /\ acc[L].end \in Int /\ ts[i].start \in Int /\ ts[i].end \in Int
      BY <2>1 DEF Interval
    <3>3. start \in Int /\ end \in Int /\ start < end
      BY <1>3
    <3>4. acc[L].end < end
      BY <2>3, <3>2, <3>3
    <3>5. ts[i].start < acc[L].end /\ acc[L].start < ts[i].end /\ acc[L].start < acc[L].end
      BY <2>2
    <3> HIDE DEF start, end
    <3>6. ts[i].start < end
      BY <3>2, <3>3, <3>4, <3>5
    <3>7. acc[L].start < end
      BY <3>2, <3>3, <3>4, <3>5
    <3> QED BY <3>1, <3>5, <3>6, <3>7
  <2>5. Overlap(ts[i], next[L]) > 0
    BY <2>1, <2>2, <2>4, OverlapPositive
  <2> QED BY <1>10, <2>5 DEF SpokenBy
<1>15. ASSUME NEW a \in 1..L
       PROVE  /\ next[a].from < next[a].to /\ next[a].to <= to
              /\ next[a].start < next[a].end /\ next[a].end <= end /\ SpokenBy(next[a], n, ts)
              /\ next[a].start = acc[a].start /\ next[a].from = acc[a].from
              /\ next[a].speaker = acc[a].speaker
  <2>1. CASE a = L
    <3>1. acc[L].to <= from /\ acc[L].end <= start /\ acc[L].from < acc[L].to /\ acc[L].start < acc[L].end
      BY <1>7, <1>13
    <3>2. acc[L].from < to /\ acc[L].start < end
      BY <1>3, <1>7, <1>12, <3>1
    <3> QED BY <1>3, <1>10, <1>14, <2>1, <3>2
  <2>2. CASE a # L
    <3>1. next[a] = acc[a]
      BY <1>9, <2>2
    <3>2. acc[a].to <= to /\ acc[a].end <= end
      BY <1>3, <1>12, <1>13
    <3> QED BY <1>4, <1>13, <3>1, <3>2
  <2> QED BY <2>1, <2>2
<1>16. \A a, b \in 1..L : a < b => next[a].to <= next[b].from /\ next[a].end <= next[b].start
  <2> SUFFICES ASSUME NEW a \in 1..L, NEW b \in 1..L, a < b
               PROVE  next[a].to <= next[b].from /\ next[a].end <= next[b].start
    OBVIOUS
  <2>1. next[a] = acc[a]
    BY <1>7, <1>9
  <2> QED BY <1>4, <1>15, <2>1
<1>17. ASSUME NEW a \in 2..L
       PROVE  /\ next[a].speaker # next[a - 1].speaker /\ next[a].from \in s.text.spaces
              /\ next[a].start = next[a - 1].end \/ DoubleSpace(s.text)
  <2>1. a \in 1..L /\ a - 1 \in 1..L /\ a - 1 # L
    BY <1>7
  <2>2. next[a - 1] = acc[a - 1]
    BY <1>9, <2>1
  <2> QED BY <1>4, <1>15, <2>1, <2>2
<1>18. ASSUME NEW p \in 0..(to - 1) \ s.text.spaces
       PROVE  \E a \in 1..L : p \in next[a].from..(next[a].to - 1)
  <2>1. CASE p < from
    <3>1. p \in 0..(cuts[(k - 1) + 1].offset - 1) \ s.text.spaces
      BY <1>3, <1>5, <2>1 DEF from
    <3> PICK a \in 1..L : p \in acc[a].from..(acc[a].to - 1)
      BY <1>4, <3>1
    <3>2. CASE a = L
      <4>1. p \in acc[L].from..(to - 1)
        BY <1>3, <1>7, <1>12, <1>13, <3>2
      <4> QED BY <1>7, <1>10, <4>1
    <3>3. CASE a # L
      BY <1>9, <3>3
    <3> QED BY <3>2, <3>3
  <2>2. CASE from <= p
    <3>1. acc[L].from < acc[L].to /\ acc[L].to <= from /\ acc[L].from \in Int /\ acc[L].to \in Int
      BY <1>7, <1>12, <1>13
    <3>2. p \in acc[L].from..(to - 1)
      BY <1>3, <2>2, <3>1
    <3> QED BY <1>7, <1>10, <3>2
  <2>3. p \in Int
    OBVIOUS
  <2> QED BY <1>3, <2>1, <2>2, <2>3
<1>19. next[1].start = s.start
  BY <1>7, <1>8, <1>15
<1> HIDE DEF all
<1>20. PiecesUpTo(next, of, s, n, ts, cuts, k)
  BY <1>5, <1>7, <1>10, <1>11, <1>15, <1>16, <1>17, <1>18, <1>19 DEF PiecesUpTo, to, end, all
<1> QED BY <1>20 DEF next, L

\* A piece of another speaker comes after them.
LEMMA PieceAppended ==
  ASSUME NEW s, NEW n \in Nat, NEW ts, NEW of, NEW cuts,
         Numbered(cuts, s, Len(cuts) - 1), NEW k \in 1..(Len(cuts) - 1),
         NEW acc, PiecesUpTo(acc, of, s, n, ts, cuts, k - 1),
         NEW piece \in Clips(of, n, ts), CutOut(piece, n, ts, cuts, k),
         acc # <<>> => acc[Len(acc)].speaker # piece.speaker
  PROVE  PiecesUpTo(Append(acc, piece), of, s, n, ts, cuts, k)
<1> DEFINE L == Len(acc)
           q == Len(cuts) - 1
           from == cuts[k].offset
           to == cuts[k + 1].offset
           start == cuts[k].time
           end == cuts[k + 1].time
           next == Append(acc, piece)
           all == Clips(of, n, ts)
<1>1. /\ q \in Nat /\ q >= 1 /\ cuts[1].time = s.start
      /\ \A c \in 1..(q + 1) : cuts[c].time \in Int /\ cuts[c].offset \in Int
      /\ \A c, d \in 1..(q + 1) : c < d => cuts[c].time < cuts[d].time /\ cuts[c].offset < cuts[d].offset
      /\ \A c \in 2..q : cuts[c].offset \in s.text.spaces
  BY DEF Numbered
<1>2. k \in 1..q /\ k \in 1..(q + 1) /\ k + 1 \in 1..(q + 1) /\ k < k + 1
  BY <1>1
<1>3. /\ from \in Int /\ to \in Int /\ start \in Int /\ end \in Int /\ from < to /\ start < end
  BY <1>1, <1>2
<1>4. /\ acc \in Seq(all)
      /\ k - 1 > 0 => L >= 1 /\ acc[1].start = s.start
      /\ k - 1 = 0 => acc = <<>>
      /\ \A a \in 1..L : /\ acc[a].from < acc[a].to /\ acc[a].to <= cuts[(k - 1) + 1].offset
                         /\ acc[a].start < acc[a].end /\ acc[a].end <= cuts[(k - 1) + 1].time
                         /\ SpokenBy(acc[a], n, ts)
      /\ \A a, b \in 1..L : a < b => acc[a].to <= acc[b].from /\ acc[a].end <= acc[b].start
      /\ \A a \in 2..L : /\ acc[a].speaker # acc[a - 1].speaker /\ acc[a].from \in s.text.spaces
                         /\ acc[a].start = acc[a - 1].end \/ DoubleSpace(s.text)
      /\ \A p \in 0..(cuts[(k - 1) + 1].offset - 1) \ s.text.spaces :
           \E a \in 1..L : p \in acc[a].from..(acc[a].to - 1)
      /\ L >= 1 => \/ acc[L].end = cuts[(k - 1) + 1].time
                   \/ k - 1 < Len(cuts) - 1 /\ DoubleSpace(s.text)
  BY DEF PiecesUpTo
<1>5. (k - 1) + 1 = k /\ k > 0
  OBVIOUS
<1>6. /\ piece.end = end /\ piece.to = to /\ piece.start = start /\ piece.from = from
      /\ SpokenBy(piece, n, ts)
  BY DEF CutOut
<1> HIDE DEF L, q, from, to, start, end
<1>7. L \in Nat /\ DOMAIN acc = 1..L /\ (L = 0 <=> acc = <<>>) /\ \A a \in 1..L : acc[a] \in all
  BY <1>4 DEF L
<1>8. \A a \in 1..L : /\ acc[a].start \in Int /\ acc[a].end \in Int
                      /\ acc[a].from \in Int /\ acc[a].to \in Int
  BY <1>7 DEF Clips
<1>9. /\ next \in Seq(all) /\ Len(next) = L + 1 /\ next[L + 1] = piece
      /\ \A a \in 1..L : next[a] = acc[a]
  <2> HIDE DEF all
  <2>1. piece \in all
    BY DEF all
  <2> QED BY <1>4, <1>7, <2>1 DEF L
<1> HIDE DEF next
<1>10. \A a \in 1..L : /\ acc[a].to <= from /\ acc[a].end <= start
                       /\ acc[a].from < acc[a].to /\ acc[a].start < acc[a].end
  BY <1>4, <1>5 DEF from, start
<1>11. \A a \in 1..(L + 1) : a = L + 1 \/ a \in 1..L
  BY <1>7
<1>12. ASSUME NEW a \in 1..(L + 1)
       PROVE  /\ next[a].from < next[a].to /\ next[a].to <= to
              /\ next[a].start < next[a].end /\ next[a].end <= end /\ SpokenBy(next[a], n, ts)
  <2>1. CASE a = L + 1
    BY <1>3, <1>6, <1>9, <2>1
  <2>2. CASE a \in 1..L
    <3>1. acc[a].to <= to /\ acc[a].end <= end
      BY <1>3, <1>8, <1>10, <2>2
    <3> QED BY <1>4, <1>9, <1>10, <2>2, <3>1
  <2> QED BY <1>11, <2>1, <2>2
<1>13. \A a, b \in 1..(L + 1) : a < b => next[a].to <= next[b].from /\ next[a].end <= next[b].start
  <2> SUFFICES ASSUME NEW a \in 1..(L + 1), NEW b \in 1..(L + 1), a < b
               PROVE  next[a].to <= next[b].from /\ next[a].end <= next[b].start
    OBVIOUS
  <2>1. a \in 1..L
    BY <1>7
  <2> QED BY <1>4, <1>6, <1>9, <1>10, <1>11, <2>1
<1>14. ASSUME NEW a \in 2..(L + 1)
       PROVE  /\ next[a].speaker # next[a - 1].speaker /\ next[a].from \in s.text.spaces
              /\ next[a].start = next[a - 1].end \/ DoubleSpace(s.text)
  <2>1. CASE a = L + 1
    <3>1. L >= 1 /\ a - 1 = L /\ L \in 1..L /\ acc # <<>>
      BY <1>7, <2>1
    <3>2. k # 1
      BY <1>4, <3>1
    <3>3. k \in 2..q
      BY <1>2, <3>2
    <3>4. from \in s.text.spaces
      BY <1>1, <3>3 DEF from
    <3>5. acc[L].end = start \/ DoubleSpace(s.text)
      BY <1>4, <1>5, <3>1 DEF start
    <3>6. acc[L].speaker # piece.speaker
      BY <3>1 DEF L
    <3> QED BY <1>6, <1>9, <2>1, <3>1, <3>4, <3>5, <3>6
  <2>2. CASE a # L + 1
    <3>1. a \in 2..L /\ a \in 1..L /\ a - 1 \in 1..L
      BY <1>7, <2>2
    <3> QED BY <1>4, <1>9, <3>1
  <2> QED BY <2>1, <2>2
<1>15. ASSUME NEW p \in 0..(to - 1) \ s.text.spaces
       PROVE  \E a \in 1..(L + 1) : p \in next[a].from..(next[a].to - 1)
  <2>1. CASE p < from
    <3>1. p \in 0..(cuts[(k - 1) + 1].offset - 1) \ s.text.spaces
      BY <1>3, <1>5, <2>1 DEF from
    <3> PICK a \in 1..L : p \in acc[a].from..(acc[a].to - 1)
      BY <1>4, <3>1
    <3>2. a \in 1..(L + 1) /\ next[a] = acc[a]
      BY <1>7, <1>9
    <3> QED BY <3>2
  <2>2. CASE from <= p
    <3>1. p \in from..(to - 1) /\ L + 1 \in 1..(L + 1)
      BY <1>3, <1>7, <2>2
    <3> QED BY <1>6, <1>9, <3>1
  <2>3. p \in Int
    OBVIOUS
  <2> QED BY <1>3, <2>1, <2>2, <2>3
<1>16. next[1].start = s.start
  <2>1. CASE k = 1
    <3>1. L = 0
      BY <1>4, <1>7, <2>1
    <3> QED BY <1>1, <1>6, <1>9, <2>1, <3>1 DEF start
  <2>2. CASE k # 1
    <3>1. L >= 1 /\ 1 \in 1..L /\ acc[1].start = s.start
      BY <1>2, <1>4, <1>7, <2>2
    <3> QED BY <1>9, <3>1
  <2> QED BY <2>1, <2>2
<1>17. L + 1 >= 1 /\ next[L + 1].end = end
  BY <1>6, <1>7, <1>9
<1> HIDE DEF all
<1>18. PiecesUpTo(next, of, s, n, ts, cuts, k)
  BY <1>5, <1>9, <1>12, <1>13, <1>14, <1>15, <1>16, <1>17 DEF PiecesUpTo, to, end, all
<1> QED BY <1>18 DEF next

LEMMA PieceAdded ==
  ASSUME NEW s, Interval(s), s.text \in StrippedTexts, s.text.length >= 1,
         NEW n \in Nat, NEW ts, Voiceline(ts, n), NEW spans, SpansFit(s, n, ts, spans),
         NEW of, NEW cuts, CutsFit(cuts, s, spans), NEW k \in 1..(Len(cuts) - 1),
         NEW acc, PiecesUpTo(acc, of, s, n, ts, cuts, k - 1)
  PROVE  PiecesUpTo(AddPiece(acc, Piece(of, spans, cuts[k], cuts[k + 1]), s.text), of, s, n, ts, cuts, k)
<1> DEFINE piece == Piece(of, spans, cuts[k], cuts[k + 1])
           joined == [acc EXCEPT ![Len(acc)].end = piece.end, ![Len(acc)].to = piece.to]
<1>1. piece \in Clips(of, n, ts) /\ CutOut(piece, n, ts, cuts, k)
  BY PieceCut DEF CutOut
<1>2. Numbered(cuts, s, Len(cuts) - 1)
  BY CutFacts
<1>3. Last(acc) = acc[Len(acc)]
  BY DEF Last
<1> HIDE DEF piece
<1>4. CASE piece.from..(piece.to - 1) \subseteq s.text.spaces
  <2>1. AddPiece(acc, piece, s.text) = acc
    BY <1>4 DEF AddPiece
  <2>2. cuts[k].offset..(cuts[k + 1].offset - 1) \subseteq s.text.spaces
    BY <1>1, <1>4 DEF CutOut
  <2>3. PiecesUpTo(acc, of, s, n, ts, cuts, k)
    BY <2>2, PieceDropped
  <2> QED BY <2>1, <2>3 DEF piece
<1>5. CASE /\ ~(piece.from..(piece.to - 1) \subseteq s.text.spaces)
           /\ acc # <<>> /\ Last(acc).speaker = piece.speaker
  <2>1. AddPiece(acc, piece, s.text) = joined
    BY <1>5 DEF AddPiece
  <2>2. PiecesUpTo(joined, of, s, n, ts, cuts, k)
    BY <1>1, <1>2, <1>5, PieceJoined
  <2> QED BY <2>1, <2>2 DEF piece
<1>6. CASE /\ ~(piece.from..(piece.to - 1) \subseteq s.text.spaces)
           /\ ~(acc # <<>> /\ Last(acc).speaker = piece.speaker)
  <2>1. AddPiece(acc, piece, s.text) = Append(acc, piece)
    BY <1>6 DEF AddPiece
  <2>2. PiecesUpTo(Append(acc, piece), of, s, n, ts, cuts, k)
    BY <1>1, <1>2, <1>3, <1>6, PieceAppended
  <2> QED BY <2>1, <2>2 DEF piece
<1> QED BY <1>4, <1>5, <1>6

PieceOp(p, q, acc, piece) == AddPiece(acc, piece, p)
Cutlets == INSTANCE FoldLemmas WITH Op <- PieceOp

\* The pieces of a whole segment.
LEMMA PiecesMade ==
  ASSUME NEW s, Interval(s), s.text \in StrippedTexts, s.text.length >= 1, s.start < s.end,
         NEW n \in Nat, NEW ts, Voiceline(ts, n), NEW spans, SpansFit(s, n, ts, spans), NEW of
  PROVE  /\ Numbered(Cuts(s, spans), s, Len(Cuts(s, spans)) - 1)
         /\ PiecesUpTo(PiecesBetween(of, s.text, spans, Cuts(s, spans)), of, s, n, ts,
                       Cuts(s, spans), Len(Cuts(s, spans)) - 1)
<1> DEFINE cuts == Cuts(s, spans)
           q == Len(cuts) - 1
           none == <<>>
           text == s.text
           list == [k \in 1..(Len(cuts) - 1) |-> Piece(of, spans, cuts[k], cuts[k + 1])]
           f == Cutlets!Trace(text, 0, none, list, q)
           S == {k \in 0..q : PiecesUpTo(f[k], of, s, n, ts, cuts, k)}
           pieces == PiecesBetween(of, text, spans, cuts)
<1>1. CutsFit(cuts, s, spans)
  BY CutsMade
<1> HIDE DEF cuts
<1>2. Numbered(cuts, s, q)
  BY <1>1, CutFacts
<1>3. q \in Nat /\ cuts[0 + 1].offset = 0
  BY <1>2 DEF Numbered
<1>4. pieces = Cutlets!Fold(text, 0, none, list)
  BY DEF PiecesBetween, Cutlets!Fold, PieceOp, FoldLeft, MapThenFoldSet, Max,
         Cutlets!FoldLeft, Cutlets!MapThenFoldSet, Cutlets!Max
<1>5. DOMAIN list = 1..q /\ \A k \in 1..q : list[k] = Piece(of, spans, cuts[k], cuts[k + 1])
  OBVIOUS
<1>6. none = <<>>
  OBVIOUS
<1> HIDE DEF list, none, q, pieces
<1>7. /\ f[0] = none
      /\ \A k \in 1..q : f[k] = PieceOp(text, 0, f[k - 1], list[k])
      /\ pieces = f[q]
  BY <1>3, <1>4, <1>5, Cutlets!FoldTrace
<1> HIDE DEF f
<1>8. 0 \in S
  <2>1. f[0] = <<>> /\ Len(f[0]) = 0 /\ 1..Len(f[0]) = {} /\ 2..Len(f[0]) = {}
    BY <1>6, <1>7
  <2>2. f[0] \in Seq(Clips(of, n, ts))
    BY <2>1
  <2>3. 0..(cuts[0 + 1].offset - 1) = {}
    BY <1>3
  <2>4. PiecesUpTo(f[0], of, s, n, ts, cuts, 0)
    BY <2>1, <2>2, <2>3 DEF PiecesUpTo
  <2>5. 0 \in 0..q
    BY <1>3
  <2> QED BY <2>4, <2>5
<1>9. ASSUME NEW k \in 1..q, k - 1 \in S PROVE k \in S
  <2>1. f[k] = AddPiece(f[k - 1], Piece(of, spans, cuts[k], cuts[k + 1]), text)
    BY <1>5, <1>7 DEF PieceOp
  <2>2. PiecesUpTo(f[k - 1], of, s, n, ts, cuts, k - 1)
    BY <1>9
  <2>3. k \in 1..(Len(cuts) - 1)
    BY DEF q
  <2>4. PiecesUpTo(f[k], of, s, n, ts, cuts, k)
    BY <1>1, <2>1, <2>2, <2>3, PieceAdded
  <2>5. k \in 0..q
    BY <1>3
  <2> QED BY <2>4, <2>5
<1> HIDE DEF S
<1>10. q \in S
  BY <1>3, <1>8, <1>9, StepInduction
<1>11. PiecesUpTo(pieces, of, s, n, ts, cuts, q)
  BY <1>7, <1>10 DEF S
<1> QED BY <1>2, <1>11 DEF pieces, q, cuts

\* The pieces of one segment: all its text, nothing twice, each word in one
\* piece, all its time, and each of somebody who speaks in it.
Keeps(pieces, of, s, ts) ==
  LET spaces == s.text.spaces IN
  /\ Len(pieces) \in Nat \ {0} /\ DOMAIN pieces = 1..Len(pieces)
  /\ \A k \in 1..Len(pieces) : pieces[k].of = of
  /\ \A p \in 0..(s.text.length - 1) \ spaces :
       \E k \in 1..Len(pieces) : \A m \in 1..Len(pieces) :
         p \in pieces[m].from..(pieces[m].to - 1) <=> m = k
  /\ pieces[1].start = s.start /\ pieces[Len(pieces)].end = s.end
  /\ \A k \in 2..Len(pieces) :
       /\ pieces[k - 1].to <= pieces[k].from /\ {pieces[k].from, pieces[k].from - 1} \cap spaces # {}
       /\ \/ pieces[k].start = pieces[k - 1].end
          \/ pieces[k].start > pieces[k - 1].end /\ DoubleSpace(s.text)
       /\ pieces[k].speaker # pieces[k - 1].speaker
       /\ \A piece \in {pieces[k - 1], pieces[k]} :
            \E t \in DOMAIN ts : ts[t].speaker = piece.speaker /\ Overlap(ts[t], piece) > 0

LEMMA SplitKeeps ==
  ASSUME NEW s, s.text \in StrippedTexts, NEW n \in Nat, NEW ts, DOMAIN ts = 1..n, NEW of, NEW cuts,
         Numbered(cuts, s, Len(cuts) - 1),
         NEW pieces, PiecesUpTo(pieces, of, s, n, ts, cuts, Len(cuts) - 1)
  PROVE  Keeps(pieces, of, s, ts)
<1> DEFINE q == Len(cuts) - 1
           L == Len(pieces)
           spaces == s.text.spaces
<1>1. q \in Nat /\ q >= 1 /\ cuts[q + 1].time = s.end /\ cuts[q + 1].offset = s.text.length
  BY DEF Numbered
<1> HIDE DEF q
<1>2. PiecesUpTo(pieces, of, s, n, ts, cuts, q) /\ Len(cuts) - 1 = q
  BY DEF q
<1>3. /\ pieces \in Seq(Clips(of, n, ts)) /\ L >= 1 /\ pieces[1].start = s.start
      /\ \A a \in 1..L : pieces[a].from < pieces[a].to /\ SpokenBy(pieces[a], n, ts)
      /\ \A a, b \in 1..L : a < b => pieces[a].to <= pieces[b].from /\ pieces[a].end <= pieces[b].start
      /\ \A a \in 2..L : /\ pieces[a].speaker # pieces[a - 1].speaker /\ pieces[a].from \in spaces
                         /\ pieces[a].start = pieces[a - 1].end \/ DoubleSpace(s.text)
      /\ \A p \in 0..(s.text.length - 1) \ spaces : \E a \in 1..L : p \in pieces[a].from..(pieces[a].to - 1)
  BY <1>1, <1>2 DEF PiecesUpTo
<1>4. pieces[L].end = s.end
  BY <1>1, <1>2, <1>3 DEF PiecesUpTo
<1>5. L \in Nat \ {0} /\ DOMAIN pieces = 1..L /\ \A a \in 1..L : pieces[a] \in Clips(of, n, ts)
  BY <1>3
<1>6. \A a \in 1..L : /\ pieces[a].of = of /\ pieces[a].start \in Int /\ pieces[a].end \in Int
                      /\ pieces[a].from \in Int /\ pieces[a].to \in Int
  BY <1>5 DEF Clips
<1> HIDE DEF L
<1>7. ASSUME NEW p \in 0..(s.text.length - 1) \ spaces
      PROVE  \E k \in 1..L : \A m \in 1..L : p \in pieces[m].from..(pieces[m].to - 1) <=> m = k
  <2> PICK k \in 1..L : p \in pieces[k].from..(pieces[k].to - 1)
    BY <1>3
  <2>1. ASSUME NEW m \in 1..L, p \in pieces[m].from..(pieces[m].to - 1) PROVE m = k
    <3>1. p \in Int /\ pieces[m].from \in Int /\ pieces[m].to \in Int /\ pieces[k].from \in Int /\ pieces[k].to \in Int
      BY <1>6
    <3>2. /\ pieces[m].from <= p /\ p < pieces[m].to /\ pieces[k].from <= p /\ p < pieces[k].to
      BY <2>1, <3>1
    <3>3. m < k => pieces[m].to <= pieces[k].from
      BY <1>3 DEF L
    <3>4. k < m => pieces[k].to <= pieces[m].from
      BY <1>3 DEF L
    <3>5. ~(m < k) /\ ~(k < m)
      BY <3>1, <3>2, <3>3, <3>4
    <3> QED BY <1>5, <3>5
  <2> QED BY <2>1
<1>8. ASSUME NEW k \in 2..L
      PROVE  /\ pieces[k - 1].to <= pieces[k].from /\ {pieces[k].from, pieces[k].from - 1} \cap spaces # {}
             /\ \/ pieces[k].start = pieces[k - 1].end
                \/ pieces[k].start > pieces[k - 1].end /\ DoubleSpace(s.text)
             /\ pieces[k].speaker # pieces[k - 1].speaker
             /\ \A piece \in {pieces[k - 1], pieces[k]} :
                  \E t \in DOMAIN ts : ts[t].speaker = piece.speaker /\ Overlap(ts[t], piece) > 0
  <2>1. k \in 1..L /\ k - 1 \in 1..L /\ k - 1 < k
    BY <1>5
  <2>2. pieces[k - 1].to <= pieces[k].from /\ pieces[k - 1].end <= pieces[k].start
    BY <1>3, <2>1 DEF L
  <2>3. pieces[k].from \in spaces /\ pieces[k].speaker # pieces[k - 1].speaker
    BY <1>3 DEF L
  <2>4. pieces[k].start = pieces[k - 1].end \/ (pieces[k].start > pieces[k - 1].end /\ DoubleSpace(s.text))
    <3>1. pieces[k].start = pieces[k - 1].end \/ DoubleSpace(s.text)
      BY <1>3 DEF L
    <3>2. pieces[k].start \in Int /\ pieces[k - 1].end \in Int
      BY <1>6, <2>1
    <3> QED BY <2>2, <3>1, <3>2
  <2>5. SpokenBy(pieces[k - 1], n, ts) /\ SpokenBy(pieces[k], n, ts)
    BY <1>3, <2>1 DEF L
  <2>6. {pieces[k].from, pieces[k].from - 1} \cap spaces # {}
    BY <2>3
  <2> QED BY <2>2, <2>3, <2>4, <2>5, <2>6 DEF SpokenBy
<1>9. L = Len(pieces)
  BY DEF L
<1> HIDE DEF spaces
<1>10. /\ \A k \in 1..L : pieces[k].of = of
       /\ L \in Nat \ {0} /\ DOMAIN pieces = 1..L
       /\ pieces[1].start = s.start /\ pieces[L].end = s.end
  BY <1>3, <1>4, <1>5, <1>6
<1> QED BY <1>7, <1>8, <1>9, <1>10, Zenon DEF Keeps, spaces

LEMMA WholeKeeps ==
  ASSUME NEW s, Interval(s), s.text \in StrippedTexts, NEW ts, NEW of, NEW v
  PROVE  Keeps(<<Whole(of, s, v)>>, of, s, ts)
<1> DEFINE whole == Whole(of, s, v)
           pieces == <<whole>>
<1>1. /\ whole.of = of /\ whole.start = s.start /\ whole.end = s.end
      /\ whole.from = 0 /\ whole.to = s.text.length
  BY DEF Whole
<1> HIDE DEF whole
<1>2. Len(pieces) = 1 /\ DOMAIN pieces = 1..1 /\ pieces[1] = whole
  OBVIOUS
<1> HIDE DEF pieces
<1>3. \A k \in 1..Len(pieces) : k = 1
  BY <1>2
<1>4. 2..Len(pieces) = {} /\ 1 \in 1..Len(pieces) /\ Len(pieces) \in Nat \ {0}
  BY <1>2
<1>5. \A p \in 0..(s.text.length - 1) : p \in pieces[1].from..(pieces[1].to - 1)
  BY <1>1, <1>2
<1>6. Keeps(pieces, of, s, ts)
  BY <1>1, <1>2, <1>3, <1>4, <1>5 DEF Keeps
<1> QED BY <1>6 DEF pieces, whole

\* All that pieces of n segments can be.
Attributed(n, ts) ==
  [of : 1..n, speaker : {ts[i].speaker : i \in DOMAIN ts} \cup {NoSpeaker},
   start : Int, end : Int, from : Int, to : Int]

SegmentsOK(segs, n) ==
  /\ n \in Nat /\ DOMAIN segs = 1..n
  /\ \A k \in 1..n : Interval(segs[k]) /\ segs[k].text \in StrippedTexts

LEMMA NearestSpeaks ==
  ASSUME NEW s, Interval(s), NEW n \in Nat, NEW ts, Voiceline(ts, n), n # 0
  PROVE  \E i \in 1..n : NearestTurn(s, ts) = ts[i]
<1> DEFINE all == 1..n
           key == [i \in all |-> Distance(ts[i], s)]
           at == Min(Least(all, key))
<1>1. NearestTurn(s, ts) = ts[at]
  BY DEF NearestTurn, EarliestMin, Least, Voiceline
<1>2. \A i \in all : key[i] \in Int
  <2> SUFFICES ASSUME NEW i \in 1..n PROVE Distance(ts[i], s) \in Int
    OBVIOUS
  <2> DEFINE d == (ts[i].start + ts[i].end) - (s.start + s.end)
             e == -d
  <2>1. d \in Int /\ e \in Int
    BY DEF Voiceline, Interval
  <2>2. Distance(ts[i], s) = Max({d, e})
    BY DEF Distance
  <2> HIDE DEF d, e
  <2> QED BY <2>1, <2>2, ExtremaOfTwo
<1>3. IsFiniteSet(all) /\ all \subseteq Int /\ all # {}
  <2>1. IsFiniteSet(1..n)
    BY FS_Interval
  <2>2. 1 \in 1..n
    OBVIOUS
  <2> QED BY <2>1, <2>2
<1> HIDE DEF all, key
<1>4. at \in all
  BY <1>2, <1>3, LeastExists
<1> QED BY <1>1, <1>4 DEF all

\* Too few words are never split.
LEMMA SplittableHasText ==
  ASSUME NEW s, s.text \in StrippedTexts, NEW ts, Splittable(s, ts)
  PROVE  s.text.length >= 1
<1>1. Cardinality(WordStarts(s.text)) >= MinSplitWords /\ MinSplitWords \in Nat \ {0}
  BY TuningAssumption DEF Splittable
<1>2. s.text.length \in Nat
  BY DEF StrippedTexts
<1>3. ASSUME s.text.length = 0 PROVE FALSE
  <2>1. 0..(s.text.length - 1) = {}
    BY <1>3
  <2>2. WordStarts(s.text) = {}
    BY <2>1 DEF WordStarts
  <2>3. Cardinality(WordStarts(s.text)) = 0
    BY <2>2, FS_EmptySet
  <2> QED BY <1>1, <2>3
<1> QED BY <1>2, <1>3

\* The pieces of one segment, after the pieces before it.
LEMMA SegmentAssigned ==
  ASSUME NEW segs, NEW n, SegmentsOK(segs, n), NEW ts, TurnsOK(ts), ts # <<>>,
         NEW k \in 1..n, NEW acc \in Seq(Attributed(n, ts))
  PROVE  /\ Assigned(segs, ts, acc, k) \in Seq(Attributed(n, ts))
         /\ Keeps(Assigned(segs, ts, acc, k), k, segs[k], ts)
<1> DEFINE s == segs[k]
           T == Len(ts)
           all == Attributed(n, ts)
           spans == SpeakerSpans(s, ts)
           pieces == PiecesBetween(k, s.text, spans, Cuts(s, spans))
           voices == {ts[i].speaker : i \in DOMAIN ts}
           new == Assigned(segs, ts, acc, k)
<1>1. T \in Nat /\ T # 0 /\ DOMAIN ts = 1..T /\ Voiceline(ts, T)
  <2>1. ts \in Seq([start : Int, end : Int, speaker : {ts[i].speaker : i \in DOMAIN ts}])
    BY DEF TurnsOK
  <2>2. ts = <<>> <=> Len(ts) = 0
    <3> DEFINE R == [start : Int, end : Int, speaker : {ts[i].speaker : i \in DOMAIN ts}]
    <3>1. ts \in Seq(R)
      BY <2>1
    <3> HIDE DEF R
    <3> QED BY <3>1
  <2> QED BY <2>2, TurnTypes DEF Voiceline
<1>2. Interval(s) /\ s.text \in StrippedTexts /\ s.start \in Int /\ s.end \in Int /\ s.text.length \in Nat
  BY DEF SegmentsOK, Interval, StrippedTexts
<1> HIDE DEF s, T, spans
<1>3. ASSUME NEW v \in voices
      PROVE  <<Whole(k, s, v)>> \in Seq(all) /\ Keeps(<<Whole(k, s, v)>>, k, s, ts)
  <2>1. Whole(k, s, v) \in all
    BY <1>2 DEF Whole, Attributed
  <2>2. Keeps(<<Whole(k, s, v)>>, k, s, ts)
    BY <1>2, WholeKeeps
  <2> HIDE DEF all
  <2> QED BY <2>1, <2>2
<1>4. CASE Touching(s, ts) = {}
  <2> DEFINE v == IF acc # <<>> THEN Last(acc).speaker ELSE NearestTurn(s, ts).speaker
  <2>1. new = <<Whole(k, s, v)>>
    BY <1>4 DEF Assigned, s
  <2>2. v \in voices \cup {NoSpeaker}
    <3>1. CASE acc # <<>>
      <4>1. Last(acc) \in all
        <5> HIDE DEF all
        <5>1. acc \in Seq(all)
          BY DEF all
        <5> QED BY <3>1, <5>1 DEF Last
      <4> QED BY <3>1, <4>1 DEF Attributed
    <3>2. CASE acc = <<>>
      <4>1. \E i \in 1..T : NearestTurn(s, ts) = ts[i]
        BY <1>1, <1>2, NearestSpeaks
      <4> QED BY <1>1, <3>2, <4>1
    <3> QED BY <3>1, <3>2
  <2> HIDE DEF v
  <2>3. Whole(k, s, v) \in all
    BY <1>2, <2>2 DEF Whole, Attributed
  <2>4. Keeps(<<Whole(k, s, v)>>, k, s, ts)
    BY <1>2, WholeKeeps
  <2>5. <<Whole(k, s, v)>> \in Seq(all)
    <3> HIDE DEF all
    <3> QED BY <2>3
  <2> QED BY <2>1, <2>4, <2>5 DEF s
<1>5. CASE Touching(s, ts) # {} /\ Splittable(s, ts) /\ SplitSegment(k, s, spans) # <<>>
  <2>1. new = SplitSegment(k, s, spans)
    BY <1>5 DEF Assigned, s, spans
  <2>2. SplitSegment(k, s, spans) = pieces
    BY <1>5 DEF SplitSegment
  <2>3. SpansFit(s, T, ts, spans)
    BY <1>1, <1>2, <1>5, SpansMade DEF spans
  <2>4. s.text.length >= 1
    BY <1>2, <1>5, SplittableHasText
  <2>5. s.start < s.end
    <3> PICK i \in Touching(s, ts) : TRUE
      BY <1>5
    <3>1. Interval(ts[i]) /\ Overlap(s, ts[i]) > 0
      BY <1>1 DEF Touching, Voiceline
    <3> QED BY <1>2, <3>1, TouchingClipped
  <2> DEFINE cuts == Cuts(s, spans)
  <2>6. /\ Numbered(cuts, s, Len(cuts) - 1)
        /\ PiecesUpTo(pieces, k, s, T, ts, cuts, Len(cuts) - 1)
    BY <1>1, <1>2, <2>3, <2>4, <2>5, PiecesMade
  <2> HIDE DEF cuts, pieces
  <2>7. Keeps(pieces, k, s, ts)
    BY <1>1, <1>2, <2>6, SplitKeeps
  <2>8. pieces \in Seq(all)
    <3>1. pieces \in Seq(Clips(k, T, ts))
      BY <2>6 DEF PiecesUpTo
    <3>2. Clips(k, T, ts) \subseteq all
      BY <1>1 DEF Clips, Attributed
    <3> HIDE DEF all
    <3> QED BY <3>1, <3>2
  <2> QED BY <2>1, <2>2, <2>7, <2>8 DEF s
<1>6. CASE Touching(s, ts) # {} /\ ~(Splittable(s, ts) /\ SplitSegment(k, s, spans) # <<>>)
  <2> DEFINE v == Majority(s, ts)
  <2>1. new = <<Whole(k, s, v)>>
    BY <1>6 DEF Assigned, s, spans
  <2>2. v \in voices
    <3>1. Touching(s, ts) \in SUBSET (1..T)
      BY <1>1 DEF Touching
    <3>2. \E i \in Touching(s, ts) : LargestShare(s, ts, Touching(s, ts)) = ts[i].speaker
      BY <1>1, <1>2, <1>6, <3>1, LargestOfSome
    <3> QED BY <1>1, <3>1, <3>2 DEF Majority
  <2> QED BY <1>3, <2>1, <2>2 DEF s
<1> QED BY <1>4, <1>5, <1>6

\* The pieces of segment number k are those behind the first a.
BlockAt(list, k, s, ts, a, pieces) ==
  /\ a \in Nat /\ a + Len(pieces) <= Len(list)
  /\ \A m \in 1..Len(pieces) : list[a + m] = pieces[m]
  /\ \A j \in 1..Len(list) : list[j].of = k <=> j \in (a + 1)..(a + Len(pieces))
  /\ pieces = [m \in 1..Len(pieces) |-> pieces[m]]
  /\ Keeps(pieces, k, s, ts)

\* The first k segments have their pieces.
AssignedUpTo(list, segs, n, ts, k) ==
  /\ list \in Seq(Attributed(n, ts))
  /\ \A j \in 1..Len(list) : list[j].of \in 1..k
  /\ \A l \in 1..k : \E a \in Nat : \E pieces : BlockAt(list, l, segs[l], ts, a, pieces)

LEMMA BlockAdded ==
  ASSUME NEW segs, NEW n, SegmentsOK(segs, n), NEW ts, NEW k \in 1..n,
         NEW list, AssignedUpTo(list, segs, n, ts, k - 1),
         NEW pieces \in Seq(Attributed(n, ts)), Keeps(pieces, k, segs[k], ts)
  PROVE  AssignedUpTo(list \o pieces, segs, n, ts, k)
<1> DEFINE all == Attributed(n, ts)
           L == Len(list)
           M == Len(pieces)
           next == list \o pieces
<1>1. /\ list \in Seq(all) /\ \A j \in 1..L : list[j].of \in 1..(k - 1)
  BY DEF AssignedUpTo
<1>2. \A l \in 1..(k - 1) : \E a \in Nat : \E ps : BlockAt(list, l, segs[l], ts, a, ps)
  BY DEF AssignedUpTo
<1>3. /\ next \in Seq(all) /\ Len(next) = L + M /\ L \in Nat /\ M \in Nat
      /\ \A j \in 1..(L + M) : next[j] = IF j <= L THEN list[j] ELSE pieces[j - L]
      /\ pieces = [m \in 1..M |-> pieces[m]]
  <2>1. pieces \in Seq(all)
    OBVIOUS
  <2> HIDE DEF all
  <2> QED BY <1>1, <2>1, JoinedAt, SeqIsFunction
<1>4. \A m \in 1..M : pieces[m].of = k
  BY DEF Keeps
<1>5. k \in Nat /\ k \in 1..k /\ k \notin 1..(k - 1) /\ 1..(k - 1) \subseteq 1..k
  OBVIOUS
<1> HIDE DEF L, M, next, all
<1>6. ASSUME NEW j \in 1..(L + M)
      PROVE  /\ j <= L => j \in 1..L /\ next[j] = list[j] /\ next[j].of \in 1..(k - 1)
             /\ ~(j <= L) => next[j].of = k
  <2>0. L \in Nat /\ M \in Nat /\ next[j] = IF j <= L THEN list[j] ELSE pieces[j - L]
    BY <1>3
  <2>1. j <= L => j \in 1..L /\ next[j] = list[j]
    BY <2>0
  <2>2. ASSUME ~(j <= L) PROVE next[j].of = k
    <3>1. j - L \in 1..M /\ next[j] = pieces[j - L]
      BY <2>0, <2>2
    <3> QED BY <1>4, <3>1
  <2> QED BY <1>1, <2>1, <2>2
<1>7. \A j \in 1..(L + M) : next[j].of \in 1..k
  BY <1>5, <1>6
<1>8. ASSUME NEW l \in 1..(k - 1) PROVE \E a \in Nat : \E ps : BlockAt(next, l, segs[l], ts, a, ps)
  <2> PICK a \in Nat : \E ps : BlockAt(list, l, segs[l], ts, a, ps)
    BY <1>2
  <2> PICK ps : BlockAt(list, l, segs[l], ts, a, ps)
    OBVIOUS
  <2> DEFINE P == Len(ps)
  <2>1. /\ a + P <= L /\ \A m \in 1..P : list[a + m] = ps[m]
        /\ \A j \in 1..L : list[j].of = l <=> j \in (a + 1)..(a + P)
        /\ ps = [m \in 1..P |-> ps[m]] /\ Keeps(ps, l, segs[l], ts)
    BY DEF BlockAt, L
  <2>2. P \in Nat
    BY <2>1 DEF Keeps
  <2> HIDE DEF P
  <2>3. a + P <= L + M
    BY <1>3, <2>1, <2>2
  <2>4. \A m \in 1..P : next[a + m] = ps[m]
    <3> SUFFICES ASSUME NEW m \in 1..P PROVE next[a + m] = ps[m]
      OBVIOUS
    <3>1. a + m \in 1..(L + M) /\ a + m <= L
      BY <1>3, <2>1, <2>2
    <3> QED BY <1>3, <2>1, <3>1
  <2>5. ASSUME NEW j \in 1..(L + M) PROVE next[j].of = l <=> j \in (a + 1)..(a + P)
    <3>1. CASE j <= L
      BY <1>6, <2>1, <3>1
    <3>2. CASE ~(j <= L)
      <4>1. next[j].of = k /\ l # k
        BY <1>6, <3>2
      <4>2. ~(j \in (a + 1)..(a + P))
        BY <1>3, <2>1, <2>2, <3>2
      <4> QED BY <4>1, <4>2
    <3> QED BY <3>1, <3>2
  <2>6. BlockAt(next, l, segs[l], ts, a, ps)
    BY <1>3, <2>1, <2>3, <2>4, <2>5 DEF BlockAt, P
  <2> QED BY <2>6
<1>9. BlockAt(next, k, segs[k], ts, L, pieces)
  <2>1. L + M <= L + M
    BY <1>3
  <2>2. \A m \in 1..M : next[L + m] = pieces[m]
    <3> SUFFICES ASSUME NEW m \in 1..M PROVE next[L + m] = pieces[m]
      OBVIOUS
    <3>1. L + m \in 1..(L + M) /\ ~(L + m <= L) /\ (L + m) - L = m
      BY <1>3
    <3> QED BY <1>3, <3>1
  <2>3. ASSUME NEW j \in 1..(L + M) PROVE next[j].of = k <=> j \in (L + 1)..(L + M)
    <3>1. CASE j <= L
      <4>1. next[j].of \in 1..(k - 1)
        BY <1>6, <3>1
      <4>2. ~(j \in (L + 1)..(L + M))
        BY <1>3, <3>1
      <4> QED BY <1>5, <4>1, <4>2
    <3>2. CASE ~(j <= L)
      <4>1. j \in (L + 1)..(L + M)
        BY <1>3, <3>2
      <4> QED BY <1>6, <3>2, <4>1
    <3> QED BY <3>1, <3>2
  <2> QED BY <1>3, <2>1, <2>2, <2>3 DEF BlockAt, M
<1>10. \A l \in 1..k : \E a \in Nat : \E ps : BlockAt(next, l, segs[l], ts, a, ps)
  <2>1. \A l \in 1..k : l = k \/ l \in 1..(k - 1)
    OBVIOUS
  <2> QED BY <1>3, <1>8, <1>9, <2>1
<1> QED BY <1>3, <1>7, <1>10 DEF AssignedUpTo, next, all

AssignOp(p, q, acc, k) == acc \o Assigned(p, q, acc, k)
Assigning == INSTANCE FoldLemmas WITH Op <- AssignOp

LEMMA AllAssigned ==
  ASSUME NEW segs, NEW n, SegmentsOK(segs, n), NEW ts, TurnsOK(ts), ts # <<>>
  PROVE  AssignedUpTo(AssignSpeakersToSegments(segs, ts), segs, n, ts, n)
<1> DEFINE none == <<>>
           list == [k \in DOMAIN segs |-> k]
           f == Assigning!Trace(segs, ts, none, list, n)
           S == {k \in 0..n : AssignedUpTo(f[k], segs, n, ts, k)}
           result == AssignSpeakersToSegments(segs, ts)
<1>1. result = Assigning!Fold(segs, ts, none, list)
  BY DEF AssignSpeakersToSegments, Assigning!Fold, AssignOp, FoldLeft, MapThenFoldSet, Max,
         Assigning!FoldLeft, Assigning!MapThenFoldSet, Assigning!Max
<1>2. n \in Nat /\ DOMAIN list = 1..n /\ \A k \in 1..n : list[k] = k
  BY DEF SegmentsOK
<1>3. none = <<>>
  OBVIOUS
<1> HIDE DEF list, none, result
<1>4. /\ f[0] = none
      /\ \A k \in 1..n : f[k] = AssignOp(segs, ts, f[k - 1], list[k])
      /\ Assigning!Fold(segs, ts, none, list) = f[n]
  BY <1>2, Assigning!FoldTrace
<1> HIDE DEF f
<1>5. 0 \in S
  <2>1. f[0] = <<>> /\ 1..Len(f[0]) = {} /\ 1..0 = {}
    BY <1>3, <1>4
  <2>2. f[0] \in Seq(Attributed(n, ts))
    BY <2>1
  <2>3. AssignedUpTo(f[0], segs, n, ts, 0)
    BY <2>1, <2>2 DEF AssignedUpTo
  <2>4. 0 \in 0..n
    BY <1>2
  <2> QED BY <2>3, <2>4
<1>6. ASSUME NEW k \in 1..n, k - 1 \in S PROVE k \in S
  <2> DEFINE acc == f[k - 1]
             new == Assigned(segs, ts, acc, k)
  <2>1. f[k] = acc \o new
    BY <1>2, <1>4 DEF AssignOp
  <2>2. AssignedUpTo(acc, segs, n, ts, k - 1)
    BY <1>6
  <2> HIDE DEF acc
  <2>3. acc \in Seq(Attributed(n, ts))
    BY <2>2 DEF AssignedUpTo
  <2>4. new \in Seq(Attributed(n, ts)) /\ Keeps(new, k, segs[k], ts)
    BY <2>3, SegmentAssigned
  <2> HIDE DEF new
  <2>5. AssignedUpTo(acc \o new, segs, n, ts, k)
    BY <2>2, <2>4, BlockAdded
  <2>6. k \in 0..n
    BY <1>2
  <2> QED BY <2>1, <2>5, <2>6
<1> HIDE DEF S
<1>7. n \in S
  BY <1>2, <1>5, <1>6, StepInduction
<1>8. AssignedUpTo(result, segs, n, ts, n)
  BY <1>1, <1>4, <1>7 DEF S
<1> QED BY <1>8 DEF result

LEMMA AllVerbatim ==
  ASSUME NEW segs, NEW n, SegmentsOK(segs, n), NEW ts
  PROVE  AssignedUpTo(Verbatim(segs), segs, n, ts, n)
<1> DEFINE list == Verbatim(segs)
           all == Attributed(n, ts)
<1>1. n \in Nat /\ DOMAIN segs = 1..n /\ \A k \in 1..n : Interval(segs[k]) /\ segs[k].text \in StrippedTexts
  BY DEF SegmentsOK
<1>2. list = [k \in 1..n |-> Whole(k, segs[k], NoSpeaker)]
  BY <1>1 DEF Verbatim
<1> HIDE DEF list
<1>3. \A k \in 1..n : list[k] = Whole(k, segs[k], NoSpeaker) /\ list[k].of = k
  BY <1>2 DEF Whole
<1>4. \A k \in 1..n : list[k] \in all
  <2> SUFFICES ASSUME NEW k \in 1..n PROVE list[k] \in all
    OBVIOUS
  <2>1. segs[k].start \in Int /\ segs[k].end \in Int /\ segs[k].text.length \in Int
    BY <1>1 DEF Interval, StrippedTexts
  <2> DEFINE w == Whole(k, segs[k], NoSpeaker)
             voices == {ts[i].speaker : i \in DOMAIN ts} \cup {NoSpeaker}
  <2>2. NoSpeaker \in voices
    OBVIOUS
  <2> HIDE DEF voices
  <2>3. w \in [of : 1..n, speaker : voices, start : Int, end : Int, from : Int, to : Int]
    BY <2>1, <2>2 DEF Whole
  <2> HIDE DEF w
  <2>4. w \in all
    BY <2>3 DEF Attributed, voices
  <2> QED BY <1>3, <2>4 DEF w
<1>5. list \in Seq(all) /\ Len(list) = n
  <2> HIDE DEF all
  <2> QED BY <1>1, <1>2, <1>4
<1>6. ASSUME NEW k \in 1..n PROVE \E a \in Nat : \E pieces : BlockAt(list, k, segs[k], ts, a, pieces)
  <2> DEFINE pieces == <<list[k]>>
  <2>1. Keeps(pieces, k, segs[k], ts)
    BY <1>1, <1>3, WholeKeeps
  <2>2. Len(pieces) = 1 /\ pieces[1] = list[k] /\ pieces = [m \in 1..1 |-> pieces[m]]
    OBVIOUS
  <2> HIDE DEF pieces
  <2>3. k - 1 \in Nat /\ (k - 1) + 1 = k /\ (k - 1) + 1 <= n
    OBVIOUS
  <2>4. \A m \in 1..1 : list[(k - 1) + m] = pieces[m]
    BY <2>2, <2>3
  <2>5. \A j \in 1..n : list[j].of = k <=> j \in ((k - 1) + 1)..((k - 1) + 1)
    BY <1>3
  <2>6. BlockAt(list, k, segs[k], ts, k - 1, pieces)
    BY <1>5, <2>1, <2>2, <2>3, <2>4, <2>5 DEF BlockAt
  <2> QED BY <2>3, <2>6
<1>7. \A j \in 1..n : list[j].of \in 1..n
  BY <1>3
<1> QED BY <1>5, <1>6, <1>7 DEF AssignedUpTo, list

\* The pieces of segment number k, picked from the list in order.
Picked(list, k) ==
  LET mine == InOrder({j \in DOMAIN list : list[j].of = k})
  IN [m \in DOMAIN mine |-> list[mine[m]]]

LEMMA BlockPicked ==
  ASSUME NEW all, NEW list \in Seq(all), NEW k, NEW s, NEW ts, NEW a \in Nat, NEW pieces,
         BlockAt(list, k, s, ts, a, pieces)
  PROVE  Picked(list, k) = pieces
<1> DEFINE P == Len(pieces)
           S == {j \in DOMAIN list : list[j].of = k}
           order == [m \in 1..P |-> a + m]
           mine == InOrder(S)
<1>1. P \in Nat /\ Len(list) \in Nat /\ DOMAIN list = 1..Len(list)
  BY DEF BlockAt, Keeps
<1>2. /\ a + P <= Len(list)
      /\ \A m \in 1..P : list[a + m] = pieces[m]
      /\ \A j \in 1..Len(list) : list[j].of = k <=> j \in (a + 1)..(a + P)
      /\ pieces = [m \in 1..P |-> pieces[m]]
  BY DEF BlockAt
<1> HIDE DEF P
<1>3. S = (a + 1)..(a + P)
  <2>1. \A j : j \in (a + 1)..(a + P) => j \in 1..Len(list)
    BY <1>1, <1>2
  <2> QED BY <1>1, <1>2, <2>1
<1>4. IsFiniteSet(S) /\ Cardinality(S) = P /\ S \subseteq Int
  <2> DEFINE u == a + 1
             v == a + P
  <2>1. u \in Int /\ v \in Int /\ S = u..v /\ u <= v + 1 /\ v - u + 1 = P
    BY <1>1, <1>3
  <2> HIDE DEF u, v, S
  <2>2. IsFiniteSet(u..v) /\ Cardinality(u..v) = IF u > v THEN 0 ELSE v - u + 1
    BY <2>1, FS_Interval
  <2>3. u > v => P = 0
    BY <2>1
  <2> QED BY <2>1, <2>2, <2>3
<1>5. Rises(mine, P, S)
  <2> HIDE DEF S
  <2> QED BY <1>4, InOrderRises
<1>6. Rises(order, P, S)
  <2>1. order \in [1..P -> S]
    BY <1>1, <1>3
  <2>2. ASSUME NEW x \in S PROVE \E m \in 1..P : order[m] = x
    <3>1. x - a \in 1..P /\ order[x - a] = x
      BY <1>1, <1>3
    <3> QED BY <3>1
  <2>3. \A m, l \in 1..P : m < l => order[m] < order[l]
    BY <1>1
  <2> HIDE DEF S, order
  <2> QED BY <2>1, <2>2, <2>3 DEF Rises
<1>7. mine = order
  <2> HIDE DEF mine, order, S
  <2> QED BY <1>1, <1>4, <1>5, <1>6, OneOrder
<1>8. Picked(list, k) = [m \in DOMAIN mine |-> list[mine[m]]]
  BY DEF Picked
<1> HIDE DEF mine
<1>9. Picked(list, k) = [m \in 1..P |-> list[a + m]]
  BY <1>7, <1>8
<1>10. [m \in 1..P |-> list[a + m]] = [m \in 1..P |-> pieces[m]]
  BY <1>2
<1> QED BY <1>2, <1>9, <1>10

\* Every segment has its pieces, whether there are turns or not.
LEMMA SegmentsAssigned ==
  ASSUME NEW segs, NEW n, SegmentsOK(segs, n), NEW ts, TurnsOK(ts)
  PROVE  AssignedUpTo(AssignSpeakersToSegments(segs, ts), segs, n, ts, n)
<1>1. CASE ts = <<>>
  <2>1. AssignSpeakersToSegments(segs, ts) = Verbatim(segs)
    BY <1>1 DEF AssignSpeakersToSegments
  <2> QED BY <2>1, AllVerbatim
<1>2. CASE ts # <<>>
  BY <1>2, AllAssigned
<1> QED BY <1>1, <1>2

\* Every segment, whatever was cut, has pieces that keep it.
LEMMA SegmentsKept ==
  ASSUME NEW segs, NEW n, SegmentsOK(segs, n), NEW ts, TurnsOK(ts), NEW k \in 1..n
  PROVE  Keeps(Picked(AssignSpeakersToSegments(segs, ts), k), k, segs[k], ts)
<1> DEFINE list == AssignSpeakersToSegments(segs, ts)
           all == Attributed(n, ts)
<1>1. AssignedUpTo(list, segs, n, ts, n)
  BY SegmentsAssigned
<1> HIDE DEF list
<1>2. list \in Seq(all)
  BY <1>1 DEF AssignedUpTo
<1> PICK a \in Nat : \E pieces : BlockAt(list, k, segs[k], ts, a, pieces)
  BY <1>1 DEF AssignedUpTo
<1>3. PICK pieces : BlockAt(list, k, segs[k], ts, a, pieces)
  OBVIOUS
<1> HIDE DEF all
<1>4. Picked(list, k) = pieces
  BY <1>2, <1>3, BlockPicked
<1>5. Keeps(pieces, k, segs[k], ts)
  BY <1>3 DEF BlockAt
<1> QED BY <1>4, <1>5 DEF list

-----------------------------------------------------------------------------
(* The merge of whole segments                                             *)

Sent == [start : Int, end : Int, text : StrippedTexts,
         words : Seq([start : Int, end : Int, anchored : BOOLEAN, at : Nat])]

SegmentsInv ==
  /\ segments \in Seq(Sent)
  /\ pc = "merge" => words # <<>>
  /\ pc = "review" /\ words = <<>> =>
       /\ lines \in Seq(Attributed(Len(segments), turns))
       /\ \A n \in DOMAIN segments : Keeps(Picked(lines, n), n, segments[n], turns)

LEMMA SegmentFacts ==
  ASSUME SegmentsInv
  PROVE  SegmentsOK(segments, Len(segments)) /\ DOMAIN segments = 1..Len(segments)
<1>1. segments \in Seq(Sent)
  BY DEF SegmentsInv
<1>2. \A s \in Sent : Interval(s) /\ s.text \in StrippedTexts
  BY DEF Sent, Interval
<1> HIDE DEF Sent
<1> QED BY <1>1, <1>2 DEF SegmentsOK

LEMMA InitSegments ==
  ASSUME Init
  PROVE  SegmentsInv
<1>1. PICK family \in Recordings : \E r \in family : segments = r.segments /\ pc \in {"diarize", "group"}
  BY DEF Init
<1>2. PICK r \in family : segments = r.segments /\ pc \in {"diarize", "group"}
  BY <1>1
<1>3. r.segments \in Seq(Sent)
  BY RecordingsAssumption DEF Sent
<1> QED BY <1>2, <1>3 DEF SegmentsInv

LEMMA SegmentsStep ==
  ASSUME LabelInv, SegmentsInv, [Next]_vars
  PROVE  SegmentsInv'
<1>1. CASE MergeSegments
  <2>1. /\ words = <<>> /\ words' = words /\ turns' = turns /\ segments' = segments
        /\ lines' = AssignSpeakersToSegments(segments, turns) /\ pc' \in {"review", "done"}
    BY <1>1 DEF MergeSegments
  <2>2. SegmentsOK(segments, Len(segments)) /\ DOMAIN segments = 1..Len(segments)
    BY SegmentFacts
  <2>3. TurnsOK(turns)
    BY DEF LabelInv, InputsInv
  <2>4. \A n \in DOMAIN segments :
          Keeps(Picked(AssignSpeakersToSegments(segments, turns), n), n, segments[n], turns)
    BY <2>2, <2>3, SegmentsKept
  <2>5. AssignSpeakersToSegments(segments, turns) \in Seq(Attributed(Len(segments), turns))
    BY <2>2, <2>3, SegmentsAssigned DEF AssignedUpTo
  <2> QED BY <2>1, <2>4, <2>5 DEF SegmentsInv
<1>2. CASE Lines
  <2>1. words # <<>> /\ words' = words /\ segments' = segments
    BY <1>2 DEF Lines
  <2> QED BY <2>1 DEF SegmentsInv
<1>3. CASE MergeOrphans
  <2>1. words # <<>> /\ words' = words /\ segments' = segments
    BY <1>3 DEF MergeOrphans, SegmentsInv
  <2> QED BY <2>1 DEF SegmentsInv
<1>4. CASE Diarize \/ RelabelClusters \/ Attribute \/ Smooth \/ Snap \/ Review
  <2>1. segments' = segments /\ pc' \in {"relabel", "group", "label", "smooth", "snap", "done"}
    BY <1>4 DEF Diarize, RelabelClusters, Attribute, Smooth, Snap, Review
  <2> QED BY <2>1 DEF SegmentsInv
<1>5. CASE UNCHANGED vars
  BY <1>5 DEF SegmentsInv, vars
<1> QED BY <1>1, <1>2, <1>3, <1>4, <1>5 DEF Next

\* Until they are reviewed, the lines made of each segment the provider sent
\* keep its text and its time, and the turns are those they were made with.
THEOREM SegmentsInvariant == Spec => []SegmentsInv
<1>1. Init => SegmentsInv
  BY InitSegments
<1>2. LabelInv /\ SegmentsInv /\ [Next]_vars => SegmentsInv'
  BY SegmentsStep
<1> QED BY <1>1, <1>2, LabelInvariant, PTL DEF Spec

\* Cutting a segment where the speaker changes, at the cuts that fit its text
\* and dropping pieces of whitespace, loses and breaks no word, no time without
\* two spaces in a row, and gives nobody a piece he does not speak in.
THEOREM AlwaysSplitsKeepSegments == Spec => []SplitsKeepSegments
<1>1. SegmentsInv => SplitsKeepSegments
  <2> SUFFICES ASSUME SegmentsInv, pc = "review", words = <<>>, NEW n \in DOMAIN segments
               PROVE  TextKept(n) /\ TimeKept(n) /\ PiecesSpoken(n)
    BY DEF SplitsKeepSegments
  <2> DEFINE pieces == Pieces(n)
             s == segments[n]
             L == Len(pieces)
  <2>1. Pieces(n) = Picked(lines, n)
    BY DEF Pieces, Picked
  <2>2. Keeps(pieces, n, s, turns)
    BY <2>1 DEF SegmentsInv
  <2> HIDE DEF pieces, s
  <2>3. /\ L \in Nat \ {0} /\ DOMAIN pieces = 1..L
        /\ \A p \in 0..(s.text.length - 1) \ s.text.spaces :
             \E k \in 1..L : \A m \in 1..L : p \in pieces[m].from..(pieces[m].to - 1) <=> m = k
        /\ pieces[1].start = s.start /\ pieces[L].end = s.end
        /\ \A k \in 2..L :
             /\ pieces[k - 1].to <= pieces[k].from
             /\ {pieces[k].from, pieces[k].from - 1} \cap s.text.spaces # {}
             /\ \/ pieces[k].start = pieces[k - 1].end
                \/ pieces[k].start > pieces[k - 1].end /\ DoubleSpace(s.text)
             /\ pieces[k].speaker # pieces[k - 1].speaker
             /\ \A piece \in {pieces[k - 1], pieces[k]} :
                  \E t \in DOMAIN turns : turns[t].speaker = piece.speaker /\ Overlap(turns[t], piece) > 0
    BY <2>2 DEF Keeps
  <2>4. Last(pieces) = pieces[L]
    BY DEF Last
  <2>5. TextKept(n)
    <3>1. \A p \in 0..(s.text.length - 1) \ s.text.spaces :
            \E k \in DOMAIN pieces : \A m \in DOMAIN pieces :
              p \in pieces[m].from..(pieces[m].to - 1) <=> m = k
      <4> DEFINE In(p, m) == p \in pieces[m].from..(pieces[m].to - 1)
                 all == 0..(s.text.length - 1) \ s.text.spaces
      <4>1. DOMAIN pieces = 1..L /\ \A p \in all : \E k \in 1..L : \A m \in 1..L : In(p, m) <=> m = k
        BY <2>3
      <4> HIDE DEF In, all, L
      <4>2. \A p \in all : \E k \in DOMAIN pieces : \A m \in DOMAIN pieces : In(p, m) <=> m = k
        BY <4>1, Zenon
      <4> QED BY <4>2 DEF In, all
    <3>2. \A k \in 2..Len(pieces) :
            /\ pieces[k - 1].to <= pieces[k].from
            /\ {pieces[k].from, pieces[k].from - 1} \cap s.text.spaces # {}
      BY <2>3
    <3> QED BY <3>1, <3>2, Zenon DEF TextKept, pieces, s
  <2>6. TimeKept(n)
    BY <2>3, <2>4 DEF TimeKept, DoubleSpace, pieces, s
  <2>7. PiecesSpoken(n)
    BY <2>3 DEF PiecesSpoken, pieces
  <2> QED BY <2>5, <2>6, <2>7
<1> QED BY <1>1, SegmentsInvariant, PTL

-----------------------------------------------------------------------------
(* The review                                                              *)

\* A piece of a segment is reviewed as its words are, and has its text whole
\* where it has no words or does not show them.
LEMMA PieceReviewed ==
  ASSUME NEW n \in Nat, NEW said, Len(said) = n, \A i \in 1..n : Interval(said[i]),
         NEW ovs, \A o \in DOMAIN ovs : Interval(ovs[o]), NEW piece, Interval(piece)
  PROVE  LET parts == ReviewSegment(piece, said, ovs)
             all == AllOf(piece, said)
         IN /\ \E m \in Nat : DOMAIN parts = 1..m /\ parts = [k \in 1..m |-> parts[k]]
            /\ \A k \in DOMAIN parts :
                 /\ parts[k].of = piece.of /\ parts[k].speaker = piece.speaker
                 /\ ~Divisible(said, all) =>
                      parts[k].from = piece.from /\ parts[k].to = piece.to
                 /\ FlaggedAs(parts[k], said, all, piece, ovs)
<1> DEFINE all == AllOf(piece, said)
           cut == ReviewWords(said, all, piece, ovs)
           parts == ReviewSegment(piece, said, ovs)
           first == 1
           voices == {piece.speaker}
           F == PartsOf(said, all, piece, ovs, voices)
<1>1. /\ all.speaker \in voices /\ all.first = first /\ all.last = n
      /\ first \in Int /\ n \in Int /\ first..n \subseteq 1..n
  BY DEF AllOf
<1>2. parts = [k \in DOMAIN cut |-> ReviewPart(piece, said, cut, k)]
  BY DEF ReviewSegment
<1> HIDE DEF all, parts, first, voices
<1>3. cut \in Seq(F) /\ (~Divisible(said, all) => Len(cut) = 1)
  BY <1>1, WordsReviewed
<1> HIDE DEF cut
<1>4. Len(cut) \in Nat /\ DOMAIN cut = 1..Len(cut) /\ \A k \in 1..Len(cut) : cut[k] \in F
  <2> HIDE DEF F
  <2> QED BY <1>3
<1>5. ASSUME NEW k \in DOMAIN parts
      PROVE  /\ parts[k].of = piece.of /\ parts[k].speaker = piece.speaker
             /\ ~Divisible(said, all) => parts[k].from = piece.from /\ parts[k].to = piece.to
             /\ FlaggedAs(parts[k], said, all, piece, ovs)
  <2>1. k \in 1..Len(cut) /\ parts[k] = ReviewPart(piece, said, cut, k)
    BY <1>2, <1>4
  <2>2. /\ parts[k].of = piece.of /\ parts[k].speaker = piece.speaker
        /\ parts[k].first = cut[k].first /\ parts[k].last = cut[k].last
        /\ parts[k].ids = cut[k].ids
        /\ parts[k].from = (IF k = 1 THEN piece.from ELSE said[cut[k].first].at)
        /\ parts[k].to = (IF k = Len(cut) THEN piece.to ELSE said[cut[k + 1].first].at)
    BY <2>1 DEF ReviewPart
  <2>3. ~Divisible(said, all) => k = 1 /\ k = Len(cut)
    BY <1>3, <1>4, <2>1
  <2>4. FlaggedAs(cut[k], said, all, piece, ovs)
    BY <1>4, <2>1 DEF PartsOf
  <2>5. FlaggedAs(parts[k], said, all, piece, ovs)
    BY <2>2, <2>4 DEF FlaggedAs
  <2> QED BY <2>2, <2>3, <2>5
<1>6. \E m \in Nat : DOMAIN parts = 1..m /\ parts = [k \in 1..m |-> parts[k]]
  <2> DEFINE m == Len(cut)
  <2>1. m \in Nat /\ DOMAIN parts = 1..m /\ parts = [k \in 1..m |-> parts[k]]
    BY <1>2, <1>4
  <2> HIDE DEF m
  <2> QED BY <2>1
<1> QED BY <1>5, <1>6 DEF parts, all

\* The lines of a transcript that has times of words.
LEMMA ReviewFlagsLines ==
  ASSUME LabelInv, Review, words # <<>>, NEW k \in DOMAIN lines'
  PROVE  \E n \in DOMAIN lines : LineFlagged(lines'[k], lines[n])
<1> DEFINE F == ReviewedLines(words, lines, overlaps, Labelled)
<1>1. pc = "review" /\ lines' = ApplySpeakerReview(words, lines, overlaps)
  BY DEF Review
<1>2. /\ TotalWords \in Nat /\ \A i \in 1..TotalWords : Interval(words[i])
      /\ \A o \in DOMAIN overlaps : Interval(overlaps[o])
      /\ lines \in Seq(LinesOf(words, TotalWords, Labelled, FALSE))
      /\ Tiles(lines, 1, TotalWords)
  BY <1>1, WordFacts DEF LabelInv, InputsInv, TurnsInv, LinesInv
<1>3. ApplySpeakerReview(words, lines, overlaps) \in Seq(F)
  BY <1>2, LinesReviewed
<1>4. lines'[k] \in F
  <2> HIDE DEF F
  <2> QED BY <1>1, <1>3
<1> QED BY <1>4 DEF ReviewedLines, LineFlagged

\* The pieces of the segments of one that has none.
LEMMA ReviewFlagsPieces ==
  ASSUME LabelInv, SegmentsInv, Review, words = <<>>, NEW k \in DOMAIN lines'
  PROVE  \E n \in DOMAIN lines : PieceFlagged(lines'[k], lines[n])
<1> DEFINE said(n) == WordsOf(lines[n], segments[lines[n].of])
           seqs == [n \in DOMAIN lines |-> ReviewSegment(lines[n], said(n), overlaps)]
           T == UNION {{seqs[n][m] : m \in DOMAIN seqs[n]} : n \in DOMAIN lines}
           N == Len(lines)
           A == Attributed(Len(segments), turns)
<1>1. pc = "review" /\ lines' = FlattenSeq(seqs)
  BY DEF Review, ReviewSegments
<1>2. lines \in Seq(A) /\ \A o \in DOMAIN overlaps : Interval(overlaps[o])
  BY <1>1 DEF SegmentsInv, LabelInv, TurnsInv
<1>3. N \in Nat /\ DOMAIN lines = 1..N /\ \A n \in 1..N : lines[n] \in A
  <2> HIDE DEF A
  <2> QED BY <1>2
<1>4. ASSUME NEW n \in DOMAIN lines
      PROVE  /\ \E m \in Nat : DOMAIN seqs[n] = 1..m /\ seqs[n] = [l \in 1..m |-> seqs[n][l]]
             /\ \A m \in DOMAIN seqs[n] : PieceFlagged(seqs[n][m], lines[n])
  <2> DEFINE piece == lines[n]
             words_ == said(n)
  <2>1. Interval(piece) /\ piece.of \in 1..Len(segments)
    BY <1>3 DEF Attributed, Interval
  <2>2. segments[piece.of] \in Sent
    BY <2>1 DEF SegmentsInv
  <2>3. /\ Len(words_) \in Nat
        /\ \A i \in 1..Len(words_) : Interval(words_[i])
    <3> DEFINE W == [start : Int, end : Int, anchored : BOOLEAN, at : Nat]
    <3>1. segments[piece.of].words \in Seq(W)
      BY <2>2 DEF Sent
    <3>2. \A w \in W : Interval(w)
      BY DEF Interval
    <3> HIDE DEF W, piece
    <3>3. words_ \in Seq(W)
      BY <3>1 DEF WordsOf, piece
    <3> HIDE DEF words_
    <3> QED BY <3>2, <3>3
  <2>4. seqs[n] = ReviewSegment(piece, words_, overlaps)
    OBVIOUS
  <2>5. \A flagged : PieceFlagged(flagged, piece) <=>
          /\ flagged.of = piece.of /\ flagged.speaker = piece.speaker
          /\ ~Divisible(words_, AllOf(piece, words_)) =>
               flagged.from = piece.from /\ flagged.to = piece.to
          /\ FlaggedAs(flagged, words_, AllOf(piece, words_), piece, overlaps)
    BY DEF PieceFlagged
  <2> HIDE DEF piece, words_, seqs
  <2>6. LET parts == ReviewSegment(piece, words_, overlaps)
            all == AllOf(piece, words_)
        IN /\ \E m \in Nat : DOMAIN parts = 1..m /\ parts = [l \in 1..m |-> parts[l]]
           /\ \A m \in DOMAIN parts :
                /\ parts[m].of = piece.of /\ parts[m].speaker = piece.speaker
                /\ ~Divisible(words_, all) =>
                     parts[m].from = piece.from /\ parts[m].to = piece.to
                /\ FlaggedAs(parts[m], words_, all, piece, overlaps)
    BY <1>2, <2>1, <2>3, PieceReviewed
  <2> QED BY <2>4, <2>5, <2>6 DEF piece
<1>5. DOMAIN seqs = 1..N
  BY <1>3
<1> HIDE DEF seqs
<1>6. \A n \in 1..N : seqs[n] \in Seq(T)
  <2> SUFFICES ASSUME NEW n \in 1..N PROVE seqs[n] \in Seq(T)
    OBVIOUS
  <2>1. PICK m \in Nat : DOMAIN seqs[n] = 1..m /\ seqs[n] = [l \in 1..m |-> seqs[n][l]]
    BY <1>3, <1>4
  <2>2. \A l \in 1..m : seqs[n][l] \in T
    BY <1>3, <2>1
  <2> HIDE DEF T
  <2> QED BY <2>1, <2>2
<1>7. seqs \in Seq(Seq(T))
  <2>1. seqs = [n \in 1..N |-> seqs[n]]
    BY <1>3 DEF seqs
  <2> HIDE DEF T, N
  <2> QED BY <1>3, <1>6, <2>1
<1>8. lines'[k] \in T
  <2> HIDE DEF T
  <2>1. FlattenSeq(seqs) \in Seq(T)
    BY <1>7, FlattenMembers
  <2> QED BY <1>1, <2>1
<1>9. PICK n \in DOMAIN lines : \E m \in DOMAIN seqs[n] : lines'[k] = seqs[n][m]
  BY <1>8
<1> QED BY <1>4, <1>9

\* The review cuts each line or piece where the overlaps of its words change,
\* each word with the overlaps that it touches and no other, though they are
\* looked up once for the whole line; what cannot be cut has them all.
THEOREM AlwaysFlaggedExactly == Spec => FlaggedExactly
<1>1. LabelInv /\ SegmentsInv /\ [Next]_vars =>
        [pc = "review" =>
           \A k \in DOMAIN lines' : \E n \in DOMAIN lines :
             IF words = <<>> THEN PieceFlagged(lines'[k], lines[n])
             ELSE LineFlagged(lines'[k], lines[n])]_vars
  <2> SUFFICES ASSUME LabelInv, SegmentsInv, [Next]_vars, vars' # vars, pc = "review",
                      NEW k \in DOMAIN lines'
               PROVE  \E n \in DOMAIN lines :
                        IF words = <<>> THEN PieceFlagged(lines'[k], lines[n])
                        ELSE LineFlagged(lines'[k], lines[n])
    OBVIOUS
  <2>1. Review
    BY DEF Next, Diarize, RelabelClusters, Attribute, Smooth, Snap, Lines, MergeOrphans,
           MergeSegments
  <2> QED BY <2>1, ReviewFlagsLines, ReviewFlagsPieces
<1> QED BY <1>1, LabelInvariant, SegmentsInvariant, PTL DEF Spec, FlaggedExactly
=============================================================================
