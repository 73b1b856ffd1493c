--------------------------- MODULE RealignProofs ---------------------------
(***************************************************************************)
(* Theorems about Realign, for transcripts of any length, every gap and    *)
(* padding, and an aligner that miscounts in any number of windows.        *)
(***************************************************************************)
EXTENDS Realign, DataLemmas

\* Sequences of non-empty sequences.
NonEmptySeqs(S) == {s \in Seq(Seq(S)) : \A k \in DOMAIN s : s[k] # <<>>}

-----------------------------------------------------------------------------
(* group_windows                                                           *)

\* What a request brings.
InputOK ==
  /\ segments \in Seq([start : Nat, end : Nat, tokens : Nat])
  /\ \A i \in DOMAIN segments : StartOf(i) <= EndOf(i)
  /\ duration \in Nat

\* The segments of a request have times in order and a count of tokens.
LEMMA SegmentTypes ==
  ASSUME InputOK
  PROVE  /\ Len(segments) \in Nat /\ DOMAIN segments = 1..Len(segments)
         /\ \A i \in DOMAIN segments :
              /\ i \in Nat /\ StartOf(i) \in Nat /\ EndOf(i) \in Nat /\ Tokens(i) \in Nat
              /\ StartOf(i) <= EndOf(i)
<1>1. Len(segments) \in Nat /\ DOMAIN segments = 1..Len(segments)
  BY DEF InputOK
<1>2. ASSUME NEW i \in DOMAIN segments
      PROVE  /\ i \in Nat /\ StartOf(i) \in Nat /\ EndOf(i) \in Nat /\ Tokens(i) \in Nat
             /\ StartOf(i) <= EndOf(i)
  <2>1. segments[i] \in [start : Nat, end : Nat, tokens : Nat]
    <3> DEFINE R == [start : Nat, end : Nat, tokens : Nat]
    <3>1. segments \in Seq(R)
      BY DEF InputOK
    <3> HIDE DEF R
    <3>2. segments[i] \in R
      BY <3>1
    <3> QED BY <3>2 DEF R
  <2> QED BY <1>1, <2>1 DEF InputOK, StartOf, EndOf, Tokens
<1> QED BY <1>1, <1>2

\* Every segment of a window ends more than the gap before a later window's.
Apart(gs) ==
  \A g, h \in DOMAIN gs : g < h =>
    \A m \in DOMAIN gs[g], n \in DOMAIN gs[h] : EndOf(gs[g][m]) + MergeGap < StartOf(gs[h][n])

\* The grouping of the segments in the set seen.
GroupingOf(acc, seen) ==
  /\ acc.groups \in NonEmptySeqs(seen)
  /\ Apart(acc.groups)
  /\ \A i \in seen : \E g \in DOMAIN acc.groups : \E m \in DOMAIN acc.groups[g] :
       acc.groups[g][m] = i
  /\ acc.end \in Nat
  /\ acc.groups # <<>> =>
       \A m \in DOMAIN Last(acc.groups) : EndOf(Last(acc.groups)[m]) <= acc.end

\* A segment joins the last group; the others stay.
LEMMA JoinedGroups ==
  ASSUME NEW seen, NEW gs \in NonEmptySeqs(seen), gs # <<>>, NEW i
  PROVE  LET joined == Front(gs) \o <<Append(Last(gs), i)>>
         IN /\ joined \in NonEmptySeqs(seen \cup {i})
            /\ DOMAIN joined = DOMAIN gs /\ Len(joined) = Len(gs)
            /\ \A g \in DOMAIN gs : g # Len(gs) => joined[g] = gs[g]
            /\ joined[Len(gs)] = Append(gs[Len(gs)], i)
<1> DEFINE n == Len(gs)
           joined == Front(gs) \o <<Append(Last(gs), i)>>
<1>1. n \in Nat /\ n > 0 /\ DOMAIN gs = 1..n
  BY DEF NonEmptySeqs
<1>2. Last(gs) = gs[n] /\ gs[n] \in Seq(seen)
      /\ Append(gs[n], i) \in Seq(seen \cup {i}) /\ Append(gs[n], i) # <<>>
  <2>1. Last(gs) = gs[n]
    BY DEF Last
  <2>2. gs[n] \in Seq(seen)
    BY <1>1 DEF NonEmptySeqs
  <2>3. gs[n] \in Seq(seen \cup {i})
    BY <2>2
  <2> QED BY <2>1, <2>2, <2>3
<1>3. /\ Front(gs) \in Seq(Seq(seen \cup {i})) /\ Len(Front(gs)) = n - 1
      /\ \A g \in 1..(n - 1) : Front(gs)[g] = gs[g]
  <2>1. \A g \in 1..(n - 1) : gs[g] \in Seq(seen)
    BY <1>1 DEF NonEmptySeqs
  <2>2. \A g \in 1..(n - 1) : gs[g] \in Seq(seen \cup {i})
    BY <2>1
  <2>3. Front(gs) = [g \in 1..(n - 1) |-> gs[g]]
    BY <1>1 DEF Front
  <2> QED BY <1>1, <2>2, <2>3
<1> DEFINE front == Front(gs)
           last == Append(Last(gs), i)
<1>4. /\ joined \in Seq(Seq(seen \cup {i})) /\ Len(joined) = n
      /\ \A g \in 1..(n - 1) : joined[g] = gs[g]
      /\ joined[n] = Append(gs[n], i)
  <2>1. last \in Seq(seen \cup {i}) /\ last = Append(gs[n], i)
    BY <1>2
  <2>2. /\ front \in Seq(Seq(seen \cup {i})) /\ Len(front) = n - 1
        /\ \A g \in 1..(n - 1) : front[g] = gs[g]
    BY <1>3
  <2> DEFINE both == front \o <<last>>
  <2> HIDE DEF front, last, n
  <2>3. both \in Seq(Seq(seen \cup {i})) /\ Len(both) = n
    BY <1>1, <2>1, <2>2
  <2>4. \A g \in 1..(n - 1) : both[g] = gs[g]
    BY <1>1, <2>1, <2>2
  <2>5. both[n] = last
    BY <1>1, <2>1, <2>2
  <2> HIDE DEF both
  <2>6. joined = both
    BY DEF both, front, last
  <2> HIDE DEF joined
  <2> QED BY <2>1, <2>3, <2>4, <2>5, <2>6
<1> HIDE DEF joined, last, front, n
<1>5. \A g \in 1..n : joined[g] # <<>>
  <2>1. joined[n] # <<>>
    BY <1>2, <1>4
  <2>2. ASSUME NEW g \in 1..n, g # n PROVE joined[g] # <<>>
    <3>1. g \in 1..(n - 1) /\ g \in DOMAIN gs
      BY <1>1, <2>2
    <3>2. joined[g] = gs[g]
      BY <1>4, <3>1
    <3> QED BY <3>1, <3>2 DEF NonEmptySeqs
  <2> QED BY <2>1, <2>2
<1>6. DOMAIN joined = 1..n
  BY <1>1, <1>4
<1>7. joined \in NonEmptySeqs(seen \cup {i})
  BY <1>4, <1>5, <1>6 DEF NonEmptySeqs
<1>8. \A g \in DOMAIN gs : g # n => joined[g] = gs[g]
  BY <1>1, <1>4
<1>9. joined[n] = Append(gs[n], i)
  BY <1>4
<1> QED BY <1>1, <1>4, <1>6, <1>7, <1>8, <1>9 DEF joined, n

\* One more segment, not earlier than those seen, keeps the grouping.
LEMMA GroupKeepsApart ==
  ASSUME InputOK, NEW seen \in SUBSET DOMAIN segments, NEW i \in DOMAIN segments,
         \A j \in seen : StartOf(j) <= StartOf(i),
         NEW acc, GroupingOf(acc, seen)
  PROVE  GroupingOf(Group(acc, i), seen \cup {i})
<1> DEFINE gs == acc.groups
           n == Len(gs)
           new == Group(acc, i)
<1>1. /\ n \in Nat /\ DOMAIN gs = 1..n /\ acc.end \in Nat
      /\ \A g \in DOMAIN gs : gs[g] \in Seq(seen) /\ gs[g] # <<>>
  BY DEF GroupingOf, NonEmptySeqs
<1>2. /\ StartOf(i) \in Nat /\ EndOf(i) \in Nat
      /\ \A j \in seen : StartOf(j) \in Nat /\ EndOf(j) \in Nat
      /\ MergeGap \in Nat
  BY SegmentTypes, TuningAssumption
<1>3. \A g \in DOMAIN gs : \A m \in DOMAIN gs[g] : gs[g][m] \in seen
  BY <1>1
<1>4. CASE gs # <<>> /\ StartOf(i) - acc.end <= MergeGap
  <2> DEFINE joined == Front(gs) \o <<Append(Last(gs), i)>>
  <2>1. /\ joined \in NonEmptySeqs(seen \cup {i})
        /\ DOMAIN joined = DOMAIN gs /\ Len(joined) = n
        /\ \A g \in DOMAIN gs : g # n => joined[g] = gs[g]
        /\ joined[n] = Append(gs[n], i)
    BY <1>4, JoinedGroups, ZenonT(60) DEF GroupingOf
  <2>2. new = [groups |-> joined, end |-> Max({acc.end, EndOf(i)})]
    BY <1>4 DEF Group, WindowEnd
  <2> HIDE DEF joined
  <2>3. /\ Max({acc.end, EndOf(i)}) \in Nat
        /\ acc.end <= Max({acc.end, EndOf(i)}) /\ EndOf(i) <= Max({acc.end, EndOf(i)})
    <3> DEFINE a == acc.end
               b == EndOf(i)
    <3>1. a \in Nat /\ b \in Nat
      BY <1>1, <1>2
    <3> HIDE DEF a, b
    <3>2. Max({a, b}) = IF a <= b THEN b ELSE a
      BY <3>1, ExtremaOfTwo
    <3>3. Max({a, b}) \in Nat /\ a <= Max({a, b}) /\ b <= Max({a, b})
      BY <3>1, <3>2
    <3> QED BY <3>3 DEF a, b
  <2>4. n \in DOMAIN gs /\ gs[n] \in Seq(seen) /\ Len(gs[n]) > 0
    BY <1>1, <1>4
  <2>5. /\ DOMAIN joined[n] = 1..(Len(gs[n]) + 1)
        /\ \A m \in DOMAIN gs[n] : m \in DOMAIN joined[n] /\ joined[n][m] = gs[n][m]
        /\ joined[n][Len(gs[n]) + 1] = i
        /\ \A m \in DOMAIN joined[n] : m \in DOMAIN gs[n] \/ m = Len(gs[n]) + 1
    BY <2>1, <2>4
  <2>6. Apart(joined)
    <3>1. SUFFICES ASSUME NEW g \in DOMAIN joined, NEW h \in DOMAIN joined, g < h,
                          NEW a \in DOMAIN joined[g], NEW b \in DOMAIN joined[h]
                   PROVE  EndOf(joined[g][a]) + MergeGap < StartOf(joined[h][b])
      BY DEF Apart
    <3>2. g # n /\ joined[g] = gs[g] /\ g \in DOMAIN gs /\ a \in DOMAIN gs[g] /\ h \in DOMAIN gs
      BY <1>1, <2>1, <3>1
    <3>3. CASE h # n \/ b \in DOMAIN gs[n]
      <4>1. b \in DOMAIN gs[h] /\ joined[h][b] = gs[h][b]
        BY <2>1, <2>5, <3>3, <3>2
      <4> QED BY <3>1, <3>2, <4>1 DEF GroupingOf, Apart
    <3>4. CASE h = n /\ b = Len(gs[n]) + 1
      <4>1. joined[h][b] = i /\ g < n /\ 1 \in DOMAIN gs[n]
        BY <2>4, <2>5, <3>4, <3>1
      <4>2. EndOf(gs[g][a]) + MergeGap < StartOf(gs[n][1])
        BY <2>4, <3>2, <4>1 DEF GroupingOf, Apart
      <4>3. StartOf(gs[n][1]) <= StartOf(i)
        BY <1>3, <2>4, <4>1
      <4>4. gs[g][a] \in seen /\ gs[n][1] \in seen
        BY <1>3, <2>4, <3>2, <4>1
      <4> QED BY <1>2, <3>2, <4>1, <4>2, <4>3, <4>4
    <3> QED BY <2>5, <3>3, <3>4
  <2>7. \A j \in seen \cup {i} : \E g \in DOMAIN joined : \E m \in DOMAIN joined[g] :
          joined[g][m] = j
    <3>1. ASSUME NEW j \in seen
          PROVE \E g \in DOMAIN joined : \E m \in DOMAIN joined[g] : joined[g][m] = j
      <4>1. PICK g \in DOMAIN gs : \E m \in DOMAIN gs[g] : gs[g][m] = j
        BY DEF GroupingOf
      <4>2. PICK m \in DOMAIN gs[g] : gs[g][m] = j
        BY <4>1
      <4>3. m \in DOMAIN joined[g] /\ joined[g][m] = j
        BY <2>1, <2>5, <4>2
      <4> QED BY <2>1, <4>3
    <3>2. \E g \in DOMAIN joined : \E m \in DOMAIN joined[g] : joined[g][m] = i
      <4>1. n \in DOMAIN joined /\ Len(gs[n]) + 1 \in DOMAIN joined[n]
        BY <2>1, <2>4, <2>5
      <4> QED BY <2>5, <4>1
    <3> QED BY <3>1, <3>2
  <2>8. \A m \in DOMAIN Last(joined) : EndOf(Last(joined)[m]) <= Max({acc.end, EndOf(i)})
    <3>1. Last(joined) = joined[n] /\ Last(gs) = gs[n]
      BY <2>1 DEF Last
    <3>2. \A m \in DOMAIN gs[n] : EndOf(gs[n][m]) <= acc.end
      BY <1>4, <3>1 DEF GroupingOf
    <3>3. \A m \in DOMAIN gs[n] : EndOf(gs[n][m]) \in Nat
      BY <1>2, <1>3, <2>4
    <3> DEFINE e == Max({acc.end, EndOf(i)})
    <3>4. e \in Nat /\ acc.end <= e /\ EndOf(i) <= e
      BY <2>3
    <3> HIDE DEF e
    <3>5. \A m \in DOMAIN joined[n] : EndOf(joined[n][m]) <= e
      BY <1>1, <2>5, <3>2, <3>3, <3>4
    <3> QED BY <3>1, <3>5 DEF e
  <2> DEFINE e == Max({acc.end, EndOf(i)})
  <2>9. new.groups = joined /\ new.end = e
    BY <2>2
  <2>10. e \in Nat
    BY <2>3
  <2> HIDE DEF e, new
  <2>11. GroupingOf(new, seen \cup {i})
    BY <2>1, <2>6, <2>7, <2>8, <2>9, <2>10, ZenonT(60) DEF GroupingOf, e
  <2> QED BY <2>11 DEF new
<1>5. CASE ~ (gs # <<>> /\ StartOf(i) - acc.end <= MergeGap)
  <2> DEFINE more == Append(gs, <<i>>)
  <2>1. new = [groups |-> more, end |-> EndOf(i)]
    BY <1>5 DEF Group
  <2>2. gs \in Seq(Seq(seen \cup {i})) /\ <<i>> \in Seq(seen \cup {i}) /\ <<i>> # <<>>
    <3>1. \A g \in DOMAIN gs : gs[g] \in Seq(seen \cup {i})
      BY <1>1
    <3>2. gs \in Seq(Seq(seen))
      BY DEF GroupingOf, NonEmptySeqs
    <3> QED BY <3>1, <3>2
  <2>3. /\ more \in Seq(Seq(seen \cup {i}))
        /\ DOMAIN more = 1..(n + 1) /\ Len(more) = n + 1
        /\ \A g \in DOMAIN gs : g \in DOMAIN more /\ g # n + 1 /\ more[g] = gs[g]
        /\ \A g \in DOMAIN more : g \in DOMAIN gs \/ g = n + 1
        /\ more[n + 1] = <<i>>
    BY <1>1, <2>2
  <2> HIDE DEF more
  <2>4. Apart(more)
    <3>1. SUFFICES ASSUME NEW g \in DOMAIN more, NEW h \in DOMAIN more, g < h,
                          NEW a \in DOMAIN more[g], NEW b \in DOMAIN more[h]
                   PROVE  EndOf(more[g][a]) + MergeGap < StartOf(more[h][b])
      BY DEF Apart
    <3>2. g \in DOMAIN gs /\ more[g] = gs[g] /\ a \in DOMAIN gs[g]
      BY <1>1, <2>3, <3>1
    <3>3. CASE h # n + 1
      <4>1. h \in DOMAIN gs /\ more[h] = gs[h] /\ b \in DOMAIN gs[h]
        BY <2>3, <3>3
      <4> QED BY <3>1, <3>2, <4>1 DEF GroupingOf, Apart
    <3>4. CASE h = n + 1
      <4>1. more[h][b] = i /\ n \in DOMAIN gs /\ gs # <<>>
        BY <1>1, <2>3, <3>1, <3>2, <3>4
      <4>2. acc.end + MergeGap < StartOf(i)
        BY <1>1, <1>2, <1>5, <4>1
      <4>3. \A m \in DOMAIN gs[n] : EndOf(gs[n][m]) <= acc.end
        BY <4>1 DEF GroupingOf, Last
      <4>4. CASE g = n
        BY <1>1, <1>2, <1>3, <3>2, <4>1, <4>2, <4>3, <4>4, SMTT(30)
      <4>5. CASE g # n
        <5>1. g < n /\ 1 \in DOMAIN gs[n]
          BY <1>1, <3>2, <4>1, <4>5
        <5>2. EndOf(gs[g][a]) + MergeGap < StartOf(gs[n][1])
          BY <3>2, <4>1, <5>1 DEF GroupingOf, Apart
        <5>3. gs[g][a] \in seen /\ gs[n][1] \in seen
          BY <1>3, <3>2, <4>1, <5>1
        <5> QED BY <1>2, <3>2, <4>1, <5>2, <5>3
      <4> QED BY <4>4, <4>5
    <3> QED BY <3>3, <3>4
  <2>5. \A j \in seen \cup {i} : \E g \in DOMAIN more : \E m \in DOMAIN more[g] : more[g][m] = j
    <3>1. ASSUME NEW j \in seen
          PROVE \E g \in DOMAIN more : \E m \in DOMAIN more[g] : more[g][m] = j
      <4>1. PICK g \in DOMAIN gs : \E m \in DOMAIN gs[g] : gs[g][m] = j
        BY DEF GroupingOf
      <4> QED BY <2>3, <4>1
    <3>2. n + 1 \in DOMAIN more /\ 1 \in DOMAIN more[n + 1] /\ more[n + 1][1] = i
      BY <1>1, <2>3
    <3> QED BY <3>1, <3>2
  <2>6. \A m \in DOMAIN Last(more) : EndOf(Last(more)[m]) <= EndOf(i)
    BY <1>2, <2>3 DEF Last
  <2>7. more \in NonEmptySeqs(seen \cup {i})
    <3>1. \A g \in DOMAIN more : more[g] # <<>>
      BY <1>1, <2>2, <2>3
    <3> QED BY <2>3, <3>1 DEF NonEmptySeqs
  <2>8. new.groups = more /\ new.end = EndOf(i)
    BY <2>1
  <2> HIDE DEF new
  <2>9. GroupingOf(new, seen \cup {i})
    BY <1>2, <2>4, <2>5, <2>6, <2>7, <2>8 DEF GroupingOf
  <2> QED BY <2>9 DEF new
<1> QED BY <1>4, <1>5

\* The segments with something to align, and the order in which they are grouped.
Spoken == {i \in DOMAIN segments : Tokens(i) > 0}

\* Grouping takes every segment with a token once, by its start.
LEMMA OrderByStart ==
  ASSUME InputOK
  PROVE  LET n == Cardinality(Spoken)
         IN /\ n \in Nat /\ DOMAIN Order = 1..n
            /\ Spoken = {Order[k] : k \in 1..n}
            /\ \A k, l \in 1..n : k < l => StartOf(Order[k]) <= StartOf(Order[l])
<1> DEFINE key == [i \in DOMAIN segments |-> StartOf(i)]
           n == Cardinality(Spoken)
<1>1. Spoken \in SUBSET (1..Len(segments)) /\ \A i \in Spoken : key[i] \in Int /\ key[i] = StartOf(i)
  BY SegmentTypes DEF Spoken
<1>2. IsFiniteSet(Spoken) /\ Spoken \subseteq Int
  <2>1. IsFiniteSet(1..Len(segments))
    BY SegmentTypes, FS_Interval
  <2>2. IsFiniteSet(Spoken)
    BY <1>1, <2>1, FS_Subset
  <2> QED BY <1>1, <2>2
<1>3. Order = SortedBy(Spoken, key)
  BY DEF Order, Spoken
<1> HIDE DEF key, n
<1>4. /\ Cardinality(Spoken) \in Nat
      /\ SortedBy(Spoken, key) \in [1..Cardinality(Spoken) -> Spoken]
      /\ \A i \in Spoken : \E k \in 1..Cardinality(Spoken) : SortedBy(Spoken, key)[k] = i
      /\ \A k, l \in 1..Cardinality(Spoken) :
           k < l => Before(key, SortedBy(Spoken, key)[k], SortedBy(Spoken, key)[l])
  BY <1>1, <1>2, SortedByKey
<1>5. /\ n \in Nat /\ Order \in [1..n -> Spoken]
      /\ \A i \in Spoken : \E k \in 1..n : Order[k] = i
      /\ \A k, l \in 1..n : k < l => Before(key, Order[k], Order[l])
  BY <1>3, <1>4 DEF n
<1>6. Spoken = {Order[k] : k \in 1..n}
  BY <1>5
<1>7. ASSUME NEW k \in 1..n, NEW l \in 1..n, k < l PROVE StartOf(Order[k]) <= StartOf(Order[l])
  <2>1. Before(key, Order[k], Order[l]) /\ Order[k] \in Spoken /\ Order[l] \in Spoken
    BY <1>5, <1>7
  <2>2. key[Order[k]] \in Int /\ key[Order[l]] \in Int
    BY <1>1, <2>1
  <2>3. key[Order[k]] <= key[Order[l]]
    BY <2>1, <2>2 DEF Before
  <2> QED BY <1>1, <2>1, <2>3
<1>8. n \in Nat /\ DOMAIN Order = 1..n
  BY <1>5
<1> QED BY <1>6, <1>7, <1>8 DEF n

GroupOp(p, q, acc, i) == Group(acc, i)

Grouping == INSTANCE FoldLemmas WITH Op <- GroupOp

\* Grouping proceeds segment by segment.
LEMMA GroupTrace ==
  ASSUME NEW n \in Nat, DOMAIN Order = 1..n
  PROVE  \E acc : /\ acc[0] = [groups |-> <<>>, end |-> 0]
                  /\ \A k \in 1..n : acc[k] = Group(acc[k - 1], Order[k])
                  /\ Grouped = acc[n]
<1> DEFINE none == [groups |-> <<>>, end |-> 0]
           acc == Grouping!Trace(0, 0, none, Order, n)
<1>1. Grouped = Grouping!Fold(0, 0, none, Order)
  BY DEF Grouped, Grouping!Fold, GroupOp, FoldLeft, MapThenFoldSet, Max,
         Grouping!FoldLeft, Grouping!MapThenFoldSet, Grouping!Max
<1>2. /\ acc[0] = none
      /\ \A k \in 1..n : acc[k] = GroupOp(0, 0, acc[k - 1], Order[k])
      /\ Grouping!Fold(0, 0, none, Order) = acc[n]
  BY Grouping!FoldTrace
<1> HIDE DEF acc
<1> QED BY <1>1, <1>2 DEF GroupOp

\* group_windows as a whole: the fold is taken step by step.
LEMMA GroupsAreApart ==
  ASSUME InputOK
  PROVE  GroupingOf(Grouped, Spoken)
<1> DEFINE n == Cardinality(Spoken)
           none == [groups |-> <<>>, end |-> 0]
<1>1. /\ n \in Nat /\ DOMAIN Order = 1..n
      /\ Spoken = {Order[k] : k \in 1..n}
      /\ \A k, l \in 1..n : k < l => StartOf(Order[k]) <= StartOf(Order[l])
  BY OrderByStart
<1>2. PICK acc : /\ acc[0] = none
                 /\ \A k \in 1..n : acc[k] = Group(acc[k - 1], Order[k])
                 /\ Grouped = acc[n]
  <2> HIDE DEF n
  <2> QED BY <1>1, GroupTrace
<1> HIDE DEF n
<1> DEFINE seen(k) == {Order[j] : j \in 1..k}
           S == {k \in Nat : k <= n => GroupingOf(acc[k], seen(k))}
<1>3. 0 \in S
  <2>1. seen(0) = {} /\ none.groups = <<>> /\ none.end = 0
    OBVIOUS
  <2> HIDE DEF none, seen
  <2>2. none.groups \in NonEmptySeqs({}) /\ DOMAIN none.groups = {}
    BY <2>1 DEF NonEmptySeqs
  <2>3. GroupingOf(none, {})
    BY <2>1, <2>2 DEF GroupingOf, Apart
  <2> QED BY <1>2, <2>1, <2>3
<1>4. ASSUME NEW k \in Nat, k \in S PROVE k + 1 \in S
  <2>1. SUFFICES ASSUME k + 1 <= n PROVE GroupingOf(acc[k + 1], seen(k + 1))
    OBVIOUS
  <2>2. k + 1 \in 1..n /\ k <= n /\ (k + 1) - 1 = k /\ \A j \in 1..k : j \in 1..n /\ j < k + 1
    BY <1>1, <2>1
  <2>3. GroupingOf(acc[k], seen(k))
    BY <1>4, <2>2
  <2>4. acc[k + 1] = Group(acc[k], Order[k + 1])
    BY <1>2, <2>2
  <2>5. seen(k + 1) = seen(k) \cup {Order[k + 1]}
    OBVIOUS
  <2>6. \A j \in seen(k) : StartOf(j) <= StartOf(Order[k + 1])
    BY <1>1, <2>2
  <2>7. seen(k) \in SUBSET DOMAIN segments /\ Order[k + 1] \in DOMAIN segments
    <3>1. Spoken \subseteq DOMAIN segments
      BY DEF Spoken
    <3> QED BY <1>1, <2>2, <3>1
  <2> HIDE DEF seen, S
  <2> QED BY <2>3, <2>4, <2>5, <2>6, <2>7, GroupKeepsApart
<1> HIDE DEF S
<1>5. n \in S
  BY <1>1, <1>3, <1>4, SetInduction
<1>6. GroupingOf(acc[n], seen(n))
  BY <1>1, <1>5 DEF S
<1> QED BY <1>1, <1>2, <1>6

\* The groups hold the segments to be aligned, apart from each other.
GroupsOK ==
  /\ groups \in NonEmptySeqs(Spoken)
  /\ Apart(groups)
  /\ \A i \in Spoken : \E g \in DOMAIN groups : \E m \in DOMAIN groups[g] : groups[g][m] = i

\* A window has at least one segment, and only segments with tokens.
LEMMA GroupTypes ==
  ASSUME InputOK, GroupsOK
  PROVE  /\ Len(groups) \in Nat /\ DOMAIN groups = 1..Len(groups)
         /\ \A g \in DOMAIN groups :
              /\ groups[g] \in Seq(Spoken) /\ groups[g] # <<>> /\ 1 \in DOMAIN groups[g]
              /\ \A m \in DOMAIN groups[g] :
                   LET i == groups[g][m]
                   IN /\ i \in DOMAIN segments /\ Tokens(i) > 0 /\ StartOf(i) <= EndOf(i)
                      /\ StartOf(i) \in Nat /\ EndOf(i) \in Nat /\ Tokens(i) \in Nat
<1>1. groups \in Seq(Seq(Spoken)) /\ \A g \in DOMAIN groups : groups[g] # <<>>
  BY DEF GroupsOK, NonEmptySeqs
<1>2. Len(groups) \in Nat /\ DOMAIN groups = 1..Len(groups)
  BY <1>1
<1>3. ASSUME NEW g \in DOMAIN groups
      PROVE  /\ groups[g] \in Seq(Spoken) /\ groups[g] # <<>> /\ 1 \in DOMAIN groups[g]
             /\ \A m \in DOMAIN groups[g] : groups[g][m] \in Spoken
  BY <1>1
<1>4. \A i \in Spoken : /\ i \in DOMAIN segments /\ Tokens(i) > 0 /\ StartOf(i) <= EndOf(i)
                        /\ StartOf(i) \in Nat /\ EndOf(i) \in Nat /\ Tokens(i) \in Nat
  BY SegmentTypes DEF Spoken
<1> QED BY <1>2, <1>3, <1>4

-----------------------------------------------------------------------------
(* window_for and pad_windows                                              *)

\* The hull of a window is the span of its segments.
LEMMA HullBounds ==
  ASSUME InputOK, GroupsOK, NEW g \in DOMAIN groups
  PROVE  /\ Hull(g).start \in Nat /\ Hull(g).end \in Nat
         /\ \A m \in DOMAIN groups[g] :
              Hull(g).start <= StartOf(groups[g][m]) /\ EndOf(groups[g][m]) <= Hull(g).end
         /\ \E m \in DOMAIN groups[g] : Hull(g).start = StartOf(groups[g][m])
         /\ \E m \in DOMAIN groups[g] : Hull(g).end = EndOf(groups[g][m])
<1> DEFINE I == ToSet(groups[g])
           starts == {StartOf(i) : i \in I}
           ends == {EndOf(i) : i \in I}
<1>1. /\ I # {} /\ I \subseteq 1..Len(segments)
      /\ \A i \in I : StartOf(i) \in Nat /\ EndOf(i) \in Nat
      /\ \A i \in I : \E m \in DOMAIN groups[g] : groups[g][m] = i
      /\ \A m \in DOMAIN groups[g] : groups[g][m] \in I
  BY GroupTypes, SegmentTypes DEF ToSet
<1>2. IsFiniteSet(I)
  <2>1. IsFiniteSet(1..Len(segments))
    BY SegmentTypes, FS_Interval
  <2> HIDE DEF I
  <2> QED BY <1>1, <2>1, FS_Subset
<1> HIDE DEF I
<1>3. IsFiniteSet(starts) /\ IsFiniteSet(ends)
  <2> DEFINE startOf == [i \in I |-> StartOf(i)]
             endOf == [i \in I |-> EndOf(i)]
  <2>1. starts = {startOf[i] : i \in I} /\ ends = {endOf[i] : i \in I}
    OBVIOUS
  <2> HIDE DEF startOf, endOf, starts, ends
  <2>2. IsFiniteSet({startOf[i] : i \in I}) /\ IsFiniteSet({endOf[i] : i \in I})
    BY <1>2, FiniteImage
  <2> QED BY <2>1, <2>2
<1>4. starts # {} /\ ends # {} /\ starts \subseteq Nat /\ ends \subseteq Nat
  BY <1>1
<1>5. Hull(g).start = Min(starts) /\ Hull(g).end = Max(ends)
  BY DEF Hull, I
<1>6. /\ Min(starts) \in starts /\ \A x \in starts : Min(starts) <= x
      /\ Max(ends) \in ends /\ \A x \in ends : x <= Max(ends)
  <2> HIDE DEF starts, ends
  <2>1. starts \subseteq Int /\ ends \subseteq Int
    BY <1>4
  <2> QED BY <1>3, <1>4, <2>1, Extrema
<1>7. Hull(g).start \in starts /\ Hull(g).end \in ends
  BY <1>5, <1>6
<1>8. ASSUME NEW m \in DOMAIN groups[g]
      PROVE  Hull(g).start <= StartOf(groups[g][m]) /\ EndOf(groups[g][m]) <= Hull(g).end
  <2>1. StartOf(groups[g][m]) \in starts /\ EndOf(groups[g][m]) \in ends
    BY <1>1
  <2> QED BY <1>5, <1>6, <2>1
<1>9. PICK i \in I, j \in I : Hull(g).start = StartOf(i) /\ Hull(g).end = EndOf(j)
  BY <1>7
<1> QED BY <1>1, <1>8, <1>9

\* Windows do not overlap before padding.
LEMMA HullsApart ==
  ASSUME InputOK, GroupsOK, NEW g \in DOMAIN groups
  PROVE  /\ Hull(g).start <= Hull(g).end
         /\ \A h \in DOMAIN groups : g < h => Hull(g).end < Hull(h).start
<1>1. Hull(g).start <= Hull(g).end
  <2>1. 1 \in DOMAIN groups[g]
    BY GroupTypes
  <2>2. /\ StartOf(groups[g][1]) <= EndOf(groups[g][1])
        /\ StartOf(groups[g][1]) \in Nat /\ EndOf(groups[g][1]) \in Nat
    BY <2>1, GroupTypes
  <2>3. Hull(g).start <= StartOf(groups[g][1]) /\ EndOf(groups[g][1]) <= Hull(g).end
        /\ Hull(g).start \in Nat /\ Hull(g).end \in Nat
    BY <2>1, HullBounds
  <2> QED BY <2>2, <2>3
<1>2. ASSUME NEW h \in DOMAIN groups, g < h PROVE Hull(g).end < Hull(h).start
  <2>1. PICK m \in DOMAIN groups[g] : Hull(g).end = EndOf(groups[g][m])
    BY HullBounds
  <2>2. PICK n \in DOMAIN groups[h] : Hull(h).start = StartOf(groups[h][n])
    BY HullBounds
  <2>3. EndOf(groups[g][m]) + MergeGap < StartOf(groups[h][n])
    BY <1>2 DEF GroupsOK, Apart
  <2>4. EndOf(groups[g][m]) \in Nat /\ StartOf(groups[h][n]) \in Nat /\ MergeGap \in Nat
    BY GroupTypes, TuningAssumption
  <2> QED BY <2>1, <2>2, <2>3, <2>4
<1> QED BY <1>1, <1>2

\* The middle of the gap between two windows lies in the gap.
LEMMA BetweenNeighbours ==
  ASSUME InputOK, GroupsOK, NEW g \in DOMAIN groups, g + 1 \in DOMAIN groups
  PROVE  Between(g) \in Nat /\ Hull(g).end <= Between(g) /\ Between(g) <= Hull(g + 1).start
<1> DEFINE a == Hull(g).end
           b == Hull(g + 1).start
<1>1. a \in Nat /\ b \in Nat
  BY HullBounds
<1>2. a < b
  <2>1. g < g + 1
    BY GroupTypes
  <2> QED BY <2>1, HullsApart
<1>3. Between(g) = (a + b) \div 2
  BY DEF Between
<1> HIDE DEF a, b
<1>4. (a + b) \div 2 \in Nat /\ a <= (a + b) \div 2 /\ (a + b) \div 2 <= b
  BY <1>1, <1>2
<1> QED BY <1>3, <1>4 DEF a, b

\* Padding reaches no further back than the middle of the gap.
LEMMA PaddedStartBounds ==
  ASSUME InputOK, GroupsOK, NEW g \in DOMAIN groups
  PROVE  /\ PaddedStart(g) \in Nat /\ PaddedStart(g) <= Hull(g).start
         /\ g # 1 => Between(g - 1) <= PaddedStart(g)
<1> DEFINE a == Hull(g).start - Pad
<1>1. Hull(g).start \in Nat /\ Pad \in Nat /\ a \in Int /\ a <= Hull(g).start
  BY HullBounds, TuningAssumption
<1> HIDE DEF a
<1>2. CASE g = 1
  <2>1. PaddedStart(g) = Max({0, a} \cup {})
    BY <1>2 DEF PaddedStart, a
  <2>2. {0, a} \cup {} = {0, a}
    OBVIOUS
  <2>3. Max({0, a}) = IF 0 <= a THEN a ELSE 0
    BY <1>1, ExtremaOfTwo
  <2> QED BY <1>1, <1>2, <2>1, <2>2, <2>3
<1>3. CASE g # 1
  <2> DEFINE b == Between(g - 1)
             c == Hull(g).start
  <2>1. g - 1 \in DOMAIN groups /\ (g - 1) + 1 = g
    BY <1>3, GroupTypes
  <2>2. b \in Nat /\ b <= c
    BY <2>1, BetweenNeighbours
  <2>3. PaddedStart(g) = Max({0, a} \cup {Min({b, c})})
    BY <1>3 DEF PaddedStart, a
  <2>4. c \in Nat /\ a <= c
    BY <1>1
  <2> HIDE DEF b, c
  <2>5. Min({b, c}) = b
    BY <2>2, <2>4, ExtremaOfTwo
  <2>6. {0, a} \cup {b} = {0, a, b}
    OBVIOUS
  <2>7. PaddedStart(g) = Max({0, a, b})
    BY <2>3, <2>5, <2>6
  <2>8. Max({0, a, b}) \in {0, a, b} /\ 0 <= Max({0, a, b}) /\ b <= Max({0, a, b})
    <3>1. a \in Int /\ b \in Int /\ 0 \in Int
      BY <1>1, <2>2
    <3> QED BY <3>1, ExtremaOfThree
  <2>9. PaddedStart(g) \in Nat /\ PaddedStart(g) <= c /\ b <= PaddedStart(g)
    BY <1>1, <2>2, <2>4, <2>7, <2>8
  <2> QED BY <2>9 DEF b, c
<1> QED BY <1>2, <1>3

\* Padding reaches no further ahead than the middle of the gap.
LEMMA PaddedEndBounds ==
  ASSUME InputOK, GroupsOK, NEW g \in DOMAIN groups
  PROVE  /\ PaddedEnd(g) \in Nat /\ Hull(g).end <= PaddedEnd(g)
         /\ g # Len(groups) => PaddedEnd(g) <= Between(g)
<1> DEFINE e == Hull(g).end
           limits == {Hull(g).end + Pad}
                     \cup (IF duration = 0 THEN {} ELSE {duration})
                     \cup IF g = Len(groups) THEN {} ELSE {Max({Between(g), Hull(g).end})}
<1>1. e \in Nat /\ e + Pad \in Nat /\ duration \in Nat
  BY HullBounds, TuningAssumption DEF InputOK
<1>2. PaddedEnd(g) = Max({e, Min(limits)})
  BY DEF PaddedEnd
<1>3. /\ Min(limits) \in Nat
      /\ g # Len(groups) => Min(limits) <= Between(g) /\ e <= Between(g) /\ Between(g) \in Nat
  <2> DEFINE d == IF duration = 0 THEN e + Pad ELSE duration
  <2>1. d \in Nat
    BY <1>1
  <2>2. CASE g = Len(groups)
    <3>1. limits = {e + Pad, d}
      BY <2>2
    <3> HIDE DEF limits, d, e
    <3>2. Min({e + Pad, d}) = IF e + Pad <= d THEN e + Pad ELSE d
      BY <1>1, <2>1, ExtremaOfTwo
    <3> QED BY <1>1, <2>1, <2>2, <3>1, <3>2
  <2>3. CASE g # Len(groups)
    <3> DEFINE b == Between(g)
    <3>1. g + 1 \in DOMAIN groups
      BY <2>3, GroupTypes
    <3>2. b \in Nat /\ e <= b
      BY <3>1, BetweenNeighbours
    <3>3. Max({b, e}) = b
      <4> HIDE DEF b, e
      <4> QED BY <1>1, <3>2, ExtremaOfTwo
    <3>4. limits = {e + Pad, d, b}
      <4>1. limits = {e + Pad} \cup (IF duration = 0 THEN {} ELSE {duration}) \cup {b}
        BY <2>3, <3>3
      <4> HIDE DEF b, e, limits
      <4> QED BY <4>1
    <3> HIDE DEF limits, d, e, b
    <3>5. Min({e + Pad, d, b}) \in {e + Pad, d, b} /\ Min({e + Pad, d, b}) <= b
      <4> DEFINE f == e + Pad
      <4>1. f \in Int /\ d \in Int /\ b \in Int
        BY <1>1, <2>1, <3>2
      <4> HIDE DEF f
      <4>2. Min({f, d, b}) \in {f, d, b} /\ Min({f, d, b}) <= b
        BY <4>1, ExtremaOfThree
      <4> QED BY <4>2 DEF f
    <3>6. Min(limits) \in Nat /\ Min(limits) <= b
      BY <1>1, <2>1, <3>2, <3>4, <3>5
    <3> QED BY <3>2, <3>6 DEF b
  <2> QED BY <2>2, <2>3
<1> DEFINE l == Min(limits)
<1>4. Max({e, l}) = IF e <= l THEN l ELSE e
  <2>1. l \in Nat
    BY <1>3
  <2> HIDE DEF l, e
  <2> QED BY <1>1, <2>1, ExtremaOfTwo
<1>5. /\ l \in Nat /\ PaddedEnd(g) = IF e <= l THEN l ELSE e
      /\ g # Len(groups) => l <= Between(g) /\ e <= Between(g)
  BY <1>2, <1>3, <1>4
<1>6. PaddedEnd(g) \in Nat /\ e <= PaddedEnd(g) /\ (g # Len(groups) => PaddedEnd(g) <= Between(g))
  <2> HIDE DEF l, e
  <2> QED BY <1>1, <1>5
<1> QED BY <1>6

\* Windows that are disjoint, in order, and hold their segments.
WindowsOK(ws) ==
  /\ ws \in Seq([start : Nat, end : Nat]) /\ DOMAIN ws = DOMAIN groups /\ Len(ws) = Len(groups)
  /\ \A g \in DOMAIN groups :
       /\ ws[g].start \in Nat /\ ws[g].end \in Nat
       /\ \A m \in DOMAIN groups[g] :
            ws[g].start <= StartOf(groups[g][m]) /\ EndOf(groups[g][m]) <= ws[g].end
  /\ \A g, h \in DOMAIN groups : g < h => ws[g].end <= ws[h].start

Padded == [g \in DOMAIN groups |-> [start |-> PaddedStart(g), end |-> PaddedEnd(g)]]

\* So padded windows do not overlap either.
LEMMA PaddedEndBeforeStart ==
  ASSUME InputOK, GroupsOK, NEW g \in DOMAIN groups, NEW h \in DOMAIN groups, g < h
  PROVE  PaddedEnd(g) <= PaddedStart(h)
<1>1. g \in Nat /\ h \in Nat /\ g # Len(groups) /\ h # 1 /\ Len(groups) \in Nat
      /\ g + 1 \in DOMAIN groups /\ h - 1 \in DOMAIN groups /\ (h - 1) + 1 = h
  <2>1. Len(groups) \in Nat /\ DOMAIN groups = 1..Len(groups)
    BY GroupTypes
  <2> QED BY <2>1
<1>2. PaddedEnd(g) <= Between(g) /\ Between(h - 1) <= PaddedStart(h)
      /\ PaddedEnd(g) \in Nat /\ PaddedStart(h) \in Nat
  BY <1>1, PaddedEndBounds, PaddedStartBounds
<1>3. Between(g) \in Nat /\ Between(h - 1) \in Nat
      /\ Between(g) <= Hull(g + 1).start /\ Hull(h - 1).end <= Between(h - 1)
  BY <1>1, BetweenNeighbours
<1>4. CASE h = g + 1
  <2>1. h - 1 = g
    BY <1>1, <1>4
  <2> QED BY <1>2, <1>3, <2>1
<1>5. CASE h # g + 1
  <2>1. g + 1 = h - 1 \/ g + 1 < h - 1
    BY <1>1, <1>5
  <2>2. Hull(g + 1).start <= Hull(g + 1).end
        /\ (g + 1 < h - 1 => Hull(g + 1).end < Hull(h - 1).start)
        /\ Hull(h - 1).start <= Hull(h - 1).end
    BY <1>1, HullsApart
  <2>3. Hull(g + 1).start \in Nat /\ Hull(g + 1).end \in Nat
        /\ Hull(h - 1).start \in Nat /\ Hull(h - 1).end \in Nat
    BY <1>1, HullBounds
  <2>4. Hull(g + 1).start <= Hull(h - 1).end
    BY <2>1, <2>2, <2>3
  <2> QED BY <1>2, <1>3, <2>3, <2>4
<1> QED BY <1>4, <1>5

\* pad_windows as a whole.
LEMMA PaddedWindowsOK ==
  ASSUME InputOK, GroupsOK
  PROVE  WindowsOK(Padded)
<1>1. /\ DOMAIN Padded = DOMAIN groups
      /\ \A g \in DOMAIN groups : /\ Padded[g].start = PaddedStart(g)
                                  /\ Padded[g].end = PaddedEnd(g)
  BY DEF Padded
<1>2. ASSUME NEW g \in DOMAIN groups
      PROVE  /\ Padded[g].start \in Nat /\ Padded[g].end \in Nat
             /\ \A m \in DOMAIN groups[g] :
                  /\ Padded[g].start <= StartOf(groups[g][m])
                  /\ EndOf(groups[g][m]) <= Padded[g].end
  <2>1. /\ PaddedStart(g) \in Nat /\ PaddedStart(g) <= Hull(g).start
        /\ PaddedEnd(g) \in Nat /\ Hull(g).end <= PaddedEnd(g)
    BY PaddedStartBounds, PaddedEndBounds
  <2>2. ASSUME NEW m \in DOMAIN groups[g]
        PROVE PaddedStart(g) <= StartOf(groups[g][m]) /\ EndOf(groups[g][m]) <= PaddedEnd(g)
    <3>1. Hull(g).start <= StartOf(groups[g][m]) /\ EndOf(groups[g][m]) <= Hull(g).end
          /\ Hull(g).start \in Nat /\ Hull(g).end \in Nat
      BY HullBounds
    <3>2. StartOf(groups[g][m]) \in Nat /\ EndOf(groups[g][m]) \in Nat
      BY GroupTypes
    <3> QED BY <2>1, <3>1, <3>2
  <2> QED BY <1>1, <2>1, <2>2
<1>3. \A g, h \in DOMAIN groups : g < h => Padded[g].end <= Padded[h].start
  BY <1>1, PaddedEndBeforeStart
<1>4. Padded \in Seq([start : Nat, end : Nat]) /\ Len(Padded) = Len(groups)
  <2>1. \A g \in DOMAIN groups : Padded[g] \in [start : Nat, end : Nat]
    BY <1>2 DEF Padded
  <2>2. Padded = [g \in 1..Len(groups) |-> Padded[g]] /\ Len(groups) \in Nat
        /\ DOMAIN groups = 1..Len(groups)
    BY GroupTypes DEF Padded
  <2> QED BY <2>1, <2>2
<1> QED BY <1>1, <1>2, <1>3, <1>4 DEF WindowsOK

\* What the property says of the windows follows.
LEMMA WindowsHoldTheirSegments ==
  ASSUME InputOK, GroupsOK, WindowsOK(windows)
  PROVE  \A g \in DOMAIN windows :
           /\ g < Len(windows) => windows[g].end <= windows[g + 1].start
           /\ \A i \in ToSet(groups[g]) : windows[g].start <= StartOf(i) /\ EndOf(i) <= windows[g].end
           /\ \A i \in DOMAIN segments \ ToSet(groups[g]) :
                Tokens(i) > 0 => EndOf(i) <= windows[g].start \/ windows[g].end <= StartOf(i)
<1>1. DOMAIN windows = DOMAIN groups /\ DOMAIN groups = 1..Len(groups) /\ Len(groups) \in Nat
      /\ Len(windows) = Len(groups)
  BY GroupTypes DEF WindowsOK
<1> SUFFICES ASSUME NEW g \in DOMAIN groups
             PROVE  /\ g < Len(groups) => windows[g].end <= windows[g + 1].start
                    /\ \A i \in ToSet(groups[g]) :
                         windows[g].start <= StartOf(i) /\ EndOf(i) <= windows[g].end
                    /\ \A i \in DOMAIN segments \ ToSet(groups[g]) :
                         Tokens(i) > 0 =>
                           EndOf(i) <= windows[g].start \/ windows[g].end <= StartOf(i)
  BY <1>1
<1>2. g < Len(groups) => windows[g].end <= windows[g + 1].start
  <2>1. g < Len(groups) => g + 1 \in DOMAIN groups /\ g < g + 1
    BY <1>1
  <2> QED BY <2>1 DEF WindowsOK
<1>3. \A i \in ToSet(groups[g]) : windows[g].start <= StartOf(i) /\ EndOf(i) <= windows[g].end
  BY DEF WindowsOK, ToSet
<1>4. ASSUME NEW i \in DOMAIN segments, i \notin ToSet(groups[g]), Tokens(i) > 0
      PROVE  EndOf(i) <= windows[g].start \/ windows[g].end <= StartOf(i)
  <2>1. PICK h \in DOMAIN groups : \E m \in DOMAIN groups[h] : groups[h][m] = i
    BY <1>4 DEF GroupsOK, Spoken
  <2>2. PICK m \in DOMAIN groups[h] : groups[h][m] = i
    BY <2>1
  <2>3. h # g
    BY <1>4, <2>2 DEF ToSet
  <2>4. windows[h].start <= StartOf(i) /\ EndOf(i) <= windows[h].end
    BY <2>2 DEF WindowsOK
  <2>5. (h < g => windows[h].end <= windows[g].start) /\ (g < h => windows[g].end <= windows[h].start)
    BY DEF WindowsOK
  <2>6. /\ windows[g].start \in Nat /\ windows[g].end \in Nat
        /\ windows[h].start \in Nat /\ windows[h].end \in Nat
    BY DEF WindowsOK
  <2>7. StartOf(i) \in Nat /\ EndOf(i) \in Nat /\ g \in Nat /\ h \in Nat
    BY <1>1, SegmentTypes
  <2> QED BY <2>3, <2>4, <2>5, <2>6, <2>7
<1> QED BY <1>2, <1>3, <1>4

-----------------------------------------------------------------------------
(* Totals                                                                  *)

AddOp(p, q, a, b) == a + b

Adding == INSTANCE FoldLemmas WITH Op <- AddOp

\* A total is the last of the running sums.
LEMMA TotalTrace ==
  ASSUME NEW n \in Nat, NEW counts, DOMAIN counts = 1..n
  PROVE  \E u : /\ u[0] = 0
                /\ \A k \in 1..n : u[k] = u[k - 1] + counts[k]
                /\ Total(counts) = u[n]
<1> DEFINE u == Adding!Trace({}, {}, 0, counts, n)
<1>1. Total(counts) = Adding!Fold({}, {}, 0, counts)
  BY DEF Total, Adding!Fold, AddOp, FoldLeft, MapThenFoldSet, Max,
         Adding!FoldLeft, Adding!MapThenFoldSet, Adding!Max
<1>2. /\ u[0] = 0
      /\ \A k \in 1..n : u[k] = AddOp({}, {}, u[k - 1], counts[k])
      /\ Adding!Fold({}, {}, 0, counts) = u[n]
  BY Adding!FoldTrace
<1> HIDE DEF u
<1> QED BY <1>1, <1>2 DEF AddOp

\* A total is what any running sum arrives at.
LEMMA RunningSum ==
  ASSUME NEW n \in Nat, NEW counts, DOMAIN counts = 1..n,
         NEW t, t[0] = 0, \A k \in 1..n : t[k] = t[k - 1] + counts[k]
  PROVE  Total(counts) = t[n]
<1>1. PICK u : /\ u[0] = 0
               /\ \A k \in 1..n : u[k] = u[k - 1] + counts[k]
               /\ Total(counts) = u[n]
  BY TotalTrace
<1> DEFINE S == {k \in Nat : k <= n => u[k] = t[k]}
<1>2. 0 \in S
  BY <1>1
<1>3. ASSUME NEW k \in Nat, k \in S PROVE k + 1 \in S
  <2>1. k + 1 <= n => k <= n /\ k + 1 \in 1..n /\ (k + 1) - 1 = k
    OBVIOUS
  <2>2. k + 1 <= n => u[k + 1] = u[k] + counts[k + 1] /\ t[k + 1] = t[k] + counts[k + 1]
    BY <1>1, <2>1
  <2>3. k + 1 \in Nat
    OBVIOUS
  <2> QED BY <1>3, <2>1, <2>2, <2>3
<1> HIDE DEF S
<1>4. n \in S
  BY <1>2, <1>3, SetInduction
<1> QED BY <1>1, <1>4 DEF S

\* A running sum of natural numbers grows.
LEMMA RunningSumGrows ==
  ASSUME NEW n \in Nat, NEW counts, \A k \in 1..n : counts[k] \in Nat,
         NEW t, t[0] = 0, \A k \in 1..n : t[k] = t[k - 1] + counts[k]
  PROVE  /\ \A k \in 0..n : t[k] \in Nat
         /\ \A k, l \in 0..n : k <= l => t[k] <= t[l]
<1> DEFINE S == {k \in Nat : k <= n => t[k] \in Nat /\ \A j \in 0..k : t[j] \in Nat /\ t[j] <= t[k]}
<1>1. 0 \in S
  OBVIOUS
<1>2. ASSUME NEW k \in Nat, k \in S PROVE k + 1 \in S
  <2>1. SUFFICES ASSUME k + 1 <= n
                 PROVE t[k + 1] \in Nat /\ \A j \in 0..(k + 1) : t[j] \in Nat /\ t[j] <= t[k + 1]
    OBVIOUS
  <2>2. k <= n /\ k + 1 \in 1..n /\ (k + 1) - 1 = k
    BY <2>1
  <2>3. t[k + 1] = t[k] + counts[k + 1] /\ counts[k + 1] \in Nat
    BY <2>2
  <2>4. t[k] \in Nat /\ \A j \in 0..k : t[j] \in Nat /\ t[j] <= t[k]
    BY <1>2, <2>2
  <2>5. t[k + 1] \in Nat /\ t[k] <= t[k + 1]
    BY <2>3, <2>4
  <2>6. ASSUME NEW j \in 0..(k + 1) PROVE t[j] \in Nat /\ t[j] <= t[k + 1]
    <3>1. CASE j = k + 1
      BY <2>5, <3>1
    <3>2. CASE j \in 0..k
      <4>1. t[j] \in Nat /\ t[j] <= t[k]
        BY <2>4, <3>2
      <4> QED BY <2>4, <2>5, <4>1
    <3> QED BY <3>1, <3>2
  <2> QED BY <2>5, <2>6
<1> HIDE DEF S
<1>3. Nat \subseteq S
  BY <1>1, <1>2, SetInduction
<1>4. \A k \in 0..n : t[k] \in Nat
  BY <1>3 DEF S
<1>5. ASSUME NEW k \in 0..n, NEW l \in 0..n, k <= l PROVE t[k] <= t[l]
  <2>1. l \in S /\ l <= n /\ k \in 0..l
    BY <1>3, <1>5
  <2> QED BY <2>1 DEF S
<1> QED BY <1>4, <1>5

\* The tokens of a sequence of segments.
CountsOf(ids) == Total([k \in DOMAIN ids |-> Tokens(ids[k])])

\* The positions at which the words of each of them begin.
Cursors(c, ids) ==
  c[0] = 0 /\ \A k \in 1..Len(ids) : c[k] = c[k - 1] + Tokens(ids[k])

\* Every sequence of segments has cursors.
LEMMA CursorsExist ==
  ASSUME InputOK, NEW ids \in Seq(DOMAIN segments)
  PROVE  \E c : Cursors(c, ids)
<1> DEFINE counts == [k \in DOMAIN ids |-> Tokens(ids[k])]
           n == Len(ids)
<1>1. n \in Nat /\ DOMAIN counts = 1..n /\ \A k \in 1..n : counts[k] = Tokens(ids[k])
  OBVIOUS
<1> HIDE DEF counts, n
<1>2. PICK u : u[0] = 0 /\ \A k \in 1..n : u[k] = u[k - 1] + counts[k]
  BY <1>1, TotalTrace
<1>3. Cursors(u, ids)
  BY <1>1, <1>2 DEF Cursors, n
<1> QED BY <1>3

\* Cursors ascend from 0 to the number of tokens.
LEMMA CursorTypes ==
  ASSUME InputOK, NEW ids \in Seq(DOMAIN segments), NEW c, Cursors(c, ids)
  PROVE  /\ \A k \in 0..Len(ids) : c[k] \in Nat
         /\ \A k, l \in 0..Len(ids) : k <= l => c[k] <= c[l]
         /\ CountsOf(ids) = c[Len(ids)]
<1> DEFINE counts == [k \in DOMAIN ids |-> Tokens(ids[k])]
           n == Len(ids)
<1>1. n \in Nat /\ DOMAIN counts = 1..n
      /\ \A k \in 1..n : counts[k] = Tokens(ids[k]) /\ counts[k] \in Nat
  <2>1. \A k \in 1..n : ids[k] \in DOMAIN segments
    OBVIOUS
  <2> QED BY <2>1, SegmentTypes
<1>2. c[0] = 0 /\ \A k \in 1..n : c[k] = c[k - 1] + counts[k]
  BY <1>1 DEF Cursors
<1>3. CountsOf(ids) = Total(counts)
  BY DEF CountsOf
<1> HIDE DEF counts, n
<1>4. Total(counts) = c[n]
  <2>1. n \in Nat /\ DOMAIN counts = 1..n
    BY <1>1
  <2> QED BY <1>2, <2>1, RunningSum
<1>5. (\A k \in 0..n : c[k] \in Nat) /\ \A k, l \in 0..n : k <= l => c[k] <= c[l]
  BY <1>1, <1>2, RunningSumGrows
<1> QED BY <1>3, <1>4, <1>5 DEF n

\* The tokens of two sequences one after the other.
Joining(c, n, d) == [k \in Nat |-> IF k <= n THEN c[k] ELSE c[n] + d[k - n]]

\* The cursors of a concatenation.
LEMMA JoinedCursors ==
  ASSUME InputOK, NEW s \in Seq(DOMAIN segments), NEW r \in Seq(DOMAIN segments),
         NEW c, Cursors(c, s), NEW d, Cursors(d, r)
  PROVE  Cursors(Joining(c, Len(s), d), s \o r)
<1> DEFINE n == Len(s)
           m == Len(r)
           e == Joining(c, n, d)
<1>1. n \in Nat /\ m \in Nat /\ s \o r \in Seq(DOMAIN segments) /\ Len(s \o r) = n + m
      /\ (\A k \in 1..n : (s \o r)[k] = s[k]) /\ \A k \in 1..m : (s \o r)[n + k] = r[k]
  OBVIOUS
<1>2. /\ (\A k \in 0..n : c[k] \in Nat) /\ \A k \in 0..m : d[k] \in Nat
      /\ c[0] = 0 /\ \A k \in 1..n : c[k] = c[k - 1] + Tokens(s[k])
      /\ d[0] = 0 /\ \A k \in 1..m : d[k] = d[k - 1] + Tokens(r[k])
  BY CursorTypes DEF Cursors
<1>3. (\A k \in 0..n : e[k] = c[k]) /\ \A k \in 1..m : e[n + k] = c[n] + d[k]
  <2> HIDE DEF n, m
  <2>1. \A k \in 0..n : k \in Nat /\ k <= n
    BY <1>1
  <2>2. \A k \in 1..m : n + k \in Nat /\ ~ (n + k <= n) /\ (n + k) - n = k
    BY <1>1
  <2> QED BY <2>1, <2>2 DEF Joining
<1> DEFINE sr == s \o r
<1>4. Len(sr) = n + m /\ (\A k \in 1..n : sr[k] = s[k]) /\ \A k \in 1..m : sr[n + k] = r[k]
  BY <1>1
<1> HIDE DEF e, sr, n, m
<1>5. e[0] = 0
  BY <1>1, <1>2, <1>3
<1>6. ASSUME NEW k \in 1..(n + m) PROVE e[k] = e[k - 1] + Tokens(sr[k])
  <2>1. CASE k <= n
    <3>1. k \in 1..n /\ k \in 0..n /\ k - 1 \in 0..n
      BY <1>1, <2>1
    <3> QED BY <1>2, <1>3, <1>4, <3>1
  <2>2. CASE k > n
    <3> DEFINE l == k - n
    <3>1. l \in 1..m /\ l \in 0..m /\ n + l = k /\ l - 1 \in 0..m /\ n + (l - 1) = k - 1 /\ n \in 0..n
      BY <1>1, <2>2
    <3> HIDE DEF l
    <3>2. e[k] = c[n] + d[l] /\ sr[k] = r[l] /\ d[l] = d[l - 1] + Tokens(r[l])
      BY <1>2, <1>3, <1>4, <3>1
    <3>3. e[k - 1] = c[n] + d[l - 1]
      <4>1. CASE l = 1
        BY <1>2, <1>3, <3>1, <4>1
      <4>2. CASE l # 1
        <5>1. l - 1 \in 1..m
          BY <3>1, <4>2
        <5> QED BY <1>3, <3>1, <5>1
      <4> QED BY <4>1, <4>2
    <3>4. c[n] \in Nat /\ d[l] \in Nat /\ d[l - 1] \in Nat
      BY <1>2, <3>1
    <3>5. r[l] \in DOMAIN segments
      <4>1. l \in 1..Len(r)
        BY <3>1 DEF m
      <4> QED BY <4>1
    <3>6. Tokens(r[l]) \in Nat
      BY <3>5, SegmentTypes
    <3> QED BY <3>2, <3>3, <3>4, <3>6
  <2> QED BY <1>1, <2>1, <2>2
<1> QED BY <1>4, <1>5, <1>6 DEF Cursors, e, sr, n

\* The tokens of a concatenation add up.
LEMMA CountsAdd ==
  ASSUME InputOK, NEW s \in Seq(DOMAIN segments), NEW r \in Seq(DOMAIN segments)
  PROVE  /\ CountsOf(s \o r) = CountsOf(s) + CountsOf(r)
         /\ CountsOf(s) \in Nat /\ CountsOf(r) \in Nat
<1>1. PICK c : Cursors(c, s)
  BY CursorsExist
<1>2. PICK d : Cursors(d, r)
  BY CursorsExist
<1> DEFINE n == Len(s)
           m == Len(r)
           e == Joining(c, n, d)
           sr == s \o r
<1>3. n \in Nat /\ m \in Nat /\ sr \in Seq(DOMAIN segments) /\ Len(sr) = n + m
  OBVIOUS
<1>4. Cursors(e, sr)
  BY <1>1, <1>2, JoinedCursors
<1>5. CountsOf(s) = c[n] /\ CountsOf(r) = d[m] /\ c[n] \in Nat /\ d[m] \in Nat
  BY <1>1, <1>2, CursorTypes
<1>6. e[n + m] = c[n] + d[m]
  <2>1. n + m \in Nat
    BY <1>3
  <2>2. CASE m = 0
    BY <1>2, <1>3, <1>5, <2>2 DEF Joining, Cursors
  <2>3. CASE m # 0
    <3>1. ~ (n + m <= n) /\ (n + m) - n = m
      BY <1>3, <2>3
    <3> HIDE DEF n, m
    <3> QED BY <2>1, <3>1 DEF Joining
  <2> QED BY <2>2, <2>3
<1> HIDE DEF e, sr, n, m
<1>7. CountsOf(sr) = e[n + m]
  BY <1>3, <1>4, CursorTypes
<1> QED BY <1>5, <1>6, <1>7 DEF sr

-----------------------------------------------------------------------------
(* The text of a window                                                    *)

\* The text consists of the words of these segments, in this order.
Spells(text, ids) ==
  \E c : /\ Cursors(c, ids)
         /\ Len(text) = c[Len(ids)]
         /\ \A k \in 1..Len(ids) : \A t \in 1..Tokens(ids[k]) : text[c[k - 1] + t] = ids[k]

\* Texts join as their segments do.
LEMMA SpellsJoin ==
  ASSUME InputOK, NEW a \in Seq(Int), NEW b \in Seq(Int),
         NEW s \in Seq(DOMAIN segments), NEW r \in Seq(DOMAIN segments),
         Spells(a, s), Spells(b, r)
  PROVE  Spells(a \o b, s \o r)
<1> DEFINE n == Len(s)
           m == Len(r)
           sr == s \o r
           ab == a \o b
<1>1. PICK c : /\ Cursors(c, s) /\ Len(a) = c[n]
               /\ \A k \in 1..n : \A t \in 1..Tokens(s[k]) : a[c[k - 1] + t] = s[k]
  BY DEF Spells
<1>2. PICK d : /\ Cursors(d, r) /\ Len(b) = d[m]
               /\ \A k \in 1..m : \A t \in 1..Tokens(r[k]) : b[d[k - 1] + t] = r[k]
  BY DEF Spells
<1> DEFINE e == Joining(c, n, d)
<1>3. Cursors(e, sr)
  BY <1>1, <1>2, JoinedCursors
<1>4. /\ n \in Nat /\ m \in Nat /\ Len(sr) = n + m
      /\ \A k \in 1..n : sr[k] = s[k] /\ s[k] \in DOMAIN segments
      /\ \A k \in 1..m : sr[n + k] = r[k] /\ r[k] \in DOMAIN segments
  OBVIOUS
<1>5. /\ Len(ab) = Len(a) + Len(b) /\ Len(a) \in Nat /\ Len(b) \in Nat
      /\ \A p \in 1..Len(a) : ab[p] = a[p]
      /\ \A p \in 1..Len(b) : ab[Len(a) + p] = b[p]
  OBVIOUS
<1>6. /\ (\A k \in 0..n : c[k] \in Nat) /\ \A k, l \in 0..n : k <= l => c[k] <= c[l]
      /\ (\A k \in 0..m : d[k] \in Nat) /\ \A k, l \in 0..m : k <= l => d[k] <= d[l]
  BY <1>1, <1>2, CursorTypes
<1>7. /\ c[0] = 0 /\ \A k \in 1..n : c[k] = c[k - 1] + Tokens(s[k]) /\ Tokens(s[k]) \in Nat
      /\ d[0] = 0 /\ \A k \in 1..m : d[k] = d[k - 1] + Tokens(r[k]) /\ Tokens(r[k]) \in Nat
  BY <1>1, <1>2, <1>4, SegmentTypes DEF Cursors
<1> HIDE DEF n, m, sr, ab
<1>8. (\A k \in 0..n : e[k] = c[k]) /\ \A k \in 0..m : e[n + k] = c[n] + d[k]
  <2>1. \A k \in 0..n : k \in Nat /\ k <= n
    BY <1>4
  <2>2. \A k \in 1..m : n + k \in Nat /\ ~ (n + k <= n) /\ (n + k) - n = k
    BY <1>4
  <2>3. \A k \in 0..n : e[k] = c[k]
    BY <2>1 DEF Joining
  <2>4. \A k \in 1..m : e[n + k] = c[n] + d[k]
    BY <2>2 DEF Joining
  <2>5. e[n + 0] = c[n] + d[0]
    <3>1. n + 0 = n /\ n \in 0..n /\ 0 \in 0..m
      BY <1>4
    <3> QED BY <1>6, <1>7, <2>3, <3>1
  <2> QED BY <1>4, <2>3, <2>4, <2>5
<1> HIDE DEF e
<1>9. Len(ab) = e[n + m]
  BY <1>1, <1>2, <1>4, <1>5, <1>8
<1>10. ASSUME NEW k \in 1..(n + m), NEW t \in 1..Tokens(sr[k])
       PROVE ab[e[k - 1] + t] = sr[k]
  <2>1. CASE k <= n
    <3>1. k \in 1..n /\ k \in 0..n /\ k - 1 \in 0..n /\ n \in 0..n /\ k <= n
      BY <1>4, <2>1
    <3>2. sr[k] = s[k] /\ t \in 1..Tokens(s[k]) /\ a[c[k - 1] + t] = s[k] /\ e[k - 1] = c[k - 1]
      BY <1>1, <1>4, <1>8, <3>1
    <3>3. c[k] = c[k - 1] + Tokens(s[k]) /\ c[k] <= Len(a) /\ c[k - 1] \in Nat /\ c[k] \in Nat
          /\ Tokens(s[k]) \in Nat
      BY <1>1, <1>6, <1>7, <3>1
    <3>4. c[k - 1] + t \in 1..Len(a)
      <4> DEFINE x == c[k - 1]
                 y == c[k]
                 z == Tokens(s[k])
                 w == Len(a)
      <4>1. x \in Nat /\ y = x + z /\ z \in Nat /\ w \in Nat /\ y <= w /\ t \in 1..z
        BY <1>5, <3>2, <3>3
      <4> HIDE DEF x, y, z, w
      <4>2. x + t \in 1..w
        BY <4>1
      <4> QED BY <4>2 DEF x, w
    <3> QED BY <1>5, <3>2, <3>4
  <2>2. CASE k > n
    <3> DEFINE l == k - n
    <3>1. l \in 1..m /\ l \in 0..m /\ n + l = k /\ l - 1 \in 0..m /\ n + (l - 1) = k - 1 /\ m \in 0..m
          /\ l <= m
      BY <1>4, <2>2
    <3> HIDE DEF l
    <3>2. sr[k] = r[l] /\ t \in 1..Tokens(r[l]) /\ b[d[l - 1] + t] = r[l]
          /\ e[k - 1] = c[n] + d[l - 1]
      BY <1>2, <1>4, <1>8, <3>1
    <3>3. d[l] = d[l - 1] + Tokens(r[l]) /\ d[l] <= Len(b) /\ d[l - 1] \in Nat /\ d[l] \in Nat
          /\ Tokens(r[l]) \in Nat
      BY <1>2, <1>6, <1>7, <3>1
    <3>4. d[l - 1] + t \in 1..Len(b) /\ e[k - 1] + t = Len(a) + (d[l - 1] + t)
      <4> DEFINE x == d[l - 1]
                 y == d[l]
                 z == Tokens(r[l])
                 w == Len(b)
                 u == Len(a)
                 v == e[k - 1]
      <4>1. /\ x \in Nat /\ y = x + z /\ z \in Nat /\ w \in Nat /\ y <= w /\ t \in 1..z
            /\ u \in Nat /\ v = u + x
        BY <1>1, <1>5, <3>2, <3>3
      <4> HIDE DEF x, y, z, w, u, v
      <4>2. x + t \in 1..w /\ v + t = u + (x + t)
        BY <4>1
      <4> QED BY <4>2 DEF x, w, u, v
    <3> QED BY <1>5, <3>2, <3>4
  <2> QED BY <1>4, <2>1, <2>2
<1>11. Spells(ab, sr)
  BY <1>3, <1>4, <1>9, <1>10 DEF Spells
<1> QED BY <1>11 DEF ab, sr

\* The words of one segment.
Repeated(i) == [t \in 1..Tokens(i) |-> i]

\* The words of one segment spell it.
LEMMA SpellsOne ==
  ASSUME InputOK, NEW i \in DOMAIN segments
  PROVE  Repeated(i) \in Seq(Int) /\ Spells(Repeated(i), <<i>>)
<1>1. Tokens(i) \in Nat /\ i \in Int
  BY SegmentTypes
<1>2. Repeated(i) \in Seq(Int) /\ Len(Repeated(i)) = Tokens(i)
      /\ \A t \in 1..Tokens(i) : Repeated(i)[t] = i
  BY <1>1 DEF Repeated
<1> DEFINE c == [k \in 0..1 |-> IF k = 0 THEN 0 ELSE Tokens(i)]
           ids == <<i>>
<1>3. Len(ids) = 1 /\ ids[1] = i /\ \A k \in 1..Len(ids) : k = 1
  OBVIOUS
<1>4. c[0] = 0 /\ c[1] = Tokens(i) /\ 1 - 1 = 0
  OBVIOUS
<1> HIDE DEF c, ids
<1>5. Cursors(c, ids)
  BY <1>1, <1>3, <1>4 DEF Cursors
<1>6. Len(Repeated(i)) = c[Len(ids)]
  BY <1>2, <1>3, <1>4
<1>7. ASSUME NEW k \in 1..Len(ids), NEW t \in 1..Tokens(ids[k])
      PROVE  Repeated(i)[c[k - 1] + t] = ids[k]
  <2>1. k = 1 /\ ids[k] = i /\ t \in 1..Tokens(i) /\ c[k - 1] + t = t
    BY <1>1, <1>3, <1>4
  <2> QED BY <1>2, <2>1
<1>8. Spells(Repeated(i), ids)
  BY <1>5, <1>6, <1>7 DEF Spells
<1> QED BY <1>2, <1>8 DEF ids

\* A measure that concatenation adds up: of the whole it is the total.
LEMMA FlattenWeighs ==
  ASSUME NEW T, NEW seqs \in Seq(Seq(T)), NEW w,
         w[<<>>] = 0, \A a \in Seq(T) : w[a] \in Nat,
         \A a \in Seq(T), c \in Seq(T) : w[a \o c] = w[a] + w[c]
  PROVE  w[FlattenSeq(seqs)] = Total([k \in DOMAIN seqs |-> w[seqs[k]]])
<1> DEFINE f == Flattening(seqs)
           n == Len(seqs)
           counts == [k \in DOMAIN seqs |-> w[seqs[k]]]
<1>1. f[0] = <<>> /\ FlattenSeq(seqs) = f[n] /\ \A k \in 1..n : f[k] = f[k - 1] \o seqs[k]
  BY FlattenTrace
<1>2. /\ n \in Nat /\ DOMAIN seqs = 1..n /\ DOMAIN counts = 1..n
      /\ \A k \in 1..n : seqs[k] \in Seq(T) /\ counts[k] = w[seqs[k]]
  OBVIOUS
<1> HIDE DEF f, n, counts
<1>3. PICK u : /\ u[0] = 0
               /\ \A k \in 1..n : u[k] = u[k - 1] + counts[k]
               /\ Total(counts) = u[n]
  <2>1. n \in Nat /\ DOMAIN counts = 1..n
    BY <1>2
  <2> QED BY <2>1, TotalTrace
<1> DEFINE S == {k \in 0..n : f[k] \in Seq(T) /\ w[f[k]] = u[k]}
<1>4. 0 \in S
  <2>1. <<>> \in Seq(T) /\ 0 \in 0..n
    BY <1>2
  <2> QED BY <1>1, <1>3, <2>1
<1>5. ASSUME NEW k \in 1..n, k - 1 \in S PROVE k \in S
  <2> DEFINE a == f[k - 1]
             c == seqs[k]
  <2>1. f[k] = a \o c /\ a \in Seq(T) /\ c \in Seq(T) /\ k \in 0..n
    BY <1>1, <1>2, <1>5, SMTT(30)
  <2>2. w[a] = u[k - 1] /\ counts[k] = w[c] /\ u[k] = u[k - 1] + counts[k]
    BY <1>2, <1>3, <1>5
  <2> HIDE DEF a, c
  <2>3. f[k] \in Seq(T) /\ w[f[k]] = w[a] + w[c]
    BY <2>1
  <2> QED BY <2>1, <2>2, <2>3
<1> HIDE DEF S
<1>6. n \in S
  BY <1>2, <1>4, <1>5, StepInduction
<1> QED BY <1>1, <1>3, <1>6 DEF S, counts

\* The text of a window consists of the words of its segments.
LEMMA TextSpells ==
  ASSUME InputOK, GroupsOK, NEW g \in DOMAIN groups
  PROVE  /\ Text(g) \in Seq(Int)
         /\ Spells(Text(g), groups[g])
         /\ Len(Text(g)) = CountsOf(groups[g])
         /\ CountsOf(groups[g]) \in Nat
<1> DEFINE ids == groups[g]
           texts == [m \in DOMAIN ids |-> Repeated(ids[m])]
           ones == [m \in DOMAIN ids |-> <<ids[m]>>]
           D == DOMAIN segments
           R == {ts \in Seq(Int) \X Seq(D) : Spells(ts[1], ts[2])}
<1>1. ids \in Seq(D)
  <2>1. ids \in Seq(Spoken) /\ Spoken \subseteq D
    BY GroupTypes DEF Spoken
  <2> QED BY <2>1
<1>2. Text(g) = FlattenSeq(texts)
  BY DEF Text, Repeated
<1> HIDE DEF ids
<1> DEFINE n == Len(ids)
<1>3. n \in Nat /\ DOMAIN ids = 1..n /\ \A m \in 1..n : ids[m] \in D
  BY <1>1
<1>4. \A m \in 1..n : Repeated(ids[m]) \in Seq(Int) /\ <<ids[m]>> \in Seq(D)
                      /\ Spells(Repeated(ids[m]), <<ids[m]>>)
  BY <1>3, SpellsOne
<1>5. /\ texts \in Seq(Seq(Int)) /\ ones \in Seq(Seq(D)) /\ Len(texts) = n /\ Len(ones) = n
      /\ \A m \in 1..n : texts[m] = Repeated(ids[m]) /\ ones[m] = <<ids[m]>>
  <2> HIDE DEF n
  <2>1. texts = [m \in 1..n |-> Repeated(ids[m])] /\ ones = [m \in 1..n |-> <<ids[m]>>]
    BY <1>3
  <2>2. texts \in Seq(Seq(Int)) /\ Len(texts) = n /\ \A m \in 1..n : texts[m] = Repeated(ids[m])
    <3> DEFINE I == Seq(Int)
    <3>1. \A m \in 1..n : Repeated(ids[m]) \in I
      BY <1>4
    <3> HIDE DEF I
    <3>2. texts \in Seq(I) /\ Len(texts) = n
      BY <1>3, <2>1, <3>1
    <3>3. \A m \in 1..n : texts[m] = Repeated(ids[m])
      BY <2>1
    <3> QED BY <3>2, <3>3 DEF I
  <2>3. ones \in Seq(Seq(D)) /\ Len(ones) = n /\ \A m \in 1..n : ones[m] = <<ids[m]>>
    BY <1>3, <1>4, <2>1
  <2> QED BY <2>2, <2>3
<1>6. FlattenSeq(ones) = ids
  BY <1>1, FlattenSingletons
<1> HIDE DEF texts, ones, n
<1>7. \A m \in 1..n : <<texts[m], ones[m]>> \in R
  BY <1>3, <1>4, <1>5
<1>8. <<<<>>, <<>>>> \in R
  <2> DEFINE e == <<>>
             c == [k \in 0..0 |-> 0]
  <2>1. Len(e) = 0 /\ c[0] = 0 /\ 1..0 = {}
    OBVIOUS
  <2>2. e \in Seq(Int) /\ e \in Seq(D)
    OBVIOUS
  <2> HIDE DEF e, c
  <2>3. Cursors(c, e)
    BY <2>1 DEF Cursors
  <2>4. Spells(e, e)
    BY <2>1, <2>3 DEF Spells
  <2>5. <<e, e>> \in R
    BY <2>2, <2>4
  <2> QED BY <2>5 DEF e
<1>9. ASSUME NEW a \in Seq(Int), NEW s \in Seq(D), NEW b \in Seq(Int), NEW r \in Seq(D),
             <<a, s>> \in R, <<b, r>> \in R
      PROVE  <<a \o b, s \o r>> \in R
  <2>1. Spells(a, s) /\ Spells(b, r)
    BY <1>9
  <2>2. Spells(a \o b, s \o r)
    BY <2>1, SpellsJoin
  <2>3. a \o b \in Seq(Int) /\ s \o r \in Seq(D)
    OBVIOUS
  <2> QED BY <2>2, <2>3
<1>10. <<FlattenSeq(texts), FlattenSeq(ones)>> \in R
  <2> HIDE DEF R, D
  <2> QED BY <1>5, <1>7, <1>8, <1>9, FlattenPairs
<1>11. Text(g) \in Seq(Int) /\ Spells(Text(g), ids)
  BY <1>2, <1>6, <1>10
<1>12. Len(Text(g)) = CountsOf(ids) /\ CountsOf(ids) \in Nat
  <2>1. PICK c : Cursors(c, ids) /\ Len(Text(g)) = c[Len(ids)]
    BY <1>11 DEF Spells
  <2>2. CountsOf(ids) = c[Len(ids)]
    BY <1>1, <2>1, CursorTypes
  <2>3. Len(Text(g)) \in Nat
    BY <1>11
  <2> QED BY <2>1, <2>2, <2>3
<1> QED BY <1>11, <1>12 DEF ids

-----------------------------------------------------------------------------
(* What the aligner hears                                                  *)

Heard == [start : Nat, of : Int]

Names(words) == [k \in DOMAIN words |-> words[k].of]

Ascending(words) == \A p, q \in DOMAIN words : p < q => words[p].start < words[q].start

\* What it hears in a window: words in ascending order inside the window, and
\* the text of the window unless it miscounts.
HeardIn(words, g) ==
  /\ words \in Seq(Heard)
  /\ Ascending(words)
  /\ \A k \in DOMAIN words : windows[g].start <= words[k].start /\ words[k].start < windows[g].end
  /\ Len(words) - Len(Text(g)) = 0 => Names(words) = Text(g)

HeardOK ==
  /\ heard \in Seq(Seq(Heard))
  /\ Len(heard) <= Len(groups)
  /\ \A g \in DOMAIN heard : HeardIn(heard[g], g)

\* A miscounted text has another length.
LEMMA SlippedTexts ==
  ASSUME NEW text \in Seq(Int), NEW other \in Slipped(text)
  PROVE  other \in Seq(Int) /\ Len(other) - Len(text) # 0
<1> DEFINE n == Len(text)
<1>1. n \in Nat /\ DOMAIN text = 1..n
  OBVIOUS
<1>2. ASSUME NEW k \in 1..n, other = RemoveAt(text, k)
      PROVE  other \in Seq(Int) /\ Len(other) = n - 1
  <2> DEFINE a == SubSeq(text, 1, k - 1)
             c == SubSeq(text, k + 1, n)
  <2>1. a \in Seq(Int) /\ c \in Seq(Int) /\ Len(a) = k - 1 /\ Len(c) = n - k
    OBVIOUS
  <2>2. other = a \o c
    BY <1>2 DEF RemoveAt
  <2> HIDE DEF a, c, n
  <2> QED BY <1>1, <2>1, <2>2
<1>3. ASSUME NEW k \in 1..(n + 1), other = InsertAt(text, k, 0)
      PROVE  other \in Seq(Int) /\ Len(other) = n + 1
  <2> DEFINE a == SubSeq(text, 1, k - 1)
             c == SubSeq(text, k, n)
  <2>1. a \in Seq(Int) /\ Len(a) = k - 1
    OBVIOUS
  <2>2. c \in Seq(Int) /\ Len(c) = (n - k) + 1
    OBVIOUS
  <2>3. other = (a \o <<0>>) \o c /\ <<0>> \in Seq(Int) /\ Len(<<0>>) = 1
    BY <1>3 DEF InsertAt
  <2> HIDE DEF a, c, n
  <2>4. a \o <<0>> \in Seq(Int) /\ Len(a \o <<0>>) = k
    BY <2>1, <2>3
  <2> QED BY <1>1, <2>2, <2>3, <2>4
<1>4. \/ \E k \in 1..n : other = RemoveAt(text, k)
      \/ \E k \in 1..(n + 1) : other = InsertAt(text, k, 0)
  BY <1>1 DEF Slipped
<1>5. other \in Seq(Int) /\ (Len(other) = n - 1 \/ Len(other) = n + 1)
  BY <1>2, <1>3, <1>4
<1> DEFINE l == Len(other)
<1>6. n \in Nat /\ (l = n - 1 \/ l = n + 1)
  BY <1>1, <1>5
<1> HIDE DEF l, n
<1>7. l - n # 0
  BY <1>6
<1> QED BY <1>5, <1>7 DEF l, n

\* Each window the aligner is done with was heard right.
LEMMA AlignHeard ==
  ASSUME InputOK, GroupsOK, WindowsOK(windows), HeardOK,
         NEW g, g = Len(heard) + 1, g <= Len(groups),
         NEW text \in {Text(g)} \cup Slipped(Text(g)),
         NEW from \in windows[g].start..(windows[g].end - Len(text))
  PROVE  HeardIn(Timed(text, from), g) /\ g \in DOMAIN groups
<1>1. g \in DOMAIN groups
  <2>1. Len(heard) \in Nat
    BY DEF HeardOK
  <2>2. Len(groups) \in Nat /\ DOMAIN groups = 1..Len(groups)
    BY GroupTypes
  <2> QED BY <2>1, <2>2
<1>2. Text(g) \in Seq(Int)
  BY <1>1, TextSpells
<1>3. text \in Seq(Int) /\ (Len(text) - Len(Text(g)) = 0 => text = Text(g))
  <2>1. PICK right \in Seq(Int) : right = Text(g)
    BY <1>2
  <2>2. CASE text = Text(g)
    BY <2>1, <2>2
  <2>3. CASE text \in Slipped(right)
    BY <2>1, <2>3, SlippedTexts
  <2> QED BY <2>1, <2>2, <2>3
<1> DEFINE n == Len(text)
           words == Timed(text, from)
           low == windows[g].start
           high == windows[g].end
<1>4. low \in Nat /\ high \in Nat
  BY <1>1 DEF WindowsOK
<1>5. n \in Nat /\ DOMAIN text = 1..n /\ \A k \in 1..n : text[k] \in Int
  BY <1>3
<1>6. words = [k \in 1..n |-> [start |-> from + k - 1, of |-> text[k]]]
  BY <1>5 DEF Timed
<1>7. from \in low..(high - n)
  OBVIOUS
<1> HIDE DEF n, words, low, high
<1>8. DOMAIN words = 1..n /\ Len(words) = n
      /\ \A k \in 1..n : /\ words[k] \in Heard /\ words[k].of = text[k]
                         /\ words[k].start = from + k - 1
                         /\ low <= words[k].start /\ words[k].start < high
  <2>1. DOMAIN words = 1..n
    BY <1>6
  <2>2. Len(words) = n
    BY <1>5, <1>6
  <2>3. ASSUME NEW k \in 1..n
        PROVE  /\ words[k] \in Heard /\ words[k].of = text[k]
               /\ words[k].start = from + k - 1
               /\ low <= words[k].start /\ words[k].start < high
    <3>1. words[k] = [start |-> from + k - 1, of |-> text[k]]
      BY <1>6
    <3>2. from \in Nat /\ low <= from + k - 1 /\ from + k - 1 < high /\ from + k - 1 \in Nat
      BY <1>4, <1>5, <1>7
    <3> QED BY <1>5, <3>1, <3>2 DEF Heard
  <2> QED BY <2>1, <2>2, <2>3
<1>9. words \in Seq(Heard)
  BY <1>5, <1>6, <1>8
<1>10. Ascending(words)
  BY <1>4, <1>5, <1>7, <1>8 DEF Ascending
<1>11. Len(words) - Len(Text(g)) = 0 => Names(words) = Text(g)
  <2>1. Names(words) = text
    <3>1. Names(words) = [k \in 1..n |-> text[k]]
      BY <1>8 DEF Names
    <3>2. text = [k \in 1..n |-> text[k]]
      BY <1>3, <1>5
    <3> QED BY <3>1, <3>2
  <2> QED BY <1>3, <1>8, <2>1 DEF n
<1>12. HeardIn(words, g)
  BY <1>8, <1>9, <1>10, <1>11 DEF HeardIn, low, high
<1> QED BY <1>1, <1>12 DEF words

-----------------------------------------------------------------------------
(* The words as align_transcript lists them                                *)

\* All windows are done.
AlignedOK ==
  /\ InputOK /\ GroupsOK /\ WindowsOK(windows) /\ HeardOK
  /\ Len(heard) = Len(groups)

\* The windows and what was heard in them, by type.
LEMMA AlignedTypes ==
  ASSUME AlignedOK
  PROVE  /\ Len(groups) \in Nat /\ DOMAIN heard = 1..Len(groups) /\ DOMAIN groups = 1..Len(groups)
         /\ Len(heard) = Len(groups)
         /\ heard \in Seq(Seq(Heard)) /\ groups \in Seq(Seq(DOMAIN segments))
         /\ \A g \in 1..Len(groups) :
              /\ HeardIn(heard[g], g)
              /\ heard[g] \in Seq(Heard) /\ groups[g] \in Seq(DOMAIN segments)
<1>1. Len(groups) \in Nat /\ DOMAIN groups = 1..Len(groups)
  BY GroupTypes DEF AlignedOK
<1>2. heard \in Seq(Seq(Heard)) /\ Len(heard) = Len(groups)
  BY DEF AlignedOK, HeardOK
<1>3. DOMAIN heard = 1..Len(groups)
  <2> DEFINE W == Seq(Heard)
  <2>1. heard \in Seq(W)
    BY <1>2
  <2> HIDE DEF W
  <2> QED BY <1>2, <2>1
<1>4. \A g \in 1..Len(groups) : HeardIn(heard[g], g)
  BY <1>3 DEF AlignedOK, HeardOK
<1>5. \A g \in 1..Len(groups) : heard[g] \in Seq(Heard)
  BY <1>4 DEF HeardIn
<1>6. \A g \in 1..Len(groups) : groups[g] \in Seq(DOMAIN segments)
  <2>1. \A g \in 1..Len(groups) : groups[g] \in Seq(Spoken)
    BY <1>1, GroupTypes DEF AlignedOK
  <2>2. Spoken \subseteq DOMAIN segments
    BY DEF Spoken
  <2> QED BY <2>1, <2>2
<1>7. groups \in Seq(Seq(DOMAIN segments))
  <2> DEFINE W == Seq(DOMAIN segments)
  <2>1. \A g \in 1..Len(groups) : groups[g] \in W
    BY <1>6
  <2> HIDE DEF W
  <2>2. \E S : groups \in Seq(S)
    BY DEF AlignedOK, GroupsOK, NonEmptySeqs
  <2> QED BY <1>1, <2>1, <2>2 DEF W
<1> QED BY <1>1, <1>2, <1>3, <1>4, <1>5, <1>6, <1>7

\* Window after window the words ascend.
LEMMA FlatAscends ==
  ASSUME AlignedOK
  PROVE  Flat \in Seq(Heard) /\ Ascending(Flat)
<1> DEFINE L == {ww \in Heard \X Heard : ww[1].start < ww[2].start}
           n == Len(groups)
<1>1. /\ heard \in Seq(Seq(Heard)) /\ DOMAIN heard = 1..n /\ n \in Nat /\ DOMAIN groups = 1..n
      /\ \A g \in 1..n : HeardIn(heard[g], g) /\ heard[g] \in Seq(Heard)
  BY AlignedTypes
<1> HIDE DEF n
<1>2. Flat \in Seq(Heard)
  BY <1>1, FlattenMembers DEF Flat
<1>3. ASSUME NEW s \in Seq(Heard) PROVE Ascending(s) <=> Ordered(L, s)
  <2>1. \A p, q \in DOMAIN s : <<s[p], s[q]>> \in L <=> s[p].start < s[q].start
    <3>1. \A p \in DOMAIN s : s[p] \in Heard
      OBVIOUS
    <3> QED BY <3>1
  <2> HIDE DEF L
  <2> QED BY <2>1 DEF Ascending, Ordered
<1>4. \A g \in DOMAIN heard : Ordered(L, heard[g])
  <2> HIDE DEF L
  <2> QED BY <1>1, <1>3 DEF HeardIn
<1>5. ASSUME NEW g \in DOMAIN heard, NEW h \in DOMAIN heard, g < h,
             NEW p \in DOMAIN heard[g], NEW q \in DOMAIN heard[h]
      PROVE  <<heard[g][p], heard[h][q]>> \in L
  <2> DEFINE a == heard[g][p]
             c == heard[h][q]
  <2>1. a \in Heard /\ c \in Heard
    <3>1. heard[g] \in Seq(Heard) /\ heard[h] \in Seq(Heard)
      BY <1>1
    <3> QED BY <3>1
  <2>2. a.start < windows[g].end /\ windows[h].start <= c.start
    <3>1. HeardIn(heard[g], g) /\ HeardIn(heard[h], h)
      BY <1>1
    <3> QED BY <3>1 DEF HeardIn
  <2>3. windows[g].end <= windows[h].start /\ windows[g].end \in Nat /\ windows[h].start \in Nat
    BY <1>1, <1>5 DEF AlignedOK, WindowsOK
  <2>4. a.start \in Nat /\ c.start \in Nat
    BY <2>1 DEF Heard
  <2> HIDE DEF a, c
  <2>5. a.start < c.start
    BY <2>2, <2>3, <2>4
  <2>6. <<a, c>> \in L
    BY <2>1, <2>5
  <2> QED BY <2>6 DEF a, c
<1> HIDE DEF L
<1>6. Ordered(L, Flat)
  BY <1>1, <1>4, <1>5, FlattenOrdered DEF Flat
<1> QED BY <1>2, <1>3, <1>6

\* So sorting them changes nothing.
LEMMA WordsAreFlat ==
  ASSUME AlignedOK
  PROVE  Words = Flat
<1> DEFINE n == Len(Flat)
           key == [k \in DOMAIN Flat |-> Flat[k].start]
<1>1. Flat \in Seq(Heard) /\ Ascending(Flat)
  BY FlatAscends
<1>2. n \in Nat /\ DOMAIN Flat = 1..n /\ Flat = [k \in 1..n |-> Flat[k]]
      /\ \A k \in 1..n : Flat[k] \in Heard
  BY <1>1
<1>3. Words = [k \in DOMAIN Flat |-> Flat[SortedBy(DOMAIN Flat, key)[k]]]
  BY DEF Words
<1>4. (\A k \in 1..n : key[k] \in Int) /\ \A k, l \in 1..n : k < l => key[k] < key[l]
  BY <1>1, <1>2 DEF Ascending, Heard
<1> HIDE DEF n, key
<1>5. SortedBy(1..n, key) = [k \in 1..n |-> k]
  BY <1>2, <1>4, SortedAlready
<1> QED BY <1>2, <1>3, <1>5

Served == FlattenSeq(groups)

\* t[k] is the sum of the first k counts.
Sums(t, counts, n) == t[0] = 0 /\ \A k \in 1..n : t[k] = t[k - 1] + counts[k]

\* The total is the last sum.
LEMMA TotalIsLastSum ==
  ASSUME NEW n \in Nat, NEW counts, DOMAIN counts = 1..n, NEW t, Sums(t, counts, n)
  PROVE  Total(counts) = t[n]
BY RunningSum DEF Sums

Difference(d, a, b, n) ==
  /\ DOMAIN a = 1..n /\ DOMAIN b = 1..n /\ DOMAIN d = 1..n
  /\ \A k \in 1..n : a[k] \in Nat /\ b[k] \in Nat /\ d[k] = a[k] - b[k]

\* The total of differences is the difference of the totals.
LEMMA TotalDifference ==
  ASSUME NEW n \in Nat, NEW a, NEW b, NEW d, Difference(d, a, b, n)
  PROVE  /\ Total(d) = Total(a) - Total(b)
         /\ Total(a) \in Nat /\ Total(b) \in Nat
<1>0. /\ DOMAIN a = 1..n /\ DOMAIN b = 1..n /\ DOMAIN d = 1..n
      /\ \A k \in 1..n : a[k] \in Nat /\ b[k] \in Nat /\ d[k] = a[k] - b[k]
  BY DEF Difference
<1>1. PICK u : /\ u[0] = 0
               /\ \A k \in 1..n : u[k] = u[k - 1] + a[k]
               /\ Total(a) = u[n]
  <2>1. DOMAIN a = 1..n
    BY <1>0
  <2> QED BY <2>1, TotalTrace
<1>2. PICK v : /\ v[0] = 0
               /\ \A k \in 1..n : v[k] = v[k - 1] + b[k]
               /\ Total(b) = v[n]
  <2>1. DOMAIN b = 1..n
    BY <1>0
  <2> QED BY <2>1, TotalTrace
<1>3. \A k \in 0..n : u[k] \in Nat
  <2>1. u[0] = 0 /\ \A k \in 1..n : u[k] = u[k - 1] + a[k]
    BY <1>1
  <2>2. \A k \in 1..n : a[k] \in Nat
    BY <1>0
  <2> QED BY <2>1, <2>2, RunningSumGrows
<1>4. \A k \in 0..n : v[k] \in Nat
  <2>1. v[0] = 0 /\ \A k \in 1..n : v[k] = v[k - 1] + b[k]
    BY <1>2
  <2>2. \A k \in 1..n : b[k] \in Nat
    BY <1>0
  <2> QED BY <2>1, <2>2, RunningSumGrows
<1> DEFINE t == [k \in 0..n |-> u[k] - v[k]]
<1>5. t[0] = 0 /\ t[n] = u[n] - v[n]
  <2>1. 0 \in 0..n /\ n \in 0..n
    OBVIOUS
  <2> QED BY <1>1, <1>2, <2>1
<1>6. ASSUME NEW k \in 1..n PROVE t[k] = t[k - 1] + d[k]
  <2>1. k \in 0..n /\ k - 1 \in 0..n
    OBVIOUS
  <2>2. /\ u[k] = u[k - 1] + a[k] /\ v[k] = v[k - 1] + b[k] /\ d[k] = a[k] - b[k]
        /\ u[k - 1] \in Nat /\ v[k - 1] \in Nat /\ a[k] \in Nat /\ b[k] \in Nat
    BY <1>0, <1>1, <1>2, <1>3, <1>4, <2>1
  <2>3. t[k] = u[k] - v[k] /\ t[k - 1] = u[k - 1] - v[k - 1]
    BY <2>1
  <2> QED BY <2>2, <2>3
<1> HIDE DEF t
<1>7. Total(d) = t[n]
  <2>1. DOMAIN d = 1..n
    BY <1>0
  <2>2. Sums(t, d, n)
    BY <1>5, <1>6 DEF Sums
  <2> QED BY <2>1, <2>2, TotalIsLastSum
<1> QED BY <1>1, <1>2, <1>3, <1>4, <1>5, <1>7

\* There are as many words as were heard, and as many tokens as were served.
LEMMA WordCounts ==
  ASSUME AlignedOK
  PROVE  /\ Len(Flat) = Total([g \in DOMAIN heard |-> Len(heard[g])])
         /\ CountsOf(Served) = Total([g \in DOMAIN groups |-> WindowTokens(g)])
         /\ Served \in Seq(DOMAIN segments)
<1> DEFINE D == DOMAIN segments
           size == [s \in Seq(Heard) |-> Len(s)]
           tokens == [s \in Seq(D) |-> CountsOf(s)]
<1>1. heard \in Seq(Seq(Heard)) /\ groups \in Seq(Seq(D))
  BY AlignedTypes
<1>2. (\A g \in DOMAIN heard : heard[g] \in Seq(Heard)) /\ \A g \in DOMAIN groups : groups[g] \in Seq(D)
  BY AlignedTypes
<1>3. Flat \in Seq(Heard) /\ Served \in Seq(D)
  BY <1>1, FlattenMembers DEF Flat, Served
<1>4. size[Flat] = Total([g \in DOMAIN heard |-> size[heard[g]]])
  <2>1. <<>> \in Seq(Heard) /\ size[<<>>] = 0
    OBVIOUS
  <2>2. \A a \in Seq(Heard) : size[a] \in Nat
    OBVIOUS
  <2>3. ASSUME NEW a \in Seq(Heard), NEW c \in Seq(Heard)
        PROVE  size[a \o c] = size[a] + size[c]
    <3>1. a \o c \in Seq(Heard) /\ Len(a \o c) = Len(a) + Len(c)
      OBVIOUS
    <3> QED BY <3>1
  <2> HIDE DEF size
  <2>4. size[<<>>] = 0
    BY <2>1
  <2> QED BY <1>1, <2>2, <2>3, <2>4, FlattenWeighs DEF Flat
<1>5. tokens[Served] = Total([g \in DOMAIN groups |-> tokens[groups[g]]])
  <2>1. <<>> \in Seq(D) /\ \A a \in Seq(D) : CountsOf(a) \in Nat /\ CountsOf(<<>>) = 0
    <3> DEFINE e == <<>>
    <3>1. e \in Seq(D)
      OBVIOUS
    <3>2. e \o e = e
      OBVIOUS
    <3> HIDE DEF e
    <3>3. CountsOf(e \o e) = CountsOf(e) + CountsOf(e) /\ CountsOf(e) \in Nat
      BY <3>1, CountsAdd DEF AlignedOK
    <3>4. CountsOf(e) = 0
      BY <3>2, <3>3
    <3>5. \A a \in Seq(D) : CountsOf(a) \in Nat
      BY CountsAdd DEF AlignedOK
    <3> QED BY <3>1, <3>4, <3>5 DEF e
  <2>2. tokens[<<>>] = 0 /\ \A a \in Seq(D) : tokens[a] \in Nat
    BY <2>1
  <2>3. ASSUME NEW a \in Seq(D), NEW c \in Seq(D)
        PROVE  tokens[a \o c] = tokens[a] + tokens[c]
    <3>1. a \o c \in Seq(D)
      OBVIOUS
    <3>2. CountsOf(a \o c) = CountsOf(a) + CountsOf(c)
      BY CountsAdd DEF AlignedOK
    <3> QED BY <3>1, <3>2
  <2> HIDE DEF tokens, D
  <2> QED BY <1>1, <2>2, <2>3, FlattenWeighs DEF Served
<1>6. [g \in DOMAIN heard |-> size[heard[g]]] = [g \in DOMAIN heard |-> Len(heard[g])]
  BY <1>2
<1>7. [g \in DOMAIN groups |-> tokens[groups[g]]] = [g \in DOMAIN groups |-> WindowTokens(g)]
  <2>1. \A g \in DOMAIN groups : WindowTokens(g) = CountsOf(groups[g])
    BY DEF WindowTokens, CountsOf
  <2> QED BY <1>2, <2>1
<1>8. size[Flat] = Len(Flat) /\ tokens[Served] = CountsOf(Served)
  BY <1>3
<1> HIDE DEF size, tokens
<1> QED BY <1>3, <1>4, <1>5, <1>6, <1>7, <1>8

\* When the totals agree and the miscounts do not cancel out there are none.
LEMMA NoneSlipped ==
  ASSUME AlignedOK, CountsAgree, ~SlipsCancel
  PROVE  \A g \in DOMAIN heard : Names(heard[g]) = Text(g)
<1> DEFINE n == Len(groups)
           a == [g \in DOMAIN heard |-> Len(heard[g])]
           b == [g \in DOMAIN groups |-> WindowTokens(g)]
           d == [g \in DOMAIN heard |-> Slips(g)]
<1>1. /\ n \in Nat /\ DOMAIN heard = 1..n /\ DOMAIN groups = 1..n
      /\ \A g \in 1..n : HeardIn(heard[g], g) /\ heard[g] \in Seq(Heard)
  BY AlignedTypes
<1> HIDE DEF n
<1>2. ASSUME NEW g \in 1..n
      PROVE  a[g] \in Nat /\ b[g] \in Nat /\ d[g] = a[g] - b[g]
  <2>1. Len(Text(g)) = CountsOf(groups[g]) /\ CountsOf(groups[g]) \in Nat
    BY <1>1, TextSpells DEF AlignedOK
  <2>2. WindowTokens(g) = CountsOf(groups[g])
    BY DEF WindowTokens, CountsOf
  <2>3. Len(heard[g]) \in Nat
    BY <1>1
  <2>4. a[g] = Len(heard[g]) /\ b[g] = WindowTokens(g) /\ d[g] = Len(heard[g]) - Len(Text(g))
    BY <1>1 DEF Slips
  <2> QED BY <2>1, <2>2, <2>3, <2>4
<1>3. DOMAIN a = 1..n /\ DOMAIN b = 1..n /\ DOMAIN d = 1..n
  BY <1>1
<1>4. Len(Flat) = Total(a) /\ Len(Words) = Total(b)
  BY WordCounts DEF CountsAgree
<1>5. Words = Flat
  BY WordsAreFlat
<1> HIDE DEF a, b, d
<1>6. Total(d) = Total(a) - Total(b) /\ Total(a) \in Nat /\ Total(b) \in Nat
  <2>1. n \in Nat /\ DOMAIN a = 1..n /\ DOMAIN b = 1..n /\ DOMAIN d = 1..n
    BY <1>1, <1>3
  <2>2. \A g \in 1..n : a[g] \in Nat /\ b[g] \in Nat /\ d[g] = a[g] - b[g]
    BY <1>2
  <2>3. n \in Nat
    BY <1>1
  <2>4. Difference(d, a, b, n)
    BY <2>1, <2>2 DEF Difference
  <2> QED BY <2>3, <2>4, TotalDifference
<1>7. Total(d) = 0
  BY <1>4, <1>5, <1>6
<1>8. \A g \in DOMAIN heard : Slips(g) = 0
  BY <1>7 DEF SlipsCancel, d
<1> QED BY <1>1, <1>8 DEF HeardIn, Slips

\* The names of a concatenation.
LEMMA NamesJoin ==
  ASSUME NEW a \in Seq(Heard), NEW c \in Seq(Heard)
  PROVE  Names(a) \in Seq(Int) /\ Names(c) \in Seq(Int) /\ Names(a \o c) = Names(a) \o Names(c)
<1> DEFINE l == Len(a)
           m == Len(c)
           ac == a \o c
<1>1. /\ l \in Nat /\ m \in Nat /\ DOMAIN a = 1..l /\ DOMAIN c = 1..m /\ DOMAIN ac = 1..(l + m)
      /\ \A k \in 1..(l + m) : ac[k] = IF k <= l THEN a[k] ELSE c[k - l]
  OBVIOUS
<1>2. (\A k \in 1..l : a[k].of \in Int) /\ \A k \in 1..m : c[k].of \in Int
  <2>1. (\A k \in 1..l : a[k] \in Heard) /\ \A k \in 1..m : c[k] \in Heard
    OBVIOUS
  <2> HIDE DEF l, m
  <2> QED BY <2>1 DEF Heard
<1> HIDE DEF l, m, ac
<1>3. Names(a) = [k \in 1..l |-> a[k].of] /\ Names(c) = [k \in 1..m |-> c[k].of]
      /\ Names(ac) = [k \in 1..(l + m) |-> ac[k].of]
  BY <1>1 DEF Names
<1>4. Names(a) \in Seq(Int) /\ Names(c) \in Seq(Int) /\ Len(Names(a)) = l /\ Len(Names(c)) = m
  BY <1>1, <1>2, <1>3
<1>5. Names(a) \o Names(c) =
        [k \in 1..(l + m) |-> IF k <= l THEN Names(a)[k] ELSE Names(c)[k - l]]
  <2> DEFINE x == Names(a)
             y == Names(c)
  <2> HIDE DEF x, y
  <2>1. x \in Seq(Int) /\ y \in Seq(Int) /\ Len(x) = l /\ Len(y) = m
    BY <1>4 DEF x, y
  <2> DEFINE xy == x \o y
  <2>2. xy \in Seq(Int) /\ Len(xy) = l + m
        /\ \A k \in 1..(l + m) : xy[k] = IF k <= l THEN x[k] ELSE y[k - l]
    BY <2>1, JoinedAt
  <2>3. xy = [k \in 1..(l + m) |-> xy[k]]
    BY <2>2, SeqIsFunction
  <2> HIDE DEF xy
  <2>4. xy = [k \in 1..(l + m) |-> IF k <= l THEN x[k] ELSE y[k - l]]
    BY <2>2, <2>3
  <2> QED BY <2>4 DEF x, y, xy
<1>6. \A k \in 1..(l + m) : ac[k].of = IF k <= l THEN Names(a)[k] ELSE Names(c)[k - l]
  <2>1. \A k \in 1..(l + m) : IF k <= l THEN k \in 1..l ELSE k - l \in 1..m
    BY <1>1
  <2> QED BY <1>1, <1>3, <2>1
<1>7. Names(ac) = Names(a) \o Names(c)
  BY <1>3, <1>5, <1>6
<1> QED BY <1>4, <1>7 DEF ac

\* The words, one after the other, are those of the segments served.
LEMMA FlatSpells ==
  ASSUME AlignedOK, \A g \in DOMAIN heard : Names(heard[g]) = Text(g)
  PROVE  Spells(Names(Flat), Served)
<1> DEFINE D == DOMAIN segments
           R == {ws \in Seq(Heard) \X Seq(D) : Spells(Names(ws[1]), ws[2])}
<1>1. /\ heard \in Seq(Seq(Heard)) /\ groups \in Seq(Seq(D)) /\ Len(heard) = Len(groups)
      /\ DOMAIN heard = 1..Len(heard) /\ DOMAIN groups = 1..Len(heard)
      /\ \A g \in 1..Len(heard) : heard[g] \in Seq(Heard) /\ groups[g] \in Seq(D)
  BY AlignedTypes
<1>2. \A g \in 1..Len(heard) : <<heard[g], groups[g]>> \in R
  <2>1. \A g \in 1..Len(heard) : Spells(Text(g), groups[g])
    BY <1>1, TextSpells DEF AlignedOK
  <2> QED BY <1>1, <2>1
<1>3. <<<<>>, <<>>>> \in R
  <2> DEFINE e == <<>>
             c == [k \in 0..0 |-> 0]
  <2>1. Len(e) = 0 /\ c[0] = 0 /\ 1..0 = {} /\ DOMAIN e = {}
    OBVIOUS
  <2>2. e \in Seq(Heard) /\ e \in Seq(D)
    OBVIOUS
  <2>3. Names(e) = e
    BY <2>1 DEF Names
  <2> HIDE DEF e, c
  <2>4. Cursors(c, e)
    BY <2>1 DEF Cursors
  <2>5. Spells(e, e)
    BY <2>1, <2>4 DEF Spells
  <2>6. <<e, e>> \in R
    BY <2>2, <2>3, <2>5
  <2> QED BY <2>6 DEF e
<1>4. ASSUME NEW a \in Seq(Heard), NEW s \in Seq(D), NEW b \in Seq(Heard), NEW r \in Seq(D),
             <<a, s>> \in R, <<b, r>> \in R
      PROVE  <<a \o b, s \o r>> \in R
  <2>1. Spells(Names(a), s) /\ Spells(Names(b), r)
    BY <1>4
  <2>2. Names(a) \in Seq(Int) /\ Names(b) \in Seq(Int) /\ Names(a \o b) = Names(a) \o Names(b)
    BY NamesJoin
  <2>3. Spells(Names(a) \o Names(b), s \o r)
    BY <2>1, <2>2, SpellsJoin DEF AlignedOK
  <2>4. a \o b \in Seq(Heard) /\ s \o r \in Seq(D)
    OBVIOUS
  <2> QED BY <2>2, <2>3, <2>4
<1>5. <<FlattenSeq(heard), FlattenSeq(groups)>> \in R
  <2> HIDE DEF R, D
  <2> QED BY <1>1, <1>2, <1>3, <1>4, FlattenPairs
<1> QED BY <1>5 DEF Flat, Served

-----------------------------------------------------------------------------
(* distribute_words                                                        *)

\* A segment with tokens is served, and what is served before it is a prefix.
LEMMA ServedPosition ==
  ASSUME AlignedOK, NEW i \in Spoken
  PROVE  \E p \in 1..Len(Served) : Served[p] = i /\ ServedBefore(i) = SubSeq(Served, 1, p - 1)
<1> DEFINE n == Len(Served)
           I == {p \in 1..n : Served[p] = i}
<1>1. Served \in Seq(DOMAIN segments)
  BY WordCounts
<1>2. n \in Nat /\ DOMAIN Served = 1..n
  BY <1>1
<1>3. I # {}
  <2>1. PICK g \in DOMAIN groups : \E m \in DOMAIN groups[g] : groups[g][m] = i
    BY DEF AlignedOK, GroupsOK
  <2>2. PICK m \in DOMAIN groups[g] : groups[g][m] = i
    BY <2>1
  <2>3. groups \in Seq(Seq(DOMAIN segments))
    BY AlignedTypes
  <2>4. \E p \in DOMAIN FlattenSeq(groups) : FlattenSeq(groups)[p] = groups[g][m]
    BY <2>3, FlattenMembers
  <2> QED BY <1>2, <2>2, <2>4 DEF Served
<1>4. ServedBefore(i) = SubSeq(Served, 1, Min(I) - 1)
  BY <1>3 DEF ServedBefore, SelectInSeq, Served
<1>5. I \subseteq 1..n
  OBVIOUS
<1> HIDE DEF n
<1>6. IsFiniteSet(I) /\ I \subseteq Int
  <2>1. IsFiniteSet(1..n)
    BY <1>2, FS_Interval
  <2>2. IsFiniteSet(I)
    BY <1>5, <2>1, FS_Subset
  <2> QED BY <1>2, <1>5, <2>2
<1> HIDE DEF I
<1>7. Min(I) \in I
  BY <1>3, <1>6, Extrema
<1> QED BY <1>4, <1>7 DEF I, n

\* The cursor of a segment counts the tokens before it.
LEMMA CursorsOfFront ==
  ASSUME InputOK, NEW ids \in Seq(DOMAIN segments), NEW c, Cursors(c, ids), NEW p \in 1..Len(ids)
  PROVE  CountsOf(SubSeq(ids, 1, p - 1)) = c[p - 1]
<1> DEFINE front == SubSeq(ids, 1, p - 1)
<1>1. /\ front \in Seq(DOMAIN segments) /\ Len(front) = p - 1 /\ Len(ids) \in Nat
      /\ \A k \in 1..(p - 1) : front[k] = ids[k]
  OBVIOUS
<1> HIDE DEF front
<1>2. Cursors(c, front)
  <2>1. \A k \in 1..(p - 1) : k \in 1..Len(ids)
    BY <1>1
  <2> QED BY <1>1, <2>1 DEF Cursors
<1>3. CountsOf(front) = c[Len(front)]
  BY <1>1, <1>2, CursorTypes
<1> QED BY <1>1, <1>3 DEF front

\* The words of segment i are the Tokens(i) that follow position x.
SliceAt(i, x) ==
  /\ x \in Nat /\ x + Tokens(i) <= Len(Flat)
  /\ WordsOf(i) \in Seq(Heard) /\ Len(WordsOf(i)) = Tokens(i)
  /\ \A k \in 1..Tokens(i) : WordsOf(i)[k] = Flat[x + k]

\* What distribute_words hands a segment is the slice at its cursor.
LEMMA WordsAreSlices ==
  ASSUME AlignedOK, CountsAgree, NEW c, Cursors(c, Served), NEW i \in Spoken
  PROVE  \E p \in 1..Len(Served) :
           /\ Served[p] = i
           /\ c[p - 1] \in Nat /\ c[p] = c[p - 1] + Tokens(i) /\ SliceAt(i, c[p - 1])
<1>1. PICK p \in 1..Len(Served) : Served[p] = i /\ ServedBefore(i) = SubSeq(Served, 1, p - 1)
  BY ServedPosition
<1> DEFINE n == Len(Served)
           x == c[p - 1]
           t == Tokens(i)
<1>2. Served \in Seq(DOMAIN segments) /\ n \in Nat /\ InputOK
  <2>1. Served \in Seq(DOMAIN segments)
    BY WordCounts
  <2> QED BY <2>1 DEF AlignedOK
<1>3. CountsOf(SubSeq(Served, 1, p - 1)) = x
  BY <1>2, CursorsOfFront
<1>4. WordsOf(i) = SubSeq(Words, x + 1, x + t)
  <2>1. CountsOf(ServedBefore(i)) = x
    BY <1>1, <1>3
  <2> QED BY <2>1 DEF WordsOf, CountsOf
<1>5. Flat \in Seq(Heard) /\ Words = Flat
  BY FlatAscends, WordsAreFlat
<1>6. x \in Nat /\ c[p] \in Nat /\ c[p] <= c[n] /\ CountsOf(Served) = c[n] /\ c[n] \in Nat
  <2>1. p - 1 \in 0..n /\ p \in 0..n /\ n \in 0..n /\ p <= n
    BY <1>2
  <2>2. /\ \A k \in 0..n : c[k] \in Nat
        /\ \A k, l \in 0..n : k <= l => c[k] <= c[l]
        /\ CountsOf(Served) = c[n]
    BY <1>2, CursorTypes
  <2> QED BY <2>1, <2>2
<1>7. c[p] = x + t /\ t \in Nat
  <2>1. Tokens(i) \in Nat
    BY <1>2, SegmentTypes DEF Spoken
  <2> QED BY <1>1, <2>1 DEF Cursors
<1>8. Len(Flat) = CountsOf(Served)
  BY <1>5, WordCounts DEF CountsAgree
<1> DEFINE w == WordsOf(i)
           total == Len(Flat)
<1>9. total \in Nat /\ x + t <= total
  BY <1>5, <1>6, <1>7, <1>8
<1>10. w = SubSeq(Flat, x + 1, x + t)
  BY <1>4, <1>5
<1> HIDE DEF w, x, t
<1>11. w \in Seq(Heard) /\ Len(w) = t /\ \A k \in 1..t : w[k] = Flat[x + k]
  <2>1. PICK f \in Seq(Heard) : f = Flat
    BY <1>5
  <2>2. x + 1 \in Nat /\ x + t \in Nat /\ x + t <= Len(f)
    BY <1>6, <1>7, <1>9, <2>1
  <2>3. w = SubSeq(f, x + 1, x + t)
    BY <1>10, <2>1
  <2>4. w \in Seq(Heard) /\ Len(w) = t
    BY <1>6, <1>7, <2>2, <2>3
  <2>5. \A k \in 1..t : w[k] = f[x + k]
    BY <1>6, <1>7, <2>2, <2>3, SMTT(30)
  <2> QED BY <2>1, <2>4, <2>5
<1>12. SliceAt(i, x)
  BY <1>6, <1>9, <1>11 DEF SliceAt, w, t
<1> QED BY <1>1, <1>6, <1>7, <1>12 DEF x, t

\* Every word of one comes before every word of the other.
Precedes(v, w) == \A k \in DOMAIN v, l \in DOMAIN w : v[k].start < w[l].start

HandedOK(words) ==
  /\ DOMAIN words = DOMAIN segments
  /\ \A i \in DOMAIN segments :
       /\ words[i] \in Seq(Heard) /\ Len(words[i]) = Tokens(i)
       /\ Ascending(words[i])
  /\ \A i, j \in DOMAIN segments :
       i # j => Precedes(words[i], words[j]) \/ Precedes(words[j], words[i])
  /\ ~SlipsCancel => \A i \in DOMAIN segments : \A k \in DOMAIN words[i] : words[i][k].of = i

Distributed == [i \in DOMAIN segments |-> IF Tokens(i) > 0 THEN WordsOf(i) ELSE <<>>]

\* When the totals agree, every segment gets a slice of its own.
LEMMA DistributedOK ==
  ASSUME AlignedOK, CountsAgree
  PROVE  HandedOK(Distributed)
<1> DEFINE n == Len(Served)
           D == DOMAIN segments
<1>0. InputOK /\ Served \in Seq(D) /\ n \in Nat /\ DOMAIN Served = 1..n
  <2>1. Served \in Seq(D)
    BY WordCounts
  <2> QED BY <2>1 DEF AlignedOK
<1>1. PICK c : Cursors(c, Served) /\
               (~SlipsCancel =>
                  \A p \in 1..n : \A t \in 1..Tokens(Served[p]) :
                    Names(Flat)[c[p - 1] + t] = Served[p])
  <2>1. CASE SlipsCancel
    <3>1. PICK c : Cursors(c, Served)
      BY <1>0, CursorsExist
    <3> QED BY <2>1, <3>1
  <2>2. CASE ~SlipsCancel
    <3>1. \A g \in DOMAIN heard : Names(heard[g]) = Text(g)
      BY <2>2, NoneSlipped
    <3>2. Spells(Names(Flat), Served)
      BY <3>1, FlatSpells
    <3> QED BY <3>2 DEF Spells
  <2> QED BY <2>1, <2>2
<1>2. Flat \in Seq(Heard) /\ Ascending(Flat)
  BY FlatAscends
<1>3. /\ \A p \in 0..n : c[p] \in Nat
      /\ \A p, q \in 0..n : p <= q => c[p] <= c[q]
  BY <1>0, <1>1, CursorTypes
<1> HIDE DEF n
<1>4. ASSUME NEW i \in Spoken
      PROVE  /\ i \in D /\ Tokens(i) \in Nat
             /\ Distributed[i] \in Seq(Heard) /\ Len(Distributed[i]) = Tokens(i)
             /\ DOMAIN Distributed[i] = 1..Tokens(i)
             /\ Distributed[i] = WordsOf(i)
             /\ \E p \in 1..n : /\ Served[p] = i /\ c[p - 1] \in Nat
                                /\ c[p] = c[p - 1] + Tokens(i) /\ SliceAt(i, c[p - 1])
  <2>1. i \in D /\ Tokens(i) > 0
    BY DEF Spoken
  <2>2. Tokens(i) \in Nat
    BY <1>0, <2>1, SegmentTypes
  <2>3. Distributed[i] = WordsOf(i)
    BY <2>1 DEF Distributed
  <2>4. PICK p \in 1..n : /\ Served[p] = i /\ c[p - 1] \in Nat
                          /\ c[p] = c[p - 1] + Tokens(i) /\ SliceAt(i, c[p - 1])
    BY <1>1, WordsAreSlices DEF n
  <2>5. WordsOf(i) \in Seq(Heard) /\ Len(WordsOf(i)) = Tokens(i)
    BY <2>4 DEF SliceAt
  <2>6. DOMAIN WordsOf(i) = 1..Tokens(i)
    <3> DEFINE w == WordsOf(i)
    <3>1. w \in Seq(Heard) /\ Len(w) = Tokens(i)
      BY <2>5
    <3> HIDE DEF w
    <3>2. DOMAIN w = 1..Tokens(i)
      BY <3>1
    <3> QED BY <3>2 DEF w
  <2> QED BY <2>1, <2>2, <2>3, <2>4, <2>5, <2>6
<1>5. ASSUME NEW i \in D, i \notin Spoken
      PROVE  Tokens(i) = 0 /\ Distributed[i] = <<>> /\ DOMAIN Distributed[i] = {}
  <2>1. Tokens(i) \in Nat /\ ~(Tokens(i) > 0)
    BY <1>0, <1>5, SegmentTypes DEF Spoken
  <2> QED BY <2>1 DEF Distributed
<1>6. DOMAIN Distributed = D
  BY DEF Distributed
<1>7. ASSUME NEW i \in Spoken, NEW x \in Nat, SliceAt(i, x), NEW k \in 1..Tokens(i)
      PROVE  /\ x + k \in DOMAIN Flat /\ Distributed[i][k] = Flat[x + k]
             /\ Distributed[i][k].start = Flat[x + k].start
  <2>1. Distributed[i][k] = Flat[x + k]
    BY <1>4, <1>7 DEF SliceAt
  <2>2. x + k \in DOMAIN Flat
    <3> DEFINE l == Len(Flat)
               t == Tokens(i)
    <3>1. l \in Nat /\ DOMAIN Flat = 1..l /\ t \in Nat /\ x + t <= l /\ k \in 1..t
      BY <1>2, <1>4, <1>7 DEF SliceAt
    <3> HIDE DEF l, t
    <3> QED BY <3>1
  <2> QED BY <2>1, <2>2
<1>8. ASSUME NEW i \in D
      PROVE  /\ Distributed[i] \in Seq(Heard) /\ Len(Distributed[i]) = Tokens(i)
             /\ Ascending(Distributed[i])
  <2>1. CASE i \in Spoken
    <3>1. PICK p \in 1..n : c[p - 1] \in Nat /\ SliceAt(i, c[p - 1])
      BY <1>4, <2>1
    <3> DEFINE x == c[p - 1]
    <3>2. x \in Nat /\ SliceAt(i, x)
      BY <3>1
    <3> HIDE DEF x
    <3>3. ASSUME NEW k \in 1..Tokens(i), NEW l \in 1..Tokens(i), k < l
          PROVE  Distributed[i][k].start < Distributed[i][l].start
      <4>1. x + k \in DOMAIN Flat /\ x + l \in DOMAIN Flat /\ x + k < x + l
        BY <1>7, <2>1, <3>2, <3>3
      <4>2. Flat[x + k].start < Flat[x + l].start
        BY <1>2, <4>1 DEF Ascending
      <4> QED BY <1>7, <2>1, <3>2, <4>2
    <3>4. Ascending(Distributed[i])
      BY <1>4, <2>1, <3>3 DEF Ascending
    <3> QED BY <1>4, <2>1, <3>4
  <2>2. CASE i \notin Spoken
    <3>1. Ascending(<<>>)
      BY DEF Ascending
    <3>2. <<>> \in Seq(Heard) /\ Len(<<>>) = 0
      OBVIOUS
    <3> QED BY <1>5, <2>2, <3>1, <3>2
  <2> QED BY <2>1, <2>2
<1>9. ASSUME NEW i \in D, NEW j \in D, i # j
      PROVE  Precedes(Distributed[i], Distributed[j]) \/ Precedes(Distributed[j], Distributed[i])
  <2>1. CASE i \in Spoken /\ j \in Spoken
    <3>1. PICK p \in 1..n : /\ Served[p] = i /\ c[p - 1] \in Nat
                            /\ c[p] = c[p - 1] + Tokens(i) /\ SliceAt(i, c[p - 1])
      BY <1>4, <2>1
    <3>2. PICK q \in 1..n : /\ Served[q] = j /\ c[q - 1] \in Nat
                            /\ c[q] = c[q - 1] + Tokens(j) /\ SliceAt(j, c[q - 1])
      BY <1>4, <2>1
    <3> DEFINE x == c[p - 1]
               y == c[q - 1]
    <3>3. x \in Nat /\ SliceAt(i, x) /\ y \in Nat /\ SliceAt(j, y)
          /\ Tokens(i) \in Nat /\ Tokens(j) \in Nat
      BY <1>4, <2>1, <3>1, <3>2
    <3>4. x + Tokens(i) <= y \/ y + Tokens(j) <= x
      <4>1. /\ p \in 0..n /\ q \in 0..n /\ p - 1 \in 0..n /\ q - 1 \in 0..n
            /\ p <= q - 1 \/ q <= p - 1
        BY <1>0, <1>9, <3>1, <3>2
      <4>2. c[p] <= c[q - 1] \/ c[q] <= c[p - 1]
        BY <1>3, <4>1
      <4> QED BY <3>1, <3>2, <4>2
    <3> HIDE DEF x, y
    <3>5. ASSUME NEW k \in 1..Tokens(i), NEW l \in 1..Tokens(j)
          PROVE  /\ x + Tokens(i) <= y => Distributed[i][k].start < Distributed[j][l].start
                 /\ y + Tokens(j) <= x => Distributed[j][l].start < Distributed[i][k].start
      <4>1. /\ x + k \in DOMAIN Flat /\ Distributed[i][k].start = Flat[x + k].start
            /\ y + l \in DOMAIN Flat /\ Distributed[j][l].start = Flat[y + l].start
        BY <1>7, <2>1, <3>3
      <4>2. /\ x + Tokens(i) <= y => x + k < y + l
            /\ y + Tokens(j) <= x => y + l < x + k
        BY <3>3
      <4> QED BY <1>2, <4>1, <4>2 DEF Ascending
    <3>6. DOMAIN Distributed[i] = 1..Tokens(i) /\ DOMAIN Distributed[j] = 1..Tokens(j)
      BY <1>4, <2>1
    <3> QED BY <3>4, <3>5, <3>6 DEF Precedes
  <2>2. CASE i \notin Spoken \/ j \notin Spoken
    <3>1. DOMAIN Distributed[i] = {} \/ DOMAIN Distributed[j] = {}
      BY <1>5, <2>2
    <3> QED BY <3>1 DEF Precedes
  <2> QED BY <2>1, <2>2
<1>10. ASSUME ~SlipsCancel, NEW i \in D, NEW k \in DOMAIN Distributed[i]
       PROVE  Distributed[i][k].of = i
  <2>1. i \in Spoken
    BY <1>5
  <2>2. PICK p \in 1..n : Served[p] = i /\ c[p - 1] \in Nat /\ SliceAt(i, c[p - 1])
    BY <1>4, <2>1
  <2> DEFINE x == c[p - 1]
  <2>3. k \in 1..Tokens(i)
    BY <1>4, <2>1
  <2>4. Names(Flat)[x + k] = i
    BY <1>1, <1>10, <2>2, <2>3
  <2>5. x \in Nat /\ SliceAt(i, x)
    BY <2>2
  <2> HIDE DEF x
  <2>6. x + k \in DOMAIN Flat /\ Distributed[i][k] = Flat[x + k]
    BY <1>7, <2>1, <2>3, <2>5
  <2> QED BY <2>4, <2>6 DEF Names
<1> QED BY <1>6, <1>8, <1>9, <1>10 DEF HandedOK

-----------------------------------------------------------------------------
(* retime_segments                                                         *)

\* Sorted by their new starts, segments with words do not overlap.
LEMMA RetimedInOrder ==
  ASSUME InputOK, HandedOK(handed), output = Chronological
  PROVE  \A m, n \in DOMAIN output :
           m < n /\ handed[output[m]] # <<>> /\ handed[output[n]] # <<>> =>
             NewEnd(output[m]) <= NewStart(output[n])
<1> DEFINE D == DOMAIN segments
           key == [i \in D |-> NewStart(i)]
           N == Cardinality(D)
<1>1. D \in SUBSET Int /\ IsFiniteSet(D)
  <2>1. Len(segments) \in Nat /\ D = 1..Len(segments)
    BY SegmentTypes
  <2> QED BY <2>1, FS_Interval
<1>2. ASSUME NEW i \in D, handed[i] # <<>>
      PROVE  /\ 1 \in DOMAIN handed[i] /\ Len(handed[i]) \in DOMAIN handed[i]
             /\ NewStart(i) = handed[i][1].start /\ NewStart(i) \in Nat
             /\ NewEnd(i) = handed[i][Len(handed[i])].start + 1 /\ NewEnd(i) \in Nat
             /\ handed[i][Len(handed[i])].start \in Nat
  <2> DEFINE w == handed[i]
             l == Len(handed[i])
  <2>1. w \in Seq(Heard) /\ w # <<>>
    BY <1>2 DEF HandedOK
  <2>2. NewStart(i) = w[1].start /\ NewEnd(i) = w[l].start + 1
    BY <1>2 DEF NewStart, NewEnd, Last
  <2> HIDE DEF w
  <2>3. Len(w) \in Nat /\ 1 \in DOMAIN w /\ Len(w) \in DOMAIN w /\ w[1] \in Heard /\ w[Len(w)] \in Heard
    BY <2>1
  <2> QED BY <2>2, <2>3 DEF w, Heard
<1>3. \A i \in D : key[i] \in Int
  <2>1. ASSUME NEW i \in D PROVE NewStart(i) \in Int
    <3>1. CASE handed[i] # <<>>
      BY <1>2, <3>1
    <3>2. CASE handed[i] = <<>>
      BY <3>2, SegmentTypes DEF NewStart
    <3> QED BY <3>1, <3>2
  <2> QED BY <2>1
<1>4. Chronological = SortedBy(D, key)
  BY DEF Chronological
<1>5. \A i \in D : key[i] = NewStart(i)
  OBVIOUS
<1> HIDE DEF key, D
<1>6. /\ N \in Nat /\ output \in [1..N -> D]
      /\ \A k, l \in 1..N : k < l => Before(key, output[k], output[l])
  <2> HIDE DEF N
  <2>1. /\ N \in Nat /\ SortedBy(D, key) \in [1..N -> D]
        /\ \A k, l \in 1..N : k < l => Before(key, SortedBy(D, key)[k], SortedBy(D, key)[l])
    BY <1>1, <1>3, SortedByKey DEF N
  <2> QED BY <1>4, <2>1
<1> HIDE DEF N
<1> SUFFICES ASSUME NEW m \in 1..N, NEW n \in 1..N, m < n,
                    handed[output[m]] # <<>>, handed[output[n]] # <<>>
             PROVE  NewEnd(output[m]) <= NewStart(output[n])
  BY <1>6
<1> DEFINE i == output[m]
           j == output[n]
<1>7. i \in D /\ j \in D /\ Before(key, i, j)
  BY <1>6
<1> HIDE DEF i, j
<1>8. handed[i] # <<>> /\ handed[j] # <<>>
  BY DEF i, j
<1>9. i \in Int /\ j \in Int /\ i # j /\ NewStart(i) <= NewStart(j)
  <2>1. i \in Int /\ j \in Int /\ NewStart(i) \in Nat /\ NewStart(j) \in Nat
    BY <1>1, <1>2, <1>7, <1>8
  <2> QED BY <1>5, <1>7, <2>1 DEF Before
<1>10. ~ Precedes(handed[j], handed[i])
  <2>1. /\ 1 \in DOMAIN handed[i] /\ NewStart(i) = handed[i][1].start /\ NewStart(i) \in Nat
        /\ 1 \in DOMAIN handed[j] /\ NewStart(j) = handed[j][1].start /\ NewStart(j) \in Nat
    BY <1>2, <1>7, <1>8
  <2>2. SUFFICES ASSUME Precedes(handed[j], handed[i]) PROVE FALSE
    OBVIOUS
  <2>3. handed[j][1].start < handed[i][1].start
    BY <2>1, <2>2 DEF Precedes
  <2> QED BY <1>9, <2>1, <2>3
<1>11. Precedes(handed[i], handed[j])
  BY <1>7, <1>9, <1>10 DEF HandedOK, D
<1>12. NewEnd(i) <= NewStart(j)
  BY <1>2, <1>7, <1>8, <1>11, SMTT(30) DEF Precedes
<1> QED BY <1>12 DEF i, j

-----------------------------------------------------------------------------
(* The invariant                                                           *)

\* What each step of align_transcript leaves behind for the next one.
AlignInv ==
  /\ pc \in {"group", "pad", "align", "retime", "done", "failed"}
  /\ InputOK
  /\ pc \in {"group", "pad"} => heard = <<>>
  /\ pc \in {"pad", "align", "retime", "done"} => GroupsOK
  /\ pc \in {"align", "retime", "done"} => WindowsOK(windows) /\ HeardOK
  /\ pc \in {"retime", "done"} => HandedOK(handed)
  /\ pc = "done" => output = Chronological

\* What the facts above speak of stays, and so do they.
LEMMA InputKept ==
  ASSUME InputOK, UNCHANGED <<segments, duration>>
  PROVE  InputOK'
BY DEF InputOK, StartOf, EndOf

LEMMA GroupsKept ==
  ASSUME GroupsOK, UNCHANGED <<segments, groups>>
  PROVE  GroupsOK'
BY DEF GroupsOK, NonEmptySeqs, Apart, Spoken, StartOf, EndOf, Tokens

LEMMA WindowsKept ==
  ASSUME WindowsOK(windows), UNCHANGED <<segments, groups, windows>>
  PROVE  WindowsOK(windows)'
BY DEF WindowsOK, StartOf, EndOf

LEMMA HeardInKept ==
  ASSUME NEW words, NEW g, HeardIn(words, g), UNCHANGED <<segments, groups, windows>>
  PROVE  HeardIn(words, g)'
<1>1. Text(g)' = Text(g)
  BY DEF Text, Tokens
<1> QED BY <1>1 DEF HeardIn

LEMMA HeardKept ==
  ASSUME HeardOK, UNCHANGED <<segments, groups, windows, heard>>
  PROVE  HeardOK'
<1>1. \A g \in DOMAIN heard : HeardIn(heard[g], g)'
  BY HeardInKept DEF HeardOK
<1> QED BY <1>1 DEF HeardOK

LEMMA HandedKept ==
  ASSUME HandedOK(handed), UNCHANGED <<segments, groups, heard, handed>>
  PROVE  HandedOK(handed)'
<1>1. SlipsCancel' = SlipsCancel
  BY DEF SlipsCancel, Slips, Text, Tokens
<1> QED BY <1>1 DEF HandedOK, Tokens

\* The invariant holds at the start and is kept by every step.
LEMMA InitAlignInv == Init => AlignInv
<1> SUFFICES ASSUME Init PROVE AlignInv
  OBVIOUS
<1>1. InputOK
  BY TranscriptsAssumption, DurationsAssumption DEF Init, InputOK, StartOf, EndOf
<1> QED BY <1>1 DEF Init, AlignInv

LEMMA GroupStep ==
  ASSUME AlignInv, GroupWindows
  PROVE  AlignInv'
<1>1. GroupingOf(Grouped, Spoken)
  BY GroupsAreApart DEF AlignInv
<1>2. GroupsOK'
  <2> DEFINE gs == Grouped.groups
  <2>1. /\ gs \in NonEmptySeqs(Spoken) /\ Apart(gs)
        /\ \A i \in Spoken : \E g \in DOMAIN gs : \E m \in DOMAIN gs[g] : gs[g][m] = i
    BY <1>1 DEF GroupingOf
  <2>2. groups' = gs /\ segments' = segments
    BY DEF GroupWindows
  <2> HIDE DEF gs
  <2> QED BY <2>1, <2>2 DEF GroupsOK, NonEmptySeqs, Apart, Spoken, StartOf, EndOf, Tokens
<1>3. InputOK'
  BY InputKept DEF AlignInv, GroupWindows
<1>4. pc' \in {"failed", "pad"} /\ heard' = <<>>
  BY DEF AlignInv, GroupWindows
<1> QED BY <1>2, <1>3, <1>4 DEF AlignInv

LEMMA PadStep ==
  ASSUME AlignInv, PadWindows
  PROVE  AlignInv'
<1>1. InputOK /\ GroupsOK /\ heard = <<>>
  BY DEF AlignInv, PadWindows
<1>2. InputOK' /\ GroupsOK'
  BY <1>1, InputKept, GroupsKept DEF PadWindows
<1>3. WindowsOK(windows)'
  <2>1. WindowsOK(Padded)
    BY <1>1, PaddedWindowsOK
  <2>2. windows' = Padded /\ segments' = segments /\ groups' = groups
    BY DEF PadWindows, Padded
  <2> QED BY <2>1, <2>2 DEF WindowsOK, StartOf, EndOf
<1>4. HeardOK'
  <2> DEFINE e == <<>>
  <2>1. e \in Seq(Seq(Heard)) /\ Len(e) = 0 /\ DOMAIN e = {}
    OBVIOUS
  <2>2. heard' = e /\ groups' = groups /\ Len(groups) \in Nat
    BY <1>1, GroupTypes DEF PadWindows
  <2> HIDE DEF e
  <2> QED BY <2>1, <2>2 DEF HeardOK
<1>5. pc' = "align"
  BY DEF PadWindows
<1> QED BY <1>2, <1>3, <1>4, <1>5 DEF AlignInv

LEMMA AlignStep ==
  ASSUME AlignInv, AlignWindow
  PROVE  AlignInv'
<1>1. InputOK /\ GroupsOK /\ WindowsOK(windows) /\ HeardOK
  BY DEF AlignInv, AlignWindow
<1>2. pc = "align" /\ UNCHANGED <<pc, segments, duration, groups, windows, handed, output>>
  BY DEF AlignWindow
<1>3. InputOK' /\ GroupsOK' /\ WindowsOK(windows)'
  BY <1>1, <1>2, InputKept, GroupsKept, WindowsKept
<1>4. HeardOK'
  <2> DEFINE g == Len(heard) + 1
  <2>1. PICK text \in {Text(g)} \cup Slipped(Text(g)) :
             \E from \in windows[g].start..(windows[g].end - Len(text)) :
               heard' = Append(heard, Timed(text, from))
    BY DEF AlignWindow
  <2>2. PICK from \in windows[g].start..(windows[g].end - Len(text)) :
             heard' = Append(heard, Timed(text, from))
    BY <2>1
  <2>3. g <= Len(groups)
    BY DEF AlignWindow
  <2> DEFINE words == Timed(text, from)
  <2>4. HeardIn(words, g)
    BY <1>1, <2>3, AlignHeard
  <2>5. heard' = Append(heard, words)
    BY <2>2
  <2> DEFINE W == Seq(Heard)
  <2>6. words \in W
    BY <2>4 DEF HeardIn
  <2>7. heard \in Seq(W)
    BY <1>1 DEF HeardOK
  <2> HIDE DEF words, W
  <2>8. /\ heard' \in Seq(W) /\ Len(heard') = g /\ DOMAIN heard' = 1..g
        /\ heard'[g] = words /\ \A h \in 1..g : h # g => h \in DOMAIN heard /\ heard'[h] = heard[h]
    BY <2>5, <2>6, <2>7
  <2> HIDE DEF g
  <2>9. ASSUME NEW h \in 1..g PROVE HeardIn(heard'[h], h)
    <3>1. CASE h = g
      BY <2>4, <2>8, <3>1
    <3>2. CASE h # g
      BY <1>1, <2>8, <3>2 DEF HeardOK
    <3> QED BY <3>1, <3>2
  <2>10. ASSUME NEW h \in 1..g PROVE HeardIn(heard[h], h)'
    <3>1. PICK x : x = heard'[h]
      OBVIOUS
    <3>2. HeardIn(x, h)'
      BY <1>2, <2>9, <3>1, HeardInKept
    <3> QED BY <3>1, <3>2 DEF HeardIn
  <2> QED BY <1>2, <2>3, <2>8, <2>10 DEF HeardOK, W
<1> QED BY <1>2, <1>3, <1>4 DEF AlignInv

LEMMA DistributeStep ==
  ASSUME AlignInv, DistributeWords
  PROVE  AlignInv'
<1>1. InputOK /\ GroupsOK /\ WindowsOK(windows) /\ HeardOK /\ Len(heard) = Len(groups)
  BY DEF AlignInv, DistributeWords
<1>2. UNCHANGED <<segments, duration, groups, windows, heard, output>>
  BY DEF DistributeWords
<1>3. InputOK' /\ GroupsOK' /\ WindowsOK(windows)' /\ HeardOK'
  BY <1>1, <1>2, InputKept, GroupsKept, WindowsKept, HeardKept
<1>4. CASE CountsAgree
  <2>1. HandedOK(Distributed)
    BY <1>1, <1>4, DistributedOK DEF AlignedOK
  <2>2. handed' = Distributed /\ pc' = "retime"
    BY <1>4 DEF DistributeWords, Distributed
  <2>3. HandedOK(handed)'
    <3>1. SlipsCancel' = SlipsCancel
      BY <1>2 DEF SlipsCancel, Slips, Text, Tokens
    <3> QED BY <1>2, <2>1, <2>2, <3>1 DEF HandedOK, Tokens
  <2> QED BY <1>3, <2>2, <2>3 DEF AlignInv
<1>5. CASE ~CountsAgree
  <2>1. pc' = "failed"
    BY <1>5 DEF DistributeWords
  <2> QED BY <1>3, <2>1 DEF AlignInv
<1> QED BY <1>4, <1>5

LEMMA RetimeStep ==
  ASSUME AlignInv, RetimeSegments
  PROVE  AlignInv'
<1>1. InputOK /\ GroupsOK /\ WindowsOK(windows) /\ HeardOK /\ HandedOK(handed)
  BY DEF AlignInv, RetimeSegments
<1>2. UNCHANGED <<segments, duration, groups, windows, heard, handed>>
  BY DEF RetimeSegments
<1>3. InputOK' /\ GroupsOK' /\ WindowsOK(windows)' /\ HeardOK' /\ HandedOK(handed)'
  BY <1>1, <1>2, InputKept, GroupsKept, WindowsKept, HeardKept, HandedKept
<1>4. output' = Chronological'
  <2>1. output' = Chronological
    BY DEF RetimeSegments
  <2>2. Chronological' = Chronological
    BY <1>2 DEF Chronological, NewStart, StartOf
  <2> QED BY <2>1, <2>2
<1>5. pc' = "done"
  BY DEF RetimeSegments
<1> QED BY <1>3, <1>4, <1>5 DEF AlignInv

LEMMA StutterStep ==
  ASSUME AlignInv, UNCHANGED vars
  PROVE  AlignInv'
<1>1. UNCHANGED <<pc, segments, duration, groups, windows, heard, handed, output>>
  BY DEF vars
<1>2. InputOK'
  BY <1>1, InputKept DEF AlignInv
<1>3. pc \in {"pad", "align", "retime", "done"} => GroupsOK'
  BY <1>1, GroupsKept DEF AlignInv
<1>4. pc \in {"align", "retime", "done"} => WindowsOK(windows)' /\ HeardOK'
  BY <1>1, WindowsKept, HeardKept DEF AlignInv
<1>5. pc \in {"retime", "done"} => HandedOK(handed)'
  BY <1>1, HandedKept DEF AlignInv
<1>6. Chronological' = Chronological
  BY <1>1 DEF Chronological, NewStart, StartOf
<1> QED BY <1>1, <1>2, <1>3, <1>4, <1>5, <1>6 DEF AlignInv

\* Every step of align_transcript leaves behind what the next one relies on.
THEOREM AlignInvariant == Spec => []AlignInv
<1>1. AlignInv /\ [Next]_vars => AlignInv'
  <2> SUFFICES ASSUME AlignInv, [Next]_vars PROVE AlignInv'
    OBVIOUS
  <2>1. CASE GroupWindows
    BY <2>1, GroupStep
  <2>2. CASE PadWindows
    BY <2>2, PadStep
  <2>3. CASE AlignWindow
    BY <2>3, AlignStep
  <2>4. CASE DistributeWords
    BY <2>4, DistributeStep
  <2>5. CASE RetimeSegments
    BY <2>5, RetimeStep
  <2>6. CASE UNCHANGED vars
    BY <2>6, StutterStep
  <2> QED BY <2>1, <2>2, <2>3, <2>4, <2>5, <2>6 DEF Next
<1> QED BY <1>1, InitAlignInv, PTL DEF Spec

\* pad_windows: the padded windows are disjoint, in order, and hold their
\* segments whole, and no other segment reaches into one.
THEOREM AlwaysWindowsApart == Spec => []WindowsApart
<1>1. AlignInv => WindowsApart
  <2> SUFFICES ASSUME AlignInv, pc \in {"align", "retime", "done"} PROVE WindowsApart
    BY DEF WindowsApart
  <2>1. InputOK /\ GroupsOK /\ WindowsOK(windows)
    BY DEF AlignInv
  <2> QED BY <2>1, WindowsHoldTheirSegments DEF WindowsApart
<1> QED BY <1>1, AlignInvariant, PTL

\* retime_segments: however the aligner miscounts, the retimed segments are
\* chronological and do not overlap.
THEOREM AlwaysRetimedApart == Spec => []RetimedApart
<1>1. AlignInv => RetimedApart
  <2> SUFFICES ASSUME AlignInv, pc = "done" PROVE RetimedApart
    BY DEF RetimedApart
  <2>1. InputOK /\ HandedOK(handed) /\ output = Chronological
    BY DEF AlignInv
  <2> QED BY <2>1, RetimedInOrder DEF RetimedApart
<1> QED BY <1>1, AlignInvariant, PTL

\* distribute_words: every segment gets the words of its own text, all of them
\* and in order, unless the miscounts of several windows cancel out.
THEOREM AlwaysWordsReachTheirSegments == Spec => []WordsReachTheirSegments
<1>1. AlignInv => WordsReachTheirSegments
  <2> SUFFICES ASSUME AlignInv, pc = "done", ~SlipsCancel, NEW i \in DOMAIN segments
               PROVE  [k \in DOMAIN handed[i] |-> handed[i][k].of] = [k \in 1..Tokens(i) |-> i]
    BY DEF WordsReachTheirSegments
  <2>1. /\ handed[i] \in Seq(Heard) /\ Len(handed[i]) = Tokens(i)
        /\ \A k \in DOMAIN handed[i] : handed[i][k].of = i
    BY DEF AlignInv, HandedOK
  <2>2. DOMAIN handed[i] = 1..Tokens(i)
    <3>1. PICK w \in Seq(Heard) : w = handed[i]
      BY <2>1
    <3>2. DOMAIN w = 1..Len(w)
      BY <3>1
    <3> QED BY <2>1, <3>1, <3>2
  <2> QED BY <2>1, <2>2
<1> QED BY <1>1, AlignInvariant, PTL
=============================================================================
