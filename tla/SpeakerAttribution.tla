------------------------- MODULE SpeakerAttribution -------------------------
(***************************************************************************)
(* The pure algorithms of pipeline/diarize.py that give each word of a     *)
(* transcript a speaker and the transcript its lines.                      *)
(*                                                                         *)
(* A word is [start, end, ends, low, anchored]: it ends a sentence         *)
(* (_ends_sentence), continues one (_continues_sentence), and is found in  *)
(* the text of its line, as it is unless it is empty; an empty word        *)
(* neither ends nor continues a sentence.  A turn or a reference span is   *)
(* [start, end, speaker], speakers are numbers (SPEAKER_07 is 7), and a    *)
(* line is [speaker, first, last], its first and last word.  Times are     *)
(* ticks, shares are percentages.                                          *)
(***************************************************************************)
EXTENDS StableSort, Sequences, SequencesExt, FiniteSetsExt

CONSTANTS  \* AttributionTuning
  MinCoverage, InheritMaxGap,
  IslandMaxWords, IslandMaxDuration, IslandMaxSpan,
  BoundaryMaxWords, BoundaryMaxGap,
  GapSplit, HardGapSplit, LineSentenceSplit, LineMax, LineMaxWords,
  MinSegmentWords, MinSegmentDuration,
  RelabelMinShare,
  NoSpeaker

\* Intervals in the order of their starts.
ByStart(s) ==
  LET order == SortedBy(DOMAIN s, [i \in DOMAIN s |-> s[i].start])
  IN [k \in DOMAIN s |-> s[order[k]]]

Overlap(a, b) == Max({0, Min({a.end, b.end}) - Max({a.start, b.start})})
Length(a) == a.end - a.start
Gap(words, i) == words[i + 1].start - words[i].end

Relabel(labels, from, to, speaker) ==
  [i \in DOMAIN labels |-> IF i \in from..to THEN speaker ELSE labels[i]]

-----------------------------------------------------------------------------
(* relabel_turns: clusters take the names of the caller's speakers.        *)

SumOver(S, F(_)) == MapThenSumSet(F, S)

TimeWith(c, sum, turn) == IF turn.speaker = c THEN sum + Length(turn) ELSE sum

SpeakingTime(turns, c) == FoldLeft(LAMBDA sum, turn : TimeWith(c, sum, turn), 0, turns)

Share(turns, reference, c, label) ==
  SumOver({i \in DOMAIN turns : turns[i].speaker = c} \X
          {k \in DOMAIN reference : reference[k].speaker = label},
          LAMBDA p : Overlap(turns[p[1]], reference[p[2]]))

CallerLabels(reference) == {reference[k].speaker : k \in DOMAIN reference}
Clusters(turns) == {turns[i].speaker : i \in DOMAIN turns}

\* The caller's label that wins the cluster, in a set; {} when none does.
Winner(turns, reference, c) ==
  LET share == [l \in CallerLabels(reference) |-> Share(turns, reference, c, l)]
      best == {l \in DOMAIN share :
                 share[l] > 0 /\ \A k \in DOMAIN share :
                   share[k] < share[l] \/ (share[k] = share[l] /\ k <= l)}
      labelled == SumOver(DOMAIN share, LAMBDA l : share[l])
  IN {l \in best : 100 * share[l] >= RelabelMinShare * labelled}

\* Those who speak longest first.
Unmatched(turns, reference) ==
  SortedBy({c \in Clusters(turns) : Winner(turns, reference, c) = {}},
           [c \in Clusters(turns) |-> -SpeakingTime(turns, c)])

\* Mutant: a fresh name may be one the caller uses and no cluster won.
TakenByClusters(turns, reference) ==
  UNION {Winner(turns, reference, c) : c \in Clusters(turns)}

Taken(turns, reference) == CallerLabels(reference)

FreshName(used) == Min(0..Cardinality(used) \ used)

\* The k-th unmatched cluster gets the k-th free number.
FreshNames(turns, reference) ==
  FoldLeft(LAMBDA names, c : Append(names, FreshName(ToSet(names) \cup Taken(turns, reference))),
           <<>>, Unmatched(turns, reference))

ClusterName(turns, reference, c) ==
  IF Winner(turns, reference, c) # {} THEN Max(Winner(turns, reference, c))
  ELSE LET unmatched == Unmatched(turns, reference)
       IN FreshNames(turns, reference)[SelectInSeq(unmatched, LAMBDA d : d = c)]

RelabelTurns(turns, reference) ==
  IF reference = <<>> THEN turns
  ELSE LET name == [c \in Clusters(turns) |-> ClusterName(turns, reference, c)]
       IN [i \in DOMAIN turns |-> [turns[i] EXCEPT !.speaker = name[@]]]

-----------------------------------------------------------------------------
(* _label_words; words and turns are sorted by start.                      *)

Distance(a, b) == LET d == (a.start + a.end) - (b.start + b.end) IN Max({d, -d})

\* The earliest index of S at which Key is least.
EarliestMin(S, Key(_)) ==
  Min({i \in S : \A k \in S : Key(i) <= Key(k)})

NearestTurn(word, turns) ==
  turns[EarliestMin(DOMAIN turns, LAMBDA i : Distance(turns[i], word))]

\* Mutant: the sweep ends with the first turn the word does not overlap.
SweepOfOverlapping(word, turns) ==
  LET first == {i \in DOMAIN turns : turns[i].end > word.start}
  IN {i \in first : \A k \in Min(first)..i : Overlap(word, turns[k]) > 0}

\* From the first turn that ends after the word starts to the last before one
\* that starts after it ends.
Sweep(word, turns) ==
  LET first == {i \in DOMAIN turns : turns[i].end > word.start}
  IN IF first = {} THEN {}
     ELSE {i \in Min(first)..Len(turns) :
             \A k \in Min(first)..i : turns[k].start < word.end}

Sufficient(word, overlap) == overlap > 0 /\ 100 * overlap >= MinCoverage * Length(word)

BestTurn(word, turns) ==
  LET sweep == Sweep(word, turns)
      best == EarliestMin(sweep, LAMBDA i : -Overlap(word, turns[i]))
  IN IF sweep # {} /\ Sufficient(word, Overlap(word, turns[best])) THEN {best} ELSE {}

\* The words are labelled one after the other.
LabelNext(words, turns, labels, word) ==
  LET k == Len(labels)
      best == BestTurn(word, turns)
  IN Append(labels,
       IF best # {} THEN turns[Max(best)].speaker
       ELSE IF k > 0 /\ word.start - words[k].end <= InheritMaxGap THEN Last(labels)
       ELSE NearestTurn(word, turns).speaker)

LabelWords(words, turns) ==
  FoldLeft(LAMBDA labels, word : LabelNext(words, turns, labels, word), <<>>, words)

-----------------------------------------------------------------------------
(* _smooth_islands                                                         *)

ShortRun(words, first, next) ==
  LET duration == words[next - 1].end - words[first].start
  IN \/ next - first <= IslandMaxWords /\ duration <= IslandMaxSpan
     \/ duration <= IslandMaxDuration

\* The run from first up to next.
Island(words, labels, first, next) ==
  /\ first > 1 /\ next <= Len(words)
  /\ labels[first - 1] = labels[next] /\ labels[next] # labels[first]
  /\ ShortRun(words, first, next)
  /\ \/ ~words[first - 1].ends
     \/ ~words[next - 1].ends /\ words[next].low

\* Mutant: the slice is one word short.
FillAllButLast(labels, first, next) == Relabel(labels, first, next - 2, labels[first - 1])

Fill(labels, first, next) == Relabel(labels, first, next - 1, labels[first - 1])

\* The run at hand ends before word next, or goes on.
SmoothBefore(words, acc, next) ==
  IF next <= Len(words) /\ acc.labels[next] = acc.labels[acc.run] THEN acc
  ELSE [labels |-> IF Island(words, acc.labels, acc.run, next)
                   THEN Fill(acc.labels, acc.run, next) ELSE acc.labels,
        run |-> next]

SmoothIslands(words, labels) ==
  FoldLeft(LAMBDA acc, next : SmoothBefore(words, acc, next),
           [labels |-> labels, run |-> 1], [i \in DOMAIN words |-> i + 1]).labels

-----------------------------------------------------------------------------
(* _snap_boundaries; b is the first word after a change of speaker.        *)

SentenceEndBehind(words, labels, b) ==
  LET ends == {i \in (b - 1 - BoundaryMaxWords)..(b - 2) : i >= 1 /\ words[i].ends}
      inside == {i \in ends : \A k \in i..(b - 2) : labels[k] = labels[b - 1]}
  IN IF inside = {} THEN {} ELSE {Max(inside)}

\* Mutant: the right-hand run need not go on past the sentence end.
SentenceEndAheadAnywhere(words, labels, b) ==
  LET ends == {i \in b..(b + BoundaryMaxWords - 1) : i < Len(words) /\ words[i].ends}
      inside == {i \in ends : \A k \in b..i : labels[k] = labels[b]}
  IN IF inside = {} THEN {} ELSE {Min(inside)}

SentenceEndAhead(words, labels, b) ==
  LET ends == {i \in b..(b + BoundaryMaxWords - 1) : i <= Len(words) /\ words[i].ends}
      inside == {i \in ends : \A k \in b..i : labels[k] = labels[b]}
  IN {i \in inside : i = Min(inside) /\ i < Len(words) /\ labels[i + 1] = labels[b]}

MidSentence(words, labels, b) ==
  /\ labels[b - 1] # labels[b]
  /\ ~words[b - 1].ends /\ words[b].low
  /\ Gap(words, b - 1) <= BoundaryMaxGap

PullRight(words, b, behind, ahead) ==
  \/ Gap(words, behind) > Gap(words, ahead)
  \/ Gap(words, behind) = Gap(words, ahead) /\ b - 1 - behind <= ahead - b + 1

SnapAt(words, labels, b) ==
  LET behind == SentenceEndBehind(words, labels, b)
      ahead == SentenceEndAhead(words, labels, b)
  IN IF ~MidSentence(words, labels, b) \/ (behind = {} /\ ahead = {}) THEN labels
     ELSE IF ahead = {} \/ (behind # {} /\ PullRight(words, b, Max(behind), Max(ahead)))
     THEN Relabel(labels, Max(behind) + 1, b - 1, labels[b])
     ELSE Relabel(labels, b, Max(ahead), labels[b - 1])

SnapBoundaries(words, labels) ==
  FoldLeft(LAMBDA acc, b : SnapAt(words, acc, b), labels, [i \in 1..(Len(words) - 1) |-> i + 1])

-----------------------------------------------------------------------------
(* _line_end and _group_labelled                                           *)

SpeakerStops(words, labels, start, i) ==
  labels[i] # labels[start] \/ Gap(words, i - 1) > HardGapSplit

SentenceStops(words, start, i, bounded) ==
  /\ words[i - 1].ends
  /\ \/ Gap(words, i - 1) > GapSplit
     \/ bounded /\ words[i - 1].end - words[start].start >= LineSentenceSplit

\* Mutant: one word too many.
FullAfter(words, start, i) ==
  \/ i - start > LineMaxWords
  \/ words[i].end - words[start].start > LineMax

Full(words, start, i) ==
  \/ i - start >= LineMaxWords
  \/ words[i].end - words[start].start > LineMax

\* The last word of the line that begins with word start.
LineEnd(words, labels, start, bounded) ==
  LET natural == {i \in (start + 1)..Len(words) :
                    SpeakerStops(words, labels, start, i) \/ SentenceStops(words, start, i, bounded)}
      full == {i \in (start + 1)..Len(words) : bounded /\ Full(words, start, i)}
      stop == Min(natural \cup full)
      sentences == {i \in start..(stop - 1) : words[i].ends}
  IN IF natural \cup full = {} THEN Len(words)
     ELSE IF stop \in natural \/ sentences = {} THEN stop - 1
     ELSE Max(sentences)

GroupLabelled(words, labels, bounded) ==
  LET lines[start \in 1..(Len(words) + 1)] ==
        IF start > Len(words) THEN <<>>
        ELSE LET end == LineEnd(words, labels, start, bounded)
             IN <<[speaker |-> labels[start], first |-> start, last |-> end]>> \o lines[end + 1]
  IN lines[1]

-----------------------------------------------------------------------------
(* _merge_short_orphans; neighbours are sequences of at most one line.     *)

Orphan(words, line, previous, following) ==
  /\ line.last - line.first + 1 <= MinSegmentWords
  /\ words[line.last].end - words[line.first].start <= MinSegmentDuration
  /\ previous \o following # <<>>
  /\ \A other \in ToSet(previous \o following) : other.speaker # line.speaker

\* Mutant: the joined line starts where the second one did.
JoinKeepsSecond(first, second, speaker) == [second EXCEPT !.speaker = speaker]

Join(first, second, speaker) ==
  [speaker |-> speaker, first |-> first.first, last |-> second.last]

\* Line i is joined to the one after it, to the one before it, or stays.
MergeLine(words, acc, i) ==
  LET line == acc.lines[i]
      previous == IF acc.merged = <<>> THEN <<>> ELSE <<Last(acc.merged)>>
      following == IF i = Len(acc.lines) THEN <<>> ELSE <<acc.lines[i + 1]>>
      orphan == Orphan(words, line, previous, following)
  IN IF /\ orphan /\ following # <<>>
        /\ ~words[line.last].ends /\ words[line.last + 1].low
     THEN [acc EXCEPT !.lines[i + 1] = Join(line, @, @.speaker)]
     ELSE IF /\ orphan /\ previous # <<>>
             /\ ~words[line.first - 1].ends
             /\ words[line.first].low /\ words[line.last].ends
     THEN [acc EXCEPT !.merged = Front(@) \o <<Join(Last(@), line, Last(@).speaker)>>]
     ELSE [acc EXCEPT !.merged = Append(@, line)]

MergeShortOrphans(words, lines) ==
  FoldLeft(LAMBDA acc, i : MergeLine(words, acc, i),
           [lines |-> lines, merged |-> <<>>], [i \in DOMAIN lines |-> i]).merged
=============================================================================
