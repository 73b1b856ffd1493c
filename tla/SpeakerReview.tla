--------------------------- MODULE SpeakerReview ---------------------------
(***************************************************************************)
(* The pure algorithms of pipeline/speaker_review.py: the intervals in     *)
(* which several voices speak, and the flags of the words inside them.     *)
(* Words, turns and lines are those of SpeakerAttribution, segments and    *)
(* pieces those of SegmentAttribution; an overlap is [start, end, count]   *)
(* and its id is its place in the list.                                    *)
(***************************************************************************)
EXTENDS StableSort, Sequences, SequencesExt, FiniteSetsExt, TLC

\* What a turn adds to the sweep: nothing when it ends before it starts.
Clipped(turn) == [turn EXCEPT !.start = Max({0, @})]
Voiced(turns) == {i \in DOMAIN turns : Clipped(turns[i]).end > Clipped(turns[i]).start}

EventTimes(turns) ==
  LET times == UNION {{Clipped(turns[i]).start, turns[i].end} : i \in Voiced(turns)}
  IN InOrder(times)

Change(turns, t, voice) ==
  LET mine == {i \in Voiced(turns) : turns[i].speaker = voice}
  IN Cardinality({i \in mine : Clipped(turns[i]).start = t})
       - Cardinality({i \in mine : turns[i].end = t})

\* Mutant: an interval is extended whoever speaks in it.
ExtendsAnyone(acc, speakers) ==
  acc.intervals # <<>> /\ Last(acc.intervals).end = acc.time

Extends(acc, speakers) ==
  /\ acc.intervals # <<>> /\ Last(acc.intervals).end = acc.time
  /\ speakers = acc.speakers

Voices(turns) == {turns[i].speaker : i \in DOMAIN turns}

\* The sweep goes on from its time to the next, t.
SweepTo(turns, acc, t) ==
  LET speakers == {v \in Voices(turns) : acc.active[v] > 0}
      grown == IF Cardinality(speakers) < 2 THEN acc.intervals
               ELSE IF Extends(acc, speakers)
               THEN Front(acc.intervals) \o <<[Last(acc.intervals) EXCEPT !.end = t]>>
               ELSE Append(acc.intervals,
                      [start |-> acc.time, end |-> t, count |-> Cardinality(speakers)])
  IN [intervals |-> grown, time |-> t, speakers |-> speakers,
      active |-> [v \in Voices(turns) |-> Max({0, acc.active[v] + Change(turns, t, v)})]]

Silent(turns) ==
  [intervals |-> <<>>, time |-> 0, speakers |-> {}, active |-> [v \in Voices(turns) |-> 0]]

DetectOverlaps(turns) ==
  FoldLeft(LAMBDA acc, t : SweepTo(turns, acc, t), Silent(turns), EventTimes(turns)).intervals

-----------------------------------------------------------------------------
(* apply_speaker_review                                                    *)

Starts(words, line) == {words[i].start : i \in line.first..line.last}
Ends(words, line) == {words[i].end : i \in line.first..line.last}

LineStart(words, line, span) == Min({span.start} \cup Starts(words, line))

\* Mutant: words that end after the line are looked up as if they did not.
SpanEnd(words, line, span) == span.end

LineStop(words, line, span) == Max({span.end} \cup Ends(words, line))

\* The overlaps looked up for a line: by bisection on their ends.
Candidates(words, line, span, overlaps) ==
  {o \in DOMAIN overlaps : /\ overlaps[o].end > LineStart(words, line, span)
                           /\ overlaps[o].start < LineStop(words, line, span)}

Ids(word, candidates, overlaps) ==
  {o \in candidates : /\ word.start < overlaps[o].end /\ word.end > overlaps[o].start
                      /\ word.end > word.start}

\* The k-th word of the line stays in the piece of the one before it if it
\* lies in the same overlaps.
ReviewWord(line, ids, pieces, k) ==
  LET i == line.first + k - 1 IN
  IF k > 1 /\ ids[i] = ids[i - 1]
  THEN Front(pieces) \o <<[Last(pieces) EXCEPT !.last = i]>>
  ELSE Append(pieces, [speaker |-> line.speaker, first |-> i, last |-> i, ids |-> ids[i]])

\* Mutant: a line is cut even where its text does not show the words.
AnchoredAnyway(words, line) == line.first <= line.last

\* Its words, one at least, are all found in its text.
Anchored(words, line) ==
  line.first <= line.last /\ \A i \in line.first..line.last : words[i].anchored

\* One piece per stretch of words that lie in the same overlaps.  A line that
\* cannot be cut stays whole, with the overlaps of its span and of every word.
ReviewWords(words, line, span, overlaps) ==
  LET near == Candidates(words, line, span, overlaps)
      ids == [i \in line.first..line.last |-> Ids(words[i], near, overlaps)]
  IN IF Anchored(words, line)
     THEN FoldLeft(LAMBDA pieces, k : ReviewWord(line, ids, pieces, k), <<>>,
                   [k \in 1..(line.last - line.first + 1) |-> k])
     ELSE <<[speaker |-> line.speaker, first |-> line.first, last |-> line.last,
             ids |-> Ids(span, near, overlaps) \cup UNION {ids[i] : i \in DOMAIN ids}]>>

\* A line made of words lasts from its first word to the end of its last.
LineSpan(words, line) == [start |-> words[line.first].start, end |-> words[line.last].end]

ReviewLine(words, line, overlaps) ==
  ReviewWords(words, line, LineSpan(words, line), overlaps)

ApplySpeakerReview(words, lines, overlaps) ==
  FlattenSeq([n \in DOMAIN lines |-> ReviewLine(words, lines[n], overlaps)])

-----------------------------------------------------------------------------
(* The same for the pieces of segments.  A piece keeps its segment's words *)
(* if it is the whole segment, and loses them if the segment was cut.      *)

WordsOf(piece, segment) ==
  IF piece.from = 0 /\ piece.to = segment.text.length THEN segment.words ELSE <<>>

AllOf(piece, said) == [speaker |-> piece.speaker, first |-> 1, last |-> Len(said)]

\* Part number k of a reviewed piece.  Cut, it lasts as long as its words, and
\* its text goes on to the first word of the next part.
ReviewPart(piece, said, parts, k) ==
  LET part == parts[k]
      cut == Len(parts) > 1
  IN [of |-> piece.of, speaker |-> piece.speaker,
      start |-> IF cut THEN Min(Starts(said, part)) ELSE piece.start,
      end |-> IF cut THEN Max(Ends(said, part)) ELSE piece.end,
      from |-> IF k = 1 THEN piece.from ELSE said[part.first].at,
      to |-> IF k = Len(parts) THEN piece.to ELSE said[parts[k + 1].first].at,
      first |-> part.first, last |-> part.last, ids |-> part.ids]

ReviewSegment(piece, said, overlaps) ==
  LET parts == ReviewWords(said, AllOf(piece, said), piece, overlaps)
  IN [k \in DOMAIN parts |-> ReviewPart(piece, said, parts, k)]

ReviewSegments(segments, pieces, overlaps) ==
  FlattenSeq([n \in DOMAIN pieces |->
                ReviewSegment(pieces[n], WordsOf(pieces[n], segments[pieces[n].of]), overlaps)])
=============================================================================
