-------------------------- MODULE SegmentAttribution --------------------------
(***************************************************************************)
(* assign_speakers_to_segments of pipeline/diarize.py: speakers for a      *)
(* transcript whose words have no times.  A segment with several speakers  *)
(* is cut where the speaker changes, and its text in proportion to time.   *)
(*                                                                         *)
(* A segment is [start, end, text, words], and a text [length, spaces,     *)
(* stops], the offsets of its whitespace and of that behind sentence       *)
(* punctuation.  Words are only there if their times are implausible: they *)
(* are [start, end, anchored, at], found in the text at that offset, and   *)
(* of no use but for the review of a segment left whole.                   *)
(* A piece is [of, speaker, start, end, from, to], the text of segment     *)
(* number of from one offset up to another.                                *)
(***************************************************************************)
EXTENDS SpeakerAttribution

CONSTANTS
  SplitThreshold, MinSplitDuration, MinSplitWords,
  PunctuationSnapChars

\* The provider's texts, whatever whitespace is inside them, are stripped.
StrippedTexts ==
  {text \in [length : Nat, spaces : SUBSET Nat, stops : SUBSET Nat] :
     /\ text.spaces \subseteq 1..(text.length - 2)
     /\ text.stops \subseteq text.spaces}

WordStarts(text) ==
  {p \in 0..(text.length - 1) \ text.spaces : p = 0 \/ p - 1 \in text.spaces}

-----------------------------------------------------------------------------
(* _speaker_shares; turns are sorted by start.                             *)

Touching(segment, turns) == {i \in DOMAIN turns : Overlap(segment, turns[i]) > 0}

ShareWith(segment, speaker, sum, turn) ==
  IF turn.speaker = speaker THEN sum + Overlap(segment, turn) ELSE sum

SpeakerShare(segment, turns, speaker) ==
  FoldLeft(LAMBDA sum, turn : ShareWith(segment, speaker, sum, turn), 0, turns)

\* Of the turns in S, the speaker with the largest share, the earliest if tied.
LargestShare(segment, turns, S) ==
  turns[EarliestMin(S, LAMBDA i : -SpeakerShare(segment, turns, turns[i].speaker))].speaker

Majority(segment, turns) == LargestShare(segment, turns, Touching(segment, turns))

Splittable(segment, turns) ==
  LET total == SumOver(Touching(segment, turns), LAMBDA i : Overlap(segment, turns[i]))
  IN /\ 100 * SpeakerShare(segment, turns, Majority(segment, turns)) < (100 - SplitThreshold) * total
     /\ Length(segment) >= MinSplitDuration
     /\ Cardinality(WordStarts(segment.text)) >= MinSplitWords

-----------------------------------------------------------------------------
(* _speaker_spans                                                          *)

\* Between two neighbours of these times the same turns cover the segment.
Bounds(segment, turns) ==
  LET times == {segment.start, segment.end} \cup
               UNION {{Max({turns[i].start, segment.start}), Min({turns[i].end, segment.end})} :
                        i \in Touching(segment, turns)}
  IN InOrder(times)

\* For each of them, the turns that cover it.
Covering(turns, bounds) ==
  [k \in 1..(Len(bounds) - 1) |->
     {i \in DOMAIN turns : /\ 2 * turns[i].start < bounds[k] + bounds[k + 1]
                           /\ bounds[k] + bounds[k + 1] < 2 * turns[i].end}]

\* Silence goes to whoever spoke before, at the beginning to whoever speaks next.
Heard(spoken, k) ==
  IF \E m \in spoken : m <= k THEN Max({m \in spoken : m <= k}) ELSE Min(spoken)

Speakers(segment, turns, covering) ==
  LET spoken == {k \in DOMAIN covering : covering[k] # {}}
  IN [k \in DOMAIN covering |-> LargestShare(segment, turns, covering[Heard(spoken, k)])]

\* One span per stretch of one speaker.
JoinSpan(bounds, speaker, spans, k) ==
  IF k > 1 /\ speaker[k] = speaker[k - 1]
  THEN [spans EXCEPT ![Len(spans)].end = bounds[k + 1]]
  ELSE Append(spans, [start |-> bounds[k], end |-> bounds[k + 1], speaker |-> speaker[k]])

Joined(bounds, speaker) ==
  FoldLeft(LAMBDA spans, k : JoinSpan(bounds, speaker, spans, k), <<>>, [k \in DOMAIN speaker |-> k])

SpeakerSpans(segment, turns) ==
  LET bounds == Bounds(segment, turns)
  IN Joined(bounds, Speakers(segment, turns, Covering(turns, bounds)))

\* Of the spans, the speaker who has most of the time from start to end.
DominantSpeaker(spans, piece) == LargestShare(piece, spans, DOMAIN spans)

-----------------------------------------------------------------------------
(* _snap_offset and _split_segment                                         *)

\* round(a / b), halves to the even neighbour
Rounded(a, b) ==
  LET below == a \div b
      twice == 2 * (a % b)
  IN IF twice > b \/ (twice = b /\ below % 2 = 1) THEN below + 1 ELSE below

Away(a, b) == Max({a - b, b - a})

\* Where the text is cut for a cut at this offset, in a set.
SnapOffset(text, offset) ==
  LET Nearest(S) == EarliestMin(S, LAMBDA p : Away(p, offset))
      near == {p \in text.stops : Away(p, offset) <= PunctuationSnapChars}
  IN IF near # {} THEN {Nearest(near)}
     ELSE IF text.spaces # {} THEN {Nearest(text.spaces)} ELSE {}

\* Mutant: two cuts may fall on the same offset.
AdvancesOrStays(previous, offset, text) == previous <= offset /\ offset < text.length

Advances(previous, offset, text) == previous < offset /\ offset < text.length

\* A cut [time, offset] where span number n starts, if one fits behind the last.
AddCut(segment, spans, cuts, n) ==
  LET text == segment.text
      time == spans[n].start
      raw == Rounded(text.length * (time - segment.start), Length(segment))
      fits == {p \in SnapOffset(text, raw) : Advances(Last(cuts).offset, p, text)}
  IN IF fits = {} THEN cuts ELSE Append(cuts, [time |-> time, offset |-> Max(fits)])

\* The cuts, those at both ends of the segment included.
Cuts(segment, spans) ==
  LET inner == FoldLeft(LAMBDA cuts, n : AddCut(segment, spans, cuts, n),
                        <<[time |-> segment.start, offset |-> 0]>>,
                        [n \in 1..(Len(spans) - 1) |-> n + 1])
  IN Append(inner, [time |-> segment.end, offset |-> segment.text.length])

Piece(of, spans, cut, next) ==
  [of |-> of, start |-> cut.time, end |-> next.time, from |-> cut.offset, to |-> next.offset,
   speaker |-> DominantSpeaker(spans, [start |-> cut.time, end |-> next.time])]

\* A piece of whitespace is dropped, one of the same speaker joined to the last.
AddPiece(pieces, piece, text) ==
  IF piece.from..(piece.to - 1) \subseteq text.spaces THEN pieces
  ELSE IF pieces # <<>> /\ Last(pieces).speaker = piece.speaker
  THEN [pieces EXCEPT ![Len(pieces)].end = piece.end, ![Len(pieces)].to = piece.to]
  ELSE Append(pieces, piece)

PiecesBetween(of, text, spans, cuts) ==
  FoldLeft(LAMBDA pieces, piece : AddPiece(pieces, piece, text), <<>>,
           [k \in 1..(Len(cuts) - 1) |-> Piece(of, spans, cuts[k], cuts[k + 1])])

\* At least two pieces, or none.
SplitSegment(of, segment, spans) ==
  LET pieces == PiecesBetween(of, segment.text, spans, Cuts(segment, spans))
  IN IF Len(spans) < 2 \/ Len(pieces) < 2 THEN <<>> ELSE pieces

-----------------------------------------------------------------------------
(* assign_speakers_to_segments                                             *)

Whole(of, segment, speaker) ==
  [of |-> of, speaker |-> speaker, start |-> segment.start, end |-> segment.end,
   from |-> 0, to |-> segment.text.length]

\* The pieces of segment number n, after those of the segments before it.
Assigned(segments, turns, pieces, n) ==
  LET segment == segments[n]
      split == IF Splittable(segment, turns)
               THEN SplitSegment(n, segment, SpeakerSpans(segment, turns)) ELSE <<>>
  IN IF Touching(segment, turns) = {}
     THEN <<Whole(n, segment, IF pieces # <<>> THEN Last(pieces).speaker
                              ELSE NearestTurn(segment, turns).speaker)>>
     ELSE IF split # <<>> THEN split
     ELSE <<Whole(n, segment, Majority(segment, turns))>>

\* The provider's segments as they are.
Verbatim(segments) == [n \in DOMAIN segments |-> Whole(n, segments[n], NoSpeaker)]

AssignSpeakersToSegments(segments, turns) ==
  IF turns = <<>> THEN Verbatim(segments)
  ELSE FoldLeft(LAMBDA pieces, n : pieces \o Assigned(segments, turns, pieces, n),
                <<>>, [n \in DOMAIN segments |-> n])
=============================================================================
