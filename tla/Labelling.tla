----------------------------- MODULE Labelling -----------------------------
(***************************************************************************)
(* label_speakers (pipeline/label.py) after the words have their times:    *)
(* the recording is diarized, overlaps are detected, clusters renamed, and *)
(* the words attributed, smoothed, snapped, lined and reviewed.  Without   *)
(* diarization (task=timestamp, task=transcribe) the words become          *)
(* speakerless lines.  A provider that times no words, or none plausibly,  *)
(* (whisper_api.py) has its segments attributed as they are, or cut.  The  *)
(* steps are pure; one action is one call.                                 *)
(***************************************************************************)
EXTENDS SegmentAttribution, SpeakerReview

CONSTANT Recordings  \* families of records [words, segments, turns, reference, diarize]

\* Times are numbers and nothing more: words, turns and segments may be empty,
\* overlap and come in any order.
ASSUME RecordingsAssumption ==
  \A family \in Recordings : \A r \in family :
    /\ r.words \in Seq([start : Int, end : Int, ends : BOOLEAN, low : BOOLEAN,
                        anchored : BOOLEAN])
    /\ r.turns \in Seq([start : Int, end : Int, speaker : Nat])
    /\ r.reference \in Seq([start : Int, end : Int, speaker : Nat])
    /\ r.segments \in Seq([start : Int, end : Int, text : StrippedTexts,
                           words : Seq([start : Int, end : Int, anchored : BOOLEAN, at : Nat])])
    /\ r.diarize \in BOOLEAN

\* Settings above zero.
ASSUME TuningAssumption ==
  /\ MinCoverage \in 0..100 /\ InheritMaxGap \in Nat
  /\ LineMax \in Nat /\ LineMaxWords \in Nat \ {0}
  /\ MinSplitWords \in Nat \ {0}

VARIABLES
  pc,                               \* next call
  words, turns, reference, diarize, \* the inputs; turns are renamed on the way
  segments,                         \* what a provider sent that times no words
  overlaps,                         \* detected simultaneous speech
  labels,                           \* per word, its speaker
  lines                             \* the transcript

vars == <<pc, words, turns, reference, diarize, segments, overlaps, labels, lines>>

Init ==
  \E family \in Recordings : \E r \in family :
    /\ words = ByStart(r.words)
    /\ segments = r.segments
    /\ turns = r.turns
    /\ reference = r.reference
    /\ diarize = r.diarize
    /\ pc = IF r.diarize THEN "diarize" ELSE "group"
    /\ labels = [i \in DOMAIN r.words |-> NoSpeaker]
    /\ overlaps = <<>> /\ lines = <<>>

\* One annotation stands for the regular and the exclusive one.
Diarize ==
  /\ pc = "diarize"
  /\ overlaps' = DetectOverlaps(turns)
  /\ pc' = "relabel"
  /\ UNCHANGED <<words, turns, reference, diarize, segments, labels, lines>>

RelabelClusters ==
  /\ pc = "relabel"
  /\ turns' = ByStart(RelabelTurns(turns, reference))
  /\ pc' = IF turns = <<>> THEN "group" ELSE "label"
  /\ UNCHANGED <<words, reference, diarize, segments, overlaps, labels, lines>>

\* The merge of whole segments, when there are no times of words.
MergeSegments ==
  /\ pc \in {"label", "group"} /\ words = <<>>
  /\ lines' = AssignSpeakersToSegments(segments, turns)
  /\ pc' = IF diarize THEN "review" ELSE "done"
  /\ UNCHANGED <<words, turns, reference, diarize, segments, overlaps, labels>>

Attribute ==
  /\ pc = "label" /\ words # <<>>
  /\ labels' = LabelWords(words, turns)
  /\ pc' = "smooth"
  /\ UNCHANGED <<words, turns, reference, diarize, segments, overlaps, lines>>

Smooth ==
  /\ pc = "smooth"
  /\ labels' = SmoothIslands(words, labels)
  /\ pc' = "snap"
  /\ UNCHANGED <<words, turns, reference, diarize, segments, overlaps, lines>>

Snap ==
  /\ pc = "snap"
  /\ labels' = SnapBoundaries(words, labels)
  /\ pc' = "group"
  /\ UNCHANGED <<words, turns, reference, diarize, segments, overlaps, lines>>

Lines ==
  /\ pc = "group" /\ words # <<>>
  /\ lines' = GroupLabelled(words, labels, ~diarize)
  /\ pc' = IF ~diarize THEN "done" ELSE IF turns = <<>> THEN "review" ELSE "merge"
  /\ UNCHANGED <<words, turns, reference, diarize, segments, overlaps, labels>>

MergeOrphans ==
  /\ pc = "merge"
  /\ lines' = MergeShortOrphans(words, lines)
  /\ pc' = "review"
  /\ UNCHANGED <<words, turns, reference, diarize, segments, overlaps, labels>>

Review ==
  /\ pc = "review"
  /\ lines' = IF words = <<>>
                THEN ReviewSegments(segments, lines, overlaps)
                ELSE ApplySpeakerReview(words, lines, overlaps)
  /\ pc' = "done"
  /\ UNCHANGED <<words, turns, reference, diarize, segments, overlaps, labels>>

Next ==
  \/ Diarize \/ RelabelClusters \/ Attribute \/ Smooth \/ Snap
  \/ Lines \/ MergeOrphans \/ MergeSegments \/ Review

Spec == Init /\ [][Next]_vars

-----------------------------------------------------------------------------
\* The first words after a change of speaker, and who speaks in turn.
Changes(labelling) == {b \in 2..Len(labelling) : labelling[b - 1] # labelling[b]}
Turntaking(labelling) ==
  LET runs == Changes(labelling) \cup {1}
      firsts == InOrder(runs)
  IN [k \in DOMAIN firsts |-> labelling[firsts[k]]]

\* The sweep over sorted turns misses none: a word most of whose overlap is
\* sufficient has the speaker of a turn it overlaps most.
BestOverlapWins ==
  pc = "smooth" =>
    \A i \in DOMAIN words : \A t \in DOMAIN turns :
      /\ Sufficient(words[i], Overlap(words[i], turns[t]))
      /\ \A u \in DOMAIN turns : Overlap(words[i], turns[u]) <= Overlap(words[i], turns[t])
      => \E u \in DOMAIN turns : /\ turns[u].speaker = labels[i]
                                 /\ Overlap(words[i], turns[u]) = Overlap(words[i], turns[t])

\* Smoothing joins runs: it never moves or adds a change of speaker.
SmoothingOnlyJoins ==
  [][pc = "smooth" => Changes(labels') \subseteq Changes(labels)]_vars

\* Snapping never drops, adds or reorders a speaker's turn, and where it moves
\* a change of speaker, the change lands behind a sentence end.
SnappingKeepsTurns ==
  [][pc = "snap" =>
       /\ Turntaking(labels') = Turntaking(labels)
       /\ \A b \in Changes(labels') \ Changes(labels) : words[b - 1].ends]_vars

\* The lines hold every word once and in order, whatever was joined or split.
WordsKeptInOrder ==
  pc \in {"merge", "review", "done"} /\ words # <<>> =>
    /\ lines[1].first = 1 /\ Last(lines).last = Len(words)
    /\ \A n \in 1..(Len(lines) - 1) : lines[n + 1].first = lines[n].last + 1
    /\ \A n \in DOMAIN lines : lines[n].first <= lines[n].last

\* A speakerless line has at most line_max_words words, and lasts at most
\* line_max_s unless a single word does.
LinesBounded ==
  pc = "done" /\ ~diarize /\ words # <<>> =>
    \A n \in DOMAIN lines :
      /\ lines[n].last - lines[n].first + 1 <= LineMaxWords
      /\ \/ lines[n].first = lines[n].last
         \/ words[lines[n].last].end - words[lines[n].first].start <= LineMax

\* The lines made of segment number n.
Pieces(n) ==
  LET mine == InOrder({k \in DOMAIN lines : lines[k].of = n})
  IN [m \in DOMAIN mine |-> lines[mine[m]]]

TextKept(n) ==
  LET pieces == Pieces(n)
      spaces == segments[n].text.spaces
  IN /\ \A p \in 0..(segments[n].text.length - 1) \ spaces :
          \E k \in DOMAIN pieces : \A m \in DOMAIN pieces :
            p \in pieces[m].from..(pieces[m].to - 1) <=> m = k
     /\ \A k \in 2..Len(pieces) : /\ pieces[k - 1].to <= pieces[k].from
                                  /\ {pieces[k].from, pieces[k].from - 1} \cap spaces # {}

TimeKept(n) ==
  LET pieces == Pieces(n)
      spaces == segments[n].text.spaces
  IN /\ pieces[1].start = segments[n].start /\ Last(pieces).end = segments[n].end
     /\ \A k \in 2..Len(pieces) :
          \/ pieces[k].start = pieces[k - 1].end
          \/ pieces[k].start > pieces[k - 1].end /\ \E p \in spaces : p + 1 \in spaces

PiecesSpoken(n) ==
  LET pieces == Pieces(n) IN
  \A k \in 2..Len(pieces) :
    /\ pieces[k].speaker # pieces[k - 1].speaker
    /\ \A piece \in {pieces[k - 1], pieces[k]} :
         \E t \in DOMAIN turns :
           turns[t].speaker = piece.speaker /\ Overlap(turns[t], piece) > 0

\* Cutting a segment at its changes of speaker loses and breaks no word of its
\* text, and no time either unless the text has two spaces in a row; nobody is
\* given a piece he does not speak in.
SplitsKeepSegments ==
  pc = "review" /\ words = <<>> =>
    \A n \in DOMAIN segments : TextKept(n) /\ TimeKept(n) /\ PiecesSpoken(n)

\* Speakers that the caller did not label keep apart: a cluster none of the
\* caller's speakers won shares its name with no other cluster and no caller.
NewSpeakersKeptApart ==
  pc = "relabel" /\ reference # <<>> =>
    \A c, d \in Clusters(turns) :
      Winner(turns, reference, c) = {} =>
        LET name == ClusterName(turns, reference, c)
        IN /\ name \notin CallerLabels(reference)
           /\ c # d => name # ClusterName(turns, reference, d)

\* Who speaks from tick t to t + 1.
Speaking(t) == {turns[i].speaker : i \in {k \in DOMAIN turns : turns[k].start <= t /\ t < turns[k].end}}
Ticks == 0..(Max({0} \cup {turns[i].end : i \in DOMAIN turns}) - 1)

\* The detected overlaps are exactly the stretches in which two or more voices
\* speak, counted right, apart, and cut only where a voice joins or leaves.
OverlapsAreSimultaneousSpeech ==
  pc = "relabel" =>
    /\ \A t \in Ticks :
         LET covering == {o \in DOMAIN overlaps : overlaps[o].start <= t /\ t < overlaps[o].end}
         IN IF Cardinality(Speaking(t)) < 2 THEN covering = {}
            ELSE \E o \in DOMAIN overlaps :
                   covering = {o} /\ overlaps[o].count = Cardinality(Speaking(t))
    /\ \A o \in DOMAIN overlaps : \A t \in overlaps[o].start..(overlaps[o].end - 2) :
         Speaking(t) = Speaking(t + 1)
    /\ \A o \in 2..Len(overlaps) :
         overlaps[o].start = overlaps[o - 1].end =>
           Speaking(overlaps[o].start) # Speaking(overlaps[o].start - 1)

\* There are words, and none that the text does not show.
Divisible(said, line) ==
  /\ line.first..line.last # {}
  /\ ~ \E i \in line.first..line.last : ~said[i].anchored

\* Flagged is a part of the line with these words, and has the overlaps that
\* each of its words touches; or it is the line, which cannot be cut, and has
\* the overlaps that its span or any of its words touches.
FlaggedAs(flagged, said, line, span, found) ==
  LET Touched(interval) == Ids(interval, DOMAIN found, found)
  IN IF Divisible(said, line)
     THEN /\ line.first <= flagged.first /\ flagged.first <= flagged.last
          /\ flagged.last <= line.last
          /\ \A i \in flagged.first..flagged.last : flagged.ids = Touched(said[i])
     ELSE /\ flagged.first = line.first /\ flagged.last = line.last
          /\ flagged.ids =
               Touched(span) \cup UNION {Touched(said[i]) : i \in line.first..line.last}

LineFlagged(flagged, line) == FlaggedAs(flagged, words, line, LineSpan(words, line), overlaps)

PieceFlagged(flagged, piece) ==
  LET said == WordsOf(piece, segments[piece.of])
      all == AllOf(piece, said)
  IN /\ flagged.of = piece.of /\ flagged.speaker = piece.speaker
     /\ ~Divisible(said, all) => flagged.from = piece.from /\ flagged.to = piece.to
     /\ FlaggedAs(flagged, said, all, piece, overlaps)

\* The review flags every word with exactly the overlaps it touches, though
\* overlaps are looked up for whole lines and words end outside of them; only
\* where a word is not found in the text do the words of a line share theirs,
\* and then none is missed ("text that cannot be anchored reliably use[s] a
\* conservative whole-segment flag", docs/speaker-review-contract.md:83).
FlaggedExactly ==
  [][pc = "review" =>
       \A k \in DOMAIN lines' : \E n \in DOMAIN lines :
         IF words = <<>> THEN PieceFlagged(lines'[k], lines[n])
         ELSE LineFlagged(lines'[k], lines[n])]_vars
=============================================================================
