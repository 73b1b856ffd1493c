------------------------------ MODULE Realign ------------------------------
(***************************************************************************)
(* task=align: the words of a corrected transcript are timed again         *)
(* (pipeline/realign.py).  Segments are grouped into windows, the windows  *)
(* padded, the aligner run over them, and its flat list of words cut back  *)
(* into segments by counting.  Times are ticks; a word lasts one.          *)
(***************************************************************************)
EXTENDS StableSort, Sequences, SequencesExt, FiniteSetsExt

CONSTANTS
  Transcripts,       \* sequences of records [start, end, tokens], any order
  Durations,         \* of the audio; 0 is unknown
  MergeGap, Pad,     \* align_merge_gap_s, align_window_pad_s
  MaxSlips           \* windows in which the aligner miscounts

ASSUME TuningAssumption == MergeGap \in Nat /\ Pad \in Nat /\ MaxSlips \in Nat

\* What the validation of a request lets through: 0 <= start <= end.
ASSUME TranscriptsAssumption ==
  \A t \in Transcripts :
    /\ t \in Seq([start : Nat, end : Nat, tokens : Nat])
    /\ \A i \in DOMAIN t : t[i].start <= t[i].end

ASSUME DurationsAssumption == Durations \subseteq Nat

VARIABLES
  pc,        \* next step of align_transcript
  segments,  \* the caller's
  duration,
  groups,    \* per window, the indices of its segments
  windows,   \* per window, padded [start, end]
  heard,     \* per window the aligner is done with, its words [start, of]
  handed,    \* per segment, the words it was given
  output     \* indices of the segments in the order they are returned

vars == <<pc, segments, duration, groups, windows, heard, handed, output>>

Init ==
  /\ pc = "group"
  /\ segments \in Transcripts
  /\ duration \in Durations
  /\ groups = <<>> /\ windows = <<>> /\ heard = <<>>
  /\ handed = <<>> /\ output = <<>>

StartOf(i) == segments[i].start
EndOf(i) == segments[i].end
Tokens(i) == segments[i].tokens

-----------------------------------------------------------------------------
(* group_windows and window_for                                            *)

Order == SortedBy({i \in DOMAIN segments : Tokens(i) > 0}, [i \in DOMAIN segments |-> StartOf(i)])

\* Mutant: the window ends where its latest segment ends.
WindowEndLatest(end, i) == EndOf(i)

WindowEnd(end, i) == Max({end, EndOf(i)})

Group(acc, i) ==
  IF acc.groups # <<>> /\ StartOf(i) - acc.end <= MergeGap
  THEN [groups |-> Front(acc.groups) \o <<Append(Last(acc.groups), i)>>,
        end |-> WindowEnd(acc.end, i)]
  ELSE [groups |-> Append(acc.groups, <<i>>), end |-> EndOf(i)]

Grouped == FoldLeft(Group, [groups |-> <<>>, end |-> 0], Order)

GroupWindows ==
  /\ pc = "group"
  /\ groups' = Grouped.groups
  /\ pc' = IF groups' = <<>> THEN "failed" ELSE "pad"
  /\ UNCHANGED <<segments, duration, windows, heard, handed, output>>

Hull(g) ==
  [start |-> Min({StartOf(i) : i \in ToSet(groups[g])}),
   end |-> Max({EndOf(i) : i \in ToSet(groups[g])})]

-----------------------------------------------------------------------------
(* pad_windows                                                             *)

Between(g) == (Hull(g).end + Hull(g + 1).start) \div 2

\* Mutant: the slack is not clamped to the gap between neighbours.
PaddedStartUnclamped(g) == Max({0, Hull(g).start - Pad})

PaddedStart(g) ==
  Max({0, Hull(g).start - Pad}
      \cup IF g = 1 THEN {} ELSE {Min({Between(g - 1), Hull(g).start})})

PaddedEnd(g) ==
  Max({Hull(g).end,
       Min({Hull(g).end + Pad}
           \cup (IF duration = 0 THEN {} ELSE {duration})
           \cup IF g = Len(groups) THEN {} ELSE {Max({Between(g), Hull(g).end})})})

PadWindows ==
  /\ pc = "pad"
  /\ windows' = [g \in DOMAIN groups |-> [start |-> PaddedStart(g), end |-> PaddedEnd(g)]]
  /\ pc' = "align"
  /\ UNCHANGED <<segments, duration, groups, heard, handed, output>>

-----------------------------------------------------------------------------
(* The aligner (external): window by window it times the words of the      *)
(* window's text, in order and inside the window, or loses or invents one. *)

Text(g) ==
  FlattenSeq([m \in DOMAIN groups[g] |-> [t \in 1..Tokens(groups[g][m]) |-> groups[g][m]]])

Slipped(text) ==
  {RemoveAt(text, k) : k \in DOMAIN text} \cup {InsertAt(text, k, 0) : k \in 1..(Len(text) + 1)}

Slips(g) == Len(heard[g]) - Len(Text(g))

Timed(text, from) == [k \in DOMAIN text |-> [start |-> from + k - 1, of |-> text[k]]]

AlignWindow ==
  LET g == Len(heard) + 1 IN
  /\ pc = "align" /\ g <= Len(groups)
  /\ \E text \in {Text(g)} \cup Slipped(Text(g)) :
       /\ Len(text) = Len(Text(g)) \/ Cardinality({h \in DOMAIN heard : Slips(h) # 0}) < MaxSlips
       /\ \E from \in windows[g].start..(windows[g].end - Len(text)) :
            heard' = Append(heard, Timed(text, from))
  /\ UNCHANGED <<pc, segments, duration, groups, windows, handed, output>>

-----------------------------------------------------------------------------
(* align_transcript after the aligner, and distribute_words                *)

Flat == FlattenSeq(heard)
Words == LET order == SortedBy(DOMAIN Flat, [k \in DOMAIN Flat |-> Flat[k].start])
         IN [k \in DOMAIN Flat |-> Flat[order[k]]]

Total(counts) == FoldLeft(LAMBDA a, b : a + b, 0, counts)

WindowTokens(g) == Total([m \in DOMAIN groups[g] |-> Tokens(groups[g][m])])

\* Once the totals agree the slices have their lengths, so the comparison that
\* distribute_words repeats for a shared window cannot fail.
CountsAgree ==
  /\ Len(Words) > 0
  /\ Total([g \in DOMAIN groups |-> WindowTokens(g)]) = Len(Words)

\* The segments whose words come before those of segment i.
ServedBefore(i) == LET served == FlattenSeq(groups)
                   IN SubSeq(served, 1, SelectInSeq(served, LAMBDA k : k = i) - 1)

WordsOf(i) ==
  LET cursor == Total([k \in DOMAIN ServedBefore(i) |-> Tokens(ServedBefore(i)[k])])
  IN SubSeq(Words, cursor + 1, cursor + Tokens(i))

DistributeWords ==
  /\ pc = "align" /\ Len(heard) = Len(groups)
  /\ IF CountsAgree
     THEN /\ handed' = [i \in DOMAIN segments |-> IF Tokens(i) > 0 THEN WordsOf(i) ELSE <<>>]
          /\ pc' = "retime"
     ELSE /\ pc' = "failed"
          /\ UNCHANGED handed
  /\ UNCHANGED <<segments, duration, groups, windows, heard, output>>

-----------------------------------------------------------------------------
(* retime_segments                                                         *)

NewStart(i) == IF handed[i] # <<>> THEN handed[i][1].start ELSE StartOf(i)
NewEnd(i) == IF handed[i] # <<>> THEN Last(handed[i]).start + 1 ELSE EndOf(i)

\* Mutant: the segments keep the order in which the caller sent them.
AsSent == [k \in DOMAIN segments |-> k]

Chronological == SortedBy(DOMAIN segments, [i \in DOMAIN segments |-> NewStart(i)])

RetimeSegments ==
  /\ pc = "retime"
  /\ output' = Chronological
  /\ pc' = "done"
  /\ UNCHANGED <<segments, duration, groups, windows, heard, handed>>

Next == GroupWindows \/ PadWindows \/ AlignWindow \/ DistributeWords \/ RetimeSegments

Spec == Init /\ [][Next]_vars

-----------------------------------------------------------------------------
\* Miscounts of two windows that cancel out pass the count; see the README.
SlipsCancel ==
  /\ \E g \in DOMAIN heard : Slips(g) # 0
  /\ Total([g \in DOMAIN heard |-> Slips(g)]) = 0

\* Every segment gets the words of its own text, all of them and in order
\* (distribute_words: guessing is "the mistake this task must not make").
WordsReachTheirSegments ==
  pc = "done" /\ ~SlipsCancel =>
    \A i \in DOMAIN segments :
      [k \in DOMAIN handed[i] |-> handed[i][k].of] = [k \in 1..Tokens(i) |-> i]

\* However the aligner miscounts, the words are handed out once each, and the
\* retimed segments are chronological and do not overlap.
RetimedApart ==
  pc = "done" =>
    \A m, n \in DOMAIN output :
      m < n /\ handed[output[m]] # <<>> /\ handed[output[n]] # <<>> =>
        NewEnd(output[m]) <= NewStart(output[n])

\* The padded windows are disjoint, in order, and hold their segments, and a
\* segment lies in the window of every segment it overlaps.
WindowsApart ==
  pc \in {"align", "retime", "done"} =>
    \A g \in DOMAIN windows :
      /\ g < Len(windows) => windows[g].end <= windows[g + 1].start
      /\ \A i \in ToSet(groups[g]) : windows[g].start <= StartOf(i) /\ EndOf(i) <= windows[g].end
      /\ \A i \in DOMAIN segments \ ToSet(groups[g]) :
           Tokens(i) > 0 => EndOf(i) <= windows[g].start \/ windows[g].end <= StartOf(i)
=============================================================================
