---------------------------- MODULE MCLabelling ----------------------------
(* Small instances of Labelling for TLC: four families of recordings. *)
EXTENDS Labelling

CONSTANTS WordCount, LineWords, Grid

Kinds == {[ends |-> FALSE, low |-> TRUE], [ends |-> TRUE, low |-> TRUE],
          [ends |-> FALSE, low |-> FALSE]}

\* Words of the given lengths, each the given gap after the one before.
Timeline(lengths, gaps, kinds) ==
  LET Word(said, i) ==
        LET start == IF i = 1 THEN 0 ELSE said[i - 1].end + gaps[i]
        IN Append(said, [start |-> start, end |-> start + lengths[i],
                          ends |-> kinds[i].ends, low |-> kinds[i].low, anchored |-> TRUE])
  IN FoldLeft(Word, <<>>, [i \in DOMAIN lengths |-> i])

\* Speakers in order of their first word.
Namings == {f \in [1..WordCount -> 0..2] :
              \A i \in 1..WordCount : f[i] = 0 \/ \E k \in 1..(i - 1) : f[k] = f[i] - 1}

\* Any grammar and speakers, turns that match the words.
Dialogues ==
  {LET timeline == Timeline([i \in 1..WordCount |-> 2], gaps, kinds)
   IN [words |-> timeline, segments |-> <<>>, reference |-> <<>>, diarize |-> TRUE,
       turns |-> [i \in 1..WordCount |->
                   [start |-> timeline[i].start, end |-> timeline[i].end, speaker |-> f[i]]]] :
     gaps \in [2..WordCount -> {0, 3}], kinds \in [1..WordCount -> Kinds], f \in Namings}

Plain(start, end) ==
  [start |-> start, end |-> end, ends |-> FALSE, low |-> TRUE, anchored |-> TRUE]
Blank(start, end) ==
  [start |-> start, end |-> end, ends |-> FALSE, low |-> FALSE, anchored |-> FALSE]

\* Overlapping words, one inside another, one without length, one without text.
Timelines ==
  {<<Plain(0, 1), Plain(1, 4), Plain(2, 3)>>, <<Plain(0, 3), Plain(1, 1), Plain(3, 4)>>,
   <<Plain(0, 1), Blank(1, 4), Plain(2, 3)>>}

References ==
  {<<>>,
   <<[start |-> 0, end |-> 2, speaker |-> 1], [start |-> 2, end |-> 4, speaker |-> 7]>>,
   <<[start |-> 1, end |-> 3, speaker |-> 0]>>}

TurnsOf(speakers) ==
  {t \in [start : Grid \ {Max(Grid)}, end : Grid, speaker : speakers] : t.start < t.end}

\* Any turns: overlapping, adjacent, unsorted, or none.
Meetings ==
  {[words |-> timeline, segments |-> <<>>, reference |-> labelled,
    diarize |-> TRUE, turns |-> heard] :
     timeline \in Timelines, labelled \in References,
     heard \in {<<>>} \cup TurnsOf({0}) \X TurnsOf({0, 1}) \X TurnsOf({0, 1, 2})}

\* No diarization.
Monologues ==
  {[words |-> Timeline(lengths, gaps, kinds), segments |-> <<>>, reference |-> <<>>, diarize |-> FALSE,
    turns |-> <<>>] :
     lengths \in [1..LineWords -> {1, 4}], gaps \in [2..LineWords -> {0, 3}],
     kinds \in [1..LineWords -> {k \in Kinds : k.low}]}

\* Texts: of equal words, with a sentence end, with a doubled space, with a long
\* word that several cuts fall into.
Texts ==
  {[length |-> 9, spaces |-> {1, 3, 5, 7}, stops |-> {}],
   [length |-> 9, spaces |-> {2, 5, 7}, stops |-> {5}],
   [length |-> 9, spaces |-> {2, 3, 6}, stops |-> {}],
   [length |-> 9, spaces |-> {1, 7}, stops |-> {}]}

Segment(start, end, text) == [start |-> start, end |-> end, text |-> text, words |-> <<>>]

\* Words that begin before their segment or end behind it; one has no text.
Implausible(anchored) ==
  LET text == [length |-> 9, spaces |-> {1, 3, 5, 7}, stops |-> {}]
      said == <<[start |-> 0, end |-> 2, anchored |-> TRUE, at |-> 0],
                [start |-> 0, end |-> 4, anchored |-> anchored, at |-> 2],
                [start |-> 2, end |-> 2, anchored |-> TRUE, at |-> 6]>>
  IN [start |-> 1, end |-> 2, text |-> text, words |-> said]

\* No times of words: one segment, or one that another follows; or times that
\* are implausible.
Untimed ==
  {[words |-> <<>>, segments |-> said, reference |-> <<>>, diarize |-> TRUE, turns |-> heard] :
     said \in {<<Segment(0, 4, text)>> : text \in Texts}
              \cup {<<Segment(0, 1, text), Segment(1, 4, text)>> : text \in Texts}
              \cup {<<[Implausible(TRUE) EXCEPT !.start = 0, !.end = 4]>>,
                    <<Implausible(TRUE)>>, <<Implausible(FALSE)>>},
     heard \in {<<>>} \cup TurnsOf({0}) \X TurnsOf({0, 1}) \X TurnsOf({0, 1, 2})}
  \cup {[words |-> <<>>, segments |-> <<Segment(0, 4, text)>>, reference |-> <<>>,
         diarize |-> FALSE, turns |-> <<>>] : text \in Texts}

SmallRecordings == {Dialogues, Meetings, Monologues, Untimed}
=============================================================================
