\* Four words of up to three speakers; three turns anywhere; five words unlabelled;
\* one or two segments without words.
CONSTANTS
  WordCount = 4
  LineWords = 5
  Grid = {0, 1, 2, 4}
  Recordings <- SmallRecordings
  MinCoverage = 25
  InheritMaxGap = 3
  IslandMaxWords = 2
  IslandMaxDuration = 2
  IslandMaxSpan = 5
  BoundaryMaxWords = 2
  BoundaryMaxGap = 6
  GapSplit = 2
  HardGapSplit = 7
  LineSentenceSplit = 4
  LineMax = 9
  LineMaxWords = 3
  MinSegmentWords = 1
  MinSegmentDuration = 2
  RelabelMinShare = 50
  SplitThreshold = 25
  MinSplitDuration = 2
  MinSplitWords = 3
  PunctuationSnapChars = 2
  NoSpeaker = NoSpeaker
SPECIFICATION Spec
CHECK_DEADLOCK FALSE
INVARIANTS
  BestOverlapWins
  WordsKeptInOrder
  LinesBounded
  NewSpeakersKeptApart
  OverlapsAreSimultaneousSpeech
  SplitsKeepSegments
PROPERTIES
  FlaggedExactly
  SmoothingOnlyJoins
  SnappingKeepsTurns
