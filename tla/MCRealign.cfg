\* Up to three segments on a grid of three gaps, three words, two windows miscounted.
CONSTANTS
  Ends = {0, 4, 8, 12}
  MaxSegments = 3
  MaxTokens = 3
  Transcripts <- SmallTranscripts
  Durations = {0, 10}
  MergeGap = 2
  Pad = 4
  MaxSlips = 2
SPECIFICATION Spec
CHECK_DEADLOCK FALSE
INVARIANTS
  WordsReachTheirSegments
  RetimedApart
  WindowsApart
