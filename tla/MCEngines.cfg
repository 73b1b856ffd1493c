\* Two threads of one worker, one GPU slot, two calls; every tier.
CONSTANTS
  t1 = t1  t2 = t2  swedish = swedish  english = english  pyannote = pyannote
  Threads = {t1, t2}
  Nobody = Nobody
  Requests <- SentRequests
  Models = {swedish, english, pyannote}
  Diarization = pyannote
  ModelFor <- EmissionsModels
  GpuConcurrency = 1
  MinAlignment = "segment_split"
  MaxCalls = 2
SPECIFICATION FairSpec
CHECK_DEADLOCK FALSE
INVARIANTS
  GpuBounded
  LoadedOnce
  NothingLeftBehind
  TimedByTheAudio
  ResultAsAsked
PROPERTIES
  EveryCallEnds
