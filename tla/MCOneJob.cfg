\* One job, uploaded or from a URL, two workers with room for two runs, one
\* retry, two crashes, shutdowns or other faults.
CONSTANTS
  j1 = j1  j2 = j2  w1 = w1  w2 = w2  c1 = c1
  Jobs = {j1}
  Workers = {w1, w2}
  NoOwner = NoOwner
  NoKey = NoKey
  Hooked = {j1}
  ClientOf <- MCClientOf
  KeyOf <- MCKeyOf
  MaxQueuedJobs = 1
  MaxQueuedJobsPerClient = 1
  MaxAttempts = 5
  Plan <- TwoStages
  WorkerConcurrency = 2
  OomMaxAttempts = 2
  MaxFaults = 2
  SlowJobs = FALSE
SPECIFICATION FairSpec
CHECK_DEADLOCK FALSE
INVARIANTS
  TypeOK
  FencedByAttempt
  OneOutcome
  StageIsTheOwners
  ClaimsAccountedFor
  ActiveAudioKept
  OwnerHasItsAudio
  AwaitedRunsEnd
PROPERTIES
  SettledForGood
  ImplementsLifecycle
  JobsSettle
