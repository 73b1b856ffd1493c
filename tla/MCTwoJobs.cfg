\* An upload and a URL job on two single-slot workers: no retry, no fault.
CONSTANTS
  j1 = j1  j2 = j2  w1 = w1  w2 = w2  c1 = c1
  Jobs = {j1, j2}
  Workers = {w1, w2}
  NoOwner = NoOwner
  NoKey = NoKey
  Hooked = {j2}
  ClientOf <- MCClientOf
  KeyOf <- MCKeyOf
  MaxQueuedJobs = 2
  MaxQueuedJobsPerClient = 2
  MaxAttempts = 2
  Plan <- OneStage
  WorkerConcurrency = 1
  OomMaxAttempts = 1
  MaxFaults = 0
  SlowJobs = FALSE
SPECIFICATION FairSpec
CHECK_DEADLOCK FALSE
PROPERTIES
  AudioDeletedWhenSettled
