\* One uploaded job that may be retried once, no fault.
CONSTANTS
  j1 = j1  j2 = j2  w1 = w1  w2 = w2  c1 = c1
  Jobs = {j1}
  Workers = {w1}
  NoOwner = NoOwner
  NoKey = NoKey
  Hooked = {j1}
  ClientOf <- MCClientOf
  KeyOf <- MCKeyOf
  MaxQueuedJobs = 1
  MaxQueuedJobsPerClient = 1
  MaxAttempts = 2
  Plan <- TwoStages
  WorkerConcurrency = 1
  OomMaxAttempts = 2
  MaxFaults = 0
  SlowJobs = FALSE
SPECIFICATION FairSpec
CHECK_DEADLOCK FALSE
PROPERTIES
  AudioDeletedWhenSettled
