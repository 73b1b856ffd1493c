\* Five submissions: one client repeats its own, the second repeats a key with
\* another request, the third has no key; two jobs in all, one per client.  The
\* sweep may take the upload of q4 at any time.
CONSTANTS
  q1 = q1  q2 = q2  q3 = q3  q4 = q4  q5 = q5  c1 = c1  c2 = c2  c3 = c3  k1 = k1  d1 = d1  d2 = d2
  Requests = {q1, q2, q3, q4, q5}
  Uploads = {q2, q4}
  SlowUploads = {q4}
  ClientOf <- MCClientOf
  KeyOf <- MCKeyOf
  DigestOf <- MCDigestOf
  NoKey = NoKey
  MaxQueuedJobs = 2
  MaxQueuedJobsPerClient = 1
  MaxLost = 1  MaxPurged = 1
  Pending = Pending  Conflict = Conflict  Full = Full  Nobody = Nobody
SPECIFICATION FairSpec
CHECK_DEADLOCK FALSE
INVARIANTS
  CapsHold
  AdmittedUploadKept
  IndexNeverRefuses
  SameKeySameJob
  DuplicatesDiscarded
PROPERTIES
  ImplementsAtomicAdmission
  EveryRequestAnswered
