-------------------------- MODULE AtomicAdmission --------------------------
(***************************************************************************)
(* What admission promises (README.md:161-174): every submission is        *)
(* decided at one instant.  It is given the job its Idempotency-Key        *)
(* already names, refused because that key was used for another request,   *)
(* refused because a cap is reached, or becomes a job of its own.          *)
(***************************************************************************)
EXTENDS Integers, FiniteSets

CONSTANTS
  Requests,               \* submissions; each brings a fresh job id, its own
  ClientOf, KeyOf, NoKey, \* who submits, and under which Idempotency-Key
  DigestOf,               \* digest of the validated request and its audio
  MaxQueuedJobs, MaxQueuedJobsPerClient,
  Pending, Conflict, Full \* answers other than a job

VARIABLES
  row,      \* the job of each request
  answer    \* what each request was given

vars == <<row, answer>>

Stored == {q \in Requests : row[q] \in {"active", "settled"}}
Active == {q \in Requests : row[q] = "active"}

Original(q) ==
  {o \in Stored : KeyOf[q] # NoKey /\ KeyOf[o] = KeyOf[q] /\ ClientOf[o] = ClientOf[q]}
ActiveOf(c) == {o \in Active : ClientOf[o] = c}

UnderCaps(q) ==
  /\ Cardinality(Active) < MaxQueuedJobs
  /\ Cardinality(ActiveOf(ClientOf[q])) < MaxQueuedJobsPerClient

Init ==
  /\ row = [q \in Requests |-> "none"]
  /\ answer = [q \in Requests |-> Pending]

Reply(q, a) == answer[q] = Pending /\ answer' = [answer EXCEPT ![q] = a]

GiveOriginal(q) ==
  /\ \E o \in Original(q) : DigestOf[o] = DigestOf[q] /\ Reply(q, o)
  /\ UNCHANGED row

RefuseConflict(q) ==
  /\ \E o \in Original(q) : DigestOf[o] # DigestOf[q]
  /\ Reply(q, Conflict)
  /\ UNCHANGED row

RefuseFull(q) ==
  /\ Original(q) = {} /\ ~UnderCaps(q)
  /\ Reply(q, Full)
  /\ UNCHANGED row

Admit(q) ==
  /\ Original(q) = {} /\ UnderCaps(q)
  /\ row[q] = "none"
  /\ Reply(q, q)
  /\ row' = [row EXCEPT ![q] = "active"]

\* Workers and clients settle jobs, retention removes them.
JobSettles(q) ==
  /\ row[q] = "active" /\ row' = [row EXCEPT ![q] = "settled"] /\ UNCHANGED answer
JobPurged(q) ==
  /\ row[q] = "settled" /\ row' = [row EXCEPT ![q] = "purged"] /\ UNCHANGED answer

Next ==
  \E q \in Requests :
    \/ GiveOriginal(q) \/ RefuseConflict(q) \/ RefuseFull(q) \/ Admit(q)
    \/ JobSettles(q) \/ JobPurged(q)

Spec == Init /\ [][Next]_vars
=============================================================================
