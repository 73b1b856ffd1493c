----------------------------- MODULE Admission -----------------------------
(***************************************************************************)
(* Submission, step by step: create_job (src/vemsa/api/jobs.py) and the    *)
(* statements of PostgresJobStore.create, which several API processes      *)
(* execute at once.  The program counter of a request names its next step: *)
(*   save    save_upload, then the digest   count   SELECT COUNT(...)      *)
(*   lock    pg_advisory_xact_lock          insert  INSERT and COMMIT      *)
(*   find    SELECT by Idempotency-Key      discard unlink the upload      *)
(*   reply   the row is committed           done / lost                    *)
(* Requests without an upload take the same steps with no file.  Files are *)
(* kept apart from rows: a job's file goes some time after its row has     *)
(* settled, or never, and the sweep of old files asks no row.              *)
(***************************************************************************)
EXTENDS Integers, FiniteSets

CONSTANTS
  Requests, Uploads,      \* submissions, and those that carry a file
  SlowUploads,            \* those in progress, or whose job is active, for
                          \* longer than ORPHAN_MAX_AGE_S
  ClientOf, KeyOf, NoKey, DigestOf,
  MaxQueuedJobs, MaxQueuedJobsPerClient,
  Pending, Conflict, Full,
  Nobody,                 \* the admission lock is free
  MaxLost,                \* bound: submissions whose call fails
  MaxPurged               \* bound: jobs that retention removes

ASSUME RequestsAssumption == IsFiniteSet(Requests) /\ Uploads \subseteq Requests
ASSUME SlowAssumption == SlowUploads \subseteq Uploads
ASSUME AnswersAssumption ==
  /\ {Pending, Conflict, Full, Nobody} \cap Requests = {}
  /\ Pending # Conflict /\ Pending # Full /\ Conflict # Full
ASSUME CapsAssumption == MaxQueuedJobs \in Nat /\ MaxQueuedJobsPerClient \in Nat
ASSUME BoundAssumption == MaxLost \in Nat /\ MaxPurged \in Nat

VARIABLES
  row,      \* the committed row of each request's job
  answer,   \* what the store decided for it
  pc,
  lock,     \* holder of the admission lock
  disk      \* uploads in the work directory, named by their request

vars == <<row, answer, pc, lock, disk>>

Stored == {q \in Requests : row[q] \in {"active", "settled"}}
Active == {q \in Requests : row[q] = "active"}
ActiveOf(c) == {o \in Active : ClientOf[o] = c}
Labels == {"save", "lock", "find", "count", "insert", "discard", "reply", "done", "lost"}

\* Mutant: a settled job no longer reserves its key.
OriginalActive(q) ==
  {o \in Active : KeyOf[q] # NoKey /\ KeyOf[o] = KeyOf[q] /\ ClientOf[o] = ClientOf[q]}

Original(q) ==
  {o \in Stored : KeyOf[q] # NoKey /\ KeyOf[o] = KeyOf[q] /\ ClientOf[o] = ClientOf[q]}

\* Mutant: off by one at the global cap.
UnderCapsPlusOne(q) ==
  /\ Cardinality(Active) <= MaxQueuedJobs
  /\ Cardinality(ActiveOf(ClientOf[q])) < MaxQueuedJobsPerClient

UnderCaps(q) ==
  /\ Cardinality(Active) < MaxQueuedJobs
  /\ Cardinality(ActiveOf(ClientOf[q])) < MaxQueuedJobsPerClient

Init ==
  /\ row = [q \in Requests |-> "none"]
  /\ answer = [q \in Requests |-> Pending]
  /\ pc = [q \in Requests |-> "save"]
  /\ lock = Nobody
  /\ disk = {}

Goto(q, label) == pc' = [pc EXCEPT ![q] = label]
Decide(q, a)   == answer' = [answer EXCEPT ![q] = a]

\* Mutant: a refusal leaves its transaction open.
KeepLock == UNCHANGED lock

\* The transaction ends, and the lock with it.
Unlock == lock' = Nobody

-----------------------------------------------------------------------------
\* Mutant: a file is written for requests without one.
SaveAlways(q) ==
  /\ pc[q] = "save"
  /\ disk' = disk \cup {q}
  /\ Goto(q, "lock")
  /\ UNCHANGED <<row, answer, lock>>

SaveUpload(q) ==
  /\ pc[q] = "save"
  /\ disk' = IF q \in Uploads THEN disk \cup {q} ELSE disk
  /\ Goto(q, "lock")
  /\ UNCHANGED <<row, answer, lock>>

\* Mutant: admission without the advisory lock.
MayLockAlways == TRUE

MayLock == lock = Nobody

Lock(q) ==
  /\ pc[q] = "lock"
  /\ MayLock
  /\ lock' = q
  /\ Goto(q, "find")
  /\ UNCHANGED <<row, answer, disk>>

\* Mutant: the digests are not compared.
SameRequestAlways(o, q) == TRUE

SameRequest(o, q) == DigestOf[o] = DigestOf[q]

FindOriginal(q) ==
  /\ pc[q] = "find"
  /\ \/ /\ Original(q) = {}
        /\ Goto(q, "count")
        /\ UNCHANGED <<answer, lock>>
     \/ \E o \in Original(q) :
          /\ Decide(q, IF SameRequest(o, q) THEN o ELSE Conflict)
          /\ Goto(q, "discard")
          /\ Unlock
  /\ UNCHANGED <<row, disk>>

CountActive(q) ==
  /\ pc[q] = "count"
  /\ \/ /\ UnderCaps(q)
        /\ Goto(q, "insert")
        /\ UNCHANGED <<answer, lock>>
     \/ /\ ~UnderCaps(q)
        /\ Decide(q, Full)
        /\ Goto(q, "discard")
        /\ Unlock
  /\ UNCHANGED <<row, disk>>

InsertRow(q) ==
  /\ row' = [row EXCEPT ![q] = "active"]
  /\ Decide(q, q)
  /\ lock' = Nobody

Insert(q) ==
  /\ pc[q] = "insert"
  /\ InsertRow(q)
  /\ Goto(q, "reply")
  /\ UNCHANGED disk

\* Mutant: duplicates are answered without unlinking their upload.
DiscardsNothing(q) == {}

Discarded(q) == {q}

\* 202 with the original's id, 409 or 429, after unlinking the new upload
Discard(q) ==
  /\ pc[q] = "discard"
  /\ disk' = disk \ Discarded(q)
  /\ Goto(q, "done")
  /\ UNCHANGED <<row, answer, lock>>

RespondAccepted(q) ==
  /\ pc[q] = "reply"
  /\ Goto(q, "done")
  /\ UNCHANGED <<row, answer, lock, disk>>

-----------------------------------------------------------------------------
(* Failure, and the rest of the system.                                    *)

\* Mutant: every error of the store unlinks the upload.
UnlinksOnError(q) == {q}

\* Only the two refusals unlink it; a failed call keeps the file, because the
\* row may have been committed all the same.
UnlinkedOnError(q) == {}

MayFail == Cardinality({q \in Requests : pc[q] = "lost"}) < MaxLost

\* The process dies or the database call raises: the transaction rolls back.
Abandon(q) ==
  /\ pc[q] \in {"lock", "find", "count", "insert", "discard", "reply"}
  /\ MayFail
  /\ Goto(q, "lost")
  /\ lock' = IF lock = q THEN Nobody ELSE lock
  /\ disk' = disk \ UnlinkedOnError(q)
  /\ UNCHANGED <<row, answer>>

\* COMMIT takes effect, its acknowledgement is lost.
CommitUnacknowledged(q) ==
  /\ pc[q] = "insert" /\ MayFail
  /\ InsertRow(q)
  /\ Goto(q, "lost")
  /\ disk' = disk \ UnlinkedOnError(q)

\* A job settles (module JobQueue): finish, fail or cancel commit the row.
JobSettles(q) ==
  /\ row[q] = "active"
  /\ row' = [row EXCEPT ![q] = "settled"]
  /\ UNCHANGED <<answer, pc, lock, disk>>

MayPurge == Cardinality({q \in Requests : row[q] = "purged"}) < MaxPurged

JobPurged(q) ==
  /\ row[q] = "settled"
  /\ MayPurge
  /\ row' = [row EXCEPT ![q] = "purged"]
  /\ UNCHANGED <<answer, pc, lock, disk>>

\* The unlink that follows a settled or purged row: of the worker, of the API
\* or of retention.  A crash, or a cancellation between two attempts, leaves
\* it out.
DeleteAudio(q) ==
  /\ row[q] \in {"settled", "purged"}
  /\ q \in disk
  /\ disk' = disk \ {q}
  /\ UNCHANGED <<row, answer, pc, lock>>

\* Nothing bounds the age of a file that nobody works on or waits for; one in
\* use reaches ORPHAN_MAX_AGE_S only in SlowUploads.
Outdated(q) ==
  \/ q \in SlowUploads
  \/ pc[q] \in {"done", "lost"} /\ row[q] # "active"

\* _sweep_orphans compares a file's age and nothing else.
Sweep(q) ==
  /\ q \in disk
  /\ Outdated(q)
  /\ disk' = disk \ {q}
  /\ UNCHANGED <<row, answer, pc, lock>>

-----------------------------------------------------------------------------
RequestStep(q) ==
  \/ SaveUpload(q) \/ Lock(q) \/ FindOriginal(q) \/ CountActive(q) \/ Insert(q)
  \/ Discard(q) \/ RespondAccepted(q)

Next ==
  \E q \in Requests :
    \/ RequestStep(q) \/ Abandon(q) \/ CommitUnacknowledged(q)
    \/ JobSettles(q) \/ JobPurged(q) \/ DeleteAudio(q) \/ Sweep(q)

Spec == Init /\ [][Next]_vars

\* Some request goes on as long as one can; no order among lock waiters is
\* assumed.
Fairness == WF_vars(\E q \in Requests : RequestStep(q))

FairSpec == Spec /\ Fairness

-----------------------------------------------------------------------------
\* Domains of the variables; a lock holder is inside its transaction.
TypeOK ==
  /\ row \in [Requests -> {"none", "active", "settled", "purged"}]
  /\ answer \in [Requests -> Requests \cup {Pending, Conflict, Full}]
  /\ pc \in [Requests -> Labels]
  /\ lock \in Requests \cup {Nobody}
  /\ disk \subseteq Uploads

\* However many processes admit at once, queued and running jobs together
\* never exceed the caps, globally and for each client.
CapsHold ==
  /\ Cardinality(Active) <= MaxQueuedJobs
  /\ \A c \in {ClientOf[q] : q \in Requests} :
       Cardinality(ActiveOf(c)) <= MaxQueuedJobsPerClient

\* The unique index on (client_id, idempotency_key) never has to refuse an
\* INSERT: when one is sent, no stored row has the key.
IndexNeverRefuses == \A q \in Requests : pc[q] = "insert" => Original(q) = {}

\* "Repeating a key with the same validated request ... returns 202 with the
\* original job_id"; another request never gets that job; and two
\* submissions of one key are given different jobs only if retention removed
\* the first in between.
SameKeySameJob ==
  \A p, q \in Requests :
    /\ answer[p] = q => DigestOf[p] = DigestOf[q]
    /\ (/\ KeyOf[p] # NoKey /\ KeyOf[p] = KeyOf[q] /\ ClientOf[p] = ClientOf[q]
        /\ answer[p] \in Stored /\ answer[q] \in Stored) => answer[p] = answer[q]

\* "rejected and duplicate uploads are discarded" (README.md:173): if the file
\* of an answered request is there, the request was given a job of its own,
\* never another's job, a conflict or a refusal.  When that job's file goes is
\* the matter of module JobQueue.
DuplicatesDiscarded ==
  \A q \in disk : pc[q] = "done" => answer[q] = q /\ row[q] # "none"

\* An active job has its upload, whatever failed between saving it and
\* answering, unless request and job outlast the age at which the sweep takes
\* every file.
AdmittedUploadKept ==
  \A q \in Uploads \ SlowUploads : row[q] = "active" => q \in disk

\* The transaction decides as if it happened at one instant.
Atomic == INSTANCE AtomicAdmission
ImplementsAtomicAdmission == Atomic!Spec

\* Every submission is answered unless its process or its database call
\* fails: the lock does not stay behind.
EveryRequestAnswered ==
  <>(\A q \in Requests : pc[q] \in {"done", "lost"})
=============================================================================
