------------------------------ MODULE JobStore ------------------------------
(***************************************************************************)
(* The jobs, job_stats and webhook_outbox tables of the PostgreSQL store   *)
(* (src/vemsa/jobs/postgres_store.py): one variable per column, one action *)
(* per SQL statement or transaction.  A statement is atomic; a statement   *)
(* whose WHERE clause matches no row is simply not enabled, and the caller *)
(* (module JobQueue) models what the code does with that refusal.          *)
(*                                                                         *)
(* Time is abstracted to what the WHERE clauses compare: a job is in       *)
(* `lapsed` when lease_expires_at < now, in `cooling` when retry_after >   *)
(* now.  ORDER BY created_at FOR UPDATE SKIP LOCKED passes over every row  *)
(* another transaction has locked at that moment, so a claim may return    *)
(* any claimable row.                                                      *)
(***************************************************************************)
EXTENDS Integers, FiniteSets

CONSTANTS
  Jobs,                   \* every job id a submission may get
  Workers,                \* worker processes: a restart is a new one (uuid4)
  NoOwner,                \* lease_owner IS NULL
  Hooked,                 \* jobs submitted with a webhook_url
  ClientOf,               \* the client each job belongs to
  KeyOf, NoKey,           \* the Idempotency-Key each submission carries
  MaxQueuedJobs,          \* global cap on active jobs
  MaxQueuedJobsPerClient, \* cap per client
  MaxAttempts             \* bound: claims of one job the model explores

ASSUME NoOwnerAssumption == NoOwner \notin Workers
ASSUME FiniteJobs == IsFiniteSet(Jobs)
ASSUME HookedAssumption == Hooked \subseteq Jobs
ASSUME CapsAssumption ==
  /\ MaxQueuedJobs \in Nat \ {0}
  /\ MaxQueuedJobsPerClient \in 1..MaxQueuedJobs
ASSUME MaxAttemptsAssumption == MaxAttempts \in Nat \ {0}

VARIABLES
  status, stage, owner, lapsed, cooling, attempt, path,
  results,      \* jobs whose result_json is set
  errors,       \* jobs whose error is set
  failureKind,
  stats,        \* job_stats: the status recorded for a job, "none" if no row
  outbox        \* webhook_outbox: <<job, status>> rows

storeVars == <<status, stage, owner, lapsed, cooling, attempt, path,
               results, errors, failureKind, stats, outbox>>

Terminal     == {"completed", "failed", "cancelled"}
ActiveStatus == {"queued", "running"}
JobStatus    == {"absent", "purged"} \cup ActiveStatus \cup Terminal
JobStage     == {"queued", "transcribing", "aligning", "diarizing", "finalizing"}

\* Files in the work directory are named by the step that wrote them: the
\* upload, or attempt n's download.
NoFile == -1
Upload == 0
Files  == 0..MaxAttempts

ActiveJobs == {j \in Jobs : status[j] \in ActiveStatus}
Stored     == {j \in Jobs : status[j] \notin {"absent", "purged"}}

StoreInit ==
  /\ status = [j \in Jobs |-> "absent"]
  /\ stage = [j \in Jobs |-> "queued"]
  /\ owner = [j \in Jobs |-> NoOwner]
  /\ lapsed = {} /\ cooling = {}
  /\ attempt = [j \in Jobs |-> 0]
  /\ path = [j \in Jobs |-> NoFile]
  /\ results = {} /\ errors = {}
  /\ failureKind = [j \in Jobs |-> "none"]
  /\ stats = [j \in Jobs |-> "none"]
  /\ outbox = {}

-----------------------------------------------------------------------------
(* Admission: one transaction under the advisory lock.                     *)

\* The row a retried submission finds: same client, same Idempotency-Key.
Original(j) ==
  {i \in Stored : /\ KeyOf[j] # NoKey
                  /\ KeyOf[i] = KeyOf[j] /\ ClientOf[i] = ClientOf[j]}

UnderCaps(j) ==
  /\ Cardinality(ActiveJobs) < MaxQueuedJobs
  /\ Cardinality({i \in ActiveJobs : ClientOf[i] = ClientOf[j]})
       < MaxQueuedJobsPerClient

\* file is Upload for a multipart submission, NoFile for a source URL.
Create(j, file) ==
  /\ status[j] = "absent"
  /\ Original(j) = {}
  /\ UnderCaps(j)
  /\ status' = [status EXCEPT ![j] = "queued"]
  /\ path' = [path EXCEPT ![j] = file]
  /\ UNCHANGED <<stage, owner, lapsed, cooling, attempt, results, errors,
                 failureKind, stats, outbox>>

-----------------------------------------------------------------------------
(* Leases.                                                                 *)

\* Mutant: rows whose worker died are not looked at.
ClaimableOnlyQueued(j) == status[j] = "queued" /\ j \notin cooling

Claimable(j) ==
  \/ status[j] = "queued" /\ j \notin cooling
  \/ status[j] = "running" /\ j \in lapsed

ClaimNextQueued(w, j, excluded) ==
  /\ Claimable(j)
  /\ j \notin excluded
  /\ attempt[j] < MaxAttempts
  /\ status' = [status EXCEPT ![j] = "running"]
  /\ owner' = [owner EXCEPT ![j] = w]
  /\ attempt' = [attempt EXCEPT ![j] = @ + 1]
  /\ lapsed' = lapsed \ {j}
  /\ cooling' = cooling \ {j}
  /\ UNCHANGED <<stage, path, results, errors, failureKind, stats, outbox>>

\* WHERE status = 'running' AND lease_owner = $worker: the fence every
\* statement of a worker stands behind.
Owns(w, j) == status[j] = "running" /\ owner[j] = w

RenewLease(w, j) ==
  /\ Owns(w, j)
  /\ lapsed' = lapsed \ {j}
  /\ UNCHANGED <<status, stage, owner, cooling, attempt, path, results, errors,
                 failureKind, stats, outbox>>

\* Mutant: set_stage without its owner clause.
SetStageUnfenced(w, j, s) ==
  /\ status[j] = "running"
  /\ stage' = [stage EXCEPT ![j] = s]
  /\ UNCHANGED <<status, owner, lapsed, cooling, attempt, path, results, errors,
                 failureKind, stats, outbox>>

SetStage(w, j, s) ==
  /\ Owns(w, j)
  /\ stage' = [stage EXCEPT ![j] = s]
  /\ UNCHANGED <<status, owner, lapsed, cooling, attempt, path, results, errors,
                 failureKind, stats, outbox>>

\* No fence here: the UPDATE matches the row by id alone.
SetAudioPath(j, f) ==
  /\ path' = IF j \in Stored THEN [path EXCEPT ![j] = f] ELSE path
  /\ UNCHANGED <<status, stage, owner, lapsed, cooling, attempt, results, errors,
                 failureKind, stats, outbox>>

\* Mutant: release_for_retry without its owner clause.
ReleaseUnfenced(w, j) ==
  /\ status[j] = "running"
  /\ status' = [status EXCEPT ![j] = "queued"]
  /\ stage' = [stage EXCEPT ![j] = "queued"]
  /\ owner' = [owner EXCEPT ![j] = NoOwner]
  /\ lapsed' = lapsed \ {j}
  /\ cooling' = cooling \cup {j}
  /\ UNCHANGED <<attempt, path, results, errors, failureKind, stats, outbox>>

ReleaseForRetry(w, j) ==
  /\ Owns(w, j)
  /\ status' = [status EXCEPT ![j] = "queued"]
  /\ stage' = [stage EXCEPT ![j] = "queued"]
  /\ owner' = [owner EXCEPT ![j] = NoOwner]
  /\ lapsed' = lapsed \ {j}
  /\ cooling' = cooling \cup {j}
  /\ UNCHANGED <<attempt, path, results, errors, failureKind, stats, outbox>>

-----------------------------------------------------------------------------
(* Terminal transactions: status, statistics row and webhook event.        *)

\* INSERT ... ON CONFLICT (job_id) DO NOTHING
InsertJobStats(j, s) ==
  stats' = IF stats[j] = "none" THEN [stats EXCEPT ![j] = s] ELSE stats

\* Mutant: the event carries the status the row had before.
InsertStaleWebhook(j, s) ==
  outbox' = IF j \in Hooked THEN outbox \cup {<<j, status[j]>>} ELSE outbox

InsertWebhook(j, s) ==
  outbox' = IF j \in Hooked THEN outbox \cup {<<j, s>>} ELSE outbox

Settle(j, s) ==
  /\ status' = [status EXCEPT ![j] = s]
  /\ owner' = [owner EXCEPT ![j] = NoOwner]
  /\ lapsed' = lapsed \ {j}
  /\ InsertJobStats(j, s)
  /\ InsertWebhook(j, s)
  /\ UNCHANGED <<stage, cooling, attempt, path>>

Finish(w, j) ==
  /\ Owns(w, j)
  /\ Settle(j, "completed")
  /\ results' = results \cup {j}
  /\ UNCHANGED <<errors, failureKind>>

\* Mutant: fail() without its WHERE clause on status and owner.
FailUnfenced(w, j) ==
  /\ status[j] \in ActiveStatus \cup Terminal
  /\ Settle(j, "failed")
  /\ errors' = errors \cup {j}
  /\ failureKind' = [failureKind EXCEPT ![j] = "fault"]
  /\ UNCHANGED results

Fail(w, j) ==
  /\ Owns(w, j)
  /\ Settle(j, "failed")
  /\ errors' = errors \cup {j}
  /\ failureKind' = [failureKind EXCEPT ![j] = "fault"]
  /\ UNCHANGED results

\* Mutant: cancel() without its status clause.
CancellableStored(j) == j \in Stored

Cancellable(j) == status[j] \in ActiveStatus

Cancel(j) ==
  /\ Cancellable(j)
  /\ Settle(j, "cancelled")
  /\ failureKind' = [failureKind EXCEPT ![j] = "cancelled"]
  /\ UNCHANGED <<results, errors>>

-----------------------------------------------------------------------------
(* Retention, and the passing of time.                                     *)

Purgeable(j) == status[j] \in Terminal

\* DELETE cascades to webhook_outbox and leaves job_stats alone.
PurgeOlderThan(j) ==
  /\ Purgeable(j)
  /\ status' = [status EXCEPT ![j] = "purged"]
  /\ stage' = [stage EXCEPT ![j] = "queued"]
  /\ cooling' = cooling \ {j}
  /\ path' = [path EXCEPT ![j] = NoFile]
  /\ results' = results \ {j}
  /\ errors' = errors \ {j}
  /\ failureKind' = [failureKind EXCEPT ![j] = "none"]
  /\ outbox' = {e \in outbox : e[1] # j}
  /\ UNCHANGED <<owner, lapsed, attempt, stats>>

\* lease_expires_at passes without a renewal
LeaseLapses(j) ==
  /\ status[j] = "running" /\ j \notin lapsed
  /\ lapsed' = lapsed \cup {j}
  /\ UNCHANGED <<status, stage, owner, cooling, attempt, path, results, errors,
                 failureKind, stats, outbox>>

\* retry_after passes
CooldownEnds(j) ==
  /\ j \in cooling
  /\ cooling' = cooling \ {j}
  /\ UNCHANGED <<status, stage, owner, lapsed, attempt, path, results, errors,
                 failureKind, stats, outbox>>

-----------------------------------------------------------------------------
StoreTypeOK ==
  /\ status \in [Jobs -> JobStatus]
  /\ stage \in [Jobs -> JobStage]
  /\ owner \in [Jobs -> Workers \cup {NoOwner}]
  /\ lapsed \subseteq Jobs /\ cooling \subseteq Jobs
  /\ attempt \in [Jobs -> 0..MaxAttempts]
  /\ path \in [Jobs -> Files \cup {NoFile}]
  /\ results \subseteq Jobs /\ errors \subseteq Jobs
  /\ failureKind \in [Jobs -> {"none", "fault", "cancelled"}]
  /\ stats \in [Jobs -> Terminal \cup {"none"}]
  /\ outbox \subseteq Hooked \X Terminal
=============================================================================
