------------------------------ MODULE JobQueue ------------------------------
(***************************************************************************)
(* The worker side of the job lifecycle (src/vemsa/jobs/queue.py) on top   *)
(* of the store, with the API operations that share its rows and its work  *)
(* directory (src/vemsa/api/jobs.py).                                      *)
(*                                                                         *)
(* A run <<j, a>> is the task a worker started for claim number a of job   *)
(* j.  Its program counter names the next await of _process_job:           *)
(*   renew     initial renew_lease         finalize  set_stage(FINALIZING) *)
(*   fetch     fetch_url                   finish    store.finish          *)
(*   attach    set_audio_path              release   release_for_retry     *)
(*   work      the engine, in a thread     fail      store.fail            *)
(*   refused / rejected  the get() after a refusal, inside the try block / *)
(*                       inside the exception handler                      *)
(*   delete / keep       the finally block, with delete_audio set / unset  *)
(*   idle      no task: not claimed yet, or ended                          *)
(***************************************************************************)
EXTENDS JobStore, Sequences

CONSTANTS
  Plan,               \* the stages the engine reports for each job
  WorkerConcurrency,  \* slots of one worker
  OomMaxAttempts,     \* out-of-memory is final at this attempt
  MaxFaults,          \* bound: crashes, shutdowns, failed store calls, lapses
                      \* under a live run
  SlowJobs            \* may a job stay active past ORPHAN_MAX_AGE_S?

ASSUME PlanAssumption == Plan \in [Jobs -> Seq(JobStage)]
ASSUME ConcurrencyAssumption == WorkerConcurrency \in Nat \ {0}
ASSUME OomAssumption == OomMaxAttempts \in Nat \ {0}
ASSUME MaxFaultsAssumption == MaxFaults \in Nat
ASSUME SlowJobsAssumption == SlowJobs \in BOOLEAN

VARIABLES
  files,   \* for each job, its audio files in the work directory
  up,        \* worker processes alive
  stopping,  \* those whose stop() has begun: no further claim is issued
  claiming,  \* those whose claim statement was outstanding at that moment
  late,      \* runs started by such a claim: stop() does not know of them
  down,      \* those whose control thread stop() has ended
  pc,      \* per run, see above
  by,      \* the worker executing the run, NoOwner when idle
  audio,   \* local audio_path
  cur,     \* local current_stage
  step,    \* number of stages of the plan reported
  faults   \* faults injected so far

runVars == <<pc, by, audio, cur, step>>
workerVars == <<up, stopping, claiming, late, down>>
vars    == <<storeVars, files, workerVars, runVars, faults>>

Runs    == Jobs \X (1..MaxAttempts)
RunPC   == {"idle", "renew", "fetch", "attach", "work", "finalize", "finish",
            "release", "fail", "refused", "rejected", "delete", "keep"}
Progress == {"renew", "fetch", "attach", "work", "finalize", "finish"}
Job(r)  == r[1]
Live(r) == pc[r] # "idle"

\* _active: the jobs this process has a task for
InFlight(w) == {j \in Jobs : \E a \in 1..MaxAttempts : by[<<j, a>>] = w}

Init ==
  /\ StoreInit
  /\ files = [j \in Jobs |-> {}]
  /\ up = Workers
  /\ stopping = {} /\ claiming = {} /\ late = {} /\ down = {}
  /\ pc = [r \in Runs |-> "idle"]
  /\ by = [r \in Runs |-> NoOwner]
  /\ audio = [r \in Runs |-> NoFile]
  /\ cur = [r \in Runs |-> "queued"]
  /\ step = [r \in Runs |-> 0]
  /\ faults = 0

Goto(r, label) == pc' = [pc EXCEPT ![r] = label]

\* A fault of the environment, up to the bound.
Fault == faults < MaxFaults /\ faults' = faults + 1

-----------------------------------------------------------------------------
(* The API.                                                                *)

\* create_job, with a file or a source URL: an upload is already on disk when
\* the row is inserted, and a refused or duplicate submission unlinks it again.
Submit(j) ==
  /\ \E file \in {Upload, NoFile} :
       /\ Create(j, file)
       /\ files' = [files EXCEPT ![j] = {file} \ {NoFile}]
  /\ UNCHANGED <<workerVars, runVars, faults>>

\* Mutant: the API leaves every file to the workers.
ApiDeletesNothing(j) == FALSE

\* cancel_job unlinks the audio only of a job no attempt has touched.
ApiDeletesAudio(j) == attempt[j] = 0

CancelJob(j) ==
  /\ Cancel(j)
  /\ \/ /\ files' = IF ApiDeletesAudio(j)
                      THEN [files EXCEPT ![j] = @ \ {path[j]}] ELSE files
        /\ UNCHANGED faults
     \/ Fault /\ UNCHANGED files    \* interrupted between commit and unlink
  /\ UNCHANGED <<workerVars, runVars>>

-----------------------------------------------------------------------------
(* The claim loop.                                                         *)

\* Mutant: a worker may claim a job it still runs.
ExcludeNothing(w) == {}

\* exclude_ids: the claim skips what this process still runs
ExcludeIds(w) == InFlight(w)

\* Mutant: off by one, the last slot is never used.
HasSpareSlot(w) ==
  Cardinality({r \in Runs : by[r] = w}) + 1 < WorkerConcurrency

HasSlot(w) ==
  Cardinality({r \in Runs : by[r] = w}) < WorkerConcurrency

\* The statement commits and its reply starts a task.
ClaimInto(w, j) ==
  /\ HasSlot(w)
  /\ ClaimNextQueued(w, j, ExcludeIds(w))
  /\ LET r == <<j, attempt[j] + 1>> IN
       /\ Goto(r, "renew")
       /\ by' = [by EXCEPT ![r] = w]
       /\ audio' = [audio EXCEPT ![r] = path[j]]
       /\ cur' = [cur EXCEPT ![r] = stage[j]]
       /\ UNCHANGED step
  /\ UNCHANGED <<files, faults>>

Claim(w, j) ==
  /\ w \in up \ stopping
  /\ ClaimInto(w, j)
  /\ UNCHANGED workerVars

\* The claim commits but its reply never arrives: a row nobody works on.
ClaimReplyLost(w, j) ==
  /\ w \in (up \ stopping) \cup claiming
  /\ HasSlot(w)
  /\ ClaimNextQueued(w, j, ExcludeIds(w))
  /\ Fault
  /\ claiming' = claiming \ {w}
  /\ UNCHANGED <<files, up, stopping, late, down, runVars>>

-----------------------------------------------------------------------------
(* One run: _process_job, one action per await.                            *)

RenewFirst(r) ==
  /\ pc[r] = "renew"
  /\ \/ /\ RenewLease(by[r], Job(r))
        /\ Goto(r, CASE by[r] \in down    -> "fail"   \* no loop to renew it on
                     [] audio[r] = NoFile -> "fetch"
                     [] OTHER             -> "work")
     \/ /\ ~Owns(by[r], Job(r))
        /\ Goto(r, "refused")
        /\ UNCHANGED storeVars
  /\ UNCHANGED <<files, workerVars, by, audio, cur, step, faults>>

FetchSource(r) ==
  /\ pc[r] = "fetch"
  /\ files' = [files EXCEPT ![Job(r)] = @ \cup {r[2]}]
  /\ audio' = [audio EXCEPT ![r] = r[2]]
  /\ Goto(r, "attach")
  /\ UNCHANGED <<storeVars, workerVars, by, cur, step, faults>>

AttachAudio(r) ==
  /\ pc[r] = "attach"
  /\ SetAudioPath(Job(r), audio[r])
  /\ Goto(r, "work")
  /\ UNCHANGED <<files, workerVars, by, audio, cur, step, faults>>

NextStage(r) == Plan[Job(r)][step[r] + 1]

\* A stage equal to the local one is skipped without asking the store.
SkipsReport(r) == NextStage(r) = cur[r]

ReportStage(r) ==
  /\ pc[r] = "work"
  /\ step[r] < Len(Plan[Job(r)])
  /\ \/ /\ SkipsReport(r)
        /\ step' = [step EXCEPT ![r] = @ + 1]
        /\ UNCHANGED <<storeVars, pc, cur>>
     \/ /\ ~SkipsReport(r)
        /\ by[r] \in down    \* no control loop to send it to
        /\ Goto(r, "fail")
        /\ UNCHANGED <<storeVars, step, cur>>
     \/ /\ ~SkipsReport(r)
        /\ by[r] \notin down
        /\ SetStage(by[r], Job(r), NextStage(r))
        /\ step' = [step EXCEPT ![r] = @ + 1]
        /\ cur' = [cur EXCEPT ![r] = NextStage(r)]
        /\ UNCHANGED pc
     \/ /\ ~SkipsReport(r)
        /\ by[r] \notin down
        /\ ~Owns(by[r], Job(r))
        /\ Goto(r, "refused")
        /\ UNCHANGED <<storeVars, cur, step>>
  /\ UNCHANGED <<files, workerVars, by, audio, faults>>

\* The engine returns a result that passes the alignment floors.
EngineReturns(r) ==
  /\ pc[r] = "work"
  /\ step[r] = Len(Plan[Job(r)])
  /\ Goto(r, "finalize")
  /\ UNCHANGED <<storeVars, files, workerVars, by, audio, cur, step, faults>>

PersistFinalizing(r) ==
  /\ pc[r] = "finalize"
  /\ \/ /\ SetStage(by[r], Job(r), "finalizing")
        /\ cur' = [cur EXCEPT ![r] = "finalizing"]
        /\ Goto(r, "finish")
     \/ /\ ~Owns(by[r], Job(r))
        /\ Goto(r, "refused")
        /\ UNCHANGED <<storeVars, cur>>
  /\ UNCHANGED <<files, workerVars, by, audio, step, faults>>

FinishJob(r) ==
  /\ pc[r] = "finish"
  /\ \/ /\ Finish(by[r], Job(r))
        /\ Goto(r, "delete")
     \/ /\ ~Owns(by[r], Job(r))
        /\ Goto(r, "refused")
        /\ UNCHANGED storeVars
  /\ UNCHANGED <<files, workerVars, by, audio, cur, step, faults>>

\* Download, probe, engine or floor check raises.
PipelineFails(r) ==
  /\ pc[r] \in {"fetch", "work"}
  /\ Goto(r, "fail")
  /\ UNCHANGED <<storeVars, files, workerVars, by, audio, cur, step, faults>>

\* Mutant: out-of-memory is never final.
MayAlwaysRetry(r) == TRUE

MayRetry(r) == r[2] < OomMaxAttempts

OutOfMemory(r) ==
  /\ pc[r] = "work"
  /\ Goto(r, IF MayRetry(r) THEN "release" ELSE "fail")
  /\ UNCHANGED <<storeVars, files, workerVars, by, audio, cur, step, faults>>

\* Mutant: a released job loses its audio.
AfterReleaseDelete == "delete"

\* delete_audio stays unset: the retry needs the audio.
AfterRelease == "keep"

ReleaseJob(r) ==
  /\ pc[r] = "release"
  /\ \/ /\ ReleaseForRetry(by[r], Job(r))
        /\ Goto(r, AfterRelease)
     \/ /\ ~Owns(by[r], Job(r))
        /\ Goto(r, "fail")
        /\ UNCHANGED storeVars
  /\ UNCHANGED <<files, workerVars, by, audio, cur, step, faults>>

FailJob(r) ==
  /\ pc[r] = "fail"
  /\ \/ /\ Fail(by[r], Job(r))
        /\ Goto(r, "delete")
     \/ /\ ~Owns(by[r], Job(r))
        /\ Goto(r, "rejected")
        /\ UNCHANGED storeVars
  /\ UNCHANGED <<files, workerVars, by, audio, cur, step, faults>>

\* Mutant: discarding work after a lost lease deletes the audio as well.
DeletesAudioAlways(j) == TRUE

\* After a refusal the row is read again: cancelled work deletes its audio,
\* a lost lease is discarded without touching it.
DeletesAudioOfRefused(j) == status[j] = "cancelled"

LookUp(r) ==
  /\ pc[r] \in {"refused", "rejected"}
  /\ Goto(r, IF DeletesAudioOfRefused(Job(r)) THEN "delete" ELSE "keep")
  /\ UNCHANGED <<storeVars, files, workerVars, by, audio, cur, step, faults>>

\* The task's locals are gone; the slot and the _active entry are free.
EndRuns(R) ==
  /\ pc' = [r \in Runs |-> IF r \in R THEN "idle" ELSE pc[r]]
  /\ by' = [r \in Runs |-> IF r \in R THEN NoOwner ELSE by[r]]
  /\ audio' = [r \in Runs |-> IF r \in R THEN NoFile ELSE audio[r]]
  /\ cur' = [r \in Runs |-> IF r \in R THEN "queued" ELSE cur[r]]
  /\ step' = [r \in Runs |-> IF r \in R THEN 0 ELSE step[r]]

Cleanup(r) ==
  /\ pc[r] \in {"delete", "keep"}
  /\ files' = IF pc[r] = "delete"
                THEN [files EXCEPT ![Job(r)] = @ \ {audio[r]}] ELSE files
  /\ EndRuns({r})
  /\ UNCHANGED <<storeVars, workerVars, faults>>

-----------------------------------------------------------------------------
(* The control thread, retention, and what goes wrong.                     *)

\* _heartbeat_lease runs from the initial renewal to the finally block, or
\* until stop() ends the control thread.
Heartbeat(r) ==
  /\ by[r] \notin down
  /\ pc[r] \notin {"idle", "renew", "delete", "keep"}
  /\ RenewLease(by[r], Job(r))
  /\ UNCHANGED <<files, workerVars, runVars, faults>>

\* A lease lapses freely once its run has ended; under a live run (starved
\* control thread, dead heartbeat, unreachable store) it is a fault.
Lapse(j) ==
  /\ LeaseLapses(j)
  /\ IF by[<<j, attempt[j]>>] = NoOwner THEN UNCHANGED faults ELSE Fault
  /\ UNCHANGED <<files, workerVars, runVars>>

Cool(j) ==
  /\ CooldownEnds(j)
  /\ UNCHANGED <<files, workerVars, runVars, faults>>

\* purge_once: the row goes, then the file it names.
PurgeOnce(j) ==
  /\ up # {}
  /\ PurgeOlderThan(j)
  /\ \/ files' = [files EXCEPT ![j] = @ \ {path[j]}] /\ UNCHANGED faults
     \/ Fault /\ UNCHANGED files    \* interrupted between the two
  /\ UNCHANGED <<workerVars, runVars>>

\* _sweep_orphans looks at a file's age only.  Unless SlowJobs, no job is
\* active for as long as that age.
SweepOrphans(j) ==
  /\ up # {}
  /\ SlowJobs \/ j \notin ActiveJobs
  /\ \E f \in files[j] : files' = [files EXCEPT ![j] = @ \ {f}]
  /\ UNCHANGED <<storeVars, workerVars, runVars, faults>>

\* A store call raises without having taken effect (or a stage update times
\* out): in the try block the job fails, in the handler the task crashes.
StoreError(r) ==
  /\ pc[r] \notin {"idle", "fetch", "delete", "keep"}
  /\ Goto(r, IF pc[r] \in {"release", "fail", "rejected"} THEN "keep" ELSE "fail")
  /\ Fault
  /\ UNCHANGED <<storeVars, files, workerVars, by, audio, cur, step>>

\* A store call takes effect and its acknowledgement is lost (or a stage
\* update commits after its caller timed out).
CommitUnacknowledged(r) ==
  /\ \/ /\ \/ pc[r] = "renew" /\ RenewLease(by[r], Job(r))
           \/ pc[r] = "attach" /\ SetAudioPath(Job(r), audio[r])
           \/ /\ pc[r] = "work" /\ step[r] < Len(Plan[Job(r)]) /\ ~SkipsReport(r)
              /\ SetStage(by[r], Job(r), NextStage(r))
           \/ pc[r] = "finalize" /\ SetStage(by[r], Job(r), "finalizing")
           \/ pc[r] = "finish" /\ Finish(by[r], Job(r))
        /\ Goto(r, "fail")
     \/ /\ \/ pc[r] = "release" /\ ReleaseForRetry(by[r], Job(r))
           \/ pc[r] = "fail" /\ Fail(by[r], Job(r))
        /\ Goto(r, "keep")
  /\ Fault
  /\ UNCHANGED <<files, workerVars, by, audio, cur, step>>

\* A process is gone with its tasks; its rows and files stay.
Leave(w) ==
  /\ up' = up \ {w}
  /\ stopping' = stopping \ {w}
  /\ claiming' = claiming \ {w}
  /\ down' = down \ {w}
  /\ EndRuns({r \in Runs : by[r] = w})
  /\ UNCHANGED <<storeVars, files, late>>

\* Some other worker goes on claiming: the bound replaces a restart.
Relieved(w) == \E v \in up \ stopping : v # w

\* A worker dies at any point.
Crash(w) ==
  /\ w \in up /\ Relieved(w)
  /\ Leave(w)
  /\ Fault

-----------------------------------------------------------------------------
(* Shutdown: stop(), called by worker.py and main.py on SIGTERM.           *)

\* _stopping is set and the tasks to wait for are listed, in one step of the
\* loop; a claim statement may be outstanding.
Stop(w) ==
  /\ w \in up \ stopping /\ Relieved(w)
  /\ stopping' = stopping \cup {w}
  /\ claiming' \in {claiming, claiming \cup {w}}
  /\ Fault
  /\ UNCHANGED <<storeVars, files, up, late, down, runVars>>

\* The outstanding claim finds a job: its task was not in the list.
LateClaim(w, j) ==
  /\ w \in claiming
  /\ ClaimInto(w, j)
  /\ claiming' = claiming \ {w}
  /\ late' = late \cup {<<j, attempt[j] + 1>>}
  /\ UNCHANGED <<up, stopping, down>>

\* It finds none, or fails.
LateClaimEmpty(w) ==
  /\ w \in claiming
  /\ claiming' = claiming \ {w}
  /\ UNCHANGED <<storeVars, files, up, stopping, late, down, runVars, faults>>

\* Mutant: the drain waits for the loops and not for the job tasks.
AwaitedNothing(w) == {}

\* draining: the runs that were active when stop() began
Awaited(w) == {r \in Runs : by[r] = w /\ r \notin late}

\* The drain ends, by itself or by cancelling what the grace period left, and
\* the control thread with it.
StopControl(w) ==
  /\ w \in stopping \ down
  /\ \/ /\ w \notin claiming /\ Awaited(w) = {}    \* gather returns
        /\ UNCHANGED <<claiming, runVars>>
     \/ /\ claiming' = claiming \ {w}               \* shutdown_grace_s is over
        /\ EndRuns(Awaited(w))
  /\ down' = down \cup {w}
  /\ UNCHANGED <<storeVars, files, up, stopping, late, faults>>

\* The store is closed and the process ends.
Exit(w) ==
  /\ w \in down
  /\ Leave(w)
  /\ UNCHANGED faults

-----------------------------------------------------------------------------
\* What a live run does by itself, one await after the other.
RunStep(r) ==
  \/ RenewFirst(r) \/ FetchSource(r) \/ AttachAudio(r) \/ ReportStage(r)
  \/ EngineReturns(r) \/ PersistFinalizing(r) \/ FinishJob(r)
  \/ PipelineFails(r) \/ OutOfMemory(r) \/ ReleaseJob(r) \/ FailJob(r)
  \/ LookUp(r) \/ Cleanup(r)

Next ==
  \/ \E j \in Jobs : \/ Submit(j) \/ CancelJob(j) \/ Lapse(j) \/ Cool(j)
                     \/ PurgeOnce(j) \/ SweepOrphans(j)
  \/ \E w \in Workers, j \in Jobs : \/ Claim(w, j) \/ ClaimReplyLost(w, j)
                                     \/ LateClaim(w, j)
  \/ \E r \in Runs : \/ RunStep(r) \/ Heartbeat(r) \/ StoreError(r)
                     \/ CommitUnacknowledged(r)
  \/ \E w \in Workers : \/ Crash(w) \/ Stop(w) \/ LateClaimEmpty(w)
                        \/ StopControl(w) \/ Exit(w)

Spec == Init /\ [][Next]_vars

\* Tasks run to their end; leases of ended runs lapse and cooldowns pass; and
\* oldest-first claiming never passes one of finitely many jobs over forever.
Fairness ==
  /\ \A r \in Runs : WF_vars(RunStep(r))
  /\ \A j \in Jobs : /\ WF_vars(Lapse(j) /\ UNCHANGED faults)
                     /\ WF_vars(Cool(j))
                     /\ SF_vars(\E w \in Workers : Claim(w, j))

FairSpec == Spec /\ Fairness

-----------------------------------------------------------------------------
(* Correctness.                                                            *)

\* Every variable stays in its domain; in particular attempts are counted
\* within the explored bound and webhook rows belong to jobs that asked.
TypeOK ==
  /\ StoreTypeOK
  /\ files \in [Jobs -> SUBSET Files]
  /\ up \subseteq Workers /\ stopping \subseteq up
  /\ claiming \subseteq stopping \ down /\ down \subseteq stopping
  /\ late \subseteq Runs
  /\ pc \in [Runs -> RunPC]
  /\ by \in [Runs -> Workers \cup {NoOwner}]
  /\ audio \in [Runs -> Files \cup {NoFile}]
  /\ cur \in [Runs -> JobStage]
  /\ step \in [Runs -> Nat]
  /\ faults \in 0..MaxFaults

\* The store fences by worker, not by attempt.  That is only sound if a run
\* whose worker holds the lease is the job's latest attempt: no zombie run
\* passes the fence behind its own worker's back (exclude_ids, queue.py:256).
FencedByAttempt ==
  \A j \in Jobs : \A a \in 1..MaxAttempts :
    Live(<<j, a>>) /\ Owns(by[<<j, a>>], j) => a = attempt[j]

\* Completion, failure and cancellation race for a job and exactly one wins:
\* its status, statistics row, webhook event, result, error and failure kind
\* all tell of the same outcome, and an unsettled job shows no trace of one.
OneRecord(j) ==
  /\ status[j] \in Terminal => stats[j] = status[j]
  /\ status[j] = "purged" => stats[j] \in Terminal
  /\ status[j] \in ActiveStatus \cup {"absent"} => stats[j] = "none"

OneEvent(j) ==
  \A s \in Terminal : <<j, s>> \in outbox <=> j \in Hooked /\ status[j] = s

RowTellsOutcome(j) ==
  /\ j \in results <=> status[j] = "completed"
  /\ j \in errors  <=> status[j] = "failed"
  /\ failureKind[j] = CASE status[j] = "failed"    -> "fault"
                        [] status[j] = "cancelled" -> "cancelled"
                        [] OTHER                   -> "none"

OneOutcome == \A j \in Jobs : OneRecord(j) /\ OneEvent(j) /\ RowTellsOutcome(j)

\* While a job can still be worked on, the file its row names exists, across
\* requeues, lapses, crashes and the cleanup of other runs.
ActiveAudioKept ==
  \A j \in ActiveJobs : path[j] # NoFile => path[j] \in files[j]

\* No other actor deletes the audio under the run that holds the lease.
OwnerHasItsAudio ==
  \A r \in Runs :
    Live(r) /\ Owns(by[r], Job(r)) /\ audio[r] # NoFile
      => audio[r] \in files[Job(r)]

\* While the run that holds the lease makes progress, the stage a client polls
\* is the stage of that run: a zombie run never overwrites it.
StageIsTheOwners ==
  \A r \in Runs :
    pc[r] \in Progress /\ Owns(by[r], Job(r)) => stage[Job(r)] = cur[r]

\* A job is not claimed without end: out-of-memory retries use up at most
\* OomMaxAttempts claims, every further one is paid for by a fault.
ClaimsAccountedFor == \A j \in Jobs : attempt[j] <= OomMaxAttempts + faults

\* Shutdown ends the control thread under no run it knows of: only a run that
\* slipped in behind its list of tasks can still be live then.
AwaitedRunsEnd == \A r \in Runs : Live(r) /\ by[r] \in down => r \in late

\* A settled job stays settled: nothing moves a terminal row but retention,
\* and a purged job does not come back.
SettledForGood ==
  [][\A j \in Jobs :
       /\ status[j] \in Terminal => status'[j] \in {status[j], "purged"}
       /\ status[j] = "purged" => status'[j] = "purged"]_vars

\* The queue, its workers and its failures keep the promise of JobLifecycle.
Lifecycle == INSTANCE JobLifecycle WITH
  phase <- status, tries <- attempt, record <- stats, news <- outbox,
  MaxTries <- OomMaxAttempts

ImplementsLifecycle == Lifecycle!Spec

\* Every submitted job reaches an outcome, whatever is cancelled, requeued,
\* crashed or reclaimed on the way.
JobsSettle ==
  \A j \in Jobs : status[j] = "queued" ~> status[j] \in Terminal \cup {"purged"}

\* "Source audio is deleted at any terminal state" (ARCHITECTURE.md:123):
\* the work directory keeps nothing of a settled job, long before retention.
AudioDeletedWhenSettled ==
  \A j \in Jobs : status[j] \in Terminal ~> files[j] = {} \/ status[j] = "purged"

\* "The source audio survives between attempts" (PRODUCTION.md:311): a job
\* handed back for a retry still has the file its row names.
AudioSurvivesBetweenAttempts ==
  \A j \in Jobs : status[j] = "queued" /\ attempt[j] > 0 /\ path[j] # NoFile
                  => path[j] \in files[j]

\* "Graceful shutdown stops claiming and waits for every in-flight job"
\* (PRODUCTION.md:313): no job is in flight once the control thread, which
\* renews its lease and takes its stages, has ended.
DrainedBeforeDown == \A r \in Runs : Live(r) => by[r] \notin down

\* "its next stage update detects cancellation" (PRODUCTION.md:179): a run
\* does not get past a stage report once its job is cancelled.
StageReportSeesCancel ==
  [][\A r \in Runs : step'[r] > step[r] => status[Job(r)] # "cancelled"]_vars
=============================================================================
