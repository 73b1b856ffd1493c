--------------------------- MODULE JobQueueProofs ---------------------------
(***************************************************************************)
(* Theorems about JobQueue, for every set of jobs and workers, every plan  *)
(* of stages and every bound.                                              *)
(***************************************************************************)
EXTENDS JobQueue, FiniteSetTheorems, TLAPS

-----------------------------------------------------------------------------
(* Types.                                                                  *)

LEMMA RunsAreTuples ==
  ASSUME NEW r \in Runs
  PROVE  /\ Job(r) \in Jobs
         /\ r[2] \in 1..MaxAttempts
         /\ r = <<Job(r), r[2]>>
BY DEF Runs, Job

\* A stage the engine reports is a stage.
LEMMA NextStageType ==
  ASSUME NEW r \in Runs, TypeOK, step[r] < Len(Plan[Job(r)])
  PROVE  NextStage(r) \in JobStage
<1>1. Plan[Job(r)] \in Seq(JobStage)
  BY PlanAssumption, RunsAreTuples
<1>2. step[r] \in Nat
  BY DEF TypeOK
<1>3. step[r] + 1 \in 1..Len(Plan[Job(r)])
  BY <1>1, <1>2
<1> QED BY <1>1, <1>3 DEF NextStage

LEMMA StoreTypes ==
  ASSUME StoreTypeOK, NEW j \in Jobs
  PROVE  /\ \A f \in {Upload, NoFile} : Create(j, f) => StoreTypeOK'
         /\ \A w \in Workers : \A X : ClaimNextQueued(w, j, X) => StoreTypeOK'
         /\ \A w : RenewLease(w, j) => StoreTypeOK'
         /\ \A w : \A s \in JobStage : SetStage(w, j, s) => StoreTypeOK'
         /\ \A w : ReleaseForRetry(w, j) => StoreTypeOK'
         /\ \A f \in Files \cup {NoFile} : SetAudioPath(j, f) => StoreTypeOK'
         /\ \A w : Finish(w, j) => StoreTypeOK'
         /\ \A w : Fail(w, j) => StoreTypeOK'
         /\ Cancel(j) => StoreTypeOK'
         /\ PurgeOlderThan(j) => StoreTypeOK'
         /\ LeaseLapses(j) => StoreTypeOK'
         /\ CooldownEnds(j) => StoreTypeOK'
<1> USE DEF StoreTypeOK, JobStatus, ActiveStatus, Terminal, JobStage, Files
<1> USE MaxAttemptsAssumption
<1>1. ASSUME NEW f \in {Upload, NoFile}, Create(j, f) PROVE StoreTypeOK'
  BY <1>1 DEF Create, Upload, NoFile
<1>2. ASSUME NEW w \in Workers, NEW X, ClaimNextQueued(w, j, X)
      PROVE  StoreTypeOK'
  BY <1>2 DEF ClaimNextQueued
<1>3. ASSUME NEW w, RenewLease(w, j) PROVE StoreTypeOK'
  BY <1>3 DEF RenewLease
<1>4. ASSUME NEW w, NEW s \in JobStage, SetStage(w, j, s) PROVE StoreTypeOK'
  BY <1>4 DEF SetStage
<1>5. ASSUME NEW w, ReleaseForRetry(w, j) PROVE StoreTypeOK'
  BY <1>5 DEF ReleaseForRetry
<1>6. ASSUME NEW f \in Files \cup {NoFile}, SetAudioPath(j, f) PROVE StoreTypeOK'
  BY <1>6 DEF SetAudioPath
<1>7. ASSUME NEW w, Finish(w, j) PROVE StoreTypeOK'
  BY <1>7 DEF Finish, Settle, InsertJobStats, InsertWebhook
<1>8. ASSUME NEW w, Fail(w, j) PROVE StoreTypeOK'
  BY <1>8 DEF Fail, Settle, InsertJobStats, InsertWebhook
<1>9. ASSUME Cancel(j) PROVE StoreTypeOK'
  BY <1>9 DEF Cancel, Settle, InsertJobStats, InsertWebhook
<1>10. PurgeOlderThan(j) => StoreTypeOK'
  BY DEF PurgeOlderThan, NoFile
<1>11. LeaseLapses(j) => StoreTypeOK'
  BY DEF LeaseLapses
<1>12. CooldownEnds(j) => StoreTypeOK'
  BY DEF CooldownEnds
<1> QED BY <1>1, <1>2, <1>3, <1>4, <1>5, <1>6, <1>7, <1>8, <1>9, <1>10, <1>11, <1>12

\* Type correctness: every statement keeps its column's domain, every claim
\* stays within the runs there are, every stage reported is a stage.
LEMMA InitTypeOK == Init => TypeOK
BY MaxAttemptsAssumption, MaxFaultsAssumption
   DEF Init, StoreInit, TypeOK, StoreTypeOK, JobStatus, ActiveStatus, Terminal,
       JobStage, Files, NoFile, RunPC

LEMMA NextTypeOK == TypeOK /\ [Next]_vars => TypeOK'
<1> SUFFICES ASSUME TypeOK, [Next]_vars PROVE TypeOK'
  OBVIOUS
<1> USE DEF TypeOK, Goto, RunPC, Fault, workerVars
<1>0. StoreTypeOK /\ \A r \in Runs : by[r] \in Workers \cup {NoOwner}
  OBVIOUS
<1>1. ASSUME NEW j \in Jobs, Submit(j) PROVE TypeOK'
  <2>1. StoreTypeOK' BY <1>1, StoreTypes DEF Submit
  <2> QED BY <1>1, <2>1, MaxAttemptsAssumption
             DEF Submit, Upload, NoFile, Files, runVars, workerVars
<1>2. ASSUME NEW j \in Jobs, CancelJob(j) PROVE TypeOK'
  <2>1. StoreTypeOK' BY <1>2, StoreTypes DEF CancelJob
  <2> QED BY <1>2, <2>1, MaxFaultsAssumption DEF CancelJob, runVars
<1>3. ASSUME NEW j \in Jobs, Lapse(j) PROVE TypeOK'
  <2>1. StoreTypeOK' BY <1>3, StoreTypes DEF Lapse
  <2> QED BY <1>3, <2>1, MaxFaultsAssumption DEF Lapse, runVars
<1>4. ASSUME NEW j \in Jobs, Cool(j) PROVE TypeOK'
  BY <1>4, StoreTypes DEF Cool, runVars
<1>5. ASSUME NEW j \in Jobs, PurgeOnce(j) PROVE TypeOK'
  <2>1. StoreTypeOK' BY <1>5, StoreTypes DEF PurgeOnce
  <2> QED BY <1>5, <2>1, MaxFaultsAssumption DEF PurgeOnce, runVars
<1>6. ASSUME NEW j \in Jobs, SweepOrphans(j) PROVE TypeOK'
  BY <1>6 DEF SweepOrphans, StoreTypeOK, storeVars, runVars
<1>7. ASSUME NEW w \in Workers, NEW j \in Jobs, Claim(w, j) \/ LateClaim(w, j)
      PROVE  TypeOK'
  <2>1. ClaimInto(w, j) BY <1>7 DEF Claim, LateClaim
  <2>2. StoreTypeOK' BY <2>1, StoreTypes DEF ClaimInto
  <2>3. /\ path[j] \in Files \cup {NoFile} /\ stage[j] \in JobStage
        /\ attempt[j] \in 0..MaxAttempts
    BY DEF StoreTypeOK
  <2>4. <<j, attempt[j] + 1>> \in Runs
    BY <2>1, <2>3, MaxAttemptsAssumption DEF ClaimInto, ClaimNextQueued, Runs
  <2>5. /\ pc' \in [Runs -> RunPC] /\ by' \in [Runs -> Workers \cup {NoOwner}]
        /\ audio' \in [Runs -> Files \cup {NoFile}]
        /\ cur' \in [Runs -> JobStage] /\ UNCHANGED <<step, files, faults>>
    BY <2>1, <2>3, <2>4 DEF ClaimInto
  <2> QED BY <1>7, <2>2, <2>4, <2>5 DEF Claim, LateClaim
<1>8. ASSUME NEW w \in Workers, NEW j \in Jobs, ClaimReplyLost(w, j) PROVE TypeOK'
  <2>1. StoreTypeOK' BY <1>8, StoreTypes DEF ClaimReplyLost
  <2> QED BY <1>8, <2>1, MaxFaultsAssumption DEF ClaimReplyLost, runVars
<1>9. ASSUME NEW r \in Runs, RunStep(r) PROVE TypeOK'
  <2> USE RunsAreTuples
  <2>1. CASE RenewFirst(r)
    <3>1. StoreTypeOK' BY <2>1, StoreTypes DEF RenewFirst, StoreTypeOK, storeVars
    <3> QED BY <2>1, <3>1 DEF RenewFirst
  <2>2. CASE FetchSource(r)
    <3>1. r[2] \in Files BY MaxAttemptsAssumption DEF Files
    <3> QED BY <2>2, <3>1 DEF FetchSource, StoreTypeOK, storeVars
  <2>3. CASE AttachAudio(r)
    <3>1. StoreTypeOK' BY <2>3, StoreTypes DEF AttachAudio
    <3> QED BY <2>3, <3>1 DEF AttachAudio
  <2>4. CASE ReportStage(r)
    <3>1. step[r] < Len(Plan[Job(r)]) /\ NextStage(r) \in JobStage
      BY <2>4, NextStageType DEF ReportStage
    <3>2. ASSUME SetStage(by[r], Job(r), NextStage(r)) PROVE StoreTypeOK'
      BY <3>1, <3>2, <1>0, StoreTypes
    <3>3. ASSUME UNCHANGED storeVars PROVE StoreTypeOK'
      BY <3>3 DEF StoreTypeOK, storeVars
    <3>4. StoreTypeOK'
      BY <2>4, <3>2, <3>3 DEF ReportStage
    <3>5. cur' \in [Runs -> JobStage]
      BY <2>4, <3>1 DEF ReportStage
    <3>6. step' \in [Runs -> Nat]
      BY <2>4 DEF ReportStage
    <3> QED BY <2>4, <3>4, <3>5, <3>6 DEF ReportStage
  <2>5. CASE EngineReturns(r)
    BY <2>5 DEF EngineReturns, StoreTypeOK, storeVars
  <2>6. CASE PersistFinalizing(r)
    <3>1. "finalizing" \in JobStage BY DEF JobStage
    <3>2. ASSUME SetStage(by[r], Job(r), "finalizing") PROVE StoreTypeOK'
      BY <3>1, <3>2, <1>0, StoreTypes
    <3>3. ASSUME UNCHANGED storeVars PROVE StoreTypeOK'
      BY <3>3 DEF StoreTypeOK, storeVars
    <3>4. StoreTypeOK'
      BY <2>6, <3>2, <3>3 DEF PersistFinalizing
    <3> QED BY <2>6, <3>1, <3>4, SMTT(40) DEF PersistFinalizing
  <2>7. CASE FinishJob(r)
    <3>1. StoreTypeOK' BY <2>7, StoreTypes DEF FinishJob, StoreTypeOK, storeVars
    <3> QED BY <2>7, <3>1 DEF FinishJob
  <2>8. CASE PipelineFails(r)
    BY <2>8 DEF PipelineFails, StoreTypeOK, storeVars
  <2>9. CASE OutOfMemory(r)
    BY <2>9 DEF OutOfMemory, StoreTypeOK, storeVars
  <2>10. CASE ReleaseJob(r)
    <3>1. StoreTypeOK' BY <2>10, StoreTypes DEF ReleaseJob, StoreTypeOK, storeVars
    <3> QED BY <2>10, <3>1 DEF ReleaseJob, AfterRelease
  <2>11. CASE FailJob(r)
    <3>1. StoreTypeOK' BY <2>11, StoreTypes DEF FailJob, StoreTypeOK, storeVars
    <3> QED BY <2>11, <3>1 DEF FailJob
  <2>12. CASE LookUp(r)
    BY <2>12 DEF LookUp, StoreTypeOK, storeVars
  <2>13. CASE Cleanup(r)
    BY <2>13 DEF Cleanup, EndRuns, StoreTypeOK, storeVars, JobStage
  <2> QED BY <1>9, <2>1, <2>2, <2>3, <2>4, <2>5, <2>6, <2>7, <2>8, <2>9,
             <2>10, <2>11, <2>12, <2>13 DEF RunStep
<1>10. ASSUME NEW r \in Runs, Heartbeat(r) PROVE TypeOK'
  BY <1>10, RunsAreTuples, StoreTypes DEF Heartbeat, runVars
<1>11. ASSUME NEW r \in Runs, StoreError(r) PROVE TypeOK'
  BY <1>11, MaxFaultsAssumption DEF StoreError, StoreTypeOK, storeVars
<1>12. ASSUME NEW r \in Runs, CommitUnacknowledged(r) PROVE TypeOK'
  <2>1. StoreTypeOK'
    <3>1. ASSUME step[r] < Len(Plan[Job(r)]), SetStage(by[r], Job(r), NextStage(r))
          PROVE  StoreTypeOK'
      BY <3>1, <1>0, NextStageType, RunsAreTuples, StoreTypes
    <3>2. ASSUME SetStage(by[r], Job(r), "finalizing") PROVE StoreTypeOK'
      BY <3>2, <1>0, RunsAreTuples, StoreTypes DEF JobStage
    <3>3. ASSUME SetAudioPath(Job(r), audio[r]) PROVE StoreTypeOK'
      BY <3>3, RunsAreTuples, StoreTypes
    <3> QED BY <1>12, <3>1, <3>2, <3>3, RunsAreTuples, StoreTypes DEF CommitUnacknowledged
  <2> QED BY <1>12, <2>1, MaxFaultsAssumption DEF CommitUnacknowledged
<1>13. ASSUME NEW w \in Workers,
              \/ Crash(w) \/ Stop(w) \/ LateClaimEmpty(w) \/ StopControl(w) \/ Exit(w)
       PROVE  TypeOK'
  <2>1. StoreTypeOK' BY <1>13 DEF Crash, Exit, Leave, Stop, LateClaimEmpty, StopControl,
                                  StoreTypeOK, storeVars
  <2>2. faults' \in 0..MaxFaults
    BY <1>13, MaxFaultsAssumption DEF Crash, Exit, Leave, Stop, LateClaimEmpty, StopControl
  <2>3. ASSUME NEW R \in SUBSET Runs, EndRuns(R)
        PROVE  /\ pc' \in [Runs -> RunPC] /\ by' \in [Runs -> Workers \cup {NoOwner}]
               /\ audio' \in [Runs -> Files \cup {NoFile}]
               /\ cur' \in [Runs -> JobStage] /\ step' \in [Runs -> Nat]
    BY <2>3 DEF EndRuns, JobStage
  <2>4. ASSUME Leave(w) PROVE TypeOK'
    BY <2>1, <2>2, <2>3, <2>4 DEF Leave
  <2>5. ASSUME Stop(w) PROVE TypeOK'
    BY <2>1, <2>2, <2>5 DEF Stop, runVars
  <2>6. ASSUME LateClaimEmpty(w) PROVE TypeOK'
    BY <2>1, <2>2, <2>6 DEF LateClaimEmpty, runVars
  <2>7. ASSUME StopControl(w) PROVE TypeOK'
    <3>1. /\ pc' \in [Runs -> RunPC] /\ by' \in [Runs -> Workers \cup {NoOwner}]
          /\ audio' \in [Runs -> Files \cup {NoFile}]
          /\ cur' \in [Runs -> JobStage] /\ step' \in [Runs -> Nat]
      BY <2>3, <2>7 DEF StopControl, Awaited, runVars
    <3> QED BY <2>1, <2>2, <2>7, <3>1 DEF StopControl
  <2> QED BY <1>13, <2>4, <2>5, <2>6, <2>7 DEF Crash, Exit
<1>14. CASE UNCHANGED vars
  BY <1>14 DEF vars, storeVars, runVars, StoreTypeOK
<1> QED BY <1>1, <1>2, <1>3, <1>4, <1>5, <1>6, <1>7, <1>8, <1>9, <1>10, <1>11,
           <1>12, <1>13, <1>14 DEF Next

THEOREM TypeCorrect == Spec => []TypeOK
BY InitTypeOK, NextTypeOK, PTL DEF Spec

-----------------------------------------------------------------------------
(* The tables.  Whatever a step of the queue does, what it does to the     *)
(* tables is one statement of the store or nothing.                        *)

Statement ==
  \/ \E j \in Jobs : \/ \E f \in {Upload, NoFile} : Create(j, f)
                     \/ Cancel(j) \/ PurgeOlderThan(j)
                     \/ LeaseLapses(j) \/ CooldownEnds(j)
  \/ \E w \in Workers, j \in Jobs : ClaimNextQueued(w, j, ExcludeIds(w))
  \/ \E r \in Runs :
       \/ RenewLease(by[r], Job(r))
       \/ \E s \in JobStage : SetStage(by[r], Job(r), s)
       \/ pc[r] = "attach" /\ SetAudioPath(Job(r), audio[r])
       \/ pc[r] = "release" /\ ReleaseForRetry(by[r], Job(r))
       \/ pc[r] = "finish" /\ Finish(by[r], Job(r))
       \/ pc[r] = "fail" /\ Fail(by[r], Job(r))

LEMMA StepIsAStatement ==
  ASSUME TypeOK, [Next]_vars
  PROVE  Statement \/ UNCHANGED storeVars
<1>1. ASSUME NEW j \in Jobs,
             Submit(j) \/ CancelJob(j) \/ Lapse(j) \/ Cool(j) \/ PurgeOnce(j)
      PROVE  Statement
  BY <1>1 DEF Submit, CancelJob, Lapse, Cool, PurgeOnce, Statement
<1>2. ASSUME NEW j \in Jobs, SweepOrphans(j) PROVE UNCHANGED storeVars
  BY <1>2 DEF SweepOrphans
<1>3. ASSUME NEW w \in Workers, NEW j \in Jobs,
             Claim(w, j) \/ ClaimReplyLost(w, j) \/ LateClaim(w, j)
      PROVE  Statement
  BY <1>3 DEF Claim, LateClaim, ClaimInto, ClaimReplyLost, Statement
<1>4. ASSUME NEW r \in Runs, RunStep(r) PROVE Statement \/ UNCHANGED storeVars
  <2>1. CASE ReportStage(r)
    <3>1. step[r] < Len(Plan[Job(r)]) /\ NextStage(r) \in JobStage
      BY <2>1, NextStageType DEF ReportStage
    <3> QED BY <2>1, <3>1 DEF ReportStage, Statement, storeVars
  <2>2. CASE PersistFinalizing(r)
    <3>1. "finalizing" \in JobStage BY DEF JobStage
    <3> QED BY <2>2, <3>1 DEF PersistFinalizing, Statement
  <2>3. CASE RenewFirst(r) \/ AttachAudio(r) \/ FinishJob(r) \/ ReleaseJob(r) \/ FailJob(r)
    BY <2>3 DEF RenewFirst, AttachAudio, FinishJob, ReleaseJob, FailJob, Statement
  <2>4. CASE \/ FetchSource(r) \/ EngineReturns(r) \/ PipelineFails(r)
             \/ OutOfMemory(r) \/ LookUp(r) \/ Cleanup(r)
    BY <2>4 DEF FetchSource, EngineReturns, PipelineFails, OutOfMemory, LookUp, Cleanup
  <2> QED BY <1>4, <2>1, <2>2, <2>3, <2>4 DEF RunStep
<1>5. ASSUME NEW r \in Runs, Heartbeat(r) \/ CommitUnacknowledged(r) PROVE Statement
  <2>1. step[r] < Len(Plan[Job(r)]) => NextStage(r) \in JobStage
    BY NextStageType
  <2>2. "finalizing" \in JobStage BY DEF JobStage
  <2> QED BY <1>5, <2>1, <2>2 DEF Heartbeat, CommitUnacknowledged, Statement
<1>6. ASSUME NEW r \in Runs, StoreError(r) PROVE UNCHANGED storeVars
  BY <1>6 DEF StoreError
<1>7. ASSUME NEW w \in Workers,
             \/ Crash(w) \/ Stop(w) \/ LateClaimEmpty(w) \/ StopControl(w) \/ Exit(w)
      PROVE  UNCHANGED storeVars
  BY <1>7 DEF Crash, Exit, Leave, Stop, LateClaimEmpty, StopControl
<1>8. ASSUME UNCHANGED vars PROVE UNCHANGED storeVars
  BY <1>8 DEF vars
<1> QED BY <1>1, <1>2, <1>3, <1>4, <1>5, <1>6, <1>7, <1>8 DEF Next

\* A settled row is only ever purged, an unsettled one has no trace of an
\* outcome: whatever races for a job, the first terminal statement wins.
LEMMA InitOneOutcome == Init => OneOutcome
BY DEF Init, StoreInit, OneOutcome, OneRecord, OneEvent, RowTellsOutcome,
       Terminal, ActiveStatus

LEMMA StatementOneOutcome ==
  ASSUME TypeOK, OneOutcome, Statement \/ UNCHANGED storeVars
  PROVE  OneOutcome'
<1> USE DEF OneOutcome, OneRecord, OneEvent, RowTellsOutcome, Terminal, ActiveStatus,
            TypeOK, StoreTypeOK, JobStatus
<1>1. ASSUME NEW j \in Jobs, NEW f, Create(j, f) PROVE OneOutcome'
  BY <1>1, ZenonT(60) DEF Create
<1>2. ASSUME NEW j \in Jobs, Cancel(j) PROVE OneOutcome'
  BY <1>2, ZenonT(60) DEF Cancel, Cancellable, Settle, InsertJobStats, InsertWebhook
<1>3. ASSUME NEW j \in Jobs, PurgeOlderThan(j) PROVE OneOutcome'
  BY <1>3, ZenonT(60) DEF PurgeOlderThan, Purgeable
<1>4. ASSUME NEW j \in Jobs, LeaseLapses(j) \/ CooldownEnds(j) PROVE OneOutcome'
  BY <1>4, ZenonT(60) DEF LeaseLapses, CooldownEnds
<1>5. ASSUME NEW w \in Workers, NEW j \in Jobs, ClaimNextQueued(w, j, ExcludeIds(w))
      PROVE  OneOutcome'
  BY <1>5, ZenonT(60) DEF ClaimNextQueued, Claimable
<1>6. ASSUME NEW r \in Runs, RenewLease(by[r], Job(r)) PROVE OneOutcome'
  BY <1>6 DEF RenewLease
<1>7. ASSUME NEW r \in Runs, NEW s \in JobStage, SetStage(by[r], Job(r), s) PROVE OneOutcome'
  BY <1>7 DEF SetStage
<1>8. ASSUME NEW r \in Runs, SetAudioPath(Job(r), audio[r]) PROVE OneOutcome'
  BY <1>8 DEF SetAudioPath
<1>9. ASSUME NEW r \in Runs, ReleaseForRetry(by[r], Job(r)) PROVE OneOutcome'
  BY <1>9, RunsAreTuples, ZenonT(60) DEF ReleaseForRetry, Owns
<1>10. ASSUME NEW w, NEW j \in Jobs, Finish(w, j) PROVE OneOutcome'
  BY <1>10, ZenonT(60) DEF Finish, Owns, Settle, InsertJobStats, InsertWebhook
<1>11. ASSUME NEW w, NEW j \in Jobs, Fail(w, j) PROVE OneOutcome'
  BY <1>11, ZenonT(60) DEF Fail, Owns, Settle, InsertJobStats, InsertWebhook
<1>12. ASSUME UNCHANGED storeVars PROVE OneOutcome'
  BY <1>12 DEF storeVars
<1> QED BY <1>1, <1>2, <1>3, <1>4, <1>5, <1>6, <1>7, <1>8, <1>9, <1>10, <1>11, <1>12,
           RunsAreTuples DEF Statement

THEOREM OneOutcomeHolds == Spec => []OneOutcome
<1>1. TypeOK /\ OneOutcome /\ [Next]_vars => OneOutcome'
  BY StepIsAStatement, StatementOneOutcome
<1> QED BY <1>1, InitOneOutcome, TypeCorrect, PTL DEF Spec

\* Retention is the only statement whose guard a settled row passes.
THEOREM SettledStaysSettled == Spec => SettledForGood
<1> DEFINE Settled ==
      \A j \in Jobs :
        /\ status[j] \in Terminal => status'[j] \in {status[j], "purged"}
        /\ status[j] = "purged" => status'[j] = "purged"
<1>1. ASSUME TypeOK, Statement \/ UNCHANGED storeVars PROVE Settled
  <2> USE <1>1 DEF Terminal, ActiveStatus, TypeOK, StoreTypeOK
  <2>1. ASSUME NEW j \in Jobs, NEW f,
               Create(j, f) \/ Cancel(j) \/ PurgeOlderThan(j) PROVE Settled
    BY <2>1 DEF Create, Cancel, Cancellable, PurgeOlderThan, Settle
  <2>2. ASSUME NEW w, NEW j \in Jobs, NEW X, ClaimNextQueued(w, j, X) PROVE Settled
    BY <2>2 DEF ClaimNextQueued, Claimable
  <2>3. ASSUME NEW w, NEW j \in Jobs,
               ReleaseForRetry(w, j) \/ Finish(w, j) \/ Fail(w, j) PROVE Settled
    BY <2>3 DEF ReleaseForRetry, Finish, Fail, Owns, Settle
  <2>4. ASSUME UNCHANGED status PROVE Settled
    BY <2>4
  <2> QED
    BY <2>1, <2>2, <2>3, <2>4, RunsAreTuples
       DEF Statement, LeaseLapses, CooldownEnds, RenewLease, SetStage, SetAudioPath,
           storeVars
<1>2. TypeOK /\ [Next]_vars => [Settled]_vars
  BY <1>1, StepIsAStatement
<1> QED BY <1>2, TypeCorrect, PTL DEF Spec, SettledForGood

-----------------------------------------------------------------------------
(* Fencing.  The store compares workers, the argument needs attempts: a    *)
(* row only ever gets a new owner through a claim, and a claim skips the   *)
(* jobs its worker still has a run for.                                    *)

\* Only a claim starts a run or changes who executes one.
LEMMA RunsStartByClaim ==
  ASSUME TypeOK, [Next]_vars
  PROVE  \/ \E w \in Workers, j \in Jobs : Claim(w, j) \/ LateClaim(w, j)
         \/ \A r \in Runs : Live(r)' => Live(r) /\ by'[r] = by[r]
<1> USE DEF Live, Goto
<1> DEFINE NoneStarts == \A r \in Runs : Live(r)' => Live(r) /\ by'[r] = by[r]
<1>1. ASSUME UNCHANGED runVars PROVE NoneStarts
  BY <1>1 DEF runVars
<1>2. ASSUME NEW r \in Runs, Live(r), by' = by,
             pc' = pc \/ \E l \in RunPC : Goto(r, l)
      PROVE  NoneStarts
  BY <1>2 DEF TypeOK
<1>3. ASSUME NEW R \in SUBSET Runs, EndRuns(R) PROVE NoneStarts
  BY <1>3 DEF EndRuns
<1>4. ASSUME NEW r \in Runs, RunStep(r) PROVE NoneStarts
  <2>1. CASE Cleanup(r)
    BY <2>1, <1>3 DEF Cleanup
  <2>2. CASE ReportStage(r)
    BY <2>2, <1>2 DEF ReportStage, RunPC
  <2>3. CASE ~Cleanup(r) /\ ~ReportStage(r)
    BY <2>3, <1>4, <1>2 DEF RunStep, RenewFirst, FetchSource, AttachAudio,
       EngineReturns, PersistFinalizing, FinishJob, PipelineFails, OutOfMemory,
       ReleaseJob, AfterRelease, FailJob, LookUp, RunPC
  <2> QED BY <2>1, <2>2, <2>3
<1>5. ASSUME NEW r \in Runs, StoreError(r) \/ CommitUnacknowledged(r) PROVE NoneStarts
  BY <1>5, <1>2 DEF StoreError, CommitUnacknowledged, RunPC
<1>6. ASSUME NEW w \in Workers,
             \/ Crash(w) \/ Stop(w) \/ LateClaimEmpty(w) \/ StopControl(w) \/ Exit(w)
      PROVE  NoneStarts
  <2>1. Awaited(w) \in SUBSET Runs /\ {r \in Runs : by[r] = w} \in SUBSET Runs
    BY DEF Awaited
  <2> QED BY <1>1, <1>3, <1>6, <2>1
             DEF Crash, Exit, Leave, Stop, LateClaimEmpty, StopControl
<1> QED
  BY <1>1, <1>4, <1>5, <1>6 DEF Next, Submit, CancelJob, Lapse, Cool, PurgeOnce,
     SweepOrphans, ClaimReplyLost, Heartbeat, vars

\* A row that runs after a statement ran before it under the same owner and
\* attempt, or has just been claimed by a worker with no run of it.
LEMMA OwnersChangeByClaim ==
  ASSUME TypeOK, Statement \/ UNCHANGED storeVars, NEW j \in Jobs, status'[j] = "running"
  PROVE  \/ /\ status[j] = "running"
            /\ owner'[j] = owner[j] /\ attempt'[j] = attempt[j]
         \/ \E w \in Workers : owner'[j] = w /\ j \notin InFlight(w)
<1> DEFINE Kept == /\ status[j] = "running"
                   /\ owner'[j] = owner[j] /\ attempt'[j] = attempt[j]
<1> USE DEF TypeOK, StoreTypeOK, Terminal
<1>1. ASSUME NEW i \in Jobs, NEW f, Create(i, f) \/ Cancel(i) \/ PurgeOlderThan(i)
      PROVE  Kept
  BY <1>1 DEF Create, Cancel, PurgeOlderThan, Settle
<1>2. ASSUME NEW w, NEW i \in Jobs, ReleaseForRetry(w, i) \/ Finish(w, i) \/ Fail(w, i)
      PROVE  Kept
  BY <1>2 DEF ReleaseForRetry, Finish, Fail, Settle
<1>3. ASSUME UNCHANGED <<status, owner, attempt>> PROVE Kept
  BY <1>3
<1>4. ASSUME NEW w \in Workers, NEW i \in Jobs, ClaimNextQueued(w, i, ExcludeIds(w))
      PROVE  Kept \/ \E v \in Workers : owner'[j] = v /\ j \notin InFlight(v)
  BY <1>4 DEF ClaimNextQueued, ExcludeIds
<1> QED
  BY <1>1, <1>2, <1>3, <1>4, RunsAreTuples
     DEF Statement, LeaseLapses, CooldownEnds, RenewLease, SetStage, SetAudioPath,
         storeVars

LEMMA NextFenced == TypeOK /\ FencedByAttempt /\ [Next]_vars => FencedByAttempt'
<1> SUFFICES ASSUME TypeOK, FencedByAttempt, [Next]_vars,
                    NEW j \in Jobs, NEW a \in 1..MaxAttempts,
                    Live(<<j, a>>)', Owns(by[<<j, a>>], j)'
             PROVE  a = attempt'[j]
  BY DEF FencedByAttempt
<1>1. status'[j] = "running" /\ owner'[j] = by'[<<j, a>>]
  BY DEF Owns
<1>2. <<j, a>> \in Runs
  BY DEF Runs
<1>3. \/ /\ status[j] = "running"
         /\ owner'[j] = owner[j] /\ attempt'[j] = attempt[j]
      \/ \E w \in Workers : owner'[j] = w /\ j \notin InFlight(w)
  BY <1>1, StepIsAStatement, OwnersChangeByClaim
<1>4. ASSUME Live(<<j, a>>), by'[<<j, a>>] = by[<<j, a>>] PROVE a = attempt'[j]
  <2>1. \A w : owner'[j] = w => j \in InFlight(w)
    BY <1>1, <1>4 DEF InFlight
  <2>2. Owns(by[<<j, a>>], j) /\ attempt'[j] = attempt[j]
    BY <1>1, <1>3, <1>4, <2>1 DEF Owns
  <2> QED BY <1>4, <2>2 DEF FencedByAttempt
<1>5. ASSUME NEW w \in Workers, NEW i \in Jobs, Claim(w, i) \/ LateClaim(w, i)
      PROVE  a = attempt'[j]
  <2>1. /\ pc' = [pc EXCEPT ![<<i, attempt[i] + 1>>] = "renew"]
        /\ by' = [by EXCEPT ![<<i, attempt[i] + 1>>] = w]
        /\ attempt' = [attempt EXCEPT ![i] = @ + 1]
    BY <1>5 DEF Claim, LateClaim, ClaimInto, ClaimNextQueued, Goto
  <2>2. CASE <<j, a>> = <<i, attempt[i] + 1>>
    BY <2>1, <2>2 DEF TypeOK, StoreTypeOK
  <2>3. CASE <<j, a>> # <<i, attempt[i] + 1>>
    BY <1>2, <1>4, <2>1, <2>3 DEF Live, TypeOK
  <2> QED BY <2>2, <2>3
<1> QED BY <1>2, <1>4, <1>5, RunsStartByClaim

THEOREM Fenced == Spec => []FencedByAttempt
<1>1. Init => FencedByAttempt
  BY DEF Init, FencedByAttempt, Live, Runs
<1> QED BY <1>1, NextFenced, TypeCorrect, PTL DEF Spec

-----------------------------------------------------------------------------
(* Refinement.  Every statement is a step of JobLifecycle or a stutter.    *)
(* Three facts about the run are needed: a terminal statement finds no     *)
(* outcome recorded (OneOutcome); a run that hands its job back may still  *)
(* retry; and it is the job's latest attempt (FencedByAttempt).            *)

RetriesAreAllowed == \A r \in Runs : pc[r] = "release" => MayRetry(r)

LEMMA NextRetriesAllowed ==
  TypeOK /\ RetriesAreAllowed /\ [Next]_vars => RetriesAreAllowed'
<1> SUFFICES ASSUME TypeOK, RetriesAreAllowed, [Next]_vars PROVE RetriesAreAllowed'
  OBVIOUS
<1> USE DEF RetriesAreAllowed, MayRetry, Goto, TypeOK
<1>1. ASSUME UNCHANGED pc PROVE RetriesAreAllowed'
  BY <1>1
<1>2. ASSUME NEW r \in Runs, NEW l, Goto(r, l), l # "release" PROVE RetriesAreAllowed'
  BY <1>2
<1>3. ASSUME NEW R, EndRuns(R) PROVE RetriesAreAllowed'
  BY <1>3 DEF EndRuns
<1>4. ASSUME NEW w \in Workers, NEW j \in Jobs, Claim(w, j) \/ LateClaim(w, j)
      PROVE  RetriesAreAllowed'
  BY <1>4 DEF Claim, LateClaim, ClaimInto
<1>5. ASSUME NEW r \in Runs, RunStep(r) PROVE RetriesAreAllowed'
  <2>1. CASE OutOfMemory(r)
    BY <2>1 DEF OutOfMemory
  <2>2. CASE Cleanup(r)
    BY <2>2, <1>3 DEF Cleanup
  <2>3. CASE ReportStage(r)
    BY <2>3, <1>1, <1>2 DEF ReportStage
  <2>4. CASE ~OutOfMemory(r) /\ ~Cleanup(r) /\ ~ReportStage(r)
    BY <2>4, <1>5, <1>2 DEF RunStep, RenewFirst, FetchSource, AttachAudio,
       EngineReturns, PersistFinalizing, FinishJob, PipelineFails, ReleaseJob,
       AfterRelease, FailJob, LookUp
  <2> QED BY <2>1, <2>2, <2>3, <2>4
<1>6. ASSUME NEW r \in Runs, StoreError(r) \/ CommitUnacknowledged(r)
      PROVE  RetriesAreAllowed'
  BY <1>6, <1>2 DEF StoreError, CommitUnacknowledged
<1>7. ASSUME NEW w \in Workers,
             \/ Crash(w) \/ Stop(w) \/ LateClaimEmpty(w) \/ StopControl(w) \/ Exit(w)
      PROVE  RetriesAreAllowed'
  BY <1>7, <1>1, <1>3 DEF Crash, Exit, Leave, Stop, LateClaimEmpty, StopControl, runVars
<1> QED
  BY <1>1, <1>4, <1>5, <1>6, <1>7 DEF Next, Submit, CancelJob, Lapse, Cool, PurgeOnce,
     SweepOrphans, ClaimReplyLost, Heartbeat, vars, runVars

LEMMA RetriesAllowed == Spec => []RetriesAreAllowed
<1>1. Init => RetriesAreAllowed
  BY DEF Init, RetriesAreAllowed
<1> QED BY <1>1, NextRetriesAllowed, TypeCorrect, PTL DEF Spec

\* A terminal statement is Conclude: nothing was recorded before it.
LEMMA SettleConcludes ==
  ASSUME TypeOK, OneOutcome, NEW j \in Jobs, NEW s \in Terminal, Settle(j, s),
         status[j] = "running" \/ (status[j] = "queued" /\ s = "cancelled")
  PROVE  Lifecycle!Conclude(j, s)
<1>1. stats[j] = "none"
  BY DEF OneOutcome, OneRecord, ActiveStatus
<1> QED
  BY <1>1 DEF Settle, InsertJobStats, InsertWebhook, Lifecycle!Conclude, Lifecycle!Become

LEMMA StatementRefines ==
  ASSUME TypeOK, OneOutcome, FencedByAttempt, RetriesAreAllowed,
         Statement \/ UNCHANGED storeVars
  PROVE  [Lifecycle!Next]_(Lifecycle!vars)
<1> USE DEF Lifecycle!Next, Lifecycle!Become
<1>1. ASSUME NEW j \in Jobs, NEW f, Create(j, f) PROVE Lifecycle!Accept(j)
  BY <1>1 DEF Create, Lifecycle!Accept
<1>2. ASSUME NEW j \in Jobs, Cancel(j) PROVE Lifecycle!Conclude(j, "cancelled")
  BY <1>2, SettleConcludes DEF Cancel, Cancellable, ActiveStatus, Terminal
<1>3. ASSUME NEW j \in Jobs, PurgeOlderThan(j) PROVE Lifecycle!Forget(j)
  BY <1>3 DEF PurgeOlderThan, Purgeable, Terminal, Lifecycle!Forget, Lifecycle!Outcomes
<1>4. ASSUME NEW w, NEW j \in Jobs, NEW X, ClaimNextQueued(w, j, X)
      PROVE  Lifecycle!Attempt(j)
  BY <1>4 DEF ClaimNextQueued, Claimable, Lifecycle!Attempt
<1>5. ASSUME NEW r \in Runs, pc[r] = "release", ReleaseForRetry(by[r], Job(r))
      PROVE  Lifecycle!HandBack(Job(r))
  <2>1. Owns(by[r], Job(r)) /\ Live(r)
    BY <1>5 DEF ReleaseForRetry, Live
  <2>2. attempt[Job(r)] = r[2]
    BY <2>1, RunsAreTuples DEF FencedByAttempt
  <2>3. attempt[Job(r)] < OomMaxAttempts
    BY <1>5, <2>2 DEF RetriesAreAllowed, MayRetry
  <2> QED BY <1>5, <2>1, <2>3 DEF ReleaseForRetry, Owns, Lifecycle!HandBack
<1>6. ASSUME NEW w, NEW j \in Jobs, Finish(w, j) PROVE Lifecycle!Conclude(j, "completed")
  BY <1>6, SettleConcludes DEF Finish, Owns, Terminal
<1>7. ASSUME NEW w, NEW j \in Jobs, Fail(w, j) PROVE Lifecycle!Conclude(j, "failed")
  BY <1>7, SettleConcludes DEF Fail, Owns, Terminal
<1>8. ASSUME UNCHANGED <<status, attempt, stats, outbox>> PROVE UNCHANGED Lifecycle!vars
  BY <1>8 DEF Lifecycle!vars
<1> QED
  BY <1>1, <1>2, <1>3, <1>4, <1>5, <1>6, <1>7, <1>8, RunsAreTuples
     DEF Statement, LeaseLapses, CooldownEnds, RenewLease, SetStage, SetAudioPath,
         storeVars, Lifecycle!Outcomes

THEOREM RefinesLifecycle == Spec => ImplementsLifecycle
<1>1. Init => Lifecycle!Init
  BY DEF Init, StoreInit, Lifecycle!Init
<1>2. TypeOK /\ OneOutcome /\ FencedByAttempt /\ RetriesAreAllowed /\ [Next]_vars
        => [Lifecycle!Next]_(Lifecycle!vars)
  BY StepIsAStatement, StatementRefines
<1> QED
  BY <1>1, <1>2, TypeCorrect, OneOutcomeHolds, Fenced, RetriesAllowed, PTL
     DEF Spec, ImplementsLifecycle, Lifecycle!Spec

-----------------------------------------------------------------------------
(* Shutdown.                                                               *)

\* A claim by a worker that is up takes a run whose control thread lives, the
\* late claim is recorded, and ending the control thread ends every run that is
\* not recorded.
LEMMA NextAwaited == TypeOK /\ AwaitedRunsEnd /\ [Next]_vars => AwaitedRunsEnd'
<1> SUFFICES ASSUME TypeOK, AwaitedRunsEnd, [Next]_vars PROVE AwaitedRunsEnd'
  OBVIOUS
<1> USE DEF TypeOK, AwaitedRunsEnd, Live
<1>1. ASSUME NEW w \in Workers, NEW j \in Jobs, Claim(w, j) \/ LateClaim(w, j)
      PROVE  AwaitedRunsEnd'
  <2>1. /\ pc' = [pc EXCEPT ![<<j, attempt[j] + 1>>] = "renew"]
        /\ by' = [by EXCEPT ![<<j, attempt[j] + 1>>] = w]
        /\ down' = down
    BY <1>1 DEF Claim, LateClaim, ClaimInto, Goto, workerVars
  <2>2. /\ late' \in {late, late \cup {<<j, attempt[j] + 1>>}}
        /\ w \notin down \/ late' = late \cup {<<j, attempt[j] + 1>>}
    BY <1>1 DEF Claim, LateClaim, workerVars
  <2> QED BY <2>1, <2>2
<1>2. ASSUME NEW w \in Workers, StopControl(w) PROVE AwaitedRunsEnd'
  <2>1. CASE Awaited(w) = {} /\ UNCHANGED runVars
    BY <1>2, <2>1 DEF StopControl, Awaited, runVars
  <2>2. CASE EndRuns(Awaited(w))
    BY <1>2, <2>2 DEF StopControl, Awaited, EndRuns
  <2> QED BY <1>2, <2>1, <2>2 DEF StopControl
<1>3. ASSUME \A r \in Runs : Live(r)' => Live(r) /\ by'[r] = by[r],
             down' \subseteq down, late' = late
      PROVE  AwaitedRunsEnd'
  BY <1>3
<1>4. ASSUME ~ \E w \in Workers : StopControl(w) \/ \E j \in Jobs : LateClaim(w, j)
      PROVE  down' \subseteq down /\ late' = late
  BY <1>4 DEF Next, Submit, CancelJob, Lapse, Cool, PurgeOnce, SweepOrphans, Claim,
     ClaimReplyLost, RunStep, RenewFirst, FetchSource, AttachAudio, ReportStage,
     EngineReturns, PersistFinalizing, FinishJob, PipelineFails, OutOfMemory,
     ReleaseJob, FailJob, LookUp, Cleanup, Heartbeat, StoreError,
     CommitUnacknowledged, Crash, Leave, Stop, LateClaimEmpty, Exit, workerVars, vars
<1> QED BY <1>1, <1>2, <1>3, <1>4, RunsStartByClaim

\* Whatever is claimed, cancelled or killed while a worker shuts down, its
\* control thread ends under no run that stop() listed.
THEOREM ShutdownAwaits == Spec => []AwaitedRunsEnd
<1>1. Init => AwaitedRunsEnd
  BY DEF Init, AwaitedRunsEnd, Live
<1> QED BY <1>1, NextAwaited, TypeCorrect, PTL DEF Spec

-----------------------------------------------------------------------------
(* The stage a client polls.                                               *)

\* A run that still executes and holds the lease after a step held it before:
\* a claim gives the row to workers without a run of the job only.
LEMMA StillOwned ==
  ASSUME TypeOK, [Next]_vars, NEW r \in Runs, Live(r), by'[r] = by[r],
         Owns(by[r], Job(r))'
  PROVE  Owns(by[r], Job(r)) /\ attempt'[Job(r)] = attempt[Job(r)]
<1>1. status'[Job(r)] = "running" /\ owner'[Job(r)] = by[r]
  BY DEF Owns
<1>2. \/ /\ status[Job(r)] = "running"
         /\ owner'[Job(r)] = owner[Job(r)] /\ attempt'[Job(r)] = attempt[Job(r)]
      \/ \E w \in Workers : owner'[Job(r)] = w /\ Job(r) \notin InFlight(w)
  BY <1>1, RunsAreTuples, StepIsAStatement, OwnersChangeByClaim
<1>3. Job(r) \in InFlight(by[r])
  BY RunsAreTuples DEF InFlight
<1> QED BY <1>1, <1>2, <1>3 DEF Owns

\* Of the runs of a job, only the latest attempt passes the fence.
LEMMA OneOwningRun ==
  ASSUME FencedByAttempt, NEW r \in Runs, NEW q \in Runs, Job(q) = Job(r),
         Live(r), Live(q), Owns(by[r], Job(r)), Owns(by[q], Job(q))
  PROVE  q = r
<1>1. r = <<Job(r), r[2]>> /\ q = <<Job(q), q[2]>>
  BY RunsAreTuples
<1>2. r[2] = attempt[Job(r)] /\ q[2] = attempt[Job(q)]
  BY <1>1, RunsAreTuples DEF FencedByAttempt
<1> QED BY <1>1, <1>2

LEMMA NextStageOwned ==
  TypeOK /\ FencedByAttempt /\ StageIsTheOwners /\ [Next]_vars => StageIsTheOwners'
<1> SUFFICES ASSUME TypeOK, FencedByAttempt, StageIsTheOwners, [Next]_vars
             PROVE  StageIsTheOwners'
  OBVIOUS
<1>0. \A r \in Runs : pc[r] \in Progress => Live(r)
  BY DEF Progress, Live
<1> DEFINE Goes(q) == /\ pc[q] \in Progress
                      /\ by'[q] = by[q] /\ cur'[q] = cur[q]
           Stays(j) == stage'[j] = stage[j] \/ status'[j] # "running"
<1>1. ASSUME \A q \in Runs : pc'[q] \in Progress => Goes(q),
             \A j \in Jobs : Stays(j)
      PROVE  StageIsTheOwners'
  <2> SUFFICES ASSUME NEW q \in Runs, pc'[q] \in Progress, Owns(by[q], Job(q))'
               PROVE  stage'[Job(q)] = cur'[q]
    BY DEF StageIsTheOwners, Job
  <2>1. Goes(q) /\ Live(q)
    BY <1>0, <1>1
  <2>2. Owns(by[q], Job(q))
    <3>1. (Owns(by[q], Job(q)))' BY DEF Job
    <3> QED BY <2>1, <3>1, StillOwned
  <2>3. stage'[Job(q)] = stage[Job(q)]
    BY <1>1, RunsAreTuples DEF Owns, Job
  <2> QED BY <2>1, <2>2, <2>3 DEF StageIsTheOwners
<1>2. ASSUME NEW r \in Runs, NEW s, Live(r), SetStage(by[r], Job(r), s), by' = by,
             pc'[r] \in Progress => cur'[r] = s,
             \A q \in Runs : q # r => pc'[q] = pc[q] /\ cur'[q] = cur[q]
      PROVE  StageIsTheOwners'
  <2> SUFFICES ASSUME NEW q \in Runs, pc'[q] \in Progress, Owns(by[q], Job(q))'
               PROVE  stage'[Job(q)] = cur'[q]
    BY DEF StageIsTheOwners, Job
  <2>1. /\ Owns(by[r], Job(r)) /\ stage' = [stage EXCEPT ![Job(r)] = s]
        /\ status' = status /\ owner' = owner
    BY <1>2 DEF SetStage
  <2>2. Owns(by[q], Job(q))
    BY <1>2, <2>1 DEF Owns, Job
  <2>3. CASE q = r
    BY <1>2, <2>1, <2>3, RunsAreTuples DEF TypeOK, StoreTypeOK
  <2>4. CASE q # r
    <3>1. pc[q] \in Progress /\ cur'[q] = cur[q] /\ Live(q)
      BY <1>0, <1>2, <2>4
    <3>2. Job(q) # Job(r)
      BY <1>2, <2>1, <2>2, <2>4, <3>1, OneOwningRun
    <3>3. stage'[Job(q)] = stage[Job(q)]
      BY <2>1, <3>2, RunsAreTuples DEF TypeOK, StoreTypeOK
    <3> QED BY <2>2, <3>1, <3>3 DEF StageIsTheOwners
  <2> QED BY <2>3, <2>4
<1>3. ASSUME NEW w \in Workers, NEW j \in Jobs, Claim(w, j) \/ LateClaim(w, j)
      PROVE  StageIsTheOwners'
  <2> DEFINE n == <<j, attempt[j] + 1>>
  <2>1. /\ pc' = [pc EXCEPT ![n] = "renew"] /\ by' = [by EXCEPT ![n] = w]
        /\ cur' = [cur EXCEPT ![n] = stage[j]] /\ stage' = stage
    BY <1>3 DEF Claim, LateClaim, ClaimInto, ClaimNextQueued, Goto
  <2> HIDE DEF n
  <2> SUFFICES ASSUME NEW q \in Runs, pc'[q] \in Progress, Owns(by[q], Job(q))'
               PROVE  stage'[Job(q)] = cur'[q]
    BY DEF StageIsTheOwners, Job
  <2>2. CASE q = n
    BY <2>1, <2>2 DEF TypeOK, Job, n
  <2>3. CASE q # n
    <3>1. Goes(q) /\ Live(q)
      BY <1>0, <2>1, <2>3 DEF TypeOK
    <3>2. (Owns(by[q], Job(q)))' BY DEF Job
    <3>3. Owns(by[q], Job(q))
      BY <3>1, <3>2, StillOwned
    <3> QED BY <2>1, <3>1, <3>3 DEF StageIsTheOwners
  <2> QED BY <2>2, <2>3
<1>4. ASSUME NEW r \in Runs, RunStep(r) PROVE StageIsTheOwners'
  <2>1. CASE ReportStage(r)
    <3>1. ASSUME SetStage(by[r], Job(r), NextStage(r)),
                 cur' = [cur EXCEPT ![r] = NextStage(r)], UNCHANGED <<pc, by>>
          PROVE  StageIsTheOwners'
      BY <1>2, <2>1, <3>1 DEF ReportStage, Live, TypeOK
    <3>2. ASSUME UNCHANGED <<storeVars, cur, by>>, pc' = pc \/ Goto(r, "fail") \/ Goto(r, "refused")
          PROVE  StageIsTheOwners'
      BY <1>1, <3>2 DEF storeVars, Goto, TypeOK, Progress
    <3> QED BY <2>1, <3>1, <3>2 DEF ReportStage
  <2>2. CASE PersistFinalizing(r)
    <3>1. ASSUME SetStage(by[r], Job(r), "finalizing"),
                 cur' = [cur EXCEPT ![r] = "finalizing"], Goto(r, "finish"), by' = by
          PROVE  StageIsTheOwners'
      BY <1>2, <2>2, <3>1 DEF PersistFinalizing, Live, TypeOK, Goto
    <3>2. ASSUME UNCHANGED <<storeVars, cur, by>>, Goto(r, "refused")
          PROVE  StageIsTheOwners'
      BY <1>1, <3>2 DEF storeVars, Goto, TypeOK, Progress
    <3> QED BY <2>2, <3>1, <3>2 DEF PersistFinalizing
  <2>3. CASE ReleaseJob(r)
    <3>1. \A q \in Runs : pc'[q] \in Progress => Goes(q)
      BY <2>3 DEF ReleaseJob, AfterRelease, Goto, TypeOK, Progress
    <3>2. \A j \in Jobs : Stays(j)
      BY <2>3, RunsAreTuples DEF ReleaseJob, ReleaseForRetry, storeVars, TypeOK, StoreTypeOK
    <3> QED BY <1>1, <3>1, <3>2
  <2>4. CASE \/ RenewFirst(r) \/ FetchSource(r) \/ AttachAudio(r) \/ EngineReturns(r)
             \/ FinishJob(r) \/ PipelineFails(r) \/ OutOfMemory(r) \/ FailJob(r) \/ LookUp(r)
    <3>1. \A q \in Runs : pc'[q] \in Progress => Goes(q)
      BY <2>4 DEF RenewFirst, FetchSource, AttachAudio, EngineReturns, FinishJob,
         PipelineFails, OutOfMemory, FailJob, LookUp, Goto, TypeOK, Progress
    <3>2. stage' = stage
      BY <2>4 DEF RenewFirst, FetchSource, AttachAudio, EngineReturns, FinishJob,
         PipelineFails, OutOfMemory, FailJob, LookUp, RenewLease, SetAudioPath, Finish,
         Fail, Settle, storeVars
    <3> QED BY <1>1, <3>1, <3>2
  <2>5. CASE Cleanup(r)
    <3>1. \A q \in Runs : pc'[q] \in Progress => Goes(q)
      BY <2>5 DEF Cleanup, EndRuns, Progress
    <3> QED BY <1>1, <2>5, <3>1 DEF Cleanup, storeVars
  <2> QED BY <1>4, <2>1, <2>2, <2>3, <2>4, <2>5 DEF RunStep
<1>5. ASSUME NEW r \in Runs, CommitUnacknowledged(r) PROVE StageIsTheOwners'
  <2>1. /\ by' = by /\ cur' = cur /\ Live(r) /\ pc'[r] \notin Progress
        /\ \A q \in Runs : q # r => pc'[q] = pc[q]
    BY <1>5 DEF CommitUnacknowledged, Goto, Progress, TypeOK, Live
  <2>2. CASE SetStage(by[r], Job(r), NextStage(r)) \/ SetStage(by[r], Job(r), "finalizing")
    BY <1>2, <2>1, <2>2
  <2>3. CASE \A j \in Jobs : Stays(j)
    BY <1>1, <2>1, <2>3
  <2>4. ASSUME \/ RenewLease(by[r], Job(r)) \/ SetAudioPath(Job(r), audio[r])
               \/ Finish(by[r], Job(r)) \/ Fail(by[r], Job(r))
               \/ ReleaseForRetry(by[r], Job(r))
        PROVE  \A j \in Jobs : Stays(j)
    BY <2>4, RunsAreTuples DEF RenewLease, SetAudioPath, Finish, Fail, Settle,
       ReleaseForRetry, TypeOK, StoreTypeOK
  <2> QED BY <1>5, <2>2, <2>3, <2>4 DEF CommitUnacknowledged
<1>6. ASSUME NEW r \in Runs, StoreError(r) \/ Heartbeat(r) PROVE StageIsTheOwners'
  <2>1. \A q \in Runs : pc'[q] \in Progress => Goes(q)
    BY <1>6 DEF StoreError, Heartbeat, Goto, TypeOK, Progress, runVars
  <2>2. stage' = stage
    BY <1>6 DEF StoreError, Heartbeat, RenewLease, storeVars
  <2> QED BY <1>1, <2>1, <2>2
<1>7. ASSUME NEW w \in Workers,
             \/ Crash(w) \/ Stop(w) \/ LateClaimEmpty(w) \/ StopControl(w) \/ Exit(w)
      PROVE  StageIsTheOwners'
  <2>1. ASSUME NEW R, EndRuns(R) PROVE \A q \in Runs : pc'[q] \in Progress => Goes(q)
    BY <2>1 DEF EndRuns, Progress
  <2>2. \A q \in Runs : pc'[q] \in Progress => Goes(q)
    BY <1>7, <2>1 DEF Crash, Exit, Leave, Stop, LateClaimEmpty, StopControl, runVars
  <2>3. stage' = stage
    BY <1>7 DEF Crash, Exit, Leave, Stop, LateClaimEmpty, StopControl, storeVars
  <2> QED BY <1>1, <2>2, <2>3
<1>8. ASSUME NEW j \in Jobs,
             \/ Submit(j) \/ CancelJob(j) \/ Lapse(j) \/ Cool(j)
             \/ PurgeOnce(j) \/ SweepOrphans(j)
      PROVE  StageIsTheOwners'
  <2>1. UNCHANGED runVars
    BY <1>8 DEF Submit, CancelJob, Lapse, Cool, PurgeOnce, SweepOrphans
  <2>2. \A i \in Jobs : Stays(i)
    BY <1>8 DEF Submit, Create, CancelJob, Cancel, Settle, Lapse, LeaseLapses, Cool,
       CooldownEnds, PurgeOnce, PurgeOlderThan, SweepOrphans, storeVars, TypeOK, StoreTypeOK
  <2> QED BY <1>1, <2>1, <2>2 DEF runVars
<1>9. ASSUME NEW w \in Workers, NEW j \in Jobs, ClaimReplyLost(w, j)
      PROVE  StageIsTheOwners'
  BY <1>1, <1>9 DEF ClaimReplyLost, ClaimNextQueued, runVars
<1>10. CASE UNCHANGED vars
  BY <1>1, <1>10 DEF vars, storeVars, runVars
<1> QED BY <1>3, <1>4, <1>5, <1>6, <1>7, <1>8, <1>9, <1>10 DEF Next

\* While the run that holds the lease makes progress, a client polls its stage,
\* for every number of workers, takeovers and zombies.
THEOREM StageShown == Spec => []StageIsTheOwners
<1>1. Init => StageIsTheOwners
  BY DEF Init, StageIsTheOwners, Progress
<1> QED BY <1>1, NextStageOwned, Fenced, TypeCorrect, PTL DEF Spec

-----------------------------------------------------------------------------
(* The audio files.                                                        *)

Settled == Terminal \cup {"purged"}

\* Files of an active job are only added.  A run may delete only what a settled
\* job leaves, and holds the file it was given or fetched itself.
RunHasAudio ==
  \A r \in Runs : Live(r) /\ Job(r) \in ActiveJobs /\ audio[r] # NoFile
                  => audio[r] \in files[Job(r)]

DeletesSettled == \A r \in Runs : pc[r] = "delete" => status[Job(r)] \in Settled

Submitted == \A r \in Runs : Live(r) => status[Job(r)] # "absent"

AudioInv == ActiveAudioKept /\ RunHasAudio /\ DeletesSettled /\ Submitted

\* No statement brings a settled job back or takes a row out of the table.
LEMMA StatusMoves ==
  ASSUME TypeOK, Statement \/ UNCHANGED storeVars, NEW j \in Jobs
  PROVE  /\ status[j] \in Settled => status'[j] \in Settled
         /\ status'[j] = "absent" => status[j] = "absent"
<1> USE DEF TypeOK, StoreTypeOK, Settled, Terminal
<1> DEFINE Moves == /\ status[j] \in Settled => status'[j] \in Settled
                    /\ status'[j] = "absent" => status[j] = "absent"
<1>1. ASSUME NEW i \in Jobs, NEW f, Create(i, f) \/ Cancel(i) \/ PurgeOlderThan(i)
      PROVE  Moves
  BY <1>1 DEF Create, Cancel, Cancellable, ActiveStatus, PurgeOlderThan, Settle
<1>2. ASSUME NEW w, NEW i \in Jobs, ReleaseForRetry(w, i) \/ Finish(w, i) \/ Fail(w, i)
      PROVE  Moves
  BY <1>2 DEF ReleaseForRetry, Finish, Fail, Settle, Owns
<1>3. ASSUME NEW w, NEW i \in Jobs, NEW X, ClaimNextQueued(w, i, X) PROVE Moves
  BY <1>3 DEF ClaimNextQueued, Claimable
<1>4. ASSUME status' = status PROVE Moves
  BY <1>4
<1> QED
  BY <1>1, <1>2, <1>3, <1>4, RunsAreTuples
     DEF Statement, LeaseLapses, CooldownEnds, RenewLease, SetStage, SetAudioPath,
         storeVars

LEMMA NextSubmitted == TypeOK /\ Submitted /\ [Next]_vars => Submitted'
<1> SUFFICES ASSUME TypeOK, Submitted, [Next]_vars, NEW r \in Runs, Live(r)'
             PROVE  status'[Job(r)] # "absent"
  BY DEF Submitted, Job
<1>1. status[Job(r)] # "absent" => status'[Job(r)] # "absent"
  BY RunsAreTuples, StepIsAStatement, StatusMoves
<1>2. CASE Live(r)
  BY <1>1, <1>2 DEF Submitted
<1>3. ASSUME NEW w \in Workers, NEW j \in Jobs, Claim(w, j) \/ LateClaim(w, j), ~Live(r)
      PROVE  status'[Job(r)] # "absent"
  <2>1. r = <<j, attempt[j] + 1>> /\ status'[j] = "running"
    BY <1>3 DEF Claim, LateClaim, ClaimInto, ClaimNextQueued, Goto, Live, TypeOK, StoreTypeOK
  <2> QED BY <2>1 DEF Job
<1> QED BY <1>2, <1>3, RunsStartByClaim

\* A run goes on to delete only after it settled its job or read that it was
\* cancelled.
LEMMA NextDeletesSettled == TypeOK /\ DeletesSettled /\ [Next]_vars => DeletesSettled'
<1> SUFFICES ASSUME TypeOK, DeletesSettled, [Next]_vars, NEW q \in Runs, pc'[q] = "delete"
             PROVE  status'[Job(q)] \in Settled
  BY DEF DeletesSettled, Job
<1>1. pc[q] = "delete" => status'[Job(q)] \in Settled
  BY RunsAreTuples, StepIsAStatement, StatusMoves DEF DeletesSettled
<1>2. ASSUME NEW r \in Runs, FinishJob(r) \/ FailJob(r) \/ LookUp(r)
      PROVE  pc[q] = "delete" \/ status'[Job(q)] \in Settled
  <2> USE <1>2, RunsAreTuples DEF Goto, TypeOK, StoreTypeOK, Settled, Terminal
  <2>1. CASE FinishJob(r)
    BY <2>1 DEF FinishJob, Finish, Settle
  <2>2. CASE FailJob(r)
    BY <2>2 DEF FailJob, Fail, Settle
  <2>3. CASE LookUp(r)
    BY <2>3 DEF LookUp, DeletesAudioOfRefused, storeVars
  <2> QED BY <2>1, <2>2, <2>3
<1>3. ASSUME NEW r \in Runs,
             \/ RenewFirst(r) \/ FetchSource(r) \/ AttachAudio(r) \/ ReportStage(r)
             \/ EngineReturns(r) \/ PersistFinalizing(r) \/ PipelineFails(r)
             \/ OutOfMemory(r) \/ ReleaseJob(r) \/ Cleanup(r)
             \/ Heartbeat(r) \/ StoreError(r) \/ CommitUnacknowledged(r)
      PROVE  pc[q] = "delete"
  BY <1>3 DEF RenewFirst, FetchSource, AttachAudio, ReportStage, EngineReturns,
     PersistFinalizing, PipelineFails, OutOfMemory, ReleaseJob, AfterRelease, Cleanup,
     EndRuns, Heartbeat, StoreError, CommitUnacknowledged, Goto, TypeOK, runVars
<1>4. ASSUME NEW w \in Workers,
             \/ Crash(w) \/ Stop(w) \/ LateClaimEmpty(w) \/ StopControl(w) \/ Exit(w)
             \/ \E j \in Jobs : Claim(w, j) \/ LateClaim(w, j) \/ ClaimReplyLost(w, j)
      PROVE  pc[q] = "delete"
  BY <1>4 DEF Crash, Exit, Leave, Stop, LateClaimEmpty, StopControl, EndRuns, Claim,
     LateClaim, ClaimInto, ClaimReplyLost, Goto, TypeOK, runVars
<1>5. ASSUME UNCHANGED runVars PROVE pc[q] = "delete"
  BY <1>5 DEF runVars
<1> QED
  BY <1>1, <1>2, <1>3, <1>4, <1>5
     DEF Next, RunStep, Submit, CancelJob, Lapse, Cool, PurgeOnce, SweepOrphans, vars

\* A job that is active after a step was active before or is being submitted.
LEMMA ActiveBefore ==
  ASSUME TypeOK, [Next]_vars, NEW j \in Jobs, j \in ActiveJobs'
  PROVE  j \in ActiveJobs \/ status[j] = "absent"
<1>1. status[j] \in Settled => status'[j] \in Settled
  BY StepIsAStatement, StatusMoves
<1> QED BY <1>1 DEF ActiveJobs, ActiveStatus, Settled, Terminal, TypeOK, StoreTypeOK, JobStatus

\* Nothing but retention, the sweep and the cleanup of a settled job removes a
\* file, and none of them touches an active job.
LEMMA FilesOfActiveStay ==
  ASSUME TypeOK, DeletesSettled, ~SlowJobs, [Next]_vars, NEW j \in Jobs,
         j \in ActiveJobs, j \in ActiveJobs'
  PROVE  files[j] \subseteq files'[j]
<1> USE DEF TypeOK, StoreTypeOK
<1>0. status[j] \in ActiveStatus /\ status'[j] \in ActiveStatus
  BY DEF ActiveJobs
<1>1. ASSUME NEW i \in Jobs, Submit(i) PROVE files[j] \subseteq files'[j]
  BY <1>0, <1>1 DEF Submit, Create, ActiveStatus
<1>2. ASSUME NEW i \in Jobs, CancelJob(i) PROVE files[j] \subseteq files'[j]
  BY <1>0, <1>2 DEF CancelJob, Cancel, Settle, ActiveStatus
<1>3. ASSUME NEW i \in Jobs, PurgeOnce(i) PROVE files[j] \subseteq files'[j]
  BY <1>0, <1>3 DEF PurgeOnce, PurgeOlderThan, ActiveStatus
<1>4. ASSUME NEW i \in Jobs, SweepOrphans(i) PROVE files[j] \subseteq files'[j]
  BY <1>4 DEF SweepOrphans
<1>5. ASSUME NEW r \in Runs, Cleanup(r) PROVE files[j] \subseteq files'[j]
  BY <1>0, <1>5 DEF Cleanup, DeletesSettled, Settled, Terminal, ActiveStatus
<1>6. ASSUME NEW r \in Runs, FetchSource(r) PROVE files[j] \subseteq files'[j]
  BY <1>6 DEF FetchSource
<1>7. ASSUME files' = files PROVE files[j] \subseteq files'[j]
  BY <1>7
<1> QED
  BY <1>1, <1>2, <1>3, <1>4, <1>5, <1>6, <1>7
     DEF Next, RunStep, Lapse, Cool, Claim, LateClaim, ClaimInto, ClaimReplyLost,
         RenewFirst, AttachAudio, ReportStage, EngineReturns, PersistFinalizing,
         FinishJob, PipelineFails, OutOfMemory, ReleaseJob, FailJob, LookUp, Heartbeat,
         StoreError, CommitUnacknowledged, Crash, Leave, Stop, LateClaimEmpty,
         StopControl, Exit, vars

\* A row names the file it named or the one a run of the job has in hand.
LEMMA PathsMove ==
  ASSUME TypeOK, [Next]_vars, NEW j \in Jobs, path'[j] # path[j], path'[j] # NoFile
  PROVE  \/ Submit(j)
         \/ \E r \in Runs : Live(r) /\ Job(r) = j /\ path'[j] = audio[r]
<1> USE DEF TypeOK, StoreTypeOK
<1>1. ASSUME NEW i \in Jobs,
             Submit(i) \/ CancelJob(i) \/ Lapse(i) \/ Cool(i) \/ PurgeOnce(i)
      PROVE  Submit(j)
  BY <1>1 DEF Submit, Create, CancelJob, Cancel, Settle, Lapse, LeaseLapses, Cool,
     CooldownEnds, PurgeOnce, PurgeOlderThan
<1>2. ASSUME NEW r \in Runs, pc[r] = "attach", SetAudioPath(Job(r), audio[r])
      PROVE  Live(r) /\ Job(r) = j /\ path'[j] = audio[r]
  BY <1>2 DEF SetAudioPath, Live
<1>3. ASSUME path' = path PROVE FALSE
  BY <1>3
<1>4. ASSUME NEW r \in Runs, RunStep(r) \/ Heartbeat(r) \/ StoreError(r) \/ CommitUnacknowledged(r)
      PROVE  \/ path' = path
             \/ pc[r] = "attach" /\ SetAudioPath(Job(r), audio[r])
  BY <1>4 DEF RunStep, RenewFirst, FetchSource, AttachAudio, ReportStage, EngineReturns,
     PersistFinalizing, FinishJob, PipelineFails, OutOfMemory, ReleaseJob, FailJob, LookUp,
     Cleanup, Heartbeat, StoreError, CommitUnacknowledged, storeVars, RenewLease,
     SetStage, ReleaseForRetry, Finish, Fail, Settle
<1>5. ASSUME NEW w \in Workers, NEW i \in Jobs,
             Claim(w, i) \/ LateClaim(w, i) \/ ClaimReplyLost(w, i)
      PROVE  path' = path
  BY <1>5 DEF Claim, LateClaim, ClaimInto, ClaimReplyLost, ClaimNextQueued
<1>6. ASSUME NEW w \in Workers,
             \/ Crash(w) \/ Stop(w) \/ LateClaimEmpty(w) \/ StopControl(w) \/ Exit(w)
      PROVE  path' = path
  BY <1>6 DEF Crash, Exit, Leave, Stop, LateClaimEmpty, StopControl, storeVars
<1>7. ASSUME UNCHANGED storeVars PROVE path' = path
  BY <1>7 DEF storeVars
<1> QED BY <1>1, <1>2, <1>3, <1>4, <1>5, <1>6, <1>7 DEF Next, SweepOrphans, vars

\* A live run keeps the file it has, was given the row's, or has just fetched it.
LEMMA AudioMoves ==
  ASSUME TypeOK, [Next]_vars, NEW r \in Runs, Live(r)', audio'[r] # NoFile
  PROVE  \/ Live(r) /\ audio'[r] = audio[r]
         \/ audio'[r] = path[Job(r)] /\ Claimable(Job(r))
         \/ Live(r) /\ audio'[r] \in files'[Job(r)]
<1> USE DEF TypeOK, Live
<1> DEFINE Moved == \/ Live(r) /\ audio'[r] = audio[r]
                    \/ audio'[r] = path[Job(r)] /\ Claimable(Job(r))
                    \/ Live(r) /\ audio'[r] \in files'[Job(r)]
<1>1. ASSUME NEW w \in Workers, NEW j \in Jobs, Claim(w, j) \/ LateClaim(w, j)
      PROVE  Moved
  <2>1. /\ pc' = [pc EXCEPT ![<<j, attempt[j] + 1>>] = "renew"]
        /\ audio' = [audio EXCEPT ![<<j, attempt[j] + 1>>] = path[j]]
        /\ Claimable(j)
    BY <1>1 DEF Claim, LateClaim, ClaimInto, ClaimNextQueued, Goto
  <2> QED BY <2>1 DEF Job
<1>2. ASSUME NEW q \in Runs, FetchSource(q) PROVE Moved
  BY <1>2, RunsAreTuples DEF FetchSource, Goto
<1>3. ASSUME NEW R, EndRuns(R) PROVE Moved
  BY <1>3 DEF EndRuns
<1>4. ASSUME NEW q \in Runs, pc[q] # "idle", NEW l, Goto(q, l), audio' = audio PROVE Moved
  BY <1>4 DEF Goto
<1>5. ASSUME UNCHANGED <<pc, audio>> PROVE Moved
  BY <1>5
<1>6. ASSUME NEW q \in Runs, RunStep(q) PROVE Moved
  <2>1. CASE RenewFirst(q)
    BY <2>1, <1>4 DEF RenewFirst
  <2>2. CASE ReportStage(q)
    BY <2>2, <1>4, <1>5 DEF ReportStage
  <2>3. CASE OutOfMemory(q) \/ LookUp(q)
    BY <2>3, <1>4 DEF OutOfMemory, LookUp
  <2>4. CASE \/ AttachAudio(q) \/ EngineReturns(q) \/ PersistFinalizing(q) \/ FinishJob(q)
             \/ PipelineFails(q) \/ ReleaseJob(q) \/ FailJob(q)
    BY <2>4, <1>4 DEF AttachAudio, EngineReturns, PersistFinalizing, FinishJob,
       PipelineFails, ReleaseJob, FailJob
  <2>5. CASE Cleanup(q)
    BY <2>5, <1>3 DEF Cleanup
  <2> QED BY <1>6, <1>2, <2>1, <2>2, <2>3, <2>4, <2>5 DEF RunStep
<1>7. ASSUME NEW q \in Runs, StoreError(q) \/ CommitUnacknowledged(q) PROVE Moved
  BY <1>7, <1>4 DEF StoreError, CommitUnacknowledged
<1>8. ASSUME NEW w \in Workers,
             \/ Crash(w) \/ Stop(w) \/ LateClaimEmpty(w) \/ StopControl(w) \/ Exit(w)
      PROVE  Moved
  BY <1>8, <1>3, <1>5 DEF Crash, Exit, Leave, Stop, LateClaimEmpty, StopControl, runVars
<1> QED
  BY <1>1, <1>5, <1>6, <1>7, <1>8
     DEF Next, Submit, CancelJob, Lapse, Cool, PurgeOnce, SweepOrphans, ClaimReplyLost,
         Heartbeat, vars, runVars

LEMMA OnlySubmitted ==
  ASSUME TypeOK, [Next]_vars, NEW j \in Jobs, status[j] = "absent", status'[j] # "absent"
  PROVE  Submit(j)
<1> USE DEF TypeOK, StoreTypeOK
<1>1. ASSUME NEW i \in Jobs, Submit(i) PROVE i = j
  BY <1>1 DEF Submit, Create
<1>2. ASSUME NEW i \in Jobs, CancelJob(i) \/ PurgeOnce(i) PROVE FALSE
  BY <1>2 DEF CancelJob, Cancel, Cancellable, Settle, PurgeOnce, PurgeOlderThan,
     Purgeable, ActiveStatus, Terminal
<1>3. ASSUME NEW w \in Workers, NEW i \in Jobs,
             Claim(w, i) \/ LateClaim(w, i) \/ ClaimReplyLost(w, i)
      PROVE  FALSE
  BY <1>3 DEF Claim, LateClaim, ClaimInto, ClaimReplyLost, ClaimNextQueued, Claimable
<1>4. ASSUME NEW r \in Runs, RunStep(r) \/ Heartbeat(r) \/ StoreError(r) \/ CommitUnacknowledged(r)
      PROVE  \/ status' = status
             \/ /\ status[Job(r)] = "running"
                /\ \E s \in JobStatus : status' = [status EXCEPT ![Job(r)] = s]
  <2> USE DEF RenewLease, SetStage, SetAudioPath, Owns, storeVars
  <2>1. CASE FinishJob(r) \/ FailJob(r) \/ ReleaseJob(r)
    BY <2>1 DEF FinishJob, FailJob, ReleaseJob, ReleaseForRetry, Finish, Fail, Settle,
       JobStatus, Terminal, ActiveStatus
  <2>2. CASE CommitUnacknowledged(r)
    BY <2>2 DEF CommitUnacknowledged, ReleaseForRetry, Finish, Fail, Settle,
       JobStatus, Terminal, ActiveStatus
  <2>3. CASE \/ RenewFirst(r) \/ FetchSource(r) \/ AttachAudio(r) \/ ReportStage(r)
             \/ EngineReturns(r) \/ PersistFinalizing(r) \/ PipelineFails(r)
             \/ OutOfMemory(r) \/ LookUp(r) \/ Cleanup(r) \/ Heartbeat(r) \/ StoreError(r)
    BY <2>3 DEF RenewFirst, FetchSource, AttachAudio, ReportStage, EngineReturns,
       PersistFinalizing, PipelineFails, OutOfMemory, LookUp, Cleanup, Heartbeat, StoreError
  <2> QED BY <1>4, <2>1, <2>2, <2>3 DEF RunStep
<1>5. ASSUME status' = status PROVE FALSE
  BY <1>5
<1>6. ASSUME NEW r \in Runs, RunStep(r) \/ Heartbeat(r) \/ StoreError(r) \/ CommitUnacknowledged(r)
      PROVE  FALSE
  BY <1>4, <1>6, RunsAreTuples
<1> QED
  BY <1>1, <1>2, <1>3, <1>5, <1>6
     DEF Next, Lapse, LeaseLapses, Cool, CooldownEnds, SweepOrphans, Crash, Exit, Leave,
         Stop, LateClaimEmpty, StopControl, storeVars, vars

LEMMA NextAudio == TypeOK /\ AudioInv /\ ~SlowJobs /\ [Next]_vars => AudioInv'
<1> SUFFICES ASSUME TypeOK, AudioInv, ~SlowJobs, [Next]_vars PROVE AudioInv'
  OBVIOUS
<1> USE DEF AudioInv
<1>1. Submitted' /\ DeletesSettled'
  BY NextSubmitted, NextDeletesSettled
<1>2. ASSUME NEW j \in Jobs, j \in ActiveJobs', path'[j] # NoFile
      PROVE  path'[j] \in files'[j]
  <2>1. CASE Submit(j)
    BY <1>2, <2>1 DEF Submit, Create, TypeOK, StoreTypeOK
  <2>2. CASE ~Submit(j)
    <3>1. j \in ActiveJobs
      BY <1>2, <2>2, ActiveBefore, OnlySubmitted DEF ActiveJobs, ActiveStatus
    <3>2. path'[j] \in files[j]
      <4>1. CASE path'[j] = path[j]
        BY <1>2, <3>1, <4>1 DEF ActiveAudioKept
      <4>2. CASE path'[j] # path[j]
        BY <1>2, <2>2, <3>1, <4>2, PathsMove DEF RunHasAudio
      <4> QED BY <4>1, <4>2
    <3> QED BY <1>2, <3>1, <3>2, FilesOfActiveStay
  <2> QED BY <2>1, <2>2
<1>3. ASSUME NEW r \in Runs, Live(r)', Job(r) \in ActiveJobs', audio'[r] # NoFile
      PROVE  audio'[r] \in files'[Job(r)]
  <2>1. CASE Live(r) /\ audio'[r] = audio[r]
    <3>1. Job(r) \in ActiveJobs
      BY <1>3, <2>1, ActiveBefore, RunsAreTuples DEF Submitted
    <3> QED BY <1>3, <2>1, <3>1, FilesOfActiveStay, RunsAreTuples DEF RunHasAudio
  <2>2. CASE audio'[r] = path[Job(r)] /\ Claimable(Job(r))
    <3>1. Job(r) \in ActiveJobs
      BY <2>2, RunsAreTuples DEF Claimable, ActiveJobs, ActiveStatus
    <3> QED BY <1>3, <2>2, <3>1, FilesOfActiveStay, RunsAreTuples DEF ActiveAudioKept
  <2> QED BY <1>3, <2>1, <2>2, AudioMoves
<1>4. RunHasAudio'
  BY <1>3 DEF RunHasAudio, Job
<1>5. ActiveAudioKept'
  BY <1>2 DEF ActiveAudioKept, ActiveJobs
<1> QED BY <1>1, <1>4, <1>5

LEMMA AudioInvariant == Spec => [](SlowJobs \/ AudioInv)
<1>1. Init => AudioInv
  BY DEF Init, StoreInit, AudioInv, ActiveAudioKept, RunHasAudio, DeletesSettled,
     Submitted, Live, ActiveJobs, ActiveStatus
<1>2. TypeOK /\ (SlowJobs \/ AudioInv) /\ [Next]_vars => (SlowJobs \/ AudioInv)'
  BY NextAudio
<1> QED BY <1>1, <1>2, TypeCorrect, PTL DEF Spec

\* Unless jobs outlive the age of the orphan sweep, an active job has the file
\* its row names, across requeues, takeovers and the cleanup of other runs.
THEOREM ActiveAudioStays == Spec => [](~SlowJobs => ActiveAudioKept)
<1>1. SlowJobs \/ AudioInv => (~SlowJobs => ActiveAudioKept)
  BY DEF AudioInv
<1> QED BY <1>1, AudioInvariant, PTL

\* Under the same condition nobody deletes the file of the run that holds the
\* lease.
THEOREM OwnersAudioStays == Spec => [](~SlowJobs => OwnerHasItsAudio)
<1>1. SlowJobs \/ AudioInv => (~SlowJobs => OwnerHasItsAudio)
  BY RunsAreTuples DEF AudioInv, RunHasAudio, OwnerHasItsAudio, Owns, ActiveJobs, ActiveStatus
<1> QED BY <1>1, AudioInvariant, PTL

-----------------------------------------------------------------------------
(* How often a job is claimed.                                             *)

Current(j) == <<j, attempt[j]>>

Claimed(w, j) == Claim(w, j) \/ LateClaim(w, j) \/ ClaimReplyLost(w, j)

\* A row runs because it ran before or because of a claim of this job.
LEMMA RunningBefore ==
  ASSUME TypeOK, [Next]_vars, NEW j \in Jobs, status'[j] = "running"
  PROVE  \/ /\ status[j] = "running"
            /\ owner'[j] = owner[j] /\ attempt'[j] = attempt[j]
         \/ \E w \in Workers : Claimed(w, j)
<1> DEFINE Kept == /\ status[j] = "running"
                   /\ owner'[j] = owner[j] /\ attempt'[j] = attempt[j]
<1> USE DEF TypeOK, StoreTypeOK, Terminal
<1>1. ASSUME NEW w \in Workers, NEW i \in Jobs, Claimed(w, i) PROVE i = j \/ Kept
  BY <1>1 DEF Claimed, Claim, LateClaim, ClaimInto, ClaimReplyLost, ClaimNextQueued
<1>2. ASSUME NEW i \in Jobs, Submit(i) \/ CancelJob(i) \/ PurgeOnce(i) PROVE Kept
  BY <1>2 DEF Submit, Create, CancelJob, Cancel, PurgeOnce, PurgeOlderThan, Settle
<1>3. ASSUME NEW i \in Jobs, NEW w,
             ReleaseForRetry(w, i) \/ Finish(w, i) \/ Fail(w, i)
      PROVE  Kept
  BY <1>3 DEF ReleaseForRetry, Finish, Fail, Settle
<1>4. ASSUME UNCHANGED <<status, owner, attempt>> PROVE Kept
  BY <1>4
<1>5. ASSUME NEW r \in Runs,
             RunStep(r) \/ Heartbeat(r) \/ StoreError(r) \/ CommitUnacknowledged(r)
      PROVE  Kept
  <2> USE DEF RenewLease, SetStage, SetAudioPath, storeVars
  <2>1. CASE FinishJob(r) \/ FailJob(r) \/ ReleaseJob(r) \/ CommitUnacknowledged(r)
    BY <2>1, <1>3, <1>4, RunsAreTuples DEF FinishJob, FailJob, ReleaseJob, CommitUnacknowledged
  <2>2. CASE \/ RenewFirst(r) \/ FetchSource(r) \/ AttachAudio(r) \/ ReportStage(r)
             \/ EngineReturns(r) \/ PersistFinalizing(r) \/ PipelineFails(r)
             \/ OutOfMemory(r) \/ LookUp(r) \/ Cleanup(r) \/ Heartbeat(r) \/ StoreError(r)
    BY <2>2, <1>4 DEF RenewFirst, FetchSource, AttachAudio, ReportStage, EngineReturns,
       PersistFinalizing, PipelineFails, OutOfMemory, LookUp, Cleanup, Heartbeat, StoreError
  <2> QED BY <1>5, <2>1, <2>2 DEF RunStep
<1> QED
  BY <1>1, <1>2, <1>4, <1>5
     DEF Next, Claimed, Lapse, LeaseLapses, Cool, CooldownEnds, SweepOrphans, Crash, Exit,
         Leave, Stop, LateClaimEmpty, StopControl, storeVars, vars

\* Attempts are never counted back.
LEMMA AttemptsGrow ==
  ASSUME TypeOK, Statement \/ UNCHANGED storeVars, NEW j \in Jobs
  PROVE  attempt'[j] >= attempt[j]
<1> USE DEF TypeOK, StoreTypeOK
<1>1. ASSUME NEW w, NEW i \in Jobs, NEW X, ClaimNextQueued(w, i, X)
      PROVE  attempt'[j] >= attempt[j]
  BY <1>1, MaxAttemptsAssumption DEF ClaimNextQueued
<1>2. ASSUME attempt' = attempt PROVE attempt'[j] >= attempt[j]
  BY <1>2, MaxAttemptsAssumption
<1> QED
  BY <1>1, <1>2
     DEF Statement, Create, Cancel, PurgeOlderThan, LeaseLapses, CooldownEnds, RenewLease,
         SetStage, SetAudioPath, ReleaseForRetry, Finish, Fail, Settle, storeVars

\* A run is one of the claims counted so far.
Counted == \A r \in Runs : Live(r) => r[2] <= attempt[Job(r)]

LEMMA NextCounted == TypeOK /\ Counted /\ [Next]_vars => Counted'
<1> SUFFICES ASSUME TypeOK, Counted, [Next]_vars, NEW r \in Runs, Live(r)'
             PROVE  r[2] <= attempt'[Job(r)]
  BY DEF Counted, Job
<1>1. /\ attempt'[Job(r)] >= attempt[Job(r)] /\ attempt[Job(r)] \in Nat /\ r[2] \in Nat
      /\ attempt'[Job(r)] \in Nat
  <2>1. TypeOK' BY NextTypeOK
  <2>2. attempt'[Job(r)] >= attempt[Job(r)]
    BY RunsAreTuples, StepIsAStatement, AttemptsGrow
  <2> QED BY <2>1, <2>2, RunsAreTuples, MaxAttemptsAssumption DEF TypeOK, StoreTypeOK
<1>2. CASE Live(r)
  BY <1>1, <1>2 DEF Counted
<1>3. ASSUME NEW w \in Workers, NEW j \in Jobs, Claim(w, j) \/ LateClaim(w, j), ~Live(r)
      PROVE  r[2] <= attempt'[Job(r)]
  <2>1. r = <<j, attempt[j] + 1>> /\ attempt'[j] = attempt[j] + 1
    BY <1>3 DEF Claim, LateClaim, ClaimInto, ClaimNextQueued, Goto, Live, TypeOK, StoreTypeOK
  <2> QED BY <1>1, <2>1 DEF Job
<1> QED BY <1>2, <1>3, RunsStartByClaim

\* A run that executes is executed by somebody.
Executed == \A r \in Runs : by[r] = NoOwner => ~Live(r)

LEMMA NextExecuted == TypeOK /\ Executed /\ [Next]_vars => Executed'
<1> SUFFICES ASSUME TypeOK, Executed, [Next]_vars, NEW r \in Runs, Live(r)'
             PROVE  by'[r] # NoOwner
  BY DEF Executed
<1>1. ASSUME NEW w \in Workers, NEW j \in Jobs, Claim(w, j) \/ LateClaim(w, j)
      PROVE  by'[r] # NoOwner
  BY <1>1, NoOwnerAssumption
     DEF Claim, LateClaim, ClaimInto, Goto, Live, Executed, TypeOK
<1> QED BY <1>1, RunsStartByClaim DEF Executed

\* A job without a run may still be retried: only a run that may retry hands its
\* job back, and it is the latest attempt.
Retriable == \A j \in Jobs : status[j] \in {"absent", "queued"} => attempt[j] < OomMaxAttempts

LEMMA NextRetriable ==
  TypeOK /\ FencedByAttempt /\ RetriesAreAllowed /\ Retriable /\ [Next]_vars => Retriable'
<1> SUFFICES ASSUME TypeOK, FencedByAttempt, RetriesAreAllowed, Retriable,
                    Statement \/ UNCHANGED storeVars
             PROVE  Retriable'
  BY StepIsAStatement
<1> USE DEF TypeOK, StoreTypeOK, Retriable
<1>1. ASSUME NEW r \in Runs, pc[r] = "release", ReleaseForRetry(by[r], Job(r))
      PROVE  Retriable'
  <2>1. Owns(by[r], Job(r)) /\ Live(r)
    BY <1>1 DEF ReleaseForRetry, Live
  <2>2. attempt[Job(r)] = r[2]
    BY <2>1, RunsAreTuples DEF FencedByAttempt
  <2>3. attempt[Job(r)] < OomMaxAttempts
    BY <1>1, <2>2 DEF RetriesAreAllowed, MayRetry
  <2> QED BY <1>1, <2>3 DEF ReleaseForRetry
<1>2. ASSUME NEW w, NEW i \in Jobs, NEW X, ClaimNextQueued(w, i, X) PROVE Retriable'
  BY <1>2 DEF ClaimNextQueued
<1>3. ASSUME NEW i \in Jobs, NEW f, Create(i, f) \/ Cancel(i) \/ PurgeOlderThan(i)
      PROVE  Retriable'
  BY <1>3 DEF Create, Cancel, Settle, PurgeOlderThan
<1>4. ASSUME NEW w, NEW i \in Jobs, Finish(w, i) \/ Fail(w, i) PROVE Retriable'
  BY <1>4 DEF Finish, Fail, Settle
<1>5. ASSUME UNCHANGED <<status, attempt>> PROVE Retriable'
  BY <1>5
<1> QED
  BY <1>1, <1>2, <1>3, <1>4, <1>5, RunsAreTuples
     DEF Statement, LeaseLapses, CooldownEnds, RenewLease, SetStage, SetAudioPath, storeVars

\* The run of the latest attempt, while its job runs, is the lease holder's, and
\* its statements are not refused.
HolderRuns ==
  \A j \in Jobs : status[j] = "running" =>
    /\ Current(j) \in Runs
    /\ Live(Current(j)) => owner[j] = by[Current(j)]
    /\ pc[Current(j)] \notin {"refused", "rejected", "delete"}

\* The run of the latest attempt goes on, or ends, or is refused.
LEMMA CurrentRun ==
  ASSUME TypeOK, [Next]_vars, NEW c \in Runs,
         \A i \in Jobs : c # <<i, attempt[i] + 1>>
  PROVE  pc'[c] # "idle" => Live(c) /\ by'[c] = by[c]
<1>1. ASSUME NEW w \in Workers, NEW i \in Jobs, Claim(w, i) \/ LateClaim(w, i)
      PROVE  pc'[c] = pc[c] /\ by'[c] = by[c]
  BY <1>1 DEF Claim, LateClaim, ClaimInto, Goto, TypeOK
<1> QED BY <1>1, RunsStartByClaim DEF Live

\* Only a refused run goes on to read the row again.
LEMMA RefusedRuns ==
  ASSUME TypeOK, [Next]_vars, NEW c \in Runs,
         pc'[c] \in {"refused", "rejected", "delete"},
         pc[c] \notin {"refused", "rejected", "delete"}
  PROVE  \/ ~Owns(by[c], Job(c)) /\ Live(c) /\ UNCHANGED storeVars
         \/ status'[Job(c)] # "running"
<1> USE DEF TypeOK, StoreTypeOK
<1> DEFINE Ended(r) == pc'[r] \in {"refused", "rejected", "delete"}
           Out == \/ ~Owns(by[c], Job(c)) /\ Live(c) /\ UNCHANGED storeVars
                  \/ status'[Job(c)] # "running"
<1>1. ASSUME NEW r \in Runs, RunStep(r) PROVE Out
  <2>1. CASE RenewFirst(r)
    BY <2>1 DEF RenewFirst, Goto, Live
  <2>2. CASE ReportStage(r)
    BY <2>2 DEF ReportStage, Goto, Live
  <2>3. CASE PersistFinalizing(r)
    BY <2>3 DEF PersistFinalizing, Goto, Live
  <2>4. CASE FinishJob(r)
    BY <2>4, RunsAreTuples DEF FinishJob, Goto, Live, Finish, Settle
  <2>5. CASE FailJob(r)
    BY <2>5, RunsAreTuples DEF FailJob, Goto, Live, Fail, Settle
  <2>6. CASE LookUp(r) \/ Cleanup(r)
    BY <2>6 DEF LookUp, Cleanup, EndRuns, Goto
  <2>7. CASE \/ FetchSource(r) \/ AttachAudio(r) \/ EngineReturns(r) \/ PipelineFails(r)
             \/ OutOfMemory(r) \/ ReleaseJob(r)
    BY <2>7 DEF FetchSource, AttachAudio, EngineReturns, PipelineFails, OutOfMemory,
       ReleaseJob, AfterRelease, Goto
  <2> QED BY <1>1, <2>1, <2>2, <2>3, <2>4, <2>5, <2>6, <2>7 DEF RunStep
<1>2. ASSUME NEW r \in Runs, StoreError(r) \/ CommitUnacknowledged(r) PROVE FALSE
  BY <1>2 DEF StoreError, CommitUnacknowledged, Goto
<1>3. ASSUME NEW w \in Workers, NEW i \in Jobs, Claim(w, i) \/ LateClaim(w, i) PROVE FALSE
  BY <1>3 DEF Claim, LateClaim, ClaimInto, Goto
<1>4. ASSUME NEW w \in Workers,
             \/ Crash(w) \/ Stop(w) \/ LateClaimEmpty(w) \/ StopControl(w) \/ Exit(w)
      PROVE  FALSE
  BY <1>4 DEF Crash, Exit, Leave, Stop, LateClaimEmpty, StopControl, EndRuns, runVars
<1>5. ASSUME UNCHANGED runVars PROVE FALSE
  BY <1>5 DEF runVars
<1> QED
  BY <1>1, <1>2, <1>3, <1>4, <1>5
     DEF Next, Submit, CancelJob, Lapse, Cool, PurgeOnce, SweepOrphans, ClaimReplyLost,
         Heartbeat, vars

LEMMA NextHolderRuns ==
  TypeOK /\ Counted /\ HolderRuns /\ [Next]_vars => HolderRuns'
<1> SUFFICES ASSUME TypeOK, Counted, HolderRuns, [Next]_vars, NEW j \in Jobs,
                    status'[j] = "running"
             PROVE  /\ <<j, attempt'[j]>> \in Runs
                    /\ Live(Current(j))' => owner'[j] = by'[<<j, attempt'[j]>>]
                    /\ pc'[<<j, attempt'[j]>>] \notin {"refused", "rejected", "delete"}
  BY DEF HolderRuns, Current
<1> DEFINE c == <<j, attempt[j]>>
           n == <<j, attempt[j] + 1>>
<1>0. attempt[j] \in Nat
  BY MaxAttemptsAssumption DEF TypeOK, StoreTypeOK
<1>1. ASSUME status[j] = "running", owner'[j] = owner[j], attempt'[j] = attempt[j]
      PROVE  /\ c \in Runs
             /\ pc'[c] # "idle" => owner'[j] = by'[c]
             /\ pc'[c] \notin {"refused", "rejected", "delete"}
  <2>1. /\ c \in Runs /\ Job(c) = j
        /\ Live(c) => owner[j] = by[c]
        /\ pc[c] \notin {"refused", "rejected", "delete"}
    BY <1>1 DEF HolderRuns, Current, Job
  <2>2. \A i \in Jobs : c # <<i, attempt[i] + 1>>
    BY <1>0
  <2>3. pc'[c] # "idle" => Live(c) /\ by'[c] = by[c]
    <3> HIDE DEF c
    <3> QED BY <2>1, <2>2, CurrentRun
  <2>4. pc'[c] \notin {"refused", "rejected", "delete"}
    <3>1. ASSUME pc'[c] \in {"refused", "rejected", "delete"}
          PROVE  ~Owns(by[c], j) /\ Live(c)
      <4> HIDE DEF c
      <4> QED BY <1>1, <2>1, <3>1, RefusedRuns
    <3> QED BY <1>1, <2>1, <3>1 DEF Owns
  <2> QED BY <1>1, <2>1, <2>3, <2>4
<1>2. ASSUME NEW w \in Workers, Claim(w, j) \/ LateClaim(w, j)
      PROVE  attempt'[j] = attempt[j] + 1 /\ n \in Runs /\ owner'[j] = by'[n] /\ pc'[n] = "renew"
  <2>1. n \in Runs
    BY <1>0, <1>2, MaxAttemptsAssumption DEF Claim, LateClaim, ClaimInto, ClaimNextQueued, Runs
  <2> QED BY <1>2, <2>1
          DEF Claim, LateClaim, ClaimInto, ClaimNextQueued, Goto, TypeOK, StoreTypeOK
<1>3. ASSUME NEW w \in Workers, ClaimReplyLost(w, j)
      PROVE  attempt'[j] = attempt[j] + 1 /\ n \in Runs /\ pc'[n] = "idle"
  <2>1. n \in Runs /\ Job(n) = j /\ n[2] = attempt[j] + 1
    BY <1>0, <1>3, MaxAttemptsAssumption DEF ClaimReplyLost, ClaimNextQueued, Runs, Job
  <2>2. pc[n] = "idle"
    BY <1>0, <2>1 DEF Counted, Live
  <2> QED BY <1>3, <2>1, <2>2 DEF ClaimReplyLost, ClaimNextQueued, TypeOK, StoreTypeOK, runVars
<1> QED BY <1>1, <1>2, <1>3, RunningBefore DEF Claimed, Live, Current

\* Faults are counted and never forgotten.
LEMMA FaultsGrow == ASSUME TypeOK, [Next]_vars PROVE faults' >= faults
<1>0. faults \in Nat /\ faults' \in Nat
  BY NextTypeOK, MaxFaultsAssumption DEF TypeOK
<1>1. ASSUME Fault \/ UNCHANGED faults PROVE faults' >= faults
  BY <1>0, <1>1 DEF Fault
<1>2. ASSUME NEW j \in Jobs,
             \/ Submit(j) \/ CancelJob(j) \/ Lapse(j) \/ Cool(j)
             \/ PurgeOnce(j) \/ SweepOrphans(j)
      PROVE  Fault \/ UNCHANGED faults
  BY <1>2 DEF Submit, CancelJob, Lapse, Cool, PurgeOnce, SweepOrphans
<1>3. ASSUME NEW w \in Workers, NEW j \in Jobs,
             Claim(w, j) \/ LateClaim(w, j) \/ ClaimReplyLost(w, j)
      PROVE  Fault \/ UNCHANGED faults
  BY <1>3 DEF Claim, LateClaim, ClaimInto, ClaimReplyLost
<1>4. ASSUME NEW r \in Runs,
             RunStep(r) \/ Heartbeat(r) \/ StoreError(r) \/ CommitUnacknowledged(r)
      PROVE  Fault \/ UNCHANGED faults
  BY <1>4 DEF RunStep, RenewFirst, FetchSource, AttachAudio, ReportStage, EngineReturns,
     PersistFinalizing, FinishJob, PipelineFails, OutOfMemory, ReleaseJob, FailJob,
     LookUp, Cleanup, Heartbeat, StoreError, CommitUnacknowledged
<1>5. ASSUME NEW w \in Workers,
             \/ Crash(w) \/ Stop(w) \/ LateClaimEmpty(w) \/ StopControl(w) \/ Exit(w)
      PROVE  Fault \/ UNCHANGED faults
  BY <1>5 DEF Crash, Stop, LateClaimEmpty, StopControl, Exit
<1> QED BY <1>1, <1>2, <1>3, <1>4, <1>5 DEF Next, vars

\* Only a claim of the job counts an attempt.
LEMMA OnlyClaimsCount ==
  ASSUME TypeOK, [Next]_vars, NEW j \in Jobs
  PROVE  attempt'[j] = attempt[j] \/ status'[j] = "running"
<1> USE DEF TypeOK, StoreTypeOK
<1>1. ASSUME NEW w, NEW i \in Jobs, NEW X, ClaimNextQueued(w, i, X)
      PROVE  attempt'[j] = attempt[j] \/ status'[j] = "running"
  BY <1>1 DEF ClaimNextQueued
<1>2. Statement \/ UNCHANGED storeVars
  BY StepIsAStatement
<1> QED
  BY <1>1, <1>2
     DEF Statement, Create, Cancel, PurgeOlderThan, LeaseLapses, CooldownEnds, RenewLease,
         SetStage, SetAudioPath, ReleaseForRetry, Finish, Fail, Settle, storeVars

\* Every worker that was ever stopped is a fault.
StopsCounted == IsFiniteSet(stopping) /\ Cardinality(stopping) <= faults

LEMMA NextStopsCounted == TypeOK /\ StopsCounted /\ [Next]_vars => StopsCounted'
<1> SUFFICES ASSUME TypeOK, StopsCounted, [Next]_vars PROVE StopsCounted'
  OBVIOUS
<1>0. Cardinality(stopping) \in Nat /\ faults \in Nat /\ faults' \in Nat
  BY NextTypeOK, MaxFaultsAssumption, FS_CardinalityType DEF StopsCounted, TypeOK
<1>1. ASSUME stopping' \subseteq stopping, faults' >= faults PROVE StopsCounted'
  <2>1. IsFiniteSet(stopping') /\ Cardinality(stopping') <= Cardinality(stopping)
    BY <1>1, FS_Subset DEF StopsCounted
  <2>2. Cardinality(stopping') \in Nat
    BY <2>1, FS_CardinalityType
  <2> QED BY <1>0, <1>1, <2>1, <2>2 DEF StopsCounted
<1>2. ASSUME NEW w \in Workers, Stop(w) PROVE StopsCounted'
  <2>1. stopping' = stopping \cup {w} /\ w \notin stopping /\ faults' = faults + 1
    BY <1>2 DEF Stop, Fault
  <2>2. IsFiniteSet(stopping') /\ Cardinality(stopping') = Cardinality(stopping) + 1
    BY <2>1, FS_AddElement DEF StopsCounted
  <2> QED BY <1>0, <2>1, <2>2 DEF StopsCounted
<1>3. ASSUME ~ \E w \in Workers : Stop(w) PROVE stopping' \subseteq stopping
  BY <1>3 DEF Next, Submit, CancelJob, Lapse, Cool, PurgeOnce, SweepOrphans, Claim,
     LateClaim, ClaimReplyLost, RunStep, RenewFirst, FetchSource, AttachAudio, ReportStage,
     EngineReturns, PersistFinalizing, FinishJob, PipelineFails, OutOfMemory,
     ReleaseJob, FailJob, LookUp, Cleanup, Heartbeat, StoreError,
     CommitUnacknowledged, Crash, Leave, LateClaimEmpty, StopControl, Exit, workerVars, vars
<1>4. faults' >= faults
  BY FaultsGrow
<1> QED BY <1>1, <1>2, <1>3, <1>4

\* Every claim that is not paid for by a fault uses up a retry.  A job that may
\* be claimed again is one claim ahead, and so is one for each stopping worker
\* that may still claim it or abandon the run it has.
Exposed(j) ==
  \/ status[j] = "queued"
  \/ status[j] = "running" /\ (j \in lapsed \/ pc[Current(j)] \in {"idle", "keep"})

Committed(j) ==
  claiming \cup {w \in stopping : status[j] = "running" /\ Live(Current(j)) /\ by[Current(j)] = w}

Cost(j) == attempt[j] + Cardinality(Committed(j)) + (IF Exposed(j) THEN 1 ELSE 0)

CostCovered == \A j \in ActiveJobs : Cost(j) <= OomMaxAttempts + faults

\* The workers that may still cost a job a claim are stopping, so paid for.
LEMMA CommittedSize ==
  ASSUME TypeOK, StopsCounted, NEW j
  PROVE  /\ IsFiniteSet(Committed(j)) /\ Cardinality(Committed(j)) \in Nat
         /\ Committed(j) \subseteq stopping /\ Cardinality(Committed(j)) <= faults
<1>1. Committed(j) \subseteq stopping /\ IsFiniteSet(stopping)
  BY DEF Committed, TypeOK, StopsCounted
<1>2. /\ IsFiniteSet(Committed(j)) /\ Cardinality(Committed(j)) <= Cardinality(stopping)
  BY <1>1, FS_Subset
<1>3. Cardinality(Committed(j)) \in Nat /\ Cardinality(stopping) \in Nat
  BY <1>1, <1>2, FS_CardinalityType
<1> QED BY <1>1, <1>2, <1>3, MaxFaultsAssumption DEF StopsCounted, TypeOK

\* The same of the next state.
LEMMA NextCommittedSize ==
  ASSUME TypeOK', StopsCounted', NEW j
  PROVE  /\ Cardinality(Committed(j)') \in Nat /\ Cardinality(Committed(j)') <= faults'
<1>1. Committed(j)' \subseteq stopping' /\ IsFiniteSet(stopping')
  BY DEF Committed, TypeOK, StopsCounted
<1>2. /\ IsFiniteSet(Committed(j)') /\ Cardinality(Committed(j)') <= Cardinality(stopping')
  BY <1>1, FS_Subset
<1>3. Cardinality(Committed(j)') \in Nat /\ Cardinality(stopping') \in Nat
  BY <1>1, <1>2, FS_CardinalityType
<1> QED BY <1>2, <1>3, MaxFaultsAssumption DEF StopsCounted, TypeOK

\* A job that waits has used up fewer than its retries, and the workers that
\* stop are paid for.
LEMMA QueuedCovered ==
  ASSUME TypeOK', StopsCounted', Retriable', NEW j \in Jobs, status'[j] = "queued"
  PROVE  Cost(j)' <= OomMaxAttempts + faults'
<1>1. attempt'[j] < OomMaxAttempts /\ attempt'[j] \in Nat
  BY MaxAttemptsAssumption DEF Retriable, TypeOK, StoreTypeOK
<1>2. Cardinality(Committed(j)') \in Nat /\ Cardinality(Committed(j)') <= faults' /\ faults' \in Nat
  BY NextCommittedSize, MaxFaultsAssumption DEF TypeOK
<1> QED BY <1>1, <1>2, OomAssumption DEF Cost, Exposed

\* Fewer or more workers in a set that counts.
LEMMA Sizes ==
  ASSUME NEW S, IsFiniteSet(S), NEW T, NEW w
  PROVE  /\ T \subseteq S => Cardinality(T) <= Cardinality(S)
         /\ T \subseteq S \cup {w} => Cardinality(T) <= Cardinality(S) + 1
         /\ w \in S /\ T \subseteq S \ {w} => Cardinality(T) <= Cardinality(S) - 1
<1>1. IsFiniteSet(S \cup {w}) /\ IsFiniteSet(S \ {w})
  BY FS_AddElement, FS_RemoveElement
<1>2. /\ Cardinality(S) \in Nat
      /\ Cardinality(S \cup {w}) \in Nat /\ Cardinality(S \ {w}) \in Nat
  BY <1>1, FS_CardinalityType
<1>3. /\ Cardinality(S \cup {w}) <= Cardinality(S) + 1
      /\ w \in S => Cardinality(S \ {w}) = Cardinality(S) - 1
  BY <1>2, FS_AddElement, FS_RemoveElement
<1>4. T \subseteq S => Cardinality(T) <= Cardinality(S)
  BY FS_Subset
<1>5. ASSUME T \subseteq S \cup {w} PROVE Cardinality(T) <= Cardinality(S) + 1
  <2>1. Cardinality(T) <= Cardinality(S \cup {w}) /\ Cardinality(T) \in Nat
    BY <1>1, <1>5, FS_Subset, FS_CardinalityType
  <2> QED BY <1>2, <1>3, <2>1
<1>6. ASSUME w \in S, T \subseteq S \ {w} PROVE Cardinality(T) <= Cardinality(S) - 1
  <2>1. Cardinality(T) <= Cardinality(S \ {w}) /\ Cardinality(T) \in Nat
    BY <1>1, <1>6, FS_Subset, FS_CardinalityType
  <2> QED BY <1>2, <1>3, <1>6, <2>1
<1> QED BY <1>4, <1>5, <1>6

\* A claim spends what the claimable job was ahead.
LEMMA ClaimCovered ==
  ASSUME TypeOK, TypeOK', StopsCounted, StopsCounted', Counted, CostCovered,
         NEW j \in Jobs, NEW w \in Workers, Claimed(w, j)
  PROVE  Cost(j)' <= OomMaxAttempts + faults'
<1> DEFINE n == <<j, attempt[j] + 1>>
<1>1. /\ Claimable(j) /\ attempt' = [attempt EXCEPT ![j] = @ + 1]
      /\ status'[j] = "running" /\ j \notin lapsed' /\ attempt[j] \in 0..MaxAttempts
      /\ attempt'[j] = attempt[j] + 1
  BY DEF Claimed, Claim, LateClaim, ClaimInto, ClaimReplyLost, ClaimNextQueued, TypeOK, StoreTypeOK
<1>2. n \in Runs /\ Job(n) = j /\ n[2] = attempt[j] + 1
  BY <1>1, MaxAttemptsAssumption
     DEF Claimed, Claim, LateClaim, ClaimInto, ClaimReplyLost, ClaimNextQueued, Runs, Job
<1>3. Cost(j) <= OomMaxAttempts + faults /\ Exposed(j)
  BY <1>1 DEF CostCovered, ActiveJobs, ActiveStatus, Claimable, Exposed
<1>4. /\ faults \in Nat /\ attempt[j] \in Nat
      /\ Cardinality(Committed(j)) \in Nat /\ Cardinality(Committed(j)') \in Nat
      /\ IsFiniteSet(Committed(j))
  BY <1>1, CommittedSize, NextCommittedSize, MaxAttemptsAssumption, MaxFaultsAssumption DEF TypeOK
<1>5. claiming \subseteq Committed(j)
  BY DEF Committed
<1>6. Current(j)' = n
  BY <1>1 DEF Current
<1>7. Committed(j)' = claiming' \cup {v \in stopping' : pc'[n] # "idle" /\ by'[n] = v}
  BY <1>1, <1>6 DEF Committed, Live
<1>8. Exposed(j)' <=> pc'[n] \in {"idle", "keep"}
  BY <1>1, <1>6 DEF Exposed
<1>9. ASSUME Claim(w, j) \/ LateClaim(w, j)
      PROVE  Committed(j)' \subseteq Committed(j) /\ ~Exposed(j)' /\ faults' = faults
  <2>1. pc'[n] = "renew" /\ by'[n] = w /\ stopping' = stopping /\ faults' = faults
    BY <1>2, <1>9 DEF Claim, LateClaim, ClaimInto, Goto, TypeOK, workerVars
  <2>2. \/ w \notin stopping /\ claiming' = claiming
        \/ w \in claiming /\ claiming' = claiming \ {w}
    BY <1>9 DEF Claim, LateClaim, workerVars
  <2> QED BY <1>5, <1>7, <1>8, <2>1, <2>2
<1>10. ASSUME ClaimReplyLost(w, j)
       PROVE  Committed(j)' \subseteq Committed(j) /\ faults' = faults + 1
  <2>1. pc'[n] = "idle"
    BY <1>2, <1>4, <1>10 DEF ClaimReplyLost, Counted, Live, runVars
  <2> QED BY <1>5, <1>7, <1>10, <2>1 DEF ClaimReplyLost, Fault
<1>11. Cardinality(Committed(j)') <= Cardinality(Committed(j))
  BY <1>4, <1>9, <1>10, Sizes DEF Claimed
<1> QED BY <1>1, <1>3, <1>4, <1>9, <1>10, <1>11, OomAssumption DEF Cost, Claimed

\* The same, seen from the run c of the latest attempt.
Behind(c) == claiming \cup {w \in stopping : pc[c] # "idle" /\ by[c] = w}
Spent(c) == Job(c) \in lapsed \/ pc[c] \in {"idle", "keep"}

\* What a step does to the run of the latest attempt, to the workers that may
\* still cost its job a claim, and to what is paid for.
LEMMA StepEffects ==
  ASSUME TypeOK, [Next]_vars, Executed, NEW c \in Runs,
         \A i \in Jobs : c # <<i, attempt[i] + 1>>,
         pc[c] \notin {"refused", "rejected", "delete"},
         c = <<Job(c), attempt[Job(c)]>>, attempt'[Job(c)] = attempt[Job(c)],
         status[Job(c)] = "running", status'[Job(c)] = "running"
  PROVE  \/ /\ Behind(c)' \subseteq Behind(c) /\ (Spent(c)' => Spent(c))
            /\ faults' = faults \/ faults' = faults + 1
         \/ Behind(c)' \subseteq Behind(c) /\ faults' = faults + 1
         \/ /\ \E w : Behind(c)' \subseteq Behind(c) \cup {w}
            /\ (Spent(c)' => Spent(c)) /\ faults' = faults + 1
         \/ faults' = faults /\ \E w \in Behind(c) : Behind(c)' \subseteq Behind(c) \ {w}
<1> DEFINE Paid == faults' = faults \/ faults' = faults + 1
           Same == Behind(c)' \subseteq Behind(c) /\ (Spent(c)' => Spent(c)) /\ Paid
           Bought == Behind(c)' \subseteq Behind(c) /\ faults' = faults + 1
           Begun == /\ \E w : Behind(c)' \subseteq Behind(c) \cup {w}
                    /\ (Spent(c)' => Spent(c)) /\ faults' = faults + 1
           Left == faults' = faults /\ \E w \in Behind(c) : Behind(c)' \subseteq Behind(c) \ {w}
<1>1. pc'[c] # "idle" => pc[c] # "idle" /\ by'[c] = by[c]
  BY CurrentRun DEF Live
<1>2. ASSUME claiming' \subseteq claiming, stopping' \subseteq stopping
      PROVE  Behind(c)' \subseteq Behind(c)
  BY <1>1, <1>2 DEF Behind
<1>3. ASSUME Job(c) \in lapsed' => Job(c) \in lapsed, pc'[c] = pc[c]
      PROVE  Spent(c)' => Spent(c)
  BY <1>3 DEF Spent
<1>4. Job(c) \in Jobs /\ lapsed \subseteq Jobs
  BY RunsAreTuples DEF TypeOK, StoreTypeOK
<1> HIDE DEF Same, Bought, Begun, Left
<1>5. ASSUME NEW i \in Jobs,
             Submit(i) \/ CancelJob(i) \/ Cool(i) \/ PurgeOnce(i) \/ SweepOrphans(i)
      PROVE  Same
  <2>1. /\ lapsed' \subseteq lapsed /\ UNCHANGED <<pc, claiming, stopping>>
        /\ faults' = faults \/ faults' = faults + 1
    BY <1>5 DEF Submit, Create, CancelJob, Cancel, Settle, Cool, CooldownEnds, PurgeOnce,
       PurgeOlderThan, SweepOrphans, Fault, workerVars, runVars, storeVars
  <2> QED BY <1>2, <1>3, <2>1 DEF Same
<1>6. ASSUME NEW i \in Jobs, Lapse(i) PROVE Same \/ Bought
  <2>1. UNCHANGED <<pc, claiming, stopping>> /\ lapsed' = lapsed \cup {i}
    BY <1>6 DEF Lapse, LeaseLapses, workerVars, runVars
  <2>2. CASE faults' = faults + 1
    BY <1>2, <2>1, <2>2 DEF Bought
  <2>3. CASE i # Job(c) /\ faults' = faults
    BY <1>2, <1>3, <2>1, <2>3 DEF Same
  <2>4. CASE i = Job(c) /\ by[c] = NoOwner /\ faults' = faults
    <3>1. pc[c] = "idle"
      BY <2>4 DEF Executed, Live
    <3> QED BY <1>2, <2>1, <2>4, <3>1 DEF Same, Spent
  <2> QED BY <1>6, <2>2, <2>3, <2>4 DEF Lapse, Fault
<1>7. ASSUME NEW w \in Workers, NEW i \in Jobs, Claimed(w, i) PROVE Same
  <2>1. pc'[c] = pc[c]
    BY <1>7 DEF Claimed, Claim, LateClaim, ClaimInto, ClaimReplyLost, Goto, TypeOK, runVars
  <2>2. /\ lapsed' \subseteq lapsed /\ claiming' \subseteq claiming /\ stopping' = stopping
        /\ faults' = faults \/ faults' = faults + 1
    BY <1>7 DEF Claimed, Claim, LateClaim, ClaimInto, ClaimReplyLost, ClaimNextQueued,
       Fault, workerVars
  <2> QED BY <1>2, <1>3, <2>1, <2>2 DEF Same
<1>8. ASSUME NEW r \in Runs, RunStep(r) \/ Heartbeat(r) PROVE Same
  <2>1. faults' = faults /\ UNCHANGED <<claiming, stopping>>
    BY <1>8 DEF RunStep, RenewFirst, FetchSource, AttachAudio, ReportStage, EngineReturns,
       PersistFinalizing, FinishJob, PipelineFails, OutOfMemory, ReleaseJob, FailJob,
       LookUp, Cleanup, Heartbeat, workerVars
  <2>2. lapsed' \subseteq lapsed
    BY <1>8 DEF RunStep, RenewFirst, FetchSource, AttachAudio, ReportStage, EngineReturns,
       PersistFinalizing, FinishJob, PipelineFails, OutOfMemory, ReleaseJob, FailJob,
       LookUp, Cleanup, Heartbeat, RenewLease, SetStage, SetAudioPath, ReleaseForRetry,
       Finish, Fail, Settle, storeVars
  <2>3. pc'[c] \in {"idle", "keep"} => pc[c] \in {"idle", "keep"}
    <3>1. CASE r # c
      BY <1>8, <3>1 DEF RunStep, RenewFirst, FetchSource, AttachAudio, ReportStage, EngineReturns,
         PersistFinalizing, FinishJob, PipelineFails, OutOfMemory, ReleaseJob, FailJob,
         LookUp, Cleanup, Heartbeat, EndRuns, Goto, TypeOK, runVars
    <3>2. CASE r = c
      <4>1. ASSUME ReleaseJob(r) PROVE pc'[c] \notin {"idle", "keep"}
        BY <1>4, <3>2, <4>1 DEF ReleaseJob, ReleaseForRetry, Goto, TypeOK, StoreTypeOK
      <4>2. ~LookUp(r)
        BY <3>2 DEF LookUp
      <4> QED
        BY <1>8, <3>2, <4>1, <4>2
           DEF RunStep, RenewFirst, FetchSource, AttachAudio, ReportStage, EngineReturns,
               PersistFinalizing, FinishJob, PipelineFails, OutOfMemory, FailJob,
               Cleanup, Heartbeat, Goto, TypeOK, runVars
    <3> QED BY <3>1, <3>2
  <2> QED BY <1>2, <2>1, <2>2, <2>3 DEF Same, Spent
<1>9. ASSUME NEW r \in Runs, StoreError(r) \/ CommitUnacknowledged(r) PROVE Bought
  <2>1. UNCHANGED <<claiming, stopping>> /\ faults' = faults + 1
    BY <1>9 DEF StoreError, CommitUnacknowledged, Fault, workerVars
  <2> QED BY <1>2, <2>1 DEF Bought
<1>10. ASSUME NEW w \in Workers, Crash(w) PROVE Bought
  <2>1. claiming' \subseteq claiming /\ stopping' \subseteq stopping /\ faults' = faults + 1
    BY <1>10 DEF Crash, Leave, Fault
  <2> QED BY <1>2, <2>1 DEF Bought
<1>11. ASSUME NEW w \in Workers, Stop(w) PROVE Begun
  <2>1. /\ claiming' \subseteq claiming \cup {w} /\ stopping' = stopping \cup {w}
        /\ UNCHANGED <<pc, by, lapsed>> /\ faults' = faults + 1
    BY <1>11 DEF Stop, Fault, runVars, storeVars
  <2>2. Behind(c)' \subseteq Behind(c) \cup {w}
    BY <2>1 DEF Behind
  <2> QED BY <1>3, <2>1, <2>2 DEF Begun
<1>12. ASSUME NEW w \in Workers, LateClaimEmpty(w) PROVE Same
  <2>1. claiming' \subseteq claiming /\ UNCHANGED <<pc, lapsed, stopping, faults>>
    BY <1>12 DEF LateClaimEmpty, runVars, storeVars
  <2> QED BY <1>2, <1>3, <2>1 DEF Same
<1>13. ASSUME NEW w \in Workers, StopControl(w) \/ Exit(w) PROVE Same \/ Left
  <2>1. /\ claiming' \subseteq claiming /\ stopping' \subseteq stopping
        /\ lapsed' = lapsed /\ faults' = faults /\ w \in stopping
    BY <1>13 DEF StopControl, Exit, Leave, storeVars, TypeOK
  <2>2. CASE pc'[c] = pc[c]
    BY <1>2, <1>3, <2>1, <2>2 DEF Same
  <2>3. CASE pc'[c] # pc[c]
    <3>1. pc'[c] = "idle" /\ pc[c] # "idle" /\ by[c] = w
      BY <1>13, <2>3 DEF StopControl, Exit, Leave, EndRuns, Awaited, runVars
    <3>2. w \notin claiming'
      BY <1>13, <2>3 DEF StopControl, Exit, Leave, runVars
    <3>3. w \in Behind(c) /\ Behind(c)' \subseteq Behind(c) \ {w}
      BY <2>1, <3>1, <3>2 DEF Behind
    <3> QED BY <2>1, <3>3 DEF Left
  <2> QED BY <2>2, <2>3
<1>14. CASE UNCHANGED vars
  <2>1. UNCHANGED <<pc, lapsed, claiming, stopping, faults>>
    BY <1>14 DEF vars, storeVars, runVars, workerVars
  <2> QED BY <1>2, <1>3, <2>1 DEF Same
<1>15. CASE Next
  <2> DEFINE Out == Same \/ Bought \/ Begun \/ Left
  <2>1. ASSUME NEW i \in Jobs,
               \/ Submit(i) \/ CancelJob(i) \/ Lapse(i) \/ Cool(i)
               \/ PurgeOnce(i) \/ SweepOrphans(i)
        PROVE  Out
    BY <1>5, <1>6, <2>1
  <2>2. ASSUME NEW w \in Workers, NEW i \in Jobs,
               Claim(w, i) \/ ClaimReplyLost(w, i) \/ LateClaim(w, i)
        PROVE  Out
    BY <1>7, <2>2 DEF Claimed
  <2>3. ASSUME NEW r \in Runs,
               RunStep(r) \/ Heartbeat(r) \/ StoreError(r) \/ CommitUnacknowledged(r)
        PROVE  Out
    BY <1>8, <1>9, <2>3
  <2>4. ASSUME NEW w \in Workers,
               \/ Crash(w) \/ Stop(w) \/ LateClaimEmpty(w) \/ StopControl(w) \/ Exit(w)
        PROVE  Out
    BY <1>10, <1>11, <1>12, <1>13, <2>4
  <2> HIDE DEF Out
  <2>5. Out
    BY <1>15, <2>1, <2>2, <2>3, <2>4 DEF Next
  <2> QED BY <2>5 DEF Out, Same, Bought, Begun, Left
<1> QED BY <1>14, <1>15 DEF Same, Bought, Begun, Left

\* A job that runs on is covered as long as every worker or lease it loses was
\* counted before, or is a fault.
LEMMA KeptCovered ==
  ASSUME TypeOK, TypeOK', StopsCounted, StopsCounted', Executed, HolderRuns, CostCovered,
         [Next]_vars, NEW j \in Jobs,
         status[j] = "running", status'[j] = "running", attempt'[j] = attempt[j]
  PROVE  Cost(j)' <= OomMaxAttempts + faults'
<1> DEFINE Com0 == Committed(j)
           Com1 == Committed(j)'
           End0 == Exposed(j)
           End1 == Exposed(j)'
<1>1. PICK c \in Runs : c = <<j, attempt[j]>>
  BY DEF HolderRuns, Current
<1>2. /\ Job(c) = j /\ Current(j) = c /\ Current(j)' = c
      /\ pc[c] \notin {"refused", "rejected", "delete"}
  BY <1>1 DEF Job, Current, HolderRuns
<1>3. attempt[j] \in Nat /\ faults \in Nat /\ faults' \in Nat
  BY MaxAttemptsAssumption, MaxFaultsAssumption DEF TypeOK, StoreTypeOK
<1>4. \A i \in Jobs : c # <<i, attempt[i] + 1>>
  BY <1>1, <1>3
<1>5. Com0 = Behind(c) /\ Com1 = Behind(c)'
  BY <1>2 DEF Committed, Behind, Live
<1>6. (End0 <=> Spent(c)) /\ (End1 <=> Spent(c)')
  BY <1>2 DEF Exposed, Spent
<1>7. /\ Cardinality(Com0) \in Nat /\ Cardinality(Com1) \in Nat /\ IsFiniteSet(Com0)
  BY CommittedSize, NextCommittedSize
<1>8. attempt[j] + Cardinality(Com0) + (IF End0 THEN 1 ELSE 0) <= OomMaxAttempts + faults
  BY DEF CostCovered, ActiveJobs, ActiveStatus, Cost
<1> HIDE DEF Com0, Com1, End0, End1
<1>9. \/ Com1 \subseteq Com0 /\ (End1 => End0) /\ (faults' = faults \/ faults' = faults + 1)
      \/ Com1 \subseteq Com0 /\ faults' = faults + 1
      \/ /\ \E w : Com1 \subseteq Com0 \cup {w}
         /\ (End1 => End0) /\ faults' = faults + 1
      \/ faults' = faults /\ \E w \in Com0 : Com1 \subseteq Com0 \ {w}
  <2>1. /\ c = <<Job(c), attempt[Job(c)]>> /\ attempt'[Job(c)] = attempt[Job(c)]
        /\ status[Job(c)] = "running" /\ status'[Job(c)] = "running"
    BY <1>1, <1>2
  <2> QED BY <1>2, <1>4, <1>5, <1>6, <2>1, StepEffects
<1>10. \/ /\ Cardinality(Com1) <= Cardinality(Com0) /\ (End1 => End0)
          /\ faults' = faults \/ faults' = faults + 1
       \/ Cardinality(Com1) <= Cardinality(Com0) /\ faults' = faults + 1
       \/ /\ Cardinality(Com1) <= Cardinality(Com0) + 1
          /\ (End1 => End0) /\ faults' = faults + 1
       \/ faults' = faults /\ Cardinality(Com1) <= Cardinality(Com0) - 1
  BY <1>7, <1>9, Sizes
<1>11. attempt[j] + Cardinality(Com1) + (IF End1 THEN 1 ELSE 0) <= OomMaxAttempts + faults'
  BY <1>3, <1>7, <1>8, <1>10, OomAssumption
<1> QED BY <1>11 DEF Cost, Com1, End1

\* An active job stays covered: it waits, it was just claimed, or it runs on.
LEMMA NextCost ==
  ASSUME TypeOK, TypeOK', StopsCounted, StopsCounted', Retriable', Executed, Counted,
         HolderRuns, CostCovered, [Next]_vars
  PROVE  CostCovered'
<1> SUFFICES ASSUME NEW j \in Jobs, status'[j] \in {"queued", "running"}
             PROVE  Cost(j)' <= OomMaxAttempts + faults'
  BY DEF CostCovered, ActiveJobs, ActiveStatus
<1>1. CASE status'[j] = "queued"
  BY <1>1, QueuedCovered
<1>2. CASE status'[j] = "running"
  BY <1>2, RunningBefore, ClaimCovered, KeptCovered
<1> QED BY <1>1, <1>2

\* Faults are never forgotten, and only a claim of a job counts an attempt.
LEMMA NextClaimsAccounted ==
  ASSUME TypeOK, TypeOK', StopsCounted', CostCovered', ClaimsAccountedFor, [Next]_vars
  PROVE  ClaimsAccountedFor'
<1> SUFFICES ASSUME NEW j \in Jobs PROVE attempt'[j] <= OomMaxAttempts + faults'
  BY DEF ClaimsAccountedFor
<1>1. /\ attempt[j] \in Nat /\ attempt'[j] \in Nat /\ faults \in Nat /\ faults' \in Nat
  BY MaxAttemptsAssumption, MaxFaultsAssumption DEF TypeOK, StoreTypeOK
<1>2. CASE status'[j] = "running"
  <2>1. Cost(j)' <= OomMaxAttempts + faults'
    BY <1>2 DEF CostCovered, ActiveJobs, ActiveStatus
  <2>2. Cardinality(Committed(j)') \in Nat
    BY NextCommittedSize
  <2> QED BY <1>1, <2>1, <2>2, OomAssumption DEF Cost
<1>3. CASE attempt'[j] = attempt[j]
  BY <1>1, <1>3, FaultsGrow, OomAssumption DEF ClaimsAccountedFor
<1> QED BY <1>2, <1>3, OnlyClaimsCount

\* Out-of-memory retries use up at most OomMaxAttempts claims of a job; every
\* further claim is paid for by a crash, a shutdown, a failed store call or a
\* lease that lapsed under a live run (queue.py _claim_loop, _process_job).
THEOREM ClaimsBounded == Spec => []ClaimsAccountedFor
<1> DEFINE Inv == /\ StopsCounted /\ Retriable /\ Executed /\ Counted /\ HolderRuns
                  /\ CostCovered /\ ClaimsAccountedFor
           Known == TypeOK /\ FencedByAttempt /\ RetriesAreAllowed
<1>1. Init => Inv
  <2> SUFFICES ASSUME Init PROVE Inv
    OBVIOUS
  <2>1. StopsCounted
    BY FS_EmptySet DEF Init, StopsCounted
  <2>2. Retriable /\ ClaimsAccountedFor /\ HolderRuns /\ CostCovered
    BY OomAssumption
       DEF Init, StoreInit, Retriable, ClaimsAccountedFor, HolderRuns, CostCovered,
           ActiveJobs, ActiveStatus
  <2>3. Executed /\ Counted
    BY DEF Init, Executed, Counted, Live
  <2> QED BY <2>1, <2>2, <2>3
<1>2. Known /\ Known' /\ Inv /\ [Next]_vars => Inv'
  <2> SUFFICES ASSUME Known, Known', Inv, [Next]_vars PROVE Inv'
    OBVIOUS
  <2>1. StopsCounted' /\ Retriable' /\ Executed' /\ Counted' /\ HolderRuns'
    BY NextStopsCounted, NextRetriable, NextExecuted, NextCounted, NextHolderRuns
  <2>2. CostCovered'
    BY <2>1, NextCost
  <2>3. ClaimsAccountedFor'
    BY <2>1, <2>2, NextClaimsAccounted
  <2> QED BY <2>1, <2>2, <2>3
<1>3. Known /\ Inv => ClaimsAccountedFor
  OBVIOUS
<1> HIDE DEF Inv
<1>4. Spec => []Known
  BY TypeCorrect, Fenced, RetriesAllowed, PTL
<1> HIDE DEF Known
<1> QED BY <1>1, <1>2, <1>3, <1>4, PTL DEF Spec
=============================================================================
