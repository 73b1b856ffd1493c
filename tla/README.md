# vemsa: a TLA+ model of the job system

vemsa transcribes and diarizes audio. Clients submit jobs over HTTP (or MCP);
rows in PostgreSQL are the queue; worker processes claim rows under expiring
leases, run a blocking engine in a thread, report stages, and settle each job
with a result, an error or a cancellation. This directory holds TLA+ modules of
the parts where concurrency, failure and ordering decide correctness, the TLC
configurations that check them on small instances, and proofs, checked by
TLAPS, that the central results hold for every instance.

Line references are to `src/vemsa/...` of the repository.

## 1. Inventory

| component | state it keeps | operations | hard behaviour | modelled by |
|---|---|---|---|---|
| job store `jobs/postgres_store.py` | tables `jobs`, `job_stats`, `webhook_outbox`, `worker_heartbeats`, `worker_samples` | admission, claim, renew, stage, audio path, release, finish, fail, cancel, purge, outbox claim/deliver/reschedule | statements of many processes interleave; a WHERE clause is the only guard | `JobStore`, `Admission`, `WebhookOutbox` (all but the telemetry rows) |
| worker queue `jobs/queue.py` | `_active`, slots, per-run locals, control thread, work directory | claim loop, `_process_job`, lease heartbeat, purge, sweep, stop | awaits between every two statements, zombies after a lapsed lease, lost replies, crashes | `JobQueue` |
| webhook loop `jobs/queue.py` | the event in hand, `_stopping` | claim, validate, POST, mark, reschedule | at-least-once delivery, stale deliverers, a task nothing restarts | `WebhookOutbox` |
| HTTP API `api/jobs.py` | none of its own; uploads in the work directory | submit, poll, cancel, result | many processes admit under shared caps; shares rows and files with workers | `Admission` (submit), `JobQueue` (cancel) |
| request validation `jobs/models.py`, `config.py` | none | validate, default, supported tasks | rules that must agree with what each engine can do | `JobRequest` |
| MCP facade `mcp/server.py` | none | the same store operations | the same | `Admission` (a request without upload and key) |
| fetch `pipeline/fetch.py` | files | download, upload | a failed transfer removes its file | `JobQueue!FetchSource`, `Admission!SaveUpload` |
| speaker attribution `pipeline/{diarize,speaker_review,label}.py` | none (pure) | relabel, label, smooth, snap, line, merge, cut segments, review | lists rewritten while they are scanned, boundaries, ties | `SpeakerAttribution`, `SegmentAttribution`, `SpeakerReview`, `Labelling` |
| realignment `pipeline/{realign,align}.py` | none (pure) | group, pad, align, distribute, retime | words found again by counting alone | `Realign` |
| GPU slots `pipeline/gpu.py` | process-wide semaphore | acquire, release | nesting with model locks, exceptions | `Engine` |
| engines `pipeline/{hybrid,transcribe,whisper_api,diarize_only}.py` | loaded models, model locks, temporary files | transcribe, label, align, timestamp | threads share models and slots; which times a result rests on | `Engine` (the stages they report: constant `Plan` of `JobQueue`) |
| timestamping `pipeline/timestamp.py` | none | align, group | a rejected timeline must anchor nothing | `Engine`, `Labelling` |
| normalisation, rendering | none | string rules | character level | no |
| ops dashboard, UI, scripts | none | read-only queries | - | no |
| wiring, settings, readiness, auth, observability | process wiring | start-up, health | - | settings are constants |

How they interact. The API and the workers share two things and nothing else:
the rows (through the store's statements) and the files of the work directory
(named by the `audio_path` column). A worker's main loop claims and runs jobs;
its control thread renews leases and persists stages over a connection of its
own; its webhook loop delivers what settled jobs left in the outbox; its purge
loop deletes settled rows and old files. No message passes between processes:
every conflict is settled by the WHERE clause of a statement, or, for
admission, by one advisory lock.

What makes each part correct:

* store: a job has one outcome, recorded and announced in the transaction that
  settles it; nothing moves a settled row but retention;
* queue: only the latest attempt of a job passes the store's fence; a job is
  handed back a bounded number of times; every job settles;
* files: an active job's audio is there for whoever works on it, and is gone
  once the job has settled;
* admission: concurrent submissions look as if they were decided one by one;
  caps hold; one Idempotency-Key gives one job; no upload is lost or left;
* engines: models run within the GPU slots and are loaded once; a call that
  raises leaves no slot, lock or file; a result has what the request asked for,
  timed by the audio where the deployment promises it;
* webhooks: an event leaves the outbox only when delivered, given up or purged;
  duplicates are bounded by recorded failures and faults;
* algorithms: no step loses or reorders words or speakers; each agrees with the
  definition its docstring gives.

## 2. Modules

| module | what it is |
|---|---|
| `JobStore` | the tables, one variable per column, one action per SQL statement or transaction |
| `JobQueue` | extends `JobStore` with worker processes, runs, files, faults; one action per await of `_process_job`; the properties |
| `JobLifecycle` | the abstract promise: accept, attempt, hand back, conclude, forget |
| `Admission` | API processes admitting submissions: upload, lock, read, check, insert, answer |
| `AtomicAdmission` | what clients may count on: one decision at one instant |
| `WebhookOutbox` | the outbox rows and the delivery loops of all workers |
| `EventDelivery` | what delivery promises of each event |
| `SpeakerAttribution`, `SpeakerReview` | the pure functions of diarize.py and speaker_review.py as operators |
| `SegmentAttribution` | the same for transcripts whose words have no times: whole segments are attributed or cut |
| `Labelling` | the pipeline that calls them one after the other, with the properties of each step |
| `Realign` | align_transcript, its pure steps and the external aligner |
| `JobRequest` | which requests are valid and which deployments accept them, as operators |
| `Engine` | extends `JobRequest`: the engine calls of one worker process, one thread each, sharing slots, locks, models |
| `MCJobQueue`, `MCAdmission`, `MCWebhookOutbox`, `MCLabelling`, `MCRealign`, `MCEngine` | model values and inputs for TLC |
| `StableSort` | Python's `sorted()`: by key, equal keys by position |
| `DataLemmas`, `FoldLemmas` | lemmas on induction, sorting, extrema, concatenation and folds |
| `JobQueueProofs`, `AdmissionProofs`, `EngineProofs`, `WebhookProofs`, `RealignProofs`, `LabellingProofs` | the theorems about each component |

### JobStore

`status`, `stage`, `owner`, `attempt`, `path` and `failureKind` are the columns
of the same meaning; `results` and `errors` are the rows with a result or an
error; `stats` is `job_stats`; `outbox` is `webhook_outbox`. Time is reduced to
what the WHERE clauses compare: a row is in `lapsed` when its lease has expired
and in `cooling` while `retry_after` lies ahead. `Owns(w, j)` is the clause
`status = 'running' AND lease_owner = $worker` that fences every worker
statement; `SetAudioPath` is the one without it, as in the code. A statement
that matches no row is not enabled, and `JobQueue` models what its caller does
then. The claim's `ORDER BY created_at FOR UPDATE SKIP LOCKED` returns any
claimable row, because rows locked by another transaction at that moment are
passed over. A purged row leaves its job in status `purged`, so that histories
can be told apart; its attempt number is kept for the refinement.

### JobQueue

A *run* `<<j, a>>` is the task started by claim number `a` of job `j`. Its
program counter names the next await:

    renew -> fetch -> attach -> work ... work -> finalize -> finish -> delete
                                  |                            |
                                  +-> release -> keep          +-> refused -> delete/keep
                                  +-> fail -> delete / rejected -> delete/keep

`fetch` and `attach` are passed only by jobs without audio. `work` reports the
stages of `Plan[j]` one by one; a report equal to the local `current_stage` is
skipped without asking the store (queue.py:358). `refused` and `rejected` are
the second read of the row after a statement matched nothing, which decides
between "cancelled" (delete the audio) and "lease lost" (leave it);
`delete`/`keep` is the `finally` block with `delete_audio` set or unset.

`files[j]` are the audio files of a job: the upload (0) or attempt n's download
(n). `up` are the live worker processes; a restarted process has a new
`worker_id` (uuid4, queue.py:113), hence is another element of `Workers`.

Faults, each counted against `MaxFaults`: a worker dies at any point
(`Crash`); a store call raises
without effect (`StoreError`) or with effect (`CommitUnacknowledged`,
`ClaimReplyLost`); a lease lapses under a live run (`Lapse`); retention or a
cancellation is interrupted between the row and the file. A lease whose run has
ended lapses without being a fault.

Shutdown follows `stop()` (queue.py:199). `Stop` sets `_stopping` and lists the
runs to wait for; a claim statement may be outstanding at that moment
(`claiming`). If it finds a job (`LateClaim`), the run it starts is in `late`:
it was not in the list. `StopControl` ends the drain, either because the listed
runs and the claim loop have ended or because `shutdown_grace_s` is over and what
was listed is cancelled; the control thread ends with it (`down`), and no
heartbeat follows. `Exit` ends the process with whatever still runs in it.

### JobLifecycle

Phases, tries, one record and the announcements: what the store's protocol
(jobs/store.py) promises a client. `JobQueue` implements it under the mapping
`phase <- status, tries <- attempt, record <- stats, news <- outbox`.

### Admission

A request is at one of the labels `save` (read the body, store the upload),
`lock`, `find`, `count`, `insert` (the statements of `PostgresJobStore.create`
inside its transaction), `discard` (unlink a duplicate's or refused upload),
`reply` (the row is committed), `done`, or `lost` (it ended without an answer). `lock` is who holds the advisory lock of
postgres_store.py:233; the lock goes with the transaction (`Unlock`), also when
it rolls back. `DigestOf` abstracts `_request_digest`: two submissions under one
key are the same request or they are not. A key's row is found as long as it is
stored, settled or not. Faults: `Abandon` is a call that raises or a client that
goes away at any await, `CommitUnacknowledged` a commit whose reply is lost. `MaxLost` bounds both.

What others do to rows and files is kept apart, as in the code. `JobSettles`
commits a terminal row and leaves the file alone; `DeleteAudio` is the unlink
that follows, of the worker's `finally`, of the API or of retention, and may
never come (a crash, or the cancelled job of `audio_leak`). `Sweep` asks no row:
it takes any file that is old enough (`Outdated`). Of files nobody uses every
one gets that old; of those whose request is under way or whose job is active
only the ones in `SlowUploads`. `MaxPurged` bounds the jobs that retention removes.

### JobRequest and Engine

A request is a record of what validation and the engines tell apart; every
count, length and character rule is one value of a field. `Admitted` is the
conjunction of the validators of `JobRequest`, the deployment's task list and
the transcript size; `Engine!Start` takes nothing else.

A worker runs `worker_concurrency` engine calls, each in a thread. `todo[t]` are
the stages a call has left: `asking` (the provider), `pipeline` (the local
tier's one-call engine), `aligning` (forced alignment), `diarizing`, and
`unserved`, where an engine raises for a task it does not have. `StagesOf` is
the dispatch: `transcribe` by tier, `label_speakers` by whether the caller's
words may be used, and one alignment for `align` and `timestamp`. Inside a stage
`pc[t]` is the next step: transcode, look the model up without the lock, take
the lock, look again, load, take a GPU slot, run. The orders differ as in the
code: the local engine takes its lock before the slot and keeps both while it
runs; the aligner holds its lock for the load only and decodes first; the
diarizer loads, then decodes. `Raise` is an exception at any of these points:
`finally` blocks and context managers unwind the slot, the lock and the
temporary files.

`timing[t]` says which word times a result will merge: none, the caller's or the
provider's (`plausible`, `implausible`), or `aligned`. `text[t]` is the transcript
a later alignment reads and `window[t]` what anchored it: the segments' own
windows, or the whole audio when they cannot be trusted (`Anchor`). `Finish`
derives the rung, applies the floor `VEMSA_MIN_ALIGNMENT` and the share of
interpolated words, and returns the result or nothing. The provider's payload
and whether segments are cut (computed in `SegmentAttribution`), which decide
between two rungs, are choices.

### WebhookOutbox

`row` is the event's fate, `attempt`, `due`, `owner` its columns; `due` reduces
`next_attempt_at` to past, future and NULL, and `lapsed` are rows whose lease
has expired. `loop` is the next await of each worker's loop and `event` what it
has in hand. The loop handles no exception of the store, so a raising statement
ends it (`LoopDies`, and `End` in the other actions when the statement took
effect first). `Validate` may reject any event: a host name that does not
resolve at the moment raises the same `ForbiddenUrlError` as a forbidden one.

### Labelling, SpeakerAttribution, SegmentAttribution, SpeakerReview

A word keeps what the algorithms read: its times, whether it ends a sentence
and whether it continues one. Lines are ranges of words, which is what makes
"no word lost" a property and not a type. Python's sorts are stable, so ties go
to the earlier index; `max` and `min` with a key return the first extreme
element, which `EarliestMin` keeps. The regular and the exclusive annotation of
the diarizer are one list of turns here. Overlap ids are positions.

The review cuts a line by finding its words in its text one after the other.
Whether a word is found is `anchored`, an input: a word may have no text
(whisper_api.py:135), or not the text the segment shows. One such word, or no
words at all, and the line stays whole with the overlaps of its span and of all
its words (`Anchored`, `ReviewWords`; speaker_review.py:75 and :82). Lines of
words and pieces of segments go through the same `ReviewWords`: a segment whose
words have implausible times keeps them (whisper_api.py:212) unless it is cut
(`WordsOf`), and a part of it lasts as long as its words (`ReviewPart`).

A provider that times no words sends segments (`segments`, `words` empty), and
`MergeSegments` takes the place of the steps on words. Of a segment's text only
its length, the offsets of its whitespace and those behind sentence punctuation
are kept, which is all that `_snap_offset` and `strip` read; a piece is a range
of offsets. Where two cuts enclose nothing but a doubled space, the code drops
the empty piece and with it a stretch of time between two pieces; no doc promises
otherwise, and `SplitsKeepSegments` names the case.

### Realign

Words carry the segment they were spoken for (`of`), which the program does not
know: it finds it again by counting. The aligner times the words of a window in
text order inside the padded window, and may lose or invent one per window.

## 3. Properties

| property | what it says | hazard |
|---|---|---|
| `TypeOK` (queue) | domains, and what is only ever set together | - |
| `FencedByAttempt` | a live run whose worker holds the lease is the latest attempt | the store fences by worker only; `exclude_ids` must close the gap |
| `OneOutcome` | status, statistics, webhook event, result, error, failure kind tell of one outcome, and an unsettled job of none | completion, failure, cancellation and late results race |
| `SettledForGood` | a settled row is only ever purged | lost acknowledgements, late zombies |
| `ImplementsLifecycle` | refinement of `JobLifecycle` | all of these at once, and the retry bound |
| `ClaimsAccountedFor` | claims of a job never exceed the retry bound plus the faults | endless retries |
| `StageIsTheOwners` | the stage polled is the lease holder's | zombies report stages too |
| `ActiveAudioKept` | an active row names an existing file | cleanup of another run; unfenced `set_audio_path` |
| `OwnerHasItsAudio` | the lease holder's file is not deleted by others | the same, seen from the run |
| `AwaitedRunsEnd` | the control thread ends under no run that `stop()` knew of | the drain against the grace period and running tasks |
| `JobsSettle` | every submitted job settles | lost claims, crashes, slots |
| `AudioDeletedWhenSettled` | a settled job's files go before retention | split responsibility of API and worker |
| `CapsHold` | active jobs never exceed the global or the client's cap | API processes admit at once |
| `IndexNeverRefuses` | no INSERT meets the unique index on client and key | the same |
| `SameKeySameJob` | equal requests under one key get one job, different ones a conflict | repeated submissions |
| `DuplicatesDiscarded`, `AdmittedUploadKept` | the upload of an answered request is there only if the request was given a job of its own; an active job has its upload, unless request and job outlast the sweep's age | the upload is stored before the decision; errors after a commit |
| `ImplementsAtomicAdmission` | refinement of `AtomicAdmission` | all of these at once |
| `EveryRequestAnswered` | a submission whose call does not fail is answered | one lock for all processes |
| `DuplicatesAccountedFor` | every acceptance but one of an event is paid for by a recorded failure or a fault | stale leases, lost answers |
| `ImplementsEventDelivery` | refinement of `EventDelivery` | late answers of stale deliverers |
| `EventsEnd` | every event ends while a delivery loop lives | leases of dead loops |
| `GpuBounded` | models never run on more than `gpu_concurrency` threads, the local pipeline on one | a stage that forgets the slot |
| `LoadedOnce` | a model is loaded once, however many threads need it first | lookup without the lock |
| `NothingLeftBehind` | an ended call holds no slot, no lock and no temporary file | an exception in any stage |
| `TimedByTheAudio` | results are `forced` exactly if an alignment ran, always where PRODUCTION.md promises it; a rejected timeline is not merged and anchors nothing | plausibility judged in several places |
| `ResultAsAsked` | what was admitted is served: diarized speakers and a review exactly if asked for | validation, dispatch and engines are in different files |
| `EveryCallEnds` | no call waits for ever | slots inside locks |
| `BestOverlapWins` | the sweep finds the turn with the largest overlap | moving first candidate |
| `SmoothingOnlyJoins` | smoothing removes changes of speaker and moves none | overwriting while scanning |
| `SnappingKeepsTurns` | snapping keeps the order of turns, and moved changes follow a sentence end | the same |
| `LinesBounded`, `WordsKeptInOrder` | lines keep to their limits and hold every word once, in order | first of four limits; joined lines joined again |
| `SplitsKeepSegments` | a cut segment keeps every word whole, once and in order, and its time; nobody gets a piece he does not speak in | cuts that snap onto one another or onto the ends |
| `NewSpeakersKeptApart` | a voice the caller did not name shares its name with nobody | names in use |
| `OverlapsAreSimultaneousSpeech`, `FlaggedExactly` | overlaps are the stretches of two or more voices; the review flags every word with those it touches, and shares them in a line only where a word is not found in the text | touching and repeated turns; lookup per line; a fallback in the middle of a loop |
| `WindowsApart`, `WordsReachTheirSegments`, `RetimedApart` | windows are disjoint; words return to their segments; retimed segments do not overlap | padding, containment, caller's order |
| `AudioSurvivesBetweenAttempts`, `StageReportSeesCancel`, `GivenUpAfterRetries`, `DrainedBeforeDown` | sentences of PRODUCTION.md | see section 5 |

## 4. Runs

All runs use model values or small enumerated inputs; the bounds are in the
`.cfg` files. `MaxAttempts` caps the claims of a job and `MaxFaults` the faults:
bounds of the exploration, not of the code.

| run | instance | properties |
|---|---|---|
| `one_job` | 1 job, uploaded or from a URL, 2 workers x 2 slots, 5 claims, 2 faults (a shutdown is one), 2 stages, one retry, fair | `TypeOK`, `FencedByAttempt`, `OneOutcome`, `StageIsTheOwners`, `ClaimsAccountedFor`, `ActiveAudioKept`, `OwnerHasItsAudio`, `AwaitedRunsEnd`, `SettledForGood`, `ImplementsLifecycle`, `JobsSettle` |
| `two_jobs` | an upload and a URL job, 2 workers x 1 slot, one with a webhook, no retry, no fault, fair | `AudioDeletedWhenSettled` |
| `admission` | 5 requests of 3 clients, 2 uploads, one of them slow, one key with two bodies, cap 2 in all and 1 each, one lost call, one purged job, fair | `CapsHold`, `AdmittedUploadKept`, `IndexNeverRefuses`, `SameKeySameJob`, `DuplicatesDiscarded`, `ImplementsAtomicAdmission`, `EveryRequestAnswered` |
| `webhooks` | 2 events, 1 forbidden, 2 loops, 2 tries, 2 faults, fair | `DuplicatesAccountedFor`, `ImplementsEventDelivery`, `EventsEnd` |
| `labelling` | every dialogue of 4 words, 3 speakers, 3 kinds of words, 2 gaps; every 3 turns on a grid over 3 timelines, one with a word without text, and 3 references; every monologue of 5 words; 1 or 2 segments without words or with implausible ones, 4 texts, every 3 turns | the 9 properties of `Labelling` |
| `realign` | every 1 to 3 segments on a grid of 4 points with 3 words in all, known and unknown duration, miscounts in 2 windows | `WindowsApart`, `WordsReachTheirSegments`, `RetimedApart` |
| `engines` | 2 threads, 2 calls, 1 GPU slot, floor `segment_split`; 8 kinds of admitted requests and 9 refused ones on 4 tiers, with and without `prefer_align` and preloading, fair | `GpuBounded`, `LoadedOnce`, `NothingLeftBehind`, `TimedByTheAudio`, `ResultAsAsked`, `EveryCallEnds` |
| `audio_leak`, `slow_job`, `stale_stage`, `late_claim`, `webhook_dns` | smallest instances of section 5 | one each |

Why these bounds are enough for what is asked. Queue: a zombie needs one lapse
and one further claim, which two workers with two slots show both across
processes and inside one. Two failures in a row is where a handler's own error
path fails, and a shutdown followed by a lapse or a crash is the longest chain
of takeovers the properties depend on; with one retry that makes at most four
claims that count, and the fifth shows that `ClaimsAccountedFor` holds without
the bound's help. `two_jobs` asks what one job cannot show, contention for a
slot; retries and faults are off there because `AudioDeletedWhenSettled` does
not hold with them (`audio_leak`). Admission: a race for a cap or a key is
between two requests, a third sees the outcome, a fourth is another client and
a fifth has no key; the sweep may take the slow upload at any moment and the other
as soon as nobody needs it, and one purged row frees its key. Webhooks: two tries distinguish retry and exhaustion,
two faults make one loop take over from another twice. Labelling: an island has
three runs, a snap looks two words each way and four words hold both, overlap
sweeps change within three turns, and so do cuts: three turns give three pieces,
two of whose cuts can fall into one word; the tunings are scaled so that each limit is
met and exceeded. Realign: two windows with a gap smaller than twice the
padding, and three segments that nest, touch or swap. Engine: a
race for a lock, a slot or a model is between two threads, one slot makes them
meet, and two calls give every pair of tasks, one after the other or at once;
the admitted requests cover each branch of `StagesOf`, and each refused one
breaks one rule.

Every action of every `Next` fires in the passing runs. Deadlock checking is
off: when all jobs, requests or events have ended, or a transcript is done, the
system rests.

Fairness. `WF` on a run's own steps: the event loop and the engine thread
go on, and downloads, engine and statements all have timeouts or end. `WF` on
the lapse of leases of ended runs and on cooldowns: time passes. `SF` on the
claim of a job by some worker: live workers poll, and the claim orders by
`created_at`, so finitely many jobs cannot pass one over for ever; it needs
strong fairness because slots fill and free again. The same holds for the claim
of an event. Admission: `WF` on the union of all
requests' steps: some process goes on while one can. No order among the waiters
of the advisory lock is assumed; with finitely many requests none is needed.
Engine: `WF` on the union of all threads' steps, with the same reading; provider
calls have timeouts, ffmpeg and the models end by themselves. Crashes, errors, cancellations
and stops are never fair. In `JobQueue` one worker always survives, which stands
for the supervisor's restart; in `WebhookOutbox` all loops may end, since nothing
restarts a loop inside a living worker, and `EventsEnd` says so.

## 5. What the runs found

* `audio_leak`: cancelling a job that waits for its out-of-memory retry leaves
  its audio in the work directory. The API deletes only when `attempt == 0`
  (api/jobs.py:276) and no worker runs the job, although ARCHITECTURE.md:123
  promises deletion at any terminal state. Only the age sweep removes the file.
* `slow_job`: the sweep (queue.py:832) compares the file's age and never asks
  whether an active job names it; a job active for longer than
  `ORPHAN_MAX_AGE_S` loses the audio PRODUCTION.md:311 says survives.
* `stale_stage`: a re-claimed run takes its current stage from the dead
  attempt's row (queue.py:303), so its first report may be skipped
  (queue.py:358) and does not see a cancellation, against PRODUCTION.md:179.
  The cancellation is seen by a later report or by `finish`.
* `late_claim`: `stop()` lists the active job tasks at the moment it is called
  (queue.py:205). A claim outstanding then starts a task that the drain does not
  wait for: the control thread ends under it and the process may exit, although
  PRODUCTION.md:313 says shutdown waits for every in-flight job. The job is
  not lost: it fails on its next store call or its lease lapses and another
  worker takes it (`JobsSettle` holds in `one_job`).
* `webhook_dns`: a name lookup that fails while a worker delivers is reported as
  `ForbiddenUrlError` (security.py:42) and answered with a reschedule whose
  limit is one try (queue.py:769), so the event is exhausted at once, although
  PRODUCTION.md:207 says events are retried with backoff.

Observations without a run. ARCHITECTURE.md:105 and PRODUCTION.md:142 call the
429 "pre-body"; the caps are counted after the upload is stored (api/jobs.py:188,
:196), as README.md:173 says. In realign.py:111 the comparison of a shared
window's words with its tokens can never fail, because slices are cut by those
very counts: only the total is compared, and miscounts of two windows that
cancel out move words to a neighbouring segment (`SlipsCancel`).
README.md:91-96 says implausible words are discarded and the text is
force-aligned; the remote tier has no aligner, merges per segment instead, and
keeps a provider's implausible words when the payload has no segments
(whisper_api.py:212). README.md:122 says the two lower rungs have no words; the
segments of a provider's payload keep theirs. `task=diarize` with segments of
blank text alone is admitted, but an engine that has to align it can only fail.
`label_speakers` reports aligning and diarizing as planned at the start, and
words set aside later never report the alignment that replaces them.
diarize.py:704-706 gives the load lock as the reason no aligner sees the
process-wide flags change; the lock keeps two loads apart, not a load and an
alignment that already runs.

## 6. Proofs

`JobQueueProofs` proves, for all constants that satisfy the assumptions stated
with them (`NoOwnerAssumption`, `PlanAssumption`, `MaxAttemptsAssumption`,
`MaxFaultsAssumption`, ... in `JobStore` and `JobQueue`):

* `TypeCorrect`: `Spec => []TypeOK`; types of the statements first
  (`StoreTypes`), then one step per action.
* `OneOutcomeHolds`: `Spec => []OneOutcome`. `StepIsAStatement` reduces a step
  of the queue to one statement of the store; `OneOutcome` is inductive over
  statements given the types.
* `SettledStaysSettled`: the action property, from the statements' guards.
* `Fenced`: `Spec => []FencedByAttempt`. Two facts: only a claim starts a run
  (`RunsStartByClaim`), and a row's owner changes only by a claim that skipped
  the jobs its worker still runs (`OwnersChangeByClaim`). The invariant is
  inductive with the types alone; without `exclude_ids` the second fact fails.
* `RefinesLifecycle`: `Spec => ImplementsLifecycle`. A terminal statement is
  `Conclude` because `OneOutcome` says nothing was recorded before; a release is
  `HandBack` because the releasing run may retry (`RetriesAllowed`) and, by
  `FencedByAttempt`, is the latest attempt. This is where fencing by worker
  would otherwise break the promise.

Its second part follows the runs of a job:

* `ShutdownAwaits`: `Spec => []AwaitedRunsEnd`, inductive as it stands given the
  types: the only run a worker takes after `stop()` began is recorded as late.
* `StageShown`: `Spec => []StageIsTheOwners`. At most one live run holds the
  lease of a job (`OneOwningRun`, from `FencedByAttempt`), so that a stage
  written by an owner is written by the run at hand.
* `ActiveAudioStays`, `OwnersAudioStays`: `Spec => [](~SlowJobs => ...)`. The
  strengthening `AudioInv` adds that every live run of an unsettled job has its
  file (`RunHasAudio`) and that a run which deletes belongs to a settled job
  (`DeletesSettled`). The condition is needed: the sweep deletes by age, which
  the run `slow_job` shows.
* `ClaimsBounded`: `Spec => []ClaimsAccountedFor`, by credit. `Cost` of a job is
  its claims so far, plus one if it may be claimed again (`Exposed`: it waits, its
  lease lapsed, or its run is over), plus one for each stopping worker that may
  still claim it or abandon its run (`Committed`). `CostCovered` bounds it by
  `OomMaxAttempts + faults` while the job is active: a claim spends what `Exposed`
  counted; a job becomes exposed by a release, which only a run that may retry
  makes (`Retriable`), or by a fault; a shutdown is paid for when it begins.

`AdmissionProofs` proves, for every finite set of requests and every cap:

* `CapsAlwaysHold`, `IndexNeverAsked`: the strengthening says that whoever is
  inside the transaction holds the lock (`HoldsLock`), that what it read is still
  true (`Undecided`: no stored job under its key; `Checked`: room under both
  caps), and that nobody is admitted without the lock. An insert then keeps the
  caps because the counts it checked can only have fallen.
* `AdmissionIsAtomic`: `Spec => ImplementsAtomicAdmission`; the step that decides
  a request maps to the atomic decision, every other to a stutter.
* `UploadsKept`, `UploadsDiscarded`: from `FileInv`, which follows a request's
  file through each label, against a sweep and an unlink that may come between
  any two of them. `UploadsKept` is about uploads outside `SlowUploads`, because
  the sweep takes the others whatever their jobs do (as in `slow_job`);
  `UploadsDiscarded` holds for all, and says nothing of how long the file of a
  settled job stays (as in `audio_leak`).
* `OneJobPerKey`: `Spec => []SameKeySameJob`. `KeyInv` says that no two stored
  rows share a key of one client, which an insert keeps because `Checked` found
  none, and that a given job carries the key and the digest of its request; two
  stored jobs given under one key are then the same.
* `TypeCorrect`: `Spec => []TypeOK`.

`EngineProofs` proves, for every finite set of threads, every set of requests
and models and every `gpu_concurrency`:

* `TypeCorrect`: `Spec => []TypeOK`.
* `SlotsBoundModels`, `ModelsLoadOnce`, `CallsCleanUp`: `GpuBounded`,
  `LoadedOnce`, `NothingLeftBehind`. One invariant, `EngineInv`: a thread holds a
  slot exactly while it runs (`SlotsRun`); at most the lock of its stage, and
  only inside it (`LocksHeld`); a thread about to load found the model missing
  (`LoadsCounted`), which stays true because the lock of that kind of model is
  its own; files exist only inside a stage (`FilesInside`). `Placed`, which stage
  goes with which label, is needed because the lock that `Check` and `Load`
  release is the one of the stage at hand.

Its second part follows what a call has at hand:

* `ServedAsAsked`: `Spec => []ResultAsAsked`. `OnPlan` says of the stages behind
  a call and those before it together that diarization is among them exactly if
  the request asks for it, an aligner whenever `forced` is promised, and
  `unserved` never; nothing is left when a call finishes.
* `TimesComeFromTheAudio`: `Spec => []TimedByTheAudio`. `OnPlan` also ties
  `timing` to the aligners behind the call, `Anchored` says what windows a
  running alignment was given, `Told` keeps both for what was returned.

`WebhookProofs` proves, for every finite set of workers, every set of events,
every number of tries and faults:

* `TypeCorrect`: `Spec => []TypeOK`.
* `SurplusPaidFor`: `Spec => []DuplicatesAccountedFor`. That acceptances are
  paid for is not inductive; the argument is one of credit (`Paid`). What was
  accepted and what the loops on their way to the receiver may still have
  accepted (`Spent`) exceeds the attempts and faults by one at most, and not at
  all while nobody works on the event under a lease that holds (`Free`). A claim
  takes a free event and so buys one acceptance on credit; whatever frees the
  event again is a recorded try, a fault, or a loop that ended without posting.
* `DeliveryKeepsItsPromise`: `Spec => ImplementsEventDelivery`, under the phase
  mapping; `Tracked` says that a loop about to mark an event delivered saw it
  accepted, so that a stale deliverer removes nothing that was not delivered.

`DataLemmas` and `FoldLemmas` carry the induction over data. The library's
induction theorems take an operator, which no backend instantiates; a set takes
its place: `SetInduction` and `StepInduction` say that a set which contains 0 and
the successor of each member contains every number (up to n), and each proof
names the set of the numbers at which its claim holds. `FoldTrace` says that a
fold goes from its base through one step per element; a module about a fold
instantiates `FoldLemmas` with the step. `SortedByKey` and `InOrderRises` say what
the stable sort returns, `OneOrder` that there is one increasing enumeration of a
set, `FlattenOrdered` and `FlattenPairs` what concatenation keeps.

`RealignProofs` proves, for transcripts of any number of segments with
`0 <= start <= end`, segments of no length included (`TranscriptsAssumption`), any
`MergeGap`, `Pad` and durations, and any number of miscounted words:

* `AlwaysWindowsApart`. Segments are taken by start, so a new group begins more
  than the gap behind the latest end of the one before, and all later groups
  behind it too; the padding never passes the middle of what lies between.
* `AlwaysRetimedApart`. Words ascend inside a window and from window to window,
  so sorting them changes nothing; the slices handed to the segments are disjoint
  ranges of one ascending list, and the output is sorted by their first words.
* `AlwaysWordsReachTheirSegments`. Where the total agrees and the miscounts do
  not cancel out, there is no miscount, so the words in window order spell the
  segments in window order; slices at running sums of the counts give each its own.
* `AlignInvariant`: `AlignInv` states per step what the next one relies on.

`LabellingProofs` proves, for recordings of any number of words, turns,
reference turns and segments at any times (`RecordingsAssumption`; of a text only
that it is stripped, as whisper_api.py:150 does) and any tuning above zero
(`TuningAssumption`):

* `LabelInvariant`: `LabelInv` is the conjunction of `InputsInv`, `TurnsInv` (turns
  are sorted before words are looked up), `LabelsInv` (one label per word, the one
  the turns give it) and `LinesInv` (lines tile the words, and are bounded where
  they have no speakers).
* `AlwaysBestOverlapWins`: among sorted turns the sweep stops where no later
  turn can reach the word.
* `AlwaysSmoothingOnlyJoins`: every replacement gives a run the label on both of
  its sides, so each intermediate labelling has the changes of the one before or
  fewer.
* `AlwaysSnappingKeepsTurns`: a change moves only between the changes beside
  it and only to a sentence end; the first words of runs are enumerated as before
  but for one, and by `OneOrder` the sequence of their labels is the same.
* `AlwaysWordsKeptInOrder`, `AlwaysLinesBounded`: grouping, merging of orphans and
  review each turn a tiling into a tiling (`TilesJoin`, `LastTileGrows`).
* `AlwaysFlaggedExactly`, an action property of the review, from `LabelInv` and
  `SegmentsInv`: what overlaps a word overlaps the bounds looked up for its line
  (`CandidatesSuffice`); the fold over the words of a line cuts it into ranges of
  equal flags (`LineCut`), and one that cannot be cut has the union
  (`WordsReviewed`). `LinesReviewed` and `PieceReviewed` carry this over to
  transcripts of words and of segments.
* `AlwaysOverlapsAreSimultaneousSpeech`: after each event time the sweep's
  counters are the numbers of turns that cover it, and the intervals so far are
  exact up to it (`SweptTo`).
* `AlwaysNewSpeakersKeptApart`: a fresh name exists by the pigeonhole, and each
  is chosen outside those before it.
* `AlwaysSplitsKeepSegments`, from an invariant of its own (`SegmentsInv`). Silence
  goes to a neighbour, so a span of one speaker, no longer than it is, holds a
  stretch in which he is heard (`StretchSpoken`). Cuts lie where spans begin and on
  whitespace, ascending in both (`CutsFit`). Hence the speaker with most of a
  piece has a whole span in it (`DominantSpeaks`), and the fold over pieces keeps
  every word that starts before the cut reached (`PiecesUpTo`): a piece dropped as
  whitespace lies between two inner cuts, which takes two spaces in a row.

Assumed of the constants is what the assumptions named in the modules say, and
nothing else; TLC evaluates each of them in a run.

Only model-checked: the liveness properties (`JobsSettle`, `AudioDeletedWhenSettled`,
`EveryRequestAnswered`, `EventsEnd`, `EveryCallEnds`), because the prover has no
`ENABLED` and no fairness. Every invariant, action property and refinement that a
passing run checks is also a theorem, the three on audio files where no
request or job outlives the sweep's age. That every step of a fold is the step the
source takes is a matter of reading, as it is for every definition.

## 7. Plan

Theorems the components do not have yet: that the plan of a call with
implausible words ends in an alignment or a refusal, stated over `StagesOf`
alone; that a labelled transcript keeps the times of its words; and the
rounding of cuts, of which the proofs use only that it gives a number.

## 8. Not modelled

The models' numerics, text normalisation and rendering, URL and token checks,
configuration parsing, logging and metrics, the dashboard's read-only queries,
the telemetry rows, the canned engine for tests (fake.py), the counting of
interpolated words. Of a reviewed part's text the model
keeps the range of offsets, not the stripping of its whitespace. The two reads of `get_job_result` write nothing: retention between them makes one poll
fail and the next answer 404. A partial file left by a process killed in the
middle of a download or upload is not distinguished from a complete orphan: the
sweep treats both alike.
