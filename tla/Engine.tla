------------------------------- MODULE Engine -------------------------------
(***************************************************************************)
(* The engine calls of one worker process (src/vemsa/pipeline), each in a  *)
(* thread of its own, sharing GPU slots, model locks and loaded models.    *)
(* A call goes through stages:                                             *)
(*   asking     the provider transcribes   pipeline   easytranscriber      *)
(*   aligning   force_align_segments       diarizing  Diarizer._diarize    *)
(* and inside a stage its program counter is at                            *)
(*   ask     the provider request          lock   a model or engine lock   *)
(*   decode  ffmpeg, if it is not PCM      check  again, under the lock    *)
(*   lookup  the cache, without the lock   load   under the lock           *)
(*   enter   waits for a GPU slot          run    the model runs           *)
(*   finish  the result is checked         raise  no such task here        *)
(***************************************************************************)
EXTENDS JobRequest, Integers, Sequences, FiniteSets

CONSTANTS
  Threads, Nobody,
  Requests,            \* what clients send, refused or admitted
  Models, Diarization, \* models kept in memory, and the one of pyannote
  ModelFor,            \* emissions model of a language
  GpuConcurrency,
  MinAlignment,        \* VEMSA_MIN_ALIGNMENT, or "unset"
  MaxCalls             \* bound: engine calls

ASSUME ThreadsAssumption == IsFiniteSet(Threads) /\ Nobody \notin Threads
ASSUME ModelsAssumption ==
  /\ Diarization \in Models
  /\ \A q \in Requests : ModelFor[q.language] \in Models \ {Diarization}
ASSUME RequestsAssumption ==
  \A q \in Requests :
    /\ q.review \in BOOLEAN
    /\ {q.words, q.nested} \subseteq {"none", "plausible", "implausible"}
    /\ q.segments \in {"none", "blank", "trusted", "crammed"}
ASSUME SlotsAssumption == GpuConcurrency \in Nat \ {0}
ASSUME CallsAssumption == MaxCalls \in Nat /\ Requests # {}

VARIABLES
  tier, preferAlign,   \* settings: resolved engine, VEMSA_DIARIZE_PREFER_ALIGN
  pc, call,            \* per thread: where it is, in whose call
  todo,                \* per thread: the stages left, the current one first
  ran,                 \* per thread: the stages behind it
  text,                \* per thread: the transcript at hand [words, segments]
  timing,              \* per thread: the word timestamps it will merge
  window,              \* per thread: what anchored its alignment
  result,              \* per thread: what its last call returned
  slots,               \* threads that hold a GPU slot
  holder,              \* of each lock
  loaded, loads,       \* models in memory; how often each was loaded
  temps,               \* <<thread, file or directory>> on disk
  calls

settings == <<tier, preferAlign>>
locals == <<text, timing, window>>
calling == <<call, result, calls>>
memory == <<loaded, loads>>
vars == <<settings, pc, todo, ran, locals, calling, slots, holder, memory, temps>>

Tiers == {"local", "hybrid", "remote", "diarize"}
Stages == {"asking", "pipeline", "aligning", "diarizing", "unserved"}
Labels == {"idle", "ask", "decode", "lookup", "lock", "check", "load", "enter", "run",
           "finish", "raise"}
Locks == {"engine", "stack", "diarizer"}
NoText == [words |-> "none", segments |-> "none"]
NoResult == [rung |-> "none"]
Transcripts == [rung : {"forced", "provider_words", "segment_split", "segment_only"},
                ran : SUBSET Stages, speakers : {"diarized", "kept", "none"},
                review : BOOLEAN]

Texts == [words : {"none", "plausible", "implausible"},
          segments : {"none", "blank", "trusted", "crammed"}]
Timings == {"none", "plausible", "implausible", "aligned"}
Windows == {"none", "segments", "whole"}

Rank == [forced |-> 3, provider_words |-> 2, segment_split |-> 1, segment_only |-> 0]

Stage(t) == Head(todo[t])

LockOf(stage) == CASE stage = "pipeline" -> "engine"
                   [] stage = "aligning" -> "stack"
                   [] OTHER -> "diarizer"

ModelOf(t) == IF Stage(t) = "diarizing" THEN Diarization ELSE ModelFor[call[t].language]

\* A process may start with preload_models.
Init ==
  /\ tier \in Tiers /\ preferAlign \in BOOLEAN
  /\ pc = [t \in Threads |-> "idle"]
  /\ call \in [Threads -> {CHOOSE q \in Requests : TRUE}]
  /\ result = [t \in Threads |-> NoResult]
  /\ todo = [t \in Threads |-> <<>>] /\ ran = [t \in Threads |-> {}]
  /\ text = [t \in Threads |-> NoText]
  /\ timing = [t \in Threads |-> "none"] /\ window = timing
  /\ slots = {} /\ temps = {}
  /\ holder = [l \in Locks |-> Nobody]
  /\ loaded \in {{}, {Diarization}}
  /\ loads = [m \in Models |-> IF m \in loaded THEN 1 ELSE 0]
  /\ calls = 0

-----------------------------------------------------------------------------
(* What a call has to do.                                                  *)

\* The words of a transcript: listed, else inside its segments.
Timeline(q) == IF q.words # "none" THEN q.words ELSE q.nested

\* Mutant: plausibility is judged before the words of the segments are taken.
TrustedUnlessListed(q) == IF q.words = "implausible" THEN "none" ELSE Timeline(q)

Trusted(q) == IF Timeline(q) = "implausible" THEN "none" ELSE Timeline(q)

\* What label_speakers merges without an alignment of its own.
LabelWords(q) == IF preferAlign THEN "none" ELSE Trusted(q)

Diarizing(q) == IF Diarizes(q) THEN <<"diarizing">> ELSE <<>>

\* transcribe() of each tier
LocalStages(q)  == <<"pipeline">> \o Diarizing(q)
HybridStages(q) == <<"asking", "aligning">> \o Diarizing(q)
RemoteStages(q) == <<"asking">> \o Diarizing(q)
Unserved        == <<"unserved">>

TranscribeStages(q) ==
  CASE tier = "local"  -> LocalStages(q)
    [] tier = "hybrid" -> HybridStages(q)
    [] tier = "remote" -> RemoteStages(q)
    [] OTHER           -> Unserved

\* label_speakers, and timestamp_transcript or align_transcript
LabelStages(q) ==
  IF LabelWords(q) = "none" THEN <<"aligning", "diarizing">> ELSE <<"diarizing">>

RetimeStages == <<"aligning">>

StagesOf(q) ==
  CASE q.task = "transcribe" -> TranscribeStages(q)
    [] q.task = "diarize"    -> LabelStages(q)
    [] OTHER                 -> RetimeStages

\* Mutant: the windows of a rejected timeline still anchor the alignment.
AnchorAlways(transcript) == IF transcript.segments = "trusted" THEN "segments" ELSE "whole"

\* alignment_input: the segments' own windows, or the whole audio
Anchor(transcript) ==
  IF transcript.segments = "trusted" /\ transcript.words # "implausible"
  THEN "segments" ELSE "whole"

Entry(stages) ==
  IF stages = <<>> THEN "finish"
  ELSE CASE Head(stages) = "asking"   -> "ask"
         [] Head(stages) = "aligning" -> "decode"
         [] Head(stages) = "unserved" -> "raise"
         [] OTHER                     -> "lock"

Enter(t, stages) ==
  /\ todo' = [todo EXCEPT ![t] = stages]
  /\ pc' = [pc EXCEPT ![t] = Entry(stages)]

Goto(t, label) == pc' = [pc EXCEPT ![t] = label]

-----------------------------------------------------------------------------
Start(t, q) ==
  /\ pc[t] = "idle" /\ calls < MaxCalls
  /\ Admitted(tier, q)
  /\ calls' = calls + 1
  /\ call' = [call EXCEPT ![t] = q]
  /\ result' = [result EXCEPT ![t] = NoResult]
  /\ text' = [text EXCEPT ![t] = [words |-> Timeline(q), segments |-> q.segments]]
  /\ timing' = [timing EXCEPT ![t] = IF q.task = "diarize" THEN LabelWords(q) ELSE "none"]
  /\ Enter(t, StagesOf(q))
  /\ UNCHANGED <<settings, ran, window, slots, holder, memory, temps>>

\* verbose_json of the provider (external), at least words or segments
Payloads == {p \in Texts : p.segments # "blank" /\ p # NoText}

\* The hybrid tier never takes the provider's times; the remote tier takes its
\* words unless they are implausible and there are segments to fall back on.
Ask(t) ==
  /\ pc[t] = "ask"
  /\ \E p \in Payloads :
       /\ text' = [text EXCEPT ![t] = p]
       /\ timing' = [timing EXCEPT ![t] =
            IF tier = "hybrid" \/ (p.words = "implausible" /\ p.segments # "none")
            THEN "none" ELSE p.words]
  /\ Enter(t, Tail(todo[t]))
  /\ UNCHANGED <<settings, ran, window, calling, slots, holder, memory, temps>>

\* _decodable_audio: PCM as it is, anything else through ffmpeg
Decode(t) ==
  /\ pc[t] = "decode"
  /\ \E made \in {{}, {<<t, "transcode">>}} : temps' = temps \cup made
  /\ Goto(t, IF Stage(t) = "aligning" THEN "lookup" ELSE "enter")
  /\ UNCHANGED <<settings, todo, ran, locals, calling, slots, holder, memory>>

Lookup(t) ==
  /\ pc[t] = "lookup"
  /\ Goto(t, IF ModelOf(t) \in loaded THEN "enter" ELSE "lock")
  /\ UNCHANGED <<settings, todo, ran, locals, calling, slots, holder, memory, temps>>

TakeLock(t) ==
  /\ pc[t] = "lock" /\ holder[LockOf(Stage(t))] = Nobody
  /\ holder' = [holder EXCEPT ![LockOf(Stage(t))] = t]
  /\ Goto(t, IF Stage(t) = "pipeline" THEN "enter" ELSE "check")
  /\ UNCHANGED <<settings, todo, ran, locals, calling, slots, memory, temps>>

Release(t) == holder' = [holder EXCEPT ![LockOf(Stage(t))] = Nobody]
Loaded(t) == IF Stage(t) = "aligning" THEN "enter" ELSE "decode"

\* Mutant: nobody looks again under the lock.
MissingBefore(m) == TRUE

Missing(m) == m \notin loaded

\* Another thread may have loaded the model while this one waited.
Check(t) ==
  /\ pc[t] = "check"
  /\ \/ Missing(ModelOf(t)) /\ Goto(t, "load") /\ UNCHANGED holder
     \/ ~Missing(ModelOf(t)) /\ Goto(t, Loaded(t)) /\ Release(t)
  /\ UNCHANGED <<settings, todo, ran, locals, calling, slots, memory, temps>>

Load(t) ==
  /\ pc[t] = "load"
  /\ loads' = [loads EXCEPT ![ModelOf(t)] = @ + 1]
  /\ loaded' = loaded \cup {ModelOf(t)}
  /\ Goto(t, Loaded(t)) /\ Release(t)
  /\ UNCHANGED <<settings, todo, ran, locals, calling, slots, temps>>

\* Mutant: the diarizer runs without a slot.
SlotUnlessDiarizing(t) == IF Stage(t) = "diarizing" THEN {} ELSE {t}

Slot(t) == {t}

TakeSlot(t) ==
  /\ pc[t] = "enter" /\ Cardinality(slots) < GpuConcurrency
  /\ slots' = slots \cup Slot(t)
  /\ temps' = IF Stage(t) = "diarizing" THEN temps ELSE temps \cup {<<t, "workdir">>}
  /\ window' = IF Stage(t) # "aligning" THEN window
               ELSE [window EXCEPT ![t] = IF call[t].task = "align" THEN "segments"
                                          ELSE Anchor(text[t])]
  /\ Goto(t, "run")
  /\ UNCHANGED <<settings, todo, ran, text, timing, calling, holder, memory>>

\* Mutant: the slot is kept until the call ends.
SlotAfterCall(t) == IF Len(todo[t]) = 1 THEN {t} ELSE {}

\* The slot, the engine lock and the files go whether the run ends or raises.
SlotOf(t) == {t}

\* Mutant: an exception leaves the transcoded audio behind.
WorkdirOf(t) == {<<t, "workdir">>}

FilesOf(t) == {<<t, "workdir">>, <<t, "transcode">>}

LeaveStage(t) ==
  /\ slots' = slots \ SlotOf(t)
  /\ holder' = [l \in Locks |-> IF holder[l] = t THEN Nobody ELSE holder[l]]
  /\ temps' = temps \ FilesOf(t)

\* An empty transcript has no words to align.
Run(t) ==
  /\ pc[t] = "run"
  /\ Stage(t) = "aligning" => text[t].segments # "blank"
  /\ ran' = [ran EXCEPT ![t] = @ \cup {Stage(t)}]
  /\ timing' = IF Stage(t) = "diarizing" THEN timing ELSE [timing EXCEPT ![t] = "aligned"]
  /\ LeaveStage(t)
  /\ Enter(t, Tail(todo[t]))
  /\ UNCHANGED <<settings, text, window, calling, memory>>

Return(t) ==
  /\ todo' = [todo EXCEPT ![t] = <<>>]
  /\ Goto(t, "idle")
  /\ ran' = [ran EXCEPT ![t] = {}]
  /\ text' = [text EXCEPT ![t] = NoText]
  /\ timing' = [timing EXCEPT ![t] = "none"]
  /\ window' = [window EXCEPT ![t] = "none"]

\* The provider answers with an error, ffmpeg or a model fails, memory is out,
\* or the alignment is empty: the exception unwinds the call.
Raise(t) ==
  /\ pc[t] \in {"ask", "decode", "load", "run", "raise"}
  /\ LeaveStage(t)
  /\ Return(t)
  /\ UNCHANGED <<settings, calling, memory>>

\* Without words the rung says whether segments were split at turns.
Rungs(t) ==
  CASE timing[t] = "aligned" -> {"forced"}
    [] timing[t] = "none" -> {"segment_only"} \cup IF Diarizes(call[t]) THEN {"segment_split"} ELSE {}
    [] OTHER -> {"provider_words"}

\* VEMSA_MIN_ALIGNMENT; VEMSA_ALIGN_MAX_INTERPOLATED_SHARE may refuse what was
\* forced.
Checks(rung) ==
  IF MinAlignment # "unset" /\ Rank[rung] < Rank[MinAlignment] THEN {FALSE}
  ELSE {TRUE} \cup IF rung = "forced" THEN {FALSE} ELSE {}

Transcript(t, rung) ==
  [rung |-> rung, ran |-> ran[t],
   speakers |-> CASE "diarizing" \in ran[t] -> "diarized"
                  [] call[t].task = "align" -> "kept"
                  [] OTHER -> "none",
   review |-> call[t].review /\ "diarizing" \in ran[t]]

Finish(t) ==
  /\ pc[t] = "finish"
  /\ \E rung \in Rungs(t) : \E accepted \in Checks(rung) :
       result' = [result EXCEPT ![t] = IF accepted THEN Transcript(t, rung) ELSE NoResult]
  /\ Return(t)
  /\ UNCHANGED <<settings, call, calls, slots, holder, memory, temps>>

-----------------------------------------------------------------------------
Step(t) ==
  \/ Ask(t) \/ Decode(t) \/ Lookup(t) \/ TakeLock(t) \/ Check(t) \/ Load(t)
  \/ TakeSlot(t) \/ Run(t) \/ Raise(t) \/ Finish(t)

Next == \E t \in Threads : Step(t) \/ \E q \in Requests : Start(t, q)

Spec == Init /\ [][Next]_vars

\* Threads run as long as one can; provider and ffmpeg calls have timeouts or
\* end by themselves.
FairSpec == Spec /\ WF_vars(\E t \in Threads : Step(t))

-----------------------------------------------------------------------------
\* "On those tiers every completed job reports `forced`" (docs/PRODUCTION.md);
\* and a caller's implausible words are never merged.
ForcedPromised(q) ==
  \/ preferAlign /\ tier # "remote"
  \/ q.task = "transcribe" /\ tier # "remote"
  \/ q.task # "transcribe" /\ Timeline(q) \in {"none", "implausible"}

Running == {t \in Threads : pc[t] = "run"}
Returned == {t \in Threads : result[t] # NoResult}

TypeOK ==
  /\ tier \in Tiers /\ preferAlign \in BOOLEAN
  /\ pc \in [Threads -> Labels]
  /\ call \in [Threads -> Requests]
  /\ todo \in [Threads -> Seq(Stages)] /\ ran \in [Threads -> SUBSET Stages]
  /\ text \in [Threads -> Texts] /\ timing \in [Threads -> Timings]
  /\ window \in [Threads -> Windows]
  /\ result \in [Threads -> {NoResult} \cup Transcripts]
  /\ slots \subseteq Threads
  /\ holder \in [Locks -> Threads \cup {Nobody}]
  /\ loaded \subseteq Models /\ loads \in [Models -> Nat]
  /\ temps \subseteq Threads \X {"transcode", "workdir"}
  /\ calls \in 0..MaxCalls

\* "gpu_concurrency says how many of those may be inside a GPU stage at once"
\* (gpu.py): never more models run, whatever stage of whatever task runs them,
\* and the local tier's pipeline only one at a time.
GpuBounded ==
  /\ Cardinality(Running) <= GpuConcurrency
  /\ \A t, u \in Running : Stage(t) = "pipeline" /\ Stage(u) = "pipeline" => t = u

\* Threads that need a model at once load it once: a second copy would take
\* its memory from the jobs that run.
LoadedOnce == \A m \in Models : loads[m] <= 1

\* A call that ended, by whatever exception in whatever stage, left no slot,
\* no lock and no file behind.
NothingLeftBehind ==
  \A t \in Threads : pc[t] = "idle" =>
    /\ t \notin slots
    /\ \A l \in Locks : holder[l] # t
    /\ \A f \in {"transcode", "workdir"} : <<t, f>> \notin temps

\* "On those tiers every completed job reports `forced`" (docs/PRODUCTION.md),
\* and none reports it without an alignment of its own; a caller's implausible
\* words are never merged; and windows from a rejected timeline anchor nothing.
TimedByTheAudio ==
  /\ \A t \in Returned :
       /\ result[t].rung = "forced" <=> result[t].ran \cap {"aligning", "pipeline"} # {}
       /\ ForcedPromised(call[t]) => result[t].rung = "forced"
  /\ \A t \in Running :
       /\ Stage(t) = "aligning" /\ window[t] = "segments"
       /\ call[t].task # "align"
       => text[t].segments = "trusted" /\ text[t].words # "implausible"

\* What admission accepted comes back as it was asked: a review and diarized
\* speakers if and only if the request wanted them, and no call reaches an
\* engine that does not serve its task.
ResultAsAsked ==
  /\ \A t \in Threads : pc[t] # "raise"
  /\ \A t \in Returned :
       /\ result[t].review = call[t].review
       /\ result[t].speakers = IF call[t].task = "align" THEN "kept"
                                ELSE IF Diarizes(call[t]) THEN "diarized" ELSE "none"

\* No call waits forever: slots inside locks, and no slot inside a slot.
EveryCallEnds == <>[](\A t \in Threads : pc[t] = "idle")
=============================================================================
