----------------------------- MODULE JobRequest -----------------------------
(***************************************************************************)
(* What a client asks for and which requests are admitted: JobRequest      *)
(* (jobs/models.py), the deployment's tasks (config.py), _admit_request    *)
(* (api/jobs.py).  A request is a record of what validation, dispatch and  *)
(* the engines tell apart:                                                 *)
(*   task, language, oversized (its transcript exceeds the byte cap)       *)
(*   diarize     "unset", "yes" or "no"                                    *)
(*   review      include_speaker_review                                    *)
(*   bounds      "none", "exact", "range", "inverted" or "mixed"           *)
(*   vocabulary  "none", "blank", "terms" or "excess"                      *)
(*   words       "none", "plausible" or "implausible" as a timeline        *)
(*   nested      the same for the words inside the segments                *)
(*   segments    "none", "blank" (no text), "trusted", "crammed"           *)
(*   named       a segment has a speaker                                   *)
(*   annotated   a segment, or the request, carries review metadata        *)
(*   ordered     every span satisfies 0 <= start <= end                    *)
(***************************************************************************)

Tasks == {"transcribe", "diarize", "align", "timestamp"}
Retiming == {"align", "timestamp"}

\* diarize defaults to true, except for task=timestamp.
Diarizes(q) == IF q.diarize = "unset" THEN q.task # "timestamp" ELSE q.diarize = "yes"

Terms(q) == IF q.vocabulary = "blank" THEN "none" ELSE q.vocabulary

\* Mutant: the review is not tied to a diarization.
ReviewAlways(q) == TRUE

ReviewAllowed(q) == q.review => Diarizes(q) /\ q.task # "align"

MetadataAllowed(q) == q.task \in Retiming => ~q.annotated

BoundsAllowed(q) ==
  /\ q.bounds \notin {"inverted", "mixed"}
  /\ q.bounds # "none" => Diarizes(q) /\ q.task \notin Retiming

VocabularyAllowed(q) == Terms(q) = "none" \/ (Terms(q) = "terms" /\ q.task = "transcribe")

Wordless(q) == q.words = "none"

TranscriptFits(q) ==
  \/ q.task = "transcribe" /\ Wordless(q) /\ q.segments = "none"
  \/ q.task = "diarize" /\ Diarizes(q) /\ ~(Wordless(q) /\ q.segments = "none")
  \/ q.task = "align" /\ Diarizes(q) /\ Wordless(q) /\ q.segments \in {"trusted", "crammed"}
  \/ /\ q.task = "timestamp" /\ ~Diarizes(q) /\ ~q.named
     /\ Wordless(q) /\ q.nested = "none" /\ q.segments \in {"trusted", "crammed"}

Valid(q) ==
  /\ ReviewAllowed(q) /\ MetadataAllowed(q) /\ BoundsAllowed(q) /\ VocabularyAllowed(q)
  /\ TranscriptFits(q)
  /\ q.task # "transcribe" => q.ordered

\* Mutant: every deployment accepts every task.
EveryTask(tier) == Tasks

SupportedTasks(tier) == IF tier = "diarize" THEN Tasks \ {"transcribe"} ELSE Tasks

Admitted(tier, q) == Valid(q) /\ q.task \in SupportedTasks(tier) /\ ~q.oversized
=============================================================================
