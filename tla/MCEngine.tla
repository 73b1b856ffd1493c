------------------------------ MODULE MCEngine ------------------------------
(* Small instances of Engine for TLC. *)
EXTENDS Engine, TLC

CONSTANTS t1, t2, swedish, english, pyannote

Bare == [task |-> "transcribe", language |-> "sv", oversized |-> FALSE, diarize |-> "unset",
         review |-> FALSE, bounds |-> "none", vocabulary |-> "none", words |-> "none",
         nested |-> "none", segments |-> "none", named |-> FALSE, annotated |-> FALSE,
         ordered |-> TRUE]

With(task, changes) == changes @@ [Bare EXCEPT !.task = task]

Sent == {
  With("transcribe", [review |-> TRUE, vocabulary |-> "terms"]),
  With("transcribe", [diarize |-> "no", language |-> "en", vocabulary |-> "blank"]),
  With("diarize", [words |-> "plausible", bounds |-> "range"]),
  With("diarize", [words |-> "implausible", segments |-> "trusted", language |-> "en"]),
  With("diarize", [nested |-> "implausible", segments |-> "trusted", review |-> TRUE]),
  With("diarize", [segments |-> "blank", annotated |-> TRUE]),
  With("align", [segments |-> "crammed", named |-> TRUE]),
  With("timestamp", [segments |-> "crammed", language |-> "en"])}

\* What validation turns away.
Invalid == {
  With("transcribe", [diarize |-> "no", review |-> TRUE]),
  With("transcribe", [segments |-> "trusted"]),
  With("align", [segments |-> "trusted", annotated |-> TRUE]),
  With("align", [segments |-> "trusted", bounds |-> "exact"]),
  With("diarize", [segments |-> "trusted", diarize |-> "no"]),
  With("diarize", [words |-> "plausible", bounds |-> "inverted"]),
  With("diarize", [words |-> "plausible", ordered |-> FALSE]),
  With("diarize", [words |-> "plausible", oversized |-> TRUE]),
  With("timestamp", [segments |-> "trusted", diarize |-> "yes"])}

SentRequests == Sent \cup Invalid

EmissionsModels == [language \in {"sv", "en"} |-> IF language = "sv" THEN swedish ELSE english]
=============================================================================
