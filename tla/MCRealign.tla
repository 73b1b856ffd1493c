----------------------------- MODULE MCRealign -----------------------------
(* Small instances of Realign for TLC. *)
EXTENDS Realign

CONSTANTS Ends, MaxSegments, MaxTokens

Spans == {[start |-> a, end |-> b, tokens |-> n] : a, b \in Ends, n \in 0..2}

SmallTranscripts ==
  {t \in BoundedSeq({s \in Spans : s.start < s.end}, MaxSegments) :
     Total([i \in DOMAIN t |-> t[i].tokens]) <= MaxTokens}
=============================================================================
