---------------------------- MODULE MCJobQueue ----------------------------
(* Small instances of JobQueue for TLC. *)
EXTENDS JobQueue, TLC

CONSTANTS j1, j2, w1, w2, c1

MCClientOf == [j \in Jobs |-> c1]
MCKeyOf    == [j \in Jobs |-> NoKey]

\* A diarized transcription (hybrid.py reports the alignment in between; two
\* stages already give a first, a repeated and a later report).
TwoStages == [j \in Jobs |-> <<"transcribing", "diarizing">>]
\* An align or timestamp job.
OneStage  == [j \in Jobs |-> <<"aligning">>]

WorkerSymmetry == Permutations(Workers)
=============================================================================
