---------------------------- MODULE JobLifecycle ----------------------------
(***************************************************************************)
(* What the job store promises its callers (src/vemsa/jobs/store.py,       *)
(* docs/ARCHITECTURE.md "Job lifecycle"): a job is accepted once, is       *)
(* attempted, may be handed back a limited number of times, reaches one    *)
(* outcome that is recorded and announced in the same instant, and is      *)
(* forgotten after retention while its record remains.  No workers, no     *)
(* leases, no time.  JobQueue implements this specification.               *)
(***************************************************************************)
EXTENDS Integers

CONSTANTS
  Jobs,
  Hooked,    \* jobs whose outcome is announced
  MaxTries   \* a job is handed back only before this attempt

VARIABLES
  phase,     \* what a client sees of each job
  tries,     \* attempts started
  record,    \* the outcome kept for statistics, "none" before there is one
  news       \* announcements not yet forgotten

vars == <<phase, tries, record, news>>

Outcomes == {"completed", "failed", "cancelled"}

Init ==
  /\ phase = [j \in Jobs |-> "absent"]
  /\ tries = [j \in Jobs |-> 0]
  /\ record = [j \in Jobs |-> "none"]
  /\ news = {}

Become(j, p) == phase' = [phase EXCEPT ![j] = p]

Accept(j) ==
  /\ phase[j] = "absent"
  /\ Become(j, "queued")
  /\ UNCHANGED <<tries, record, news>>

\* A first attempt, a retry, or a job taken over from a dead worker.
Attempt(j) ==
  /\ phase[j] \in {"queued", "running"}
  /\ Become(j, "running")
  /\ tries' = [tries EXCEPT ![j] = @ + 1]
  /\ UNCHANGED <<record, news>>

HandBack(j) ==
  /\ phase[j] = "running"
  /\ tries[j] < MaxTries
  /\ Become(j, "queued")
  /\ UNCHANGED <<tries, record, news>>

\* Only an attempt completes or fails a job; cancellation needs none.
Conclude(j, o) ==
  /\ phase[j] = "running" \/ (phase[j] = "queued" /\ o = "cancelled")
  /\ record[j] = "none"
  /\ Become(j, o)
  /\ record' = [record EXCEPT ![j] = o]
  /\ news' = IF j \in Hooked THEN news \cup {<<j, o>>} ELSE news
  /\ UNCHANGED tries

Forget(j) ==
  /\ phase[j] \in Outcomes
  /\ Become(j, "purged")
  /\ news' = {n \in news : n[1] # j}
  /\ UNCHANGED <<tries, record>>

Next ==
  \E j \in Jobs :
    \/ Accept(j) \/ Attempt(j) \/ HandBack(j) \/ Forget(j)
    \/ \E o \in Outcomes : Conclude(j, o)

Spec == Init /\ [][Next]_vars
=============================================================================
