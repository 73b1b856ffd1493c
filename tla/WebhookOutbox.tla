--------------------------- MODULE WebhookOutbox ---------------------------
(***************************************************************************)
(* The consumers of webhook_outbox: claim_webhook, mark_webhook_delivered  *)
(* and reschedule_webhook (jobs/postgres_store.py) called by the           *)
(* _webhook_loop of every worker process (jobs/queue.py).                  *)
(*                                                                         *)
(* The loop of a worker is at its next await:                              *)
(*   claim     claim_webhook, or asleep until the next poll                *)
(*   validate  the destination is checked, which resolves its host name    *)
(*   post      the HTTP request                                            *)
(*   mark / retry / reject    the statement that records how it went       *)
(*   ended     the task has returned, raised, or died with its process     *)
(***************************************************************************)
EXTENDS Naturals, FiniteSets

CONSTANTS
  Events, Workers,
  Forbidden,            \* events whose destination the URL rules refuse
  NoOwner, NoEvent,
  WebhookMaxAttempts,
  MaxFaults             \* bound of the exploration

ASSUME ForbiddenAssumption == Forbidden \subseteq Events
ASSUME WorkersAssumption == IsFiniteSet(Workers)
ASSUME NothingAssumption == NoOwner \notin Workers /\ NoEvent \notin Events
ASSUME WebhookMaxAttemptsAssumption == WebhookMaxAttempts \in Nat \ {0}
ASSUME WebhookFaultsAssumption == MaxFaults \in Nat

VARIABLES
  row,       \* "stored" while the table has it, then what became of it
  attempt, due, owner,  \* columns; due abstracts next_attempt_at
  lapsed,    \* rows whose lease_expires_at is past
  loop, event,          \* of each worker: next await, event in hand
  stopping,  \* workers that were asked to stop
  accepted,  \* how often the receiver accepted each event
  faults

rowVars  == <<row, attempt, due, owner, lapsed>>
loopVars == <<loop, event>>
vars == <<rowVars, loopVars, stopping, accepted, faults>>

Stored == {e \in Events : row[e] = "stored"}
Leased == {e \in Events : owner[e] # NoOwner}
Recording == {"mark", "retry", "reject"}

Init ==
  /\ row = [e \in Events |-> "none"]
  /\ attempt = [e \in Events |-> 0]
  /\ due = [e \in Events |-> "now"]
  /\ owner = [e \in Events |-> NoOwner]
  /\ lapsed = {}
  /\ loop = [w \in Workers |-> "claim"]
  /\ event = [w \in Workers |-> NoEvent]
  /\ stopping = {}
  /\ accepted = [e \in Events |-> 0]
  /\ faults = 0

-----------------------------------------------------------------------------
(* Statements.                                                             *)

\* _insert_webhook, in the transaction that settles the job (JobStore)
Publish(e) ==
  /\ row[e] = "none"
  /\ row' = [row EXCEPT ![e] = "stored"]
  /\ UNCHANGED <<attempt, due, owner, lapsed, loopVars, stopping, accepted, faults>>

\* Mutant: the lease is not looked at.
ClaimableThoughLeased(e) == e \in Stored /\ due[e] = "now"

\* Mutant: an expired lease is not taken over.
ClaimableUnleased(e) == e \in Stored /\ due[e] = "now" /\ e \notin Leased

Claimable(e) == e \in Stored /\ due[e] = "now" /\ (e \in Leased => e \in lapsed)

TakeLease(w, e) ==
  /\ Claimable(e)
  /\ owner' = [owner EXCEPT ![e] = w]
  /\ lapsed' = lapsed \ {e}
  /\ UNCHANGED <<row, attempt, due>>

\* Mutant: the statements do not check lease_owner.
OwnsStored(w, e) == e \in Stored

Owns(w, e) == e \in Stored /\ owner[e] = w

DeleteRow(w, e) ==
  \/ /\ Owns(w, e)
     /\ row' = [row EXCEPT ![e] = "delivered"]
     /\ owner' = [owner EXCEPT ![e] = NoOwner]
     /\ lapsed' = lapsed \ {e}
     /\ UNCHANGED <<attempt, due>>
  \/ ~Owns(w, e) /\ UNCHANGED rowVars

ReleaseLease(e) == owner' = [owner EXCEPT ![e] = NoOwner] /\ lapsed' = lapsed \ {e}

RescheduleRow(w, e, maxAttempts) ==
  \/ /\ Owns(w, e)
     /\ attempt' = [attempt EXCEPT ![e] = @ + 1]
     /\ due' = [due EXCEPT ![e] = IF attempt[e] + 1 >= maxAttempts THEN "never" ELSE "later"]
     /\ ReleaseLease(e)
     /\ UNCHANGED row
  \/ ~Owns(w, e) /\ UNCHANGED rowVars

-----------------------------------------------------------------------------
(* _webhook_loop and _deliver_webhook.  The loop handles no exception of   *)
(* the store: one ends the task, and nothing starts it again.              *)

End(w) ==
  /\ faults < MaxFaults
  /\ faults' = faults + 1
  /\ loop' = [loop EXCEPT ![w] = "ended"]
  /\ event' = [event EXCEPT ![w] = NoEvent]

ClaimWebhook(w) ==
  /\ loop[w] = "claim"
  /\ \E e \in Events :
       /\ TakeLease(w, e)
       /\ \/ /\ loop' = [loop EXCEPT ![w] = "validate"]
             /\ event' = [event EXCEPT ![w] = e]
             /\ UNCHANGED faults
          \/ End(w)
  /\ UNCHANGED <<stopping, accepted>>

Goto(w, label) == loop' = [loop EXCEPT ![w] = label] /\ UNCHANGED event

\* A name that does not resolve at the moment raises ForbiddenUrlError too.
Validate(w) ==
  /\ loop[w] = "validate"
  /\ \/ event[w] \notin Forbidden /\ Goto(w, "post")
     \/ Goto(w, "reject")
  /\ UNCHANGED <<rowVars, stopping, accepted, faults>>

Receive(e) == accepted' = [accepted EXCEPT ![e] = @ + 1]

\* Accepted and answered, accepted with the answer lost, or not accepted.
Post(w) ==
  /\ loop[w] = "post"
  /\ \/ Goto(w, "mark") /\ Receive(event[w])
     \/ Goto(w, "retry") /\ (Receive(event[w]) \/ UNCHANGED accepted)
  /\ UNCHANGED <<rowVars, stopping, faults>>

Record(w) ==
  /\ loop[w] \in Recording
  /\ \/ loop[w] = "mark"   /\ DeleteRow(w, event[w])
     \/ loop[w] = "retry"  /\ RescheduleRow(w, event[w], WebhookMaxAttempts)
     \/ loop[w] = "reject" /\ RescheduleRow(w, event[w], 1)
  /\ \/ /\ loop' = [loop EXCEPT ![w] = "claim"]
        /\ event' = [event EXCEPT ![w] = NoEvent]
        /\ UNCHANGED faults
     \/ End(w)
  /\ UNCHANGED <<stopping, accepted>>

\* A store call raises without effect, or the process dies.
LoopDies(w) ==
  /\ loop[w] # "ended"
  /\ End(w)
  /\ UNCHANGED <<rowVars, stopping, accepted>>

Stop(w) ==
  /\ w \notin stopping
  /\ stopping' = stopping \cup {w}
  /\ UNCHANGED <<rowVars, loopVars, accepted, faults>>

\* The loop looks at _stopping only when nothing is left to claim.
LoopReturns(w) ==
  /\ w \in stopping /\ loop[w] = "claim"
  /\ \A e \in Events : ~Claimable(e)
  /\ loop' = [loop EXCEPT ![w] = "ended"]
  /\ UNCHANGED <<rowVars, event, stopping, accepted, faults>>

-----------------------------------------------------------------------------
(* Time, and the retention of jobs.                                        *)

DelayPasses(e) ==
  /\ due[e] = "later"
  /\ due' = [due EXCEPT ![e] = "now"]
  /\ UNCHANGED <<row, attempt, owner, lapsed, loopVars, stopping, accepted, faults>>

Lapse(e) ==
  /\ e \in Leased \ lapsed
  /\ lapsed' = lapsed \cup {e}
  /\ UNCHANGED <<row, attempt, due, owner, loopVars, stopping, accepted>>

\* The lease of a delivery that is over; under a live one it is a fault.
LeaseLapses(e) ==
  /\ Lapse(e)
  /\ event[owner[e]] # e
  /\ UNCHANGED faults

LeaseLapsesEarly(e) ==
  /\ Lapse(e)
  /\ event[owner[e]] = e
  /\ faults < MaxFaults /\ faults' = faults + 1

\* ON DELETE CASCADE from the job
JobPurged(e) ==
  /\ e \in Stored
  /\ row' = [row EXCEPT ![e] = "purged"]
  /\ owner' = [owner EXCEPT ![e] = NoOwner]
  /\ lapsed' = lapsed \ {e}
  /\ UNCHANGED <<attempt, due, loopVars, stopping, accepted, faults>>

LoopStep(w) == ClaimWebhook(w) \/ Validate(w) \/ Post(w) \/ Record(w)

Next ==
  \/ \E w \in Workers : LoopStep(w) \/ LoopDies(w) \/ Stop(w) \/ LoopReturns(w)
  \/ \E e \in Events :
       \/ Publish(e) \/ DelayPasses(e) \/ LeaseLapses(e) \/ LeaseLapsesEarly(e)
       \/ JobPurged(e)

Spec == Init /\ [][Next]_vars

\* The loops run, requests time out, claims go oldest first, time passes.
Fairness ==
  /\ \A w \in Workers : WF_vars(Validate(w)) /\ WF_vars(Post(w)) /\ WF_vars(Record(w))
  /\ \A e \in Events :
       /\ SF_vars(\E w \in Workers : ClaimWebhook(w) /\ owner'[e] # owner[e])
       /\ WF_vars(DelayPasses(e)) /\ WF_vars(LeaseLapses(e))

FairSpec == Spec /\ Fairness

-----------------------------------------------------------------------------
\* Domains; only leased rows have an expired lease, and a worker has an event
\* in hand exactly while it delivers.
TypeOK ==
  /\ row \in [Events -> {"none", "stored", "delivered", "purged"}]
  /\ attempt \in [Events -> Nat] /\ accepted \in [Events -> Nat]
  /\ due \in [Events -> {"now", "later", "never"}]
  /\ owner \in [Events -> Workers \cup {NoOwner}]
  /\ lapsed \subseteq Leased
  /\ loop \in [Workers -> {"claim", "validate", "post", "ended"} \cup Recording]
  /\ event \in [Workers -> Events \cup {NoEvent}]
  /\ \A w \in Workers : event[w] = NoEvent <=> loop[w] \in {"claim", "ended"}
  /\ stopping \subseteq Workers
  /\ faults \in 0..MaxFaults

\* Delivery is at least once, and the surplus is bounded: every acceptance
\* but the last is paid for by a recorded failed try or by a fault.
DuplicatesAccountedFor == \A e \in Events : accepted[e] <= attempt[e] + 1 + faults

\* An event leaves the table only once its receiver has accepted it, an
\* exhausted one only by retention, and no late answer changes either.
Delivery == INSTANCE EventDelivery WITH
  MaxTries <- WebhookMaxAttempts,
  phase <- [e \in Events |->
              IF e \in Stored THEN IF due[e] = "never" THEN "exhausted" ELSE "pending"
                              ELSE row[e]],
  tries <- attempt,
  accepted <- {e \in Events : accepted[e] > 0}

ImplementsEventDelivery == Delivery!Spec

\* Every event is delivered, given up or purged, unless every delivery loop
\* has ended.
EventsEnd ==
  \A e \in Events :
    row[e] = "stored" ~> \/ row[e] # "stored" \/ due[e] = "never"
                         \/ \A w \in Workers : loop[w] = "ended"

\* "Workers claim outbox rows, retry with exponential backoff, and retain
\* exhausted events" (PRODUCTION.md:207): an event whose destination is
\* allowed is given up only after all its tries.
GivenUpAfterRetries ==
  \A e \in Stored \ Forbidden : due[e] = "never" => attempt[e] = WebhookMaxAttempts
=============================================================================
