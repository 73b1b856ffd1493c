--------------------------- MODULE EventDelivery ---------------------------
(***************************************************************************)
(* What webhook delivery promises (docs/PRODUCTION.md:204-208): an event   *)
(* waits until its receiver has accepted it, or until it is given up after *)
(* a bounded number of tries; given-up events stay until retention.        *)
(***************************************************************************)
EXTENDS Naturals

CONSTANTS Events, MaxTries

VARIABLES
  phase,    \* of each event
  tries,    \* failed tries that were recorded
  accepted  \* events their receiver has accepted at least once

vars == <<phase, tries, accepted>>

Init ==
  /\ phase = [e \in Events |-> "none"]
  /\ tries = [e \in Events |-> 0]
  /\ accepted = {}

Become(e, p) == phase' = [phase EXCEPT ![e] = p]

Publish(e) ==
  /\ phase[e] = "none"
  /\ Become(e, "pending")
  /\ UNCHANGED <<tries, accepted>>

\* A delayed POST may arrive after the event is settled.
Accept(e) ==
  /\ phase[e] # "none"
  /\ accepted' = accepted \cup {e}
  /\ UNCHANGED <<phase, tries>>

Deliver(e) ==
  /\ phase[e] = "pending" /\ e \in accepted
  /\ Become(e, "delivered")
  /\ UNCHANGED <<tries, accepted>>

\* A failed try; the last one, or a rejected destination, gives the event up.
Fail(e) ==
  /\ phase[e] = "pending" /\ tries[e] < MaxTries
  /\ tries' = [tries EXCEPT ![e] = @ + 1]
  /\ \/ Become(e, "exhausted")
     \/ tries[e] + 1 < MaxTries /\ UNCHANGED phase
  /\ UNCHANGED accepted

Purge(e) ==
  /\ phase[e] \in {"pending", "exhausted"}
  /\ Become(e, "purged")
  /\ UNCHANGED <<tries, accepted>>

Next ==
  \E e \in Events : Publish(e) \/ Accept(e) \/ Deliver(e) \/ Fail(e) \/ Purge(e)

Spec == Init /\ [][Next]_vars
=============================================================================
