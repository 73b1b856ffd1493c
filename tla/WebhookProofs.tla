---------------------------- MODULE WebhookProofs ----------------------------
(***************************************************************************)
(* Theorems about WebhookOutbox, for every set of events, every finite set *)
(* of delivery loops, every number of tries and every number of faults.    *)
(***************************************************************************)
EXTENDS WebhookOutbox, FiniteSetTheorems, TLAPS

\* Ways a statement of the delivery loop can go; a lost acknowledgement ends
\* the loop.
LEMMA RecordEffect ==
  ASSUME TypeOK, NEW w \in Workers, Record(w)
  PROVE  /\ event[w] \in Events
         /\ \/ /\ Owns(w, event[w]) /\ loop[w] = "mark"
               /\ row' = [row EXCEPT ![event[w]] = "delivered"]
               /\ owner' = [owner EXCEPT ![event[w]] = NoOwner]
               /\ lapsed' = lapsed \ {event[w]}
               /\ UNCHANGED <<attempt, due>>
            \/ \E limit \in Nat \ {0} :
               /\ Owns(w, event[w])
               /\ limit = IF loop[w] = "retry" THEN WebhookMaxAttempts ELSE 1
               /\ attempt' = [attempt EXCEPT ![event[w]] = @ + 1]
               /\ due' = [due EXCEPT ![event[w]] =
                            IF attempt[event[w]] + 1 >= limit THEN "never" ELSE "later"]
               /\ owner' = [owner EXCEPT ![event[w]] = NoOwner]
               /\ lapsed' = lapsed \ {event[w]}
               /\ UNCHANGED row
            \/ ~Owns(w, event[w]) /\ UNCHANGED rowVars
         /\ \/ loop' = [loop EXCEPT ![w] = "claim"] /\ faults' = faults
            \/ loop' = [loop EXCEPT ![w] = "ended"] /\ faults' = faults + 1 /\ faults < MaxFaults
         /\ event' = [event EXCEPT ![w] = NoEvent]
         /\ UNCHANGED <<stopping, accepted>>
<1>1. loop[w] \in Recording
  BY DEF Record
<1>2. event[w] \in Events
  BY <1>1 DEF TypeOK, Recording
<1>3. WebhookMaxAttempts \in Nat \ {0} /\ 1 \in Nat \ {0}
  BY WebhookMaxAttemptsAssumption
<1>4. CASE loop[w] = "mark"
  BY <1>2, <1>4 DEF Record, DeleteRow, End
<1>5. CASE loop[w] = "retry"
  BY <1>2, <1>3, <1>5 DEF Record, RescheduleRow, ReleaseLease, End
<1>6. CASE loop[w] = "reject"
  BY <1>2, <1>3, <1>6 DEF Record, RescheduleRow, ReleaseLease, End
<1> QED BY <1>1, <1>4, <1>5, <1>6 DEF Recording

LEMMA InitTypes == Init => TypeOK
BY NothingAssumption, WebhookFaultsAssumption DEF Init, TypeOK, Leased

LEMMA NextTypes == TypeOK /\ [Next]_vars => TypeOK'
<1> SUFFICES ASSUME TypeOK, [Next]_vars PROVE TypeOK'
  OBVIOUS
<1> USE NothingAssumption, WebhookFaultsAssumption DEF TypeOK, Leased, Stored
<1>1. ASSUME NEW w \in Workers, ClaimWebhook(w) PROVE TypeOK'
  BY <1>1 DEF ClaimWebhook, TakeLease, Claimable, End
<1>2. ASSUME NEW w \in Workers, Validate(w) \/ Post(w) PROVE TypeOK'
  BY <1>2 DEF Validate, Post, Goto, Receive, rowVars, Recording
<1>3. ASSUME NEW w \in Workers, Record(w) PROVE TypeOK'
  BY <1>3, RecordEffect DEF rowVars
<1>4. ASSUME NEW w \in Workers, LoopDies(w) \/ Stop(w) \/ LoopReturns(w) PROVE TypeOK'
  BY <1>4 DEF LoopDies, Stop, LoopReturns, End, rowVars, loopVars
<1>5. ASSUME NEW e \in Events, Publish(e) \/ DelayPasses(e) \/ JobPurged(e) PROVE TypeOK'
  BY <1>5 DEF Publish, DelayPasses, JobPurged, loopVars
<1>6. ASSUME NEW e \in Events, LeaseLapses(e) \/ LeaseLapsesEarly(e) PROVE TypeOK'
  BY <1>6 DEF LeaseLapses, LeaseLapsesEarly, Lapse, loopVars
<1>7. CASE UNCHANGED vars
  BY <1>7 DEF vars, rowVars, loopVars
<1> QED BY <1>1, <1>2, <1>3, <1>4, <1>5, <1>6, <1>7 DEF Next, LoopStep

\* Every variable stays in its domain; only leased rows have an expired lease,
\* and a loop has an event in hand exactly while it delivers.
THEOREM TypeCorrect == Spec => []TypeOK
BY InitTypes, NextTypes, PTL DEF Spec

-----------------------------------------------------------------------------
\* Loops that may still have their event accepted.
Posting(e) == {w \in Workers : event[w] = e /\ loop[w] \in {"validate", "post"}}

Spent(e) == accepted[e] + Cardinality(Posting(e))

\* Nobody works on the event under a lease that holds.
Free(e) ==
  \/ row[e] = "none"
  \/ row[e] = "stored" /\ (owner[e] = NoOwner \/ e \in lapsed \/ event[owner[e]] # e)

\* An event that may be claimed has been paid for; a claim is one acceptance on
\* credit.
Paid(e) ==
  /\ Spent(e) <= attempt[e] + faults + 1
  /\ Free(e) => Spent(e) <= attempt[e] + faults

LEMMA PostingCounts ==
  ASSUME NEW e, NEW w
  PROVE  /\ Cardinality(Posting(e)) \in Nat
         /\ \A S : S \subseteq Posting(e) => Cardinality(S) <= Cardinality(Posting(e))
         /\ \A S : S \subseteq Posting(e) \cup {w} => Cardinality(S) <= Cardinality(Posting(e)) + 1
         /\ \A S : S \subseteq Posting(e) \ {w} /\ w \in Posting(e)
                   => Cardinality(S) <= Cardinality(Posting(e)) - 1
         /\ \A S : S \subseteq Posting(e) \cup {w} => Cardinality(S) \in Nat
<1> DEFINE P == Posting(e)
<1>1. IsFiniteSet(P)
  BY WorkersAssumption, FS_Subset DEF Posting
<1> HIDE DEF P
<1>2. /\ IsFiniteSet(P \cup {w}) /\ IsFiniteSet(P \ {w})
      /\ Cardinality(P) \in Nat
      /\ Cardinality(P \cup {w}) <= Cardinality(P) + 1
      /\ w \in P => Cardinality(P \ {w}) = Cardinality(P) - 1
      /\ Cardinality(P \cup {w}) \in Nat /\ Cardinality(P \ {w}) \in Nat
  <2>1. IsFiniteSet(P \cup {w}) /\ IsFiniteSet(P \ {w})
    BY <1>1, FS_AddElement, FS_RemoveElement
  <2>2. /\ Cardinality(P) \in Nat /\ Cardinality(P \cup {w}) \in Nat
        /\ Cardinality(P \ {w}) \in Nat
    BY <1>1, <2>1, FS_CardinalityType
  <2> QED BY <1>1, <2>1, <2>2, FS_AddElement, FS_RemoveElement
<1>3. \A S : S \subseteq P => Cardinality(S) \in Nat /\ Cardinality(S) <= Cardinality(P)
  BY <1>1, FS_Subset, FS_CardinalityType
<1>4. \A S : S \subseteq P \cup {w} =>
        Cardinality(S) \in Nat /\ Cardinality(S) <= Cardinality(P) + 1
  <2> SUFFICES ASSUME NEW S, S \subseteq P \cup {w}
               PROVE  Cardinality(S) \in Nat /\ Cardinality(S) <= Cardinality(P) + 1
    OBVIOUS
  <2>1. Cardinality(S) \in Nat /\ Cardinality(S) <= Cardinality(P \cup {w})
    BY <1>2, FS_Subset, FS_CardinalityType
  <2> QED BY <1>2, <2>1
<1>5. \A S : S \subseteq P \ {w} /\ w \in P => Cardinality(S) <= Cardinality(P) - 1
  <2> SUFFICES ASSUME NEW S, S \subseteq P \ {w}, w \in P
               PROVE  Cardinality(S) <= Cardinality(P) - 1
    OBVIOUS
  <2>1. Cardinality(S) \in Nat /\ Cardinality(S) <= Cardinality(P \ {w})
    BY <1>2, FS_Subset, FS_CardinalityType
  <2> QED BY <1>2, <2>1
<1> QED BY <1>2, <1>3, <1>4, <1>5 DEF P

\* Steps that do not claim the event leave it as paid for as it was, if what
\* frees it is a recorded try or a fault.
LEMMA StaysPaid ==
  ASSUME TypeOK, TypeOK', NEW e \in Events, Paid(e),
         Posting(e)' \subseteq Posting(e), accepted'[e] = accepted[e],
         attempt'[e] >= attempt[e], faults' >= faults,
         Free(e)' => Free(e) \/ attempt'[e] > attempt[e] \/ faults' > faults
  PROVE  Paid(e)'
<1>1. Cardinality(Posting(e)') <= Cardinality(Posting(e))
  BY PostingCounts
<1>2. Cardinality(Posting(e)) \in Nat /\ Cardinality(Posting(e)') \in Nat
  BY <1>1, PostingCounts
<1>3. /\ accepted[e] \in Nat /\ attempt[e] \in Nat /\ attempt'[e] \in Nat
      /\ faults \in Nat /\ faults' \in Nat
  BY DEF TypeOK
<1> QED BY <1>1, <1>2, <1>3 DEF Paid, Spent

LEMMA ClaimPaid ==
  ASSUME TypeOK, TypeOK', NEW w \in Workers, ClaimWebhook(w), NEW e \in Events, Paid(e)
  PROVE  Paid(e)'
<1> USE NothingAssumption
<1>1. PICK c \in Events :
        /\ TakeLease(w, c)
        /\ \/ /\ loop' = [loop EXCEPT ![w] = "validate"] /\ event' = [event EXCEPT ![w] = c]
              /\ faults' = faults
           \/ /\ loop' = [loop EXCEPT ![w] = "ended"] /\ event' = [event EXCEPT ![w] = NoEvent]
              /\ faults' = faults + 1
  BY DEF ClaimWebhook, End
<1>2. accepted' = accepted /\ attempt' = attempt /\ row' = row /\ loop[w] = "claim"
  BY <1>1 DEF ClaimWebhook, TakeLease
<1>3. event[w] = NoEvent
  BY <1>2 DEF TypeOK
<1>4. CASE e # c \/ faults' = faults + 1
  <2>1. Posting(e)' \subseteq Posting(e)
    BY <1>1, <1>4 DEF Posting, TypeOK
  <2>2. e # c /\ Free(e)' => Free(e)
    BY <1>1, <1>2, <1>3 DEF Free, TakeLease, TypeOK
  <2> QED BY <1>1, <1>2, <1>4, <2>1, <2>2, StaysPaid DEF TypeOK
<1>5. CASE e = c /\ faults' = faults
  <2>1. Free(e) /\ ~Free(e)'
    BY <1>1, <1>2, <1>5 DEF TakeLease, Claimable, Stored, Leased, Free, TypeOK
  <2>2. Posting(e)' \subseteq Posting(e) \cup {w}
    BY <1>1, <1>5 DEF Posting, TypeOK
  <2>3. /\ Cardinality(Posting(e)') <= Cardinality(Posting(e)) + 1
        /\ Cardinality(Posting(e)) \in Nat /\ Cardinality(Posting(e)') \in Nat
    BY <2>2, PostingCounts
  <2>4. accepted[e] \in Nat /\ attempt[e] \in Nat /\ faults \in Nat
    BY DEF TypeOK
  <2> QED BY <1>2, <1>5, <2>1, <2>3, <2>4 DEF Paid, Spent
<1> QED BY <1>1, <1>4, <1>5

LEMMA PostPaid ==
  ASSUME TypeOK, TypeOK', NEW w \in Workers, Post(w), NEW e \in Events, Paid(e)
  PROVE  Paid(e)'
<1>1. /\ loop[w] = "post" /\ event' = event
      /\ loop' = [loop EXCEPT ![w] = loop'[w]] /\ loop'[w] \in {"mark", "retry"}
      /\ accepted' \in {accepted, [accepted EXCEPT ![event[w]] = @ + 1]}
      /\ UNCHANGED <<rowVars, faults>>
  BY DEF Post, Goto, Receive, TypeOK
<1>2. Free(e)' <=> Free(e)
  BY <1>1 DEF Free, rowVars
<1>3. Posting(e)' \subseteq Posting(e)
  BY <1>1 DEF Posting, TypeOK
<1>4. CASE accepted'[e] = accepted[e]
  <2>1. attempt' = attempt /\ faults' = faults /\ attempt[e] \in Nat /\ faults \in Nat
    BY <1>1 DEF rowVars, TypeOK
  <2> QED BY <1>2, <1>3, <1>4, <2>1, StaysPaid
<1>5. CASE accepted'[e] # accepted[e]
  <2>1. event[w] = e /\ accepted'[e] = accepted[e] + 1
    BY <1>1, <1>5 DEF TypeOK
  <2>2. w \in Posting(e) /\ Posting(e)' \subseteq Posting(e) \ {w}
    BY <1>1, <2>1 DEF Posting, TypeOK
  <2>3. /\ Cardinality(Posting(e)') <= Cardinality(Posting(e)) - 1
        /\ Cardinality(Posting(e)) \in Nat /\ Cardinality(Posting(e)') \in Nat
    BY <1>3, <2>2, PostingCounts
  <2>4. accepted[e] \in Nat /\ attempt[e] \in Nat /\ faults \in Nat
    BY DEF TypeOK
  <2> QED BY <1>1, <1>2, <2>1, <2>3, <2>4 DEF Paid, Spent, rowVars
<1> QED BY <1>4, <1>5

LEMMA RecordPaid ==
  ASSUME TypeOK, TypeOK', NEW w \in Workers, Record(w), NEW e \in Events, Paid(e)
  PROVE  Paid(e)'
<1> USE NothingAssumption
<1>1. /\ event' = [event EXCEPT ![w] = NoEvent]
      /\ loop' = [loop EXCEPT ![w] = loop'[w]] /\ loop'[w] \in {"claim", "ended"}
      /\ accepted' = accepted /\ faults' >= faults
  BY RecordEffect DEF TypeOK
<1>2. Posting(e)' \subseteq Posting(e)
  BY <1>1 DEF Posting, TypeOK
<1>3. attempt'[e] >= attempt[e] /\ (Free(e)' => Free(e) \/ attempt'[e] > attempt[e])
  <2>1. CASE e # event[w] \/ UNCHANGED rowVars
    <3>1. /\ row'[e] = row[e] /\ attempt'[e] = attempt[e] /\ owner'[e] = owner[e]
          /\ e \in lapsed' <=> e \in lapsed
      BY <2>1, RecordEffect DEF rowVars, TypeOK
    <3>2. owner[e] = w => e # event[w] \/ row[e] # "stored"
      BY <2>1, RecordEffect DEF Owns, Stored, rowVars, TypeOK
    <3>3. attempt[e] \in Nat BY DEF TypeOK
    <3> QED BY <1>1, <3>1, <3>2, <3>3 DEF Free, TypeOK
  <2>2. CASE e = event[w] /\ row' = [row EXCEPT ![e] = "delivered"] /\ attempt' = attempt
    BY <2>2 DEF Free, TypeOK
  <2>3. CASE e = event[w] /\ attempt' = [attempt EXCEPT ![e] = @ + 1]
    BY <2>3 DEF TypeOK
  <2> QED BY <2>1, <2>2, <2>3, RecordEffect
<1> QED BY <1>1, <1>2, <1>3, StaysPaid

LEMMA NextPaid ==
  ASSUME TypeOK, TypeOK', [Next]_vars, NEW e \in Events, Paid(e)
  PROVE  Paid(e)'
<1> USE NothingAssumption
<1>1. ASSUME NEW w \in Workers, Validate(w) PROVE Paid(e)'
  <2>1. /\ event' = event /\ loop' = [loop EXCEPT ![w] = loop'[w]] /\ loop[w] = "validate"
        /\ UNCHANGED <<rowVars, accepted, faults>>
    BY <1>1 DEF Validate, Goto, TypeOK
  <2>2. Posting(e)' \subseteq Posting(e)
    BY <2>1 DEF Posting, TypeOK
  <2> QED BY <2>1, <2>2, StaysPaid DEF Free, rowVars, TypeOK
<1>2. ASSUME NEW w \in Workers, LoopDies(w) PROVE Paid(e)'
  <2>1. /\ event' = [event EXCEPT ![w] = NoEvent] /\ loop' = [loop EXCEPT ![w] = "ended"]
        /\ faults' = faults + 1 /\ UNCHANGED <<rowVars, accepted>>
    BY <1>2 DEF LoopDies, End
  <2>2. Posting(e)' \subseteq Posting(e)
    BY <2>1 DEF Posting, TypeOK
  <2> QED BY <2>1, <2>2, StaysPaid DEF rowVars, TypeOK
<1>3. ASSUME NEW w \in Workers, Stop(w) \/ LoopReturns(w) PROVE Paid(e)'
  <2>1. /\ event' = event /\ loop' = [loop EXCEPT ![w] = loop'[w]]
        /\ loop'[w] \notin {"validate", "post"} \/ loop' = loop
        /\ UNCHANGED <<rowVars, accepted, faults>>
    BY <1>3 DEF Stop, LoopReturns, loopVars, TypeOK
  <2>2. Posting(e)' \subseteq Posting(e)
    BY <2>1 DEF Posting, TypeOK
  <2> QED BY <2>1, <2>2, StaysPaid DEF Free, rowVars, TypeOK
<1>4. ASSUME NEW d \in Events,
             Publish(d) \/ DelayPasses(d) \/ LeaseLapses(d) \/ LeaseLapsesEarly(d) \/ JobPurged(d)
      PROVE  Paid(e)'
  <2>1. event' = event /\ loop' = loop /\ accepted' = accepted /\ attempt' = attempt
    BY <1>4 DEF Publish, DelayPasses, LeaseLapses, LeaseLapsesEarly, Lapse, JobPurged, loopVars
  <2>2. Posting(e)' \subseteq Posting(e)
    BY <2>1 DEF Posting
  <2>3. faults' >= faults /\ (Free(e)' => Free(e) \/ faults' > faults)
    <3>1. CASE Publish(d)
      BY <2>1, <3>1 DEF Publish, Free, TypeOK
    <3>2. CASE DelayPasses(d)
      BY <2>1, <3>2 DEF DelayPasses, Free, TypeOK
    <3>3. CASE LeaseLapses(d)
      BY <2>1, <3>3 DEF LeaseLapses, Lapse, Leased, Free, TypeOK
    <3>4. CASE LeaseLapsesEarly(d)
      BY <3>4 DEF LeaseLapsesEarly, TypeOK
    <3>5. CASE JobPurged(d)
      BY <2>1, <3>5 DEF JobPurged, Free, TypeOK
    <3> QED BY <1>4, <3>1, <3>2, <3>3, <3>4, <3>5
  <2> QED BY <2>1, <2>2, <2>3, StaysPaid DEF TypeOK
<1>5. CASE UNCHANGED vars
  <2>1. Posting(e)' = Posting(e) BY <1>5 DEF vars, loopVars, Posting
  <2> QED BY <1>5, <2>1, StaysPaid DEF vars, rowVars, loopVars, Free, TypeOK
<1> QED BY <1>1, <1>2, <1>3, <1>4, <1>5, ClaimPaid, PostPaid, RecordPaid DEF Next, LoopStep

LEMMA InitPaid == Init => \A e \in Events : Paid(e)
<1> SUFFICES ASSUME Init, NEW e \in Events PROVE Paid(e)
  OBVIOUS
<1>1. Posting(e) = {} BY NothingAssumption DEF Init, Posting
<1>2. Cardinality(Posting(e)) = 0 BY <1>1, FS_EmptySet
<1> QED BY <1>2 DEF Init, Paid, Spent

LEMMA AlwaysPaid == Spec => [](TypeOK /\ \A e \in Events : Paid(e))
<1>1. TypeOK /\ (\A e \in Events : Paid(e)) /\ [Next]_vars => (\A e \in Events : Paid(e))'
  BY NextTypes, NextPaid
<1> QED BY <1>1, InitPaid, TypeCorrect, PTL DEF Spec

\* However many loops, lapses and lost answers: an event is accepted more than
\* once only as often as a failed try was recorded or a fault happened.
THEOREM SurplusPaidFor == Spec => []DuplicatesAccountedFor
<1>1. ASSUME TypeOK, \A e \in Events : Paid(e) PROVE DuplicatesAccountedFor
  <2>1. ASSUME NEW e \in Events PROVE accepted[e] <= attempt[e] + 1 + faults
    <3>1. Cardinality(Posting(e)) \in Nat BY PostingCounts
    <3>2. accepted[e] \in Nat /\ attempt[e] \in Nat /\ faults \in Nat BY <1>1 DEF TypeOK
    <3> QED BY <1>1, <3>1, <3>2 DEF Paid, Spent
  <2> QED BY <2>1 DEF DuplicatesAccountedFor
<1> QED BY <1>1, AlwaysPaid, PTL

-----------------------------------------------------------------------------
\* What the refinement needs of a delivery in hand, a lease and a retry.
Tracked ==
  /\ \A w \in Workers : event[w] # NoEvent => row[event[w]] # "none"
  /\ \A w \in Workers : loop[w] = "mark" => accepted[event[w]] > 0
  /\ \A e \in Events :
       /\ row[e] = "none" => due[e] = "now"
       /\ owner[e] # NoOwner => due[e] = "now"
       /\ due[e] # "never" => attempt[e] < WebhookMaxAttempts

LEMMA NextTracked ==
  ASSUME TypeOK, TypeOK', Tracked, [Next]_vars
  PROVE  Tracked'
<1> USE NothingAssumption DEF TypeOK
<1>1. ASSUME NEW w \in Workers, ClaimWebhook(w) PROVE Tracked'
  BY <1>1 DEF ClaimWebhook, TakeLease, Claimable, Stored, End, Tracked
<1>2. ASSUME NEW w \in Workers, Validate(w) PROVE Tracked'
  BY <1>2 DEF Validate, Goto, rowVars, Tracked
<1>3. ASSUME NEW w \in Workers, Post(w) PROVE Tracked'
  <2>1. /\ event' = event /\ event[w] \in Events
        /\ accepted' \in {accepted, [accepted EXCEPT ![event[w]] = @ + 1]}
        /\ loop' = [loop EXCEPT ![w] = loop'[w]]
        /\ loop'[w] = "mark" => accepted'[event[w]] > 0
        /\ UNCHANGED rowVars
    BY <1>3 DEF Post, Goto, Receive
  <2>2. \A e \in Events : accepted'[e] >= accepted[e]
    BY <2>1
  <2>3. ASSUME NEW v \in Workers, loop'[v] = "mark" PROVE accepted'[event'[v]] > 0
    <3>1. CASE v = w BY <2>1, <2>3, <3>1
    <3>2. CASE v # w
      <4>1. loop[v] = "mark" /\ event[v] \in Events /\ accepted[event[v]] > 0
        BY <2>1, <2>3, <3>2 DEF Tracked, Recording
      <4> QED BY <2>1, <2>2, <4>1
    <3> QED BY <3>1, <3>2
  <2> QED BY <2>1, <2>3 DEF Tracked, rowVars
<1>4. ASSUME NEW w \in Workers, Record(w) PROVE Tracked'
  <2>1. \A v \in Workers : /\ event'[v] # NoEvent => event'[v] = event[v]
                           /\ loop'[v] = "mark" => loop[v] = "mark" /\ event'[v] = event[v]
    BY <1>4, RecordEffect
  <2>2. accepted' = accepted /\ \A e \in Events : row'[e] = "none" => row[e] = "none"
    BY <1>4, RecordEffect DEF rowVars
  <2>3. \A v \in Workers : event'[v] # NoEvent => row'[event'[v]] # "none"
    <3>1. \A v \in Workers : event'[v] # NoEvent => event'[v] \in Events
      BY <2>1
    <3> QED BY <2>1, <2>2, <3>1 DEF Tracked
  <2>4. \A v \in Workers : loop'[v] = "mark" => accepted'[event'[v]] > 0
    BY <2>1, <2>2 DEF Tracked
  <2>5. ASSUME NEW e \in Events
        PROVE  /\ row'[e] = "none" => due'[e] = "now"
               /\ owner'[e] # NoOwner => due'[e] = "now"
               /\ due'[e] # "never" => attempt'[e] < WebhookMaxAttempts
    <3>1. attempt[e] \in Nat /\ WebhookMaxAttempts \in Nat \ {0}
      BY WebhookMaxAttemptsAssumption
    <3>2. CASE e # event[w] \/ UNCHANGED rowVars
      <4>1. /\ row'[e] = row[e] /\ due'[e] = due[e] /\ owner'[e] = owner[e]
            /\ attempt'[e] = attempt[e]
        BY <1>4, <3>2, RecordEffect DEF rowVars
      <4> QED BY <4>1 DEF Tracked
    <3>3. CASE e = event[w] /\ row'[e] = "delivered" /\ due' = due /\ attempt' = attempt
                            /\ owner'[e] = NoOwner
      BY <3>3 DEF Tracked
    <3>4. CASE /\ e = event[w] /\ Owns(w, e) /\ row' = row /\ owner'[e] = NoOwner
               /\ attempt'[e] = attempt[e] + 1
               /\ due'[e] \in {"never", "later"}
               /\ due'[e] = "later" => attempt[e] + 1 < WebhookMaxAttempts
      BY <3>1, <3>4 DEF Owns, Stored
    <3> QED BY <1>4, <3>1, <3>2, <3>3, <3>4, RecordEffect
  <2> QED BY <2>3, <2>4, <2>5 DEF Tracked
<1>5. ASSUME NEW w \in Workers, LoopDies(w) \/ Stop(w) \/ LoopReturns(w) PROVE Tracked'
  BY <1>5 DEF LoopDies, Stop, LoopReturns, End, rowVars, loopVars, Tracked
<1>6. ASSUME NEW e \in Events,
             Publish(e) \/ DelayPasses(e) \/ LeaseLapses(e) \/ LeaseLapsesEarly(e) \/ JobPurged(e)
      PROVE  Tracked'
  BY <1>6 DEF Publish, DelayPasses, LeaseLapses, LeaseLapsesEarly, Lapse, JobPurged, loopVars,
              Stored, Tracked
<1>7. CASE UNCHANGED vars
  BY <1>7 DEF vars, rowVars, loopVars, Tracked
<1> QED BY <1>1, <1>2, <1>3, <1>4, <1>5, <1>6, <1>7 DEF Next, LoopStep

LEMMA AlwaysTracked == Spec => [](TypeOK /\ Tracked)
<1>1. Init => Tracked
  BY NothingAssumption, WebhookMaxAttemptsAssumption DEF Init, Tracked
<1>2. TypeOK /\ Tracked /\ [Next]_vars => Tracked'
  BY NextTypes, NextTracked
<1> QED BY <1>1, <1>2, TypeCorrect, PTL DEF Spec

-----------------------------------------------------------------------------
\* The phase of an event, as the refinement mapping has it.
PhaseOf(e) ==
  IF row[e] = "stored" THEN IF due[e] = "never" THEN "exhausted" ELSE "pending" ELSE row[e]

Phase == [e \in Events |->
            IF e \in Stored THEN IF due[e] = "never" THEN "exhausted" ELSE "pending"
                            ELSE row[e]]
Accepted == {e \in Events : accepted[e] > 0}

LEMMA PhaseIs == Phase = [e \in Events |-> PhaseOf(e)]
BY DEF Phase, PhaseOf, Stored

LEMMA PhaseChange ==
  ASSUME NEW e \in Events, \A d \in Events : d # e => PhaseOf(d)' = PhaseOf(d)
  PROVE  Phase' = [Phase EXCEPT ![e] = PhaseOf(e)']
<1>1. Phase' = [d \in Events |-> PhaseOf(d)'] BY DEF Phase, PhaseOf, Stored
<1> QED BY <1>1, PhaseIs

\* A step that moves no event and accepts none is a stutter of the promise.
LEMMA Stutters ==
  ASSUME attempt' = attempt, accepted' = accepted,
         \A e \in Events : PhaseOf(e)' = PhaseOf(e)
  PROVE  UNCHANGED Delivery!vars
<1>1. Phase' = [e \in Events |-> PhaseOf(e)'] /\ Phase = [e \in Events |-> PhaseOf(e)]
  BY DEF Phase, PhaseOf, Stored
<1>2. Phase' = Phase BY <1>1
<1> QED BY <1>2 DEF Delivery!vars, Phase

LEMMA RecordRefines ==
  ASSUME TypeOK, Tracked, NEW w \in Workers, Record(w)
  PROVE  [Delivery!Next]_(Delivery!vars)
<1> USE NothingAssumption DEF TypeOK
<1>0. PICK e \in Events : e = event[w]
  BY RecordEffect
<1>1. e \in Events /\ e = event[w] /\ accepted' = accepted
  BY <1>0, RecordEffect
<1>2. CASE UNCHANGED rowVars
  <2>1. attempt' = attempt /\ \A d \in Events : PhaseOf(d)' = PhaseOf(d)
    BY <1>2 DEF rowVars, PhaseOf
  <2> QED BY <1>1, <2>1, Stutters
<1>3. CASE Owns(w, e) /\ loop[w] = "mark" /\ row' = [row EXCEPT ![e] = "delivered"]
           /\ UNCHANGED <<attempt, due>>
  <2>1. PhaseOf(e) = "pending" /\ PhaseOf(e)' = "delivered" /\ e \in Accepted
    BY <1>1, <1>3 DEF Owns, Stored, PhaseOf, Tracked, Accepted
  <2>2. Phase' = [Phase EXCEPT ![e] = "delivered"] /\ Phase[e] = "pending"
    BY <1>1, <1>3, <2>1, PhaseChange, PhaseIs DEF PhaseOf
  <2>3. Delivery!Deliver(e)
    BY <1>1, <1>3, <2>1, <2>2 DEF Delivery!Deliver, Delivery!Become, Phase, Accepted
  <2> QED BY <1>1, <2>3 DEF Delivery!Next
<1>4. CASE /\ Owns(w, e) /\ row' = row /\ attempt' = [attempt EXCEPT ![e] = @ + 1]
           /\ due' = [due EXCEPT ![e] = due'[e]] /\ due'[e] \in {"never", "later"}
           /\ due'[e] = "later" => attempt[e] + 1 < WebhookMaxAttempts
  <2>1. /\ PhaseOf(e) = "pending" /\ attempt[e] < WebhookMaxAttempts
        /\ PhaseOf(e)' = IF due'[e] = "never" THEN "exhausted" ELSE "pending"
    BY <1>1, <1>4 DEF Owns, Stored, PhaseOf, Tracked
  <2>2. Phase' = [Phase EXCEPT ![e] = PhaseOf(e)'] /\ Phase[e] = "pending"
    BY <1>1, <1>4, <2>1, PhaseChange, PhaseIs DEF PhaseOf
  <2>3. due'[e] # "never" => Phase' = Phase
    BY <2>1, <2>2, PhaseIs
  <2>4. Delivery!Fail(e)
    BY <1>1, <1>4, <2>1, <2>2, <2>3 DEF Delivery!Fail, Delivery!Become, Phase
  <2> QED BY <1>1, <2>4 DEF Delivery!Next
<1> QED
  <2>1. WebhookMaxAttempts \in Nat \ {0} /\ attempt[e] \in Nat
    BY <1>1, WebhookMaxAttemptsAssumption
  <2>2. \A limit \in Nat \ {0} :
          /\ Owns(w, e)
          /\ limit = IF loop[w] = "retry" THEN WebhookMaxAttempts ELSE 1
          /\ due' = [due EXCEPT ![e] = IF attempt[e] + 1 >= limit THEN "never" ELSE "later"]
          => /\ due' = [due EXCEPT ![e] = due'[e]] /\ due'[e] \in {"never", "later"}
             /\ due'[e] = "later" => attempt[e] + 1 < WebhookMaxAttempts
    BY <1>1, <2>1
  <2> QED BY <1>1, <1>2, <1>3, <1>4, <2>2, RecordEffect

LEMMA NextRefines ==
  ASSUME TypeOK, Tracked, [Next]_vars
  PROVE  [Delivery!Next]_(Delivery!vars)
<1> USE NothingAssumption DEF TypeOK
<1>1. ASSUME NEW w \in Workers,
             ClaimWebhook(w) \/ Validate(w) \/ LoopDies(w) \/ Stop(w) \/ LoopReturns(w)
      PROVE  [Delivery!Next]_(Delivery!vars)
  <2>1. UNCHANGED <<row, due, attempt, accepted>>
    BY <1>1 DEF ClaimWebhook, TakeLease, Validate, LoopDies, Stop, LoopReturns, rowVars
  <2> QED BY <2>1, Stutters DEF PhaseOf
<1>2. ASSUME NEW w \in Workers, Post(w) PROVE [Delivery!Next]_(Delivery!vars)
  <2>1. PICK e \in Events :
          /\ e = event[w] /\ row[e] # "none"
          /\ accepted' \in {accepted, [accepted EXCEPT ![e] = @ + 1]}
    BY <1>2 DEF Post, Goto, Receive, Tracked
  <2>2. UNCHANGED rowVars
    BY <1>2 DEF Post
  <2>3. CASE accepted' = accepted
    BY <2>2, <2>3, Stutters DEF PhaseOf, rowVars
  <2>4. CASE accepted' = [accepted EXCEPT ![e] = @ + 1]
    <3>1. Accepted' = Accepted \cup {e}
      BY <2>4 DEF Accepted
    <3>2. Phase' = Phase BY <2>2 DEF Phase, Stored, rowVars
    <3>3. Phase[e] # "none" BY <2>1 DEF Phase, Stored
    <3>4. Delivery!Accept(e)
      BY <2>2, <3>1, <3>2, <3>3 DEF Delivery!Accept, Phase, Accepted, rowVars
    <3> QED BY <3>4 DEF Delivery!Next
  <2> QED BY <2>1, <2>3, <2>4
<1>3. ASSUME NEW e \in Events, Publish(e) PROVE [Delivery!Next]_(Delivery!vars)
  <2>1. Phase[e] = "none" /\ Phase' = [Phase EXCEPT ![e] = "pending"]
    <3>1. PhaseOf(e) = "none" /\ PhaseOf(e)' = "pending"
      BY <1>3 DEF Publish, PhaseOf, Tracked
    <3>2. \A d \in Events : d # e => PhaseOf(d)' = PhaseOf(d)
      BY <1>3 DEF Publish, PhaseOf
    <3> QED BY <3>1, <3>2, PhaseChange, PhaseIs
  <2>2. Delivery!Publish(e)
    BY <1>3, <2>1 DEF Publish, Delivery!Publish, Delivery!Become, Phase, Accepted
  <2> QED BY <2>2 DEF Delivery!Next
<1>4. ASSUME NEW e \in Events, JobPurged(e) PROVE [Delivery!Next]_(Delivery!vars)
  <2>1. Phase[e] \in {"pending", "exhausted"} /\ Phase' = [Phase EXCEPT ![e] = "purged"]
    <3>1. PhaseOf(e) \in {"pending", "exhausted"} /\ PhaseOf(e)' = "purged"
      BY <1>4 DEF JobPurged, PhaseOf, Stored
    <3>2. \A d \in Events : d # e => PhaseOf(d)' = PhaseOf(d)
      BY <1>4 DEF JobPurged, PhaseOf
    <3> QED BY <3>1, <3>2, PhaseChange, PhaseIs
  <2>2. Delivery!Purge(e)
    BY <1>4, <2>1 DEF JobPurged, Delivery!Purge, Delivery!Become, Phase, Accepted
  <2> QED BY <2>2 DEF Delivery!Next
<1>5. ASSUME NEW e \in Events, DelayPasses(e) \/ LeaseLapses(e) \/ LeaseLapsesEarly(e)
      PROVE  [Delivery!Next]_(Delivery!vars)
  <2>1. UNCHANGED <<row, attempt, accepted>> /\ \A d \in Events : due'[d] = "never" <=> due[d] = "never"
    BY <1>5 DEF DelayPasses, LeaseLapses, LeaseLapsesEarly, Lapse
  <2> QED BY <2>1, Stutters DEF PhaseOf
<1>6. CASE UNCHANGED vars
  BY <1>6, Stutters DEF vars, rowVars, PhaseOf
<1> QED BY <1>1, <1>2, <1>3, <1>4, <1>5, <1>6, RecordRefines DEF Next, LoopStep

\* Whatever stale loops, lost answers and retention do: an event leaves the
\* outbox only delivered, given up after at most its tries, or purged.
THEOREM DeliveryKeepsItsPromise == Spec => ImplementsEventDelivery
<1>1. Init => Delivery!Init
  BY DEF Init, Stored, Delivery!Init
<1>2. TypeOK /\ Tracked /\ [Next]_vars => [Delivery!Next]_(Delivery!vars)
  BY NextRefines
<1> QED BY <1>1, <1>2, AlwaysTracked, PTL DEF Spec, ImplementsEventDelivery, Delivery!Spec
=============================================================================
