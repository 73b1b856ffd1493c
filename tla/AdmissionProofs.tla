-------------------------- MODULE AdmissionProofs --------------------------
(***************************************************************************)
(* Theorems about Admission, for every finite set of requests, every       *)
(* assignment of clients, keys and digests, and every cap.                 *)
(***************************************************************************)
EXTENDS Admission, FiniteSetTheorems, TLAPS

\* The advisory lock is held from the first read to the end of the
\* transaction, so what was read still stands when the row is inserted: no
\* row is added in between, and the others only settle.
HoldsLock == \A q \in Requests : pc[q] \in {"find", "count", "insert"} => lock = q

Undecided ==
  \A q \in Requests :
    pc[q] \in {"save", "lock", "find", "count", "insert"}
      => row[q] = "none" /\ answer[q] = Pending

Checked ==
  \A q \in Requests :
    /\ pc[q] \in {"count", "insert"} => Original(q) = {}
    /\ pc[q] = "insert" => UnderCaps(q)

AdmissionInv == TypeOK /\ HoldsLock /\ Undecided /\ Checked /\ CapsHold

-----------------------------------------------------------------------------
\* An added element makes a finite set at most one larger.
LEMMA OneMoreElement ==
  ASSUME NEW S, IsFiniteSet(S), NEW x
  PROVE  /\ Cardinality(S) \in Nat /\ Cardinality(S \cup {x}) \in Nat
         /\ Cardinality(S \cup {x}) <= Cardinality(S) + 1
<1>1. Cardinality(S) \in Nat
  BY FS_CardinalityType
<1>2. Cardinality(S \cup {x}) = IF x \in S THEN Cardinality(S) ELSE Cardinality(S) + 1
  BY FS_AddElement
<1> QED BY <1>1, <1>2

\* Fewer active jobs keep every cap.
LEMMA FewerActive ==
  ASSUME Active' \subseteq Active
  PROVE  /\ Cardinality(Active') <= Cardinality(Active)
         /\ \A c : Cardinality(ActiveOf(c)') <= Cardinality(ActiveOf(c))
         /\ \A c : Cardinality(ActiveOf(c)') \in Nat /\ Cardinality(ActiveOf(c)) \in Nat
         /\ Cardinality(Active) \in Nat /\ Cardinality(Active') \in Nat
<1>1. IsFiniteSet(Active)
  BY RequestsAssumption, FS_Subset DEF Active
<1>2. /\ Cardinality(Active') <= Cardinality(Active)
      /\ Cardinality(Active) \in Nat /\ Cardinality(Active') \in Nat
  BY <1>1, FS_Subset, FS_CardinalityType
<1>3. ASSUME NEW c PROVE /\ Cardinality(ActiveOf(c)') <= Cardinality(ActiveOf(c))
                         /\ Cardinality(ActiveOf(c)') \in Nat
                         /\ Cardinality(ActiveOf(c)) \in Nat
  <2>1. ActiveOf(c)' \subseteq ActiveOf(c) BY DEF ActiveOf
  <2>2. IsFiniteSet(ActiveOf(c)) BY <1>1, FS_Subset DEF ActiveOf
  <2> QED BY <2>1, <2>2, FS_Subset, FS_CardinalityType
<1> QED BY <1>2, <1>3

\* One more active job takes one place of the global cap and one of its
\* client's.
LEMMA OneMoreActive ==
  ASSUME NEW q \in Requests, Active' = Active \cup {q}, UnderCaps(q), CapsHold
  PROVE  CapsHold'
<1>1. IsFiniteSet(Active)
  BY RequestsAssumption, FS_Subset DEF Active
<1>2. Cardinality(Active') <= MaxQueuedJobs
  <2>1. Cardinality(Active) < MaxQueuedJobs
    BY DEF UnderCaps
  <2>2. /\ Cardinality(Active) \in Nat /\ Cardinality(Active \cup {q}) \in Nat
        /\ Cardinality(Active \cup {q}) <= Cardinality(Active) + 1
    BY <1>1, OneMoreElement
  <2> QED BY <2>1, <2>2, CapsAssumption
<1>3. ASSUME NEW c \in {ClientOf[p] : p \in Requests}
      PROVE  Cardinality(ActiveOf(c)') <= MaxQueuedJobsPerClient
  <2>1. IsFiniteSet(ActiveOf(c)) /\ Cardinality(ActiveOf(c)) \in Nat
    <3>1. ActiveOf(c) \subseteq Active BY DEF ActiveOf
    <3> QED BY <1>1, <3>1, FS_Subset, FS_CardinalityType
  <2>2. Cardinality(ActiveOf(c)) <= MaxQueuedJobsPerClient
    BY DEF CapsHold
  <2>3. CASE ClientOf[q] = c
    <3>1. ActiveOf(c)' = ActiveOf(c) \cup {q}
      BY <2>3 DEF ActiveOf
    <3>2. Cardinality(ActiveOf(c)) < MaxQueuedJobsPerClient
      BY <2>3 DEF UnderCaps
    <3> QED BY <2>1, <3>1, <3>2, OneMoreElement, CapsAssumption
  <2>4. CASE ClientOf[q] # c
    <3>1. ActiveOf(c)' = ActiveOf(c)
      BY <2>4 DEF ActiveOf
    <3> QED BY <2>2, <3>1
  <2> QED BY <2>3, <2>4
<1> QED BY <1>2, <1>3 DEF CapsHold

\* Steps that add no row preserve what was read.
LEMMA NoRowAdded ==
  ASSUME CapsHold, Stored' \subseteq Stored, Active' \subseteq Active
  PROVE  /\ CapsHold'
         /\ \A q \in Requests : Original(q) = {} => Original(q)' = {}
         /\ \A q \in Requests : UnderCaps(q) => UnderCaps(q)'
<1>1. CapsHold'
  <2>1. Cardinality(Active') <= MaxQueuedJobs
    BY FewerActive, CapsAssumption DEF CapsHold
  <2>2. ASSUME NEW c \in {ClientOf[p] : p \in Requests}
        PROVE  Cardinality(ActiveOf(c)') <= MaxQueuedJobsPerClient
    BY FewerActive, CapsAssumption DEF CapsHold
  <2> QED BY <2>1, <2>2 DEF CapsHold
<1>2. ASSUME NEW q \in Requests, Original(q) = {} PROVE Original(q)' = {}
  BY <1>2 DEF Original
<1>3. ASSUME NEW q \in Requests, UnderCaps(q) PROVE UnderCaps(q)'
  BY <1>3, FewerActive, CapsAssumption DEF UnderCaps
<1> QED BY <1>1, <1>2, <1>3

LEMMA InitAdmission == Init => AdmissionInv
<1> SUFFICES ASSUME Init PROVE AdmissionInv
  OBVIOUS
<1>1. Active = {} /\ \A c : ActiveOf(c) = {}
  BY DEF Init, Active, ActiveOf
<1>2. CapsHold
  BY <1>1, FS_EmptySet, CapsAssumption DEF CapsHold
<1> QED
  BY <1>2 DEF Init, AdmissionInv, TypeOK, Labels, HoldsLock, Undecided, Checked

LEMMA NextAdmission == AdmissionInv /\ [Next]_vars => AdmissionInv'
<1> SUFFICES ASSUME AdmissionInv, [Next]_vars PROVE AdmissionInv'
  OBVIOUS
<1> USE DEF AdmissionInv
<1>1. TypeOK' /\ HoldsLock' /\ Undecided'
  <2> USE DEF TypeOK, Labels, HoldsLock, Undecided, Goto, Decide, Unlock
  <2>1. ASSUME NEW q \in Requests, SaveUpload(q) PROVE TypeOK' /\ HoldsLock' /\ Undecided'
    BY <2>1 DEF SaveUpload
  <2>2. ASSUME NEW q \in Requests, Lock(q) PROVE TypeOK' /\ HoldsLock' /\ Undecided'
    BY <2>2, AnswersAssumption DEF Lock, MayLock
  <2>3. ASSUME NEW q \in Requests, FindOriginal(q) PROVE TypeOK' /\ HoldsLock' /\ Undecided'
    BY <2>3 DEF FindOriginal, Original, Stored
  <2>4. ASSUME NEW q \in Requests, CountActive(q) PROVE TypeOK' /\ HoldsLock' /\ Undecided'
    BY <2>4 DEF CountActive
  <2>5. ASSUME NEW q \in Requests, Insert(q) \/ CommitUnacknowledged(q)
        PROVE  TypeOK' /\ HoldsLock' /\ Undecided'
    BY <2>5 DEF Insert, CommitUnacknowledged, InsertRow
  <2>6. ASSUME NEW q \in Requests, Discard(q) \/ RespondAccepted(q)
        PROVE  TypeOK' /\ HoldsLock' /\ Undecided'
    BY <2>6 DEF Discard, RespondAccepted
  <2>7. ASSUME NEW q \in Requests, Abandon(q) PROVE TypeOK' /\ HoldsLock' /\ Undecided'
    BY <2>7 DEF Abandon
  <2>8. ASSUME NEW q \in Requests, JobSettles(q) \/ JobPurged(q) \/ DeleteAudio(q) \/ Sweep(q)
        PROVE  TypeOK' /\ HoldsLock' /\ Undecided'
    BY <2>8 DEF JobSettles, JobPurged, DeleteAudio, Sweep
  <2>9. CASE UNCHANGED vars
    BY <2>9 DEF vars
  <2> QED BY <2>1, <2>2, <2>3, <2>4, <2>5, <2>6, <2>7, <2>8, <2>9 DEF Next, RequestStep
<1>2. ASSUME NEW q \in Requests, Insert(q) \/ CommitUnacknowledged(q)
      PROVE  CapsHold' /\ Checked'
  <2>1. Active' = Active \cup {q}
    BY <1>2 DEF Insert, CommitUnacknowledged, InsertRow, Active, TypeOK
  <2>2. UnderCaps(q)
    BY <1>2 DEF Insert, CommitUnacknowledged, Checked
  <2>3. CapsHold'
    BY <2>1, <2>2, OneMoreActive
  <2>4. lock = q
    BY <1>2 DEF Insert, CommitUnacknowledged, HoldsLock
  <2>5. \A p \in Requests : pc'[p] \notin {"count", "insert"}
    BY <1>2, <2>4 DEF Insert, CommitUnacknowledged, Goto, TypeOK, HoldsLock
  <2> QED BY <2>3, <2>5 DEF Checked
<1>3. ASSUME Stored' \subseteq Stored, Active' \subseteq Active,
             \A p \in Requests :
               /\ pc'[p] \in {"count", "insert"} => Original(p) = {}
               /\ pc'[p] = "insert" => UnderCaps(p)
      PROVE  CapsHold' /\ Checked'
  <2>1. /\ CapsHold'
        /\ \A q \in Requests : Original(q) = {} => Original(q)' = {}
        /\ \A q \in Requests : UnderCaps(q) => UnderCaps(q)'
    BY <1>3, NoRowAdded
  <2> QED BY <1>3, <2>1 DEF Checked
<1>4. ASSUME ~ \E q \in Requests : Insert(q) \/ CommitUnacknowledged(q)
      PROVE  CapsHold' /\ Checked'
  <2>1. Stored' \subseteq Stored /\ Active' \subseteq Active
    BY <1>4 DEF Next, RequestStep, SaveUpload, Lock, FindOriginal, CountActive, Discard,
       RespondAccepted, Abandon, JobSettles, JobPurged, DeleteAudio, Sweep, vars, Stored, Active, TypeOK
  <2> DEFINE Read == \A p \in Requests :
                       /\ pc'[p] \in {"count", "insert"} => Original(p) = {}
                       /\ pc'[p] = "insert" => UnderCaps(p)
  <2>2. Read
    <3> USE DEF Checked, TypeOK, Goto
    <3>1. ASSUME NEW q \in Requests, FindOriginal(q) \/ CountActive(q) PROVE Read
      BY <3>1 DEF FindOriginal, CountActive
    <3>2. ASSUME NEW q \in Requests,
                 \/ SaveUpload(q) \/ Lock(q) \/ Discard(q) \/ RespondAccepted(q)
                 \/ Abandon(q) \/ JobSettles(q) \/ JobPurged(q) \/ DeleteAudio(q) \/ Sweep(q)
          PROVE  Read
      BY <3>2 DEF SaveUpload, Lock, Discard, RespondAccepted, Abandon, JobSettles,
         JobPurged, DeleteAudio, Sweep
    <3>3. ASSUME UNCHANGED vars PROVE Read
      BY <3>3 DEF vars
    <3> QED BY <1>4, <3>1, <3>2, <3>3 DEF Next, RequestStep
  <2> QED BY <1>3, <2>1, <2>2
<1> QED BY <1>1, <1>2, <1>4

LEMMA AdmissionInvariant == Spec => []AdmissionInv
BY InitAdmission, NextAdmission, PTL DEF Spec

\* The caps hold whatever API processes and the MCP facade submit at once.
THEOREM CapsAlwaysHold == Spec => []CapsHold
<1>1. AdmissionInv => CapsHold BY DEF AdmissionInv
<1> QED BY <1>1, AdmissionInvariant, PTL

\* The check for the key and the insertion cannot be separated.
THEOREM IndexNeverAsked == Spec => []IndexNeverRefuses
<1>1. AdmissionInv => IndexNeverRefuses
  BY DEF AdmissionInv, Checked, IndexNeverRefuses
<1> QED BY <1>1, AdmissionInvariant, PTL

-----------------------------------------------------------------------------
\* The transaction decides at the statement that ends it, from what it has
\* read under the lock; every other step of a request is invisible.
LEMMA SameReadings ==
  /\ \A q : Atomic!Original(q) = Original(q)
  /\ \A q : Atomic!UnderCaps(q) <=> UnderCaps(q)
<1>1. Atomic!Stored = Stored /\ Atomic!Active = Active
  BY DEF Atomic!Stored, Stored, Atomic!Active, Active
<1>2. \A q : Atomic!Original(q) = Original(q)
  BY <1>1 DEF Atomic!Original, Original
<1>3. \A c : Atomic!ActiveOf(c) = ActiveOf(c)
  BY <1>1 DEF Atomic!ActiveOf, ActiveOf
<1>4. \A S : Atomic!Cardinality(S) = Cardinality(S)
  BY DEF Atomic!Cardinality, Cardinality
<1>5. \A q : Atomic!UnderCaps(q) <=> UnderCaps(q)
  BY <1>1, <1>3, <1>4 DEF Atomic!UnderCaps, UnderCaps
<1> QED BY <1>2, <1>5

LEMMA StepRefines == AdmissionInv /\ [Next]_vars => [Atomic!Next]_(Atomic!vars)
<1> SUFFICES ASSUME AdmissionInv, [Next]_vars PROVE [Atomic!Next]_(Atomic!vars)
  OBVIOUS
<1> USE DEF AdmissionInv, Undecided, Decide, Goto, Unlock
<1>1. ASSUME NEW q \in Requests, FindOriginal(q) PROVE [Atomic!Next]_(Atomic!vars)
  <2>1. answer[q] = Pending
    BY <1>1 DEF FindOriginal
  <2>2. CASE Original(q) = {}
    BY <1>1, <2>2 DEF FindOriginal, Atomic!vars
  <2>3. ASSUME NEW o \in Original(q),
               answer' = [answer EXCEPT ![q] = IF SameRequest(o, q) THEN o ELSE Conflict],
               UNCHANGED row
        PROVE  Atomic!GiveOriginal(q) \/ Atomic!RefuseConflict(q)
    BY <2>1, <2>3, SameReadings DEF SameRequest, Atomic!GiveOriginal,
       Atomic!RefuseConflict, Atomic!Reply
  <2> QED BY <1>1, <2>2, <2>3 DEF FindOriginal, Atomic!Next
<1>2. ASSUME NEW q \in Requests, CountActive(q) PROVE [Atomic!Next]_(Atomic!vars)
  <2>1. answer[q] = Pending /\ Original(q) = {}
    BY <1>2 DEF CountActive, Checked
  <2>2. CASE UnderCaps(q)
    BY <1>2, <2>2 DEF CountActive, Atomic!vars
  <2>3. CASE ~UnderCaps(q)
    <3>1. Atomic!RefuseFull(q)
      BY <1>2, <2>1, <2>3, SameReadings DEF CountActive, Atomic!RefuseFull, Atomic!Reply
    <3> QED BY <3>1 DEF Atomic!Next
  <2> QED BY <2>2, <2>3
<1>3. ASSUME NEW q \in Requests, Insert(q) \/ CommitUnacknowledged(q)
      PROVE  [Atomic!Next]_(Atomic!vars)
  <2>1. answer[q] = Pending /\ row[q] = "none" /\ Original(q) = {} /\ UnderCaps(q)
    BY <1>3 DEF Insert, CommitUnacknowledged, Checked
  <2>2. Atomic!Admit(q)
    BY <1>3, <2>1, SameReadings DEF Insert, CommitUnacknowledged, InsertRow,
       Atomic!Admit, Atomic!Reply
  <2> QED BY <2>2 DEF Atomic!Next
<1>4. ASSUME NEW q \in Requests, JobSettles(q) \/ JobPurged(q)
      PROVE  [Atomic!Next]_(Atomic!vars)
  <2>1. Atomic!JobSettles(q) \/ Atomic!JobPurged(q)
    BY <1>4 DEF JobSettles, JobPurged, Atomic!JobSettles, Atomic!JobPurged
  <2> QED BY <2>1 DEF Atomic!Next
<1>5. ASSUME NEW q \in Requests,
             \/ SaveUpload(q) \/ Lock(q) \/ Discard(q) \/ RespondAccepted(q)
             \/ Abandon(q) \/ DeleteAudio(q) \/ Sweep(q)
      PROVE  UNCHANGED Atomic!vars
  BY <1>5 DEF SaveUpload, Lock, Discard, RespondAccepted, Abandon, DeleteAudio, Sweep,
     Atomic!vars
<1>6. ASSUME UNCHANGED vars PROVE UNCHANGED Atomic!vars
  BY <1>6 DEF vars, Atomic!vars
<1> QED BY <1>1, <1>2, <1>3, <1>4, <1>5, <1>6 DEF Next, RequestStep

\* The step-by-step admission implements the atomic one.
THEOREM AdmissionIsAtomic == Spec => ImplementsAtomicAdmission
<1>1. Init => Atomic!Init
  BY DEF Init, Atomic!Init
<1> QED BY <1>1, StepRefines, AdmissionInvariant, PTL DEF Spec, Atomic!Spec,
           ImplementsAtomicAdmission

-----------------------------------------------------------------------------
\* Where the file of each request is, or may be, at every point of its run.
FileInv ==
  \A q \in Requests :
    /\ pc[q] \in {"lock", "find", "count", "insert"} /\ q \in Uploads \ SlowUploads
         => q \in disk
    /\ pc[q] = "discard" => row[q] = "none"
    /\ pc[q] = "reply" => answer[q] = q /\ row[q] # "none"
    /\ q \in disk /\ pc[q] = "done" => answer[q] = q /\ row[q] # "none"
    /\ q \in Uploads \ SlowUploads /\ row[q] = "active" => q \in disk

LEMMA FileInvariant == Spec => []FileInv
<1>1. Init => FileInv
  BY DEF Init, FileInv
<1>2. AdmissionInv /\ FileInv /\ [Next]_vars => FileInv'
  <2> SUFFICES ASSUME AdmissionInv, FileInv, [Next]_vars PROVE FileInv'
    OBVIOUS
  <2> USE DEF AdmissionInv, TypeOK, Labels, Undecided, FileInv, Goto, Decide
  <2>1. ASSUME NEW q \in Requests, SaveUpload(q) PROVE FileInv'
    BY <2>1 DEF SaveUpload
  <2>2. ASSUME NEW q \in Requests, Lock(q) PROVE FileInv'
    BY <2>2 DEF Lock
  <2>3. ASSUME NEW q \in Requests, FindOriginal(q) PROVE FileInv'
    BY <2>3 DEF FindOriginal
  <2>4. ASSUME NEW q \in Requests, CountActive(q) PROVE FileInv'
    BY <2>4 DEF CountActive
  <2>5. ASSUME NEW q \in Requests, Insert(q) \/ CommitUnacknowledged(q) PROVE FileInv'
    BY <2>5 DEF Insert, CommitUnacknowledged, InsertRow, UnlinkedOnError
  <2>6. ASSUME NEW q \in Requests, Discard(q) \/ RespondAccepted(q) PROVE FileInv'
    BY <2>6 DEF Discard, Discarded, RespondAccepted
  <2>7. ASSUME NEW q \in Requests, Abandon(q) PROVE FileInv'
    BY <2>7 DEF Abandon, UnlinkedOnError
  <2>8. ASSUME NEW q \in Requests, JobSettles(q) \/ JobPurged(q) PROVE FileInv'
    BY <2>8 DEF JobSettles, JobPurged
  <2>9. ASSUME NEW q \in Requests, DeleteAudio(q) PROVE FileInv'
    BY <2>9 DEF DeleteAudio
  <2>10. ASSUME NEW q \in Requests, Sweep(q) PROVE FileInv'
    BY <2>10 DEF Sweep, Outdated
  <2>11. CASE UNCHANGED vars
    BY <2>11 DEF vars
  <2> QED
    BY <2>1, <2>2, <2>3, <2>4, <2>5, <2>6, <2>7, <2>8, <2>9, <2>10, <2>11
       DEF Next, RequestStep
<1> QED BY <1>1, <1>2, AdmissionInvariant, PTL DEF Spec

\* No admission path deletes the audio of a job a worker may still claim:
\* only the sweep of old files takes it, and only past its age.
THEOREM UploadsKept == Spec => []AdmittedUploadKept
<1>1. FileInv => AdmittedUploadKept
  BY RequestsAssumption DEF FileInv, AdmittedUploadKept
<1> QED BY <1>1, FileInvariant, PTL

\* None leaves a file behind for a submission that was answered with another
\* job, a conflict or a refusal.
THEOREM UploadsDiscarded == Spec => []DuplicatesDiscarded
<1>1. FileInv /\ AdmissionInv => DuplicatesDiscarded
  BY RequestsAssumption DEF FileInv, AdmissionInv, TypeOK, DuplicatesDiscarded
<1> QED BY <1>1, FileInvariant, AdmissionInvariant, PTL

-----------------------------------------------------------------------------
SameKey(p, q) ==
  KeyOf[p] # NoKey /\ KeyOf[p] = KeyOf[q] /\ ClientOf[p] = ClientOf[q]

\* A key reserves one row; a job is given to its own request and to equal ones
\* under its key.
KeyInv ==
  /\ \A p, q \in Stored : SameKey(p, q) => p = q
  /\ \A q \in Requests :
       answer[q] \in Requests =>
         /\ DigestOf[q] = DigestOf[answer[q]]
         /\ answer[q] = q \/ SameKey(answer[q], q)

LEMMA NextKeys == AdmissionInv /\ KeyInv /\ [Next]_vars => KeyInv'
<1> SUFFICES ASSUME AdmissionInv, KeyInv, [Next]_vars PROVE KeyInv'
  OBVIOUS
<1> USE DEF AdmissionInv, TypeOK, Decide
<1>1. ASSUME NEW q \in Requests, Insert(q) \/ CommitUnacknowledged(q) PROVE KeyInv'
  <2>1. /\ row' = [row EXCEPT ![q] = "active"]
        /\ answer' = [answer EXCEPT ![q] = q]
        /\ Original(q) = {}
    BY <1>1 DEF Insert, CommitUnacknowledged, InsertRow, Checked
  <2>2. Stored' = Stored \cup {q}
    BY <2>1 DEF Stored
  <2>3. \A o \in Stored : ~SameKey(o, q) /\ ~SameKey(q, o)
    BY <2>1 DEF Original, SameKey
  <2>4. (\A p, o \in Stored : SameKey(p, o) => p = o)'
    BY <2>2, <2>3 DEF KeyInv, SameKey
  <2> QED BY <2>1, <2>4 DEF KeyInv, SameKey
<1>2. ASSUME NEW q \in Requests, FindOriginal(q) PROVE KeyInv'
  <2>1. Stored' = Stored
    BY <1>2 DEF FindOriginal, Stored
  <2>2. \/ answer' = answer
        \/ answer' = [answer EXCEPT ![q] = Conflict]
        \/ \E o \in Original(q) :
             answer' = [answer EXCEPT ![q] = o] /\ DigestOf[o] = DigestOf[q]
    BY <1>2 DEF FindOriginal, SameRequest
  <2>3. \A o \in Original(q) : o \in Requests /\ SameKey(o, q)
    BY DEF Original, Stored, SameKey
  <2> QED BY <2>1, <2>2, <2>3, AnswersAssumption DEF KeyInv, SameKey
<1>3. ASSUME NEW q \in Requests, CountActive(q) PROVE KeyInv'
  <2>1. Stored' = Stored
    BY <1>3 DEF CountActive, Stored
  <2>2. answer' = answer \/ answer' = [answer EXCEPT ![q] = Full]
    BY <1>3 DEF CountActive
  <2> QED BY <2>1, <2>2, AnswersAssumption DEF KeyInv, SameKey
<1>4. ASSUME NEW q \in Requests,
             \/ SaveUpload(q) \/ Lock(q) \/ Discard(q) \/ RespondAccepted(q)
             \/ Abandon(q) \/ JobSettles(q) \/ JobPurged(q) \/ DeleteAudio(q) \/ Sweep(q)
      PROVE  KeyInv'
  <2>1. Stored' \subseteq Stored /\ answer' = answer
    BY <1>4 DEF SaveUpload, Lock, Discard, RespondAccepted, Abandon, JobSettles,
       JobPurged, DeleteAudio, Sweep, Stored
  <2> QED BY <2>1 DEF KeyInv, SameKey
<1>5. CASE UNCHANGED vars
  BY <1>5 DEF vars, KeyInv, SameKey, Stored
<1> QED BY <1>1, <1>2, <1>3, <1>4, <1>5 DEF Next, RequestStep

\* Repeated submissions under one key get one job as long as it is stored,
\* and nobody gets the job of a different request.
THEOREM OneJobPerKey == Spec => []SameKeySameJob
<1>1. Init => KeyInv
  BY AnswersAssumption DEF Init, KeyInv, Stored
<1>2. KeyInv => SameKeySameJob
  <2> SUFFICES ASSUME KeyInv, NEW p \in Requests, NEW q \in Requests
               PROVE  /\ answer[p] = q => DigestOf[p] = DigestOf[q]
                      /\ SameKey(p, q) /\ answer[p] \in Stored /\ answer[q] \in Stored
                           => answer[p] = answer[q]
    BY DEF SameKeySameJob, SameKey
  <2>1. answer[p] = q => DigestOf[p] = DigestOf[q]
    BY DEF KeyInv
  <2>2. ASSUME SameKey(p, q), answer[p] \in Stored, answer[q] \in Stored
        PROVE  answer[p] = answer[q]
    <3>1. SameKey(answer[p], answer[q])
      BY <2>2 DEF KeyInv, SameKey, Stored
    <3> QED BY <2>2, <3>1 DEF KeyInv
  <2> QED BY <2>1, <2>2
<1> QED BY <1>1, <1>2, NextKeys, AdmissionInvariant, PTL DEF Spec

\* Type correctness of the rows, answers, labels, lock and files.
THEOREM TypeCorrect == Spec => []TypeOK
<1>1. AdmissionInv => TypeOK BY DEF AdmissionInv
<1> QED BY <1>1, AdmissionInvariant, PTL
=============================================================================
