---------------------------- MODULE EngineProofs ----------------------------
(***************************************************************************)
(* Theorems about Engine, for every finite set of threads, every set of    *)
(* requests and models, and every gpu_concurrency.                         *)
(***************************************************************************)
EXTENDS Engine, FiniteSetTheorems, SequenceTheorems, TLAPS

Typed ==
  /\ pc \in [Threads -> Labels] /\ call \in [Threads -> Requests]
  /\ todo \in [Threads -> Seq(Stages)]
  /\ slots \subseteq Threads
  /\ holder \in [Locks -> Threads \cup {Nobody}]
  /\ loaded \subseteq Models /\ loads \in [Models -> Nat]
  /\ temps \subseteq Threads \X {"transcode", "workdir"}

\* Only the stages that decode or load go through these labels, so a lock
\* that is released there is never the local engine's.
Placed ==
  \A t \in Threads :
    /\ pc[t] \in {"decode", "lookup", "check", "load"} => Stage(t) \in {"aligning", "diarizing"}
    /\ pc[t] = "lock" => Stage(t) \in {"pipeline", "aligning", "diarizing"}
    /\ pc[t] \notin {"idle", "finish"} => todo[t] # <<>>

SlotsRun ==
  /\ \A t \in Threads : t \in slots <=> pc[t] = "run"
  /\ Cardinality(slots) <= GpuConcurrency

\* A thread holds at most the lock of its stage, and only inside it.
LocksHeld ==
  \A t \in Threads :
    /\ pc[t] \in {"check", "load"} => holder[LockOf(Stage(t))] = t
    /\ pc[t] \in {"enter", "run"} /\ Stage(t) = "pipeline" => holder["engine"] = t
    /\ \A l \in Locks : holder[l] = t =>
         /\ l = LockOf(Stage(t))
         /\ pc[t] \in {"check", "load", "enter", "run"}

LoadsCounted ==
  /\ \A m \in Models : loads[m] = IF m \in loaded THEN 1 ELSE 0
  /\ \A t \in Threads : pc[t] = "load" => ModelOf(t) \notin loaded

FilesInside ==
  \A t \in Threads : pc[t] \in {"idle", "ask", "finish", "raise"} =>
    \A f \in {"transcode", "workdir"} : <<t, f>> \notin temps

EngineInv == Typed /\ Placed /\ SlotsRun /\ LocksHeld /\ LoadsCounted /\ FilesInside

-----------------------------------------------------------------------------
\* Where a call stands after a stage, by the stages it has left.
LEMMA Entries ==
  ASSUME NEW s \in Seq(Stages)
  PROVE  /\ Entry(s) \in {"finish", "ask", "decode", "raise", "lock"}
         /\ Entry(s) = "decode" => Head(s) = "aligning"
         /\ Entry(s) = "lock" => Head(s) \in {"pipeline", "diarizing"}
         /\ Entry(s) # "finish" => s # <<>>
<1>1. s # <<>> => Head(s) \in Stages
  OBVIOUS
<1> QED BY <1>1 DEF Entry, Stages

LEMMA PlannedStages ==
  ASSUME NEW q \in Requests, Admitted(tier, q)
  PROVE  StagesOf(q) \in Seq(Stages)
<1>1. /\ <<>> \in Seq(Stages) /\ <<"aligning">> \in Seq(Stages)
      /\ <<"diarizing">> \in Seq(Stages) /\ <<"asking">> \in Seq(Stages)
      /\ <<"pipeline">> \in Seq(Stages) /\ <<"unserved">> \in Seq(Stages)
  BY DEF Stages
<1>2. <<"asking", "aligning">> \in Seq(Stages) /\ <<"aligning", "diarizing">> \in Seq(Stages)
  BY DEF Stages
<1>3. Diarizing(q) \in Seq(Stages)
  BY <1>1 DEF Diarizing
<1>4. TranscribeStages(q) \in Seq(Stages)
  <2>1. \A r, s \in Seq(Stages) : r \o s \in Seq(Stages)
    OBVIOUS
  <2> QED BY <1>1, <1>2, <1>3, <2>1 DEF TranscribeStages, LocalStages, HybridStages, RemoteStages, Unserved
<1> QED BY <1>1, <1>2, <1>4 DEF StagesOf, LabelStages, RetimeStages

LEMMA ModelTypes ==
  ASSUME Typed, NEW t \in Threads
  PROVE  /\ ModelOf(t) \in Models
         /\ Stage(t) = "diarizing" <=> ModelOf(t) = Diarization
BY ModelsAssumption DEF Typed, ModelOf

\* The slots taken are at most as many as there are.
LEMMA SlotTaken ==
  ASSUME NEW t \in Threads, slots \subseteq Threads, Cardinality(slots) < GpuConcurrency
  PROVE  Cardinality(slots \cup {t}) <= GpuConcurrency
<1>1. IsFiniteSet(slots)
  BY ThreadsAssumption, FS_Subset
<1>2. Cardinality(slots) \in Nat
  BY <1>1, FS_CardinalityType
<1>3. Cardinality(slots \cup {t}) = IF t \in slots THEN Cardinality(slots) ELSE Cardinality(slots) + 1
  BY <1>1, FS_AddElement
<1> QED BY <1>2, <1>3, SlotsAssumption

LEMMA SlotFreed ==
  ASSUME NEW t, slots \subseteq Threads, Cardinality(slots) <= GpuConcurrency
  PROVE  Cardinality(slots \ {t}) <= GpuConcurrency
<1>1. IsFiniteSet(slots)
  BY ThreadsAssumption, FS_Subset
<1>2. /\ Cardinality(slots) \in Nat /\ Cardinality(slots \ {t}) \in Nat
      /\ Cardinality(slots \ {t}) <= Cardinality(slots)
  BY <1>1, FS_Subset, FS_CardinalityType
<1> QED BY <1>2, SlotsAssumption

LEMMA InitInv == Init => EngineInv
<1> SUFFICES ASSUME Init PROVE EngineInv
  OBVIOUS
<1> USE DEF Init
<1>1. Typed
  BY ModelsAssumption, CallsAssumption DEF Typed, Labels, Stages, Locks
<1>2. Cardinality(slots) <= GpuConcurrency
  BY FS_EmptySet, SlotsAssumption
<1>3. Placed /\ SlotsRun /\ LocksHeld /\ LoadsCounted /\ FilesInside
  BY <1>2, ThreadsAssumption DEF Placed, SlotsRun, LocksHeld, LoadsCounted, FilesInside, Locks
<1> QED BY <1>1, <1>3 DEF EngineInv

-----------------------------------------------------------------------------
\* A call begins.
LEMMA StartInv ==
  ASSUME EngineInv, NEW t \in Threads, NEW q \in Requests, Start(t, q)
  PROVE  EngineInv'
<1>1. StagesOf(q) \in Seq(Stages)
  BY PlannedStages DEF Start
<1> DEFINE s == StagesOf(q)
<1>2. /\ Entry(s) \in {"finish", "ask", "decode", "raise", "lock"}
      /\ Entry(s) = "decode" => Head(s) = "aligning"
      /\ Entry(s) = "lock" => Head(s) \in {"pipeline", "diarizing"}
      /\ Entry(s) # "finish" => s # <<>>
  BY <1>1, Entries
<1>3. /\ pc[t] = "idle" /\ pc' = [pc EXCEPT ![t] = Entry(s)]
      /\ todo' = [todo EXCEPT ![t] = s] /\ call' = [call EXCEPT ![t] = q]
      /\ UNCHANGED <<slots, holder, loaded, loads, temps>>
  BY DEF Start, Enter, memory
<1> HIDE DEF s
<1> USE DEF EngineInv, Typed
<1>4. Typed'
  BY <1>1, <1>2, <1>3 DEF Labels, s
<1>5. Placed' /\ FilesInside'
  BY <1>2, <1>3 DEF Placed, FilesInside, Stage
<1>6. SlotsRun' /\ LocksHeld'
  BY <1>2, <1>3, ThreadsAssumption DEF SlotsRun, LocksHeld, Stage
<1>7. LoadsCounted'
  BY <1>2, <1>3 DEF LoadsCounted, ModelOf, Stage
<1> QED BY <1>4, <1>5, <1>6, <1>7

\* A call goes to its next stage, or to its end, and the stage's slot, lock and
\* files are behind it.
LEMMA StageInv ==
  ASSUME EngineInv, NEW t \in Threads, Ask(t) \/ Run(t)
  PROVE  EngineInv'
<1> DEFINE s == Tail(todo[t])
<1> USE DEF EngineInv, Typed
<1>0. pc[t] \in {"ask", "run"} /\ todo[t] # <<>>
  BY DEF Ask, Run, Placed
<1>1. s \in Seq(Stages)
  BY <1>0
<1>2. /\ Entry(s) \in {"finish", "ask", "decode", "raise", "lock"}
      /\ Entry(s) = "decode" => Head(s) = "aligning"
      /\ Entry(s) = "lock" => Head(s) \in {"pipeline", "diarizing"}
      /\ Entry(s) # "finish" => s # <<>>
  BY <1>1, Entries
<1>3. /\ pc' = [pc EXCEPT ![t] = Entry(s)] /\ todo' = [todo EXCEPT ![t] = s]
      /\ UNCHANGED <<call, loaded, loads>>
  BY DEF Ask, Run, Enter, calling, memory
<1>4. \/ pc[t] = "ask" /\ UNCHANGED <<slots, holder, temps>>
      \/ pc[t] = "run" /\ LeaveStage(t)
  BY DEF Ask, Run
<1> HIDE DEF s
<1>5. Typed'
  BY <1>1, <1>2, <1>3, <1>4 DEF Labels, LeaveStage
<1>6. Placed'
  BY <1>2, <1>3 DEF Placed, Stage
<1>7. FilesInside'
  BY <1>2, <1>3, <1>4 DEF FilesInside, LeaveStage, FilesOf
<1>8. SlotsRun'
  BY <1>2, <1>3, <1>4, SlotFreed DEF SlotsRun, LeaveStage, SlotOf
<1>9. LocksHeld'
  <2>1. ASSUME NEW u \in Threads, u # t, NEW l \in Locks
        PROVE  holder'[l] = u <=> holder[l] = u
    BY <1>4, <2>1, ThreadsAssumption DEF LeaveStage
  <2>2. \A l \in Locks : holder'[l] # t
    BY <1>4, ThreadsAssumption DEF LocksHeld, LeaveStage
  <2>3. \A x : LockOf(x) \in Locks /\ "engine" \in Locks
    BY DEF LockOf, Locks
  <2>4. pc'[t] \notin {"check", "load", "enter", "run"}
    BY <1>2, <1>3
  <2>5. \A u \in Threads \ {t} : pc'[u] = pc[u] /\ todo'[u] = todo[u]
    BY <1>3
  <2>6. ASSUME NEW u \in Threads, u # t
        PROVE  /\ pc'[u] \in {"check", "load"} => holder'[LockOf(Head(todo'[u]))] = u
               /\ pc'[u] \in {"enter", "run"} /\ Head(todo'[u]) = "pipeline" => holder'["engine"] = u
               /\ \A l \in Locks : holder'[l] = u =>
                    l = LockOf(Head(todo'[u])) /\ pc'[u] \in {"check", "load", "enter", "run"}
    <3>1. pc'[u] = pc[u] /\ todo'[u] = todo[u] /\ Head(todo[u]) = Stage(u)
      BY <2>5, <2>6 DEF Stage
    <3>2. LockOf(Stage(u)) \in Locks /\ "engine" \in Locks
      BY <2>3
    <3>3. /\ holder'[LockOf(Stage(u))] = u <=> holder[LockOf(Stage(u))] = u
          /\ holder'["engine"] = u <=> holder["engine"] = u
      BY <2>1, <2>6, <3>2
    <3>4. \A l \in Locks : holder'[l] = u <=> holder[l] = u
      BY <2>1, <2>6
    <3>5. /\ pc[u] \in {"check", "load"} => holder[LockOf(Stage(u))] = u
          /\ pc[u] \in {"enter", "run"} /\ Stage(u) = "pipeline" => holder["engine"] = u
          /\ \A l \in Locks : holder[l] = u =>
               l = LockOf(Stage(u)) /\ pc[u] \in {"check", "load", "enter", "run"}
      BY DEF LocksHeld
    <3> HIDE DEF EngineInv, Typed
    <3> QED BY <3>1, <3>3, <3>4, <3>5
  <2> QED BY <2>2, <2>4, <2>6 DEF LocksHeld, Stage
<1>10. LoadsCounted'
  BY <1>2, <1>3 DEF LoadsCounted, ModelOf, Stage
<1> QED BY <1>5, <1>6, <1>7, <1>8, <1>9, <1>10

\* A call raises or returns: all it held is free again.
LEMMA EndInv ==
  ASSUME EngineInv, NEW t \in Threads, Raise(t) \/ Finish(t)
  PROVE  EngineInv'
<1> USE DEF EngineInv, Typed
<1>1. /\ pc' = [pc EXCEPT ![t] = "idle"] /\ todo' = [todo EXCEPT ![t] = <<>>]
      /\ UNCHANGED <<call, loaded, loads>>
  BY DEF Raise, Finish, Return, Goto, calling, memory
<1>2. \/ pc[t] = "finish" /\ UNCHANGED <<slots, holder, temps>>
      \/ pc[t] # "finish" /\ LeaveStage(t)
  BY DEF Raise, Finish
<1>3. Typed'
  BY <1>1, <1>2 DEF Labels, LeaveStage
<1>4. Placed'
  BY <1>1 DEF Placed, Stage
<1>5. FilesInside'
  BY <1>1, <1>2 DEF FilesInside, LeaveStage, FilesOf
<1>6. SlotsRun'
  BY <1>1, <1>2, SlotFreed DEF SlotsRun, LeaveStage, SlotOf
<1>7. LocksHeld'
  <2>1. ASSUME NEW u \in Threads, u # t, NEW l \in Locks
        PROVE  holder'[l] = u <=> holder[l] = u
    BY <1>2, <2>1, ThreadsAssumption DEF LeaveStage
  <2>2. \A l \in Locks : holder'[l] # t
    BY <1>2, ThreadsAssumption DEF LocksHeld, LeaveStage
  <2>3. \A x : LockOf(x) \in Locks /\ "engine" \in Locks
    BY DEF LockOf, Locks
  <2> QED BY <1>1, <2>1, <2>2, <2>3 DEF LocksHeld, Stage
<1>8. LoadsCounted'
  BY <1>1 DEF LoadsCounted, ModelOf, Stage
<1> QED BY <1>3, <1>4, <1>5, <1>6, <1>7, <1>8

\* Inside a stage, up to the model run; only Load touches the models.
LEMMA InsideInv ==
  ASSUME EngineInv, NEW t \in Threads,
         Decode(t) \/ Lookup(t) \/ TakeLock(t) \/ Check(t) \/ TakeSlot(t)
  PROVE  EngineInv'
<1> USE DEF EngineInv, Typed, Goto, calling, memory
<1>1. todo' = todo /\ UNCHANGED <<call, loaded, loads>>
  BY DEF Decode, Lookup, TakeLock, Check, TakeSlot
<1>2. CASE Decode(t) \/ Lookup(t)
  <2>1. /\ pc[t] \in {"decode", "lookup"}
        /\ pc' = [pc EXCEPT ![t] = pc'[t]] /\ pc'[t] \in {"lookup", "enter", "lock"}
        /\ pc'[t] = "lookup" => Stage(t) = "aligning"
        /\ UNCHANGED <<slots, holder>>
    BY <1>2 DEF Decode, Lookup
  <2>2. temps' = temps \/ temps' = temps \cup {<<t, "transcode">>}
    BY <1>2 DEF Decode, Lookup
  <2>3. Typed' BY <1>1, <2>1, <2>2, SMTT(40) DEF Labels
  <2>4. Placed' /\ SlotsRun'
    BY <1>1, <2>1 DEF Placed, SlotsRun, Stage
  <2>5. FilesInside'
    <3>1. ASSUME NEW u \in Threads, u # t, NEW f \in {"transcode", "workdir"}, <<u, f>> \in temps'
          PROVE  <<u, f>> \in temps
      BY <2>2, <3>1
    <3>2. pc'[t] \notin {"idle", "ask", "finish", "raise"} /\ \A u \in Threads \ {t} : pc'[u] = pc[u]
      BY <2>1
    <3> QED BY <3>1, <3>2 DEF FilesInside
  <2>6. LocksHeld' BY <1>1, <2>1 DEF LocksHeld, Placed, Stage
  <2>7. LoadsCounted' BY <1>1, <2>1 DEF LoadsCounted, ModelOf, Stage
  <2> QED BY <2>3, <2>4, <2>5, <2>6, <2>7
<1>3. CASE TakeLock(t)
  <2> DEFINE l == LockOf(Stage(t))
  <2>1. /\ pc[t] = "lock" /\ holder[l] = Nobody /\ holder' = [holder EXCEPT ![l] = t]
        /\ pc' = [pc EXCEPT ![t] = IF Stage(t) = "pipeline" THEN "enter" ELSE "check"]
        /\ UNCHANGED <<slots, temps>>
    BY <1>3 DEF TakeLock
  <2>2. l \in Locks /\ (l = "engine" <=> Stage(t) = "pipeline")
    BY DEF LockOf, Locks
  <2>3. Typed' BY <1>1, <2>1, <2>2 DEF Labels
  <2>4. Placed' /\ SlotsRun' /\ FilesInside'
    BY <1>1, <2>1 DEF Placed, SlotsRun, FilesInside, Stage
  <2>5. LocksHeld' BY <1>1, <2>1, <2>2, ThreadsAssumption DEF LocksHeld, Stage
  <2>6. LoadsCounted' BY <1>1, <2>1 DEF LoadsCounted, ModelOf, Stage
  <2> QED BY <2>3, <2>4, <2>5, <2>6
<1>4. CASE Check(t)
  <2>1. /\ pc[t] = "check" /\ pc' = [pc EXCEPT ![t] = pc'[t]]
        /\ \/ /\ pc'[t] = "load" /\ holder' = holder /\ ModelOf(t) \notin loaded
           \/ /\ holder' = [holder EXCEPT ![LockOf(Stage(t))] = Nobody]
              /\ pc'[t] = IF Stage(t) = "aligning" THEN "enter" ELSE "decode"
        /\ UNCHANGED <<slots, temps>>
    BY <1>4 DEF Check, Missing, Loaded, Release
  <2>2. Stage(t) \in {"aligning", "diarizing"} BY <2>1 DEF Placed
  <2>3. LockOf(Stage(t)) \in Locks BY DEF LockOf, Locks
  <2>4. Typed' BY <1>1, <2>1, <2>3 DEF Labels
  <2>5. Placed' /\ SlotsRun' /\ FilesInside'
    BY <1>1, <2>1, <2>2 DEF Placed, SlotsRun, FilesInside, Stage
  <2>6. LocksHeld'
    <3>1. CASE pc'[t] = "load"
      BY <1>1, <2>1, <2>2, <3>1 DEF LocksHeld, Stage
    <3>2. CASE holder' = [holder EXCEPT ![LockOf(Stage(t))] = Nobody] /\ pc'[t] \in {"enter", "decode"}
      <4>1. ASSUME NEW u \in Threads, u # t, NEW l \in Locks
            PROVE  holder'[l] = u <=> holder[l] = u
        BY <2>1, <2>3, <3>2, <4>1, ThreadsAssumption DEF LocksHeld
      <4>2. \A l \in Locks : holder'[l] # t
        BY <2>1, <2>3, <3>2, ThreadsAssumption DEF LocksHeld
      <4>3. \A x : LockOf(x) \in Locks /\ "engine" \in Locks
        BY DEF LockOf, Locks
      <4>4. \A u \in Threads \ {t} : pc'[u] = pc[u] /\ todo'[u] = todo[u]
        BY <1>1, <2>1
      <4> QED BY <1>1, <2>2, <3>2, <4>1, <4>2, <4>3, <4>4 DEF LocksHeld, Stage
    <3> QED BY <2>1, <3>1, <3>2
  <2>7. LoadsCounted' BY <1>1, <2>1 DEF LoadsCounted, ModelOf, Stage
  <2> QED BY <2>4, <2>5, <2>6, <2>7
<1>5. CASE TakeSlot(t)
  <2>1. /\ pc[t] = "enter" /\ pc' = [pc EXCEPT ![t] = "run"]
        /\ slots' = slots \cup {t} /\ Cardinality(slots) < GpuConcurrency
        /\ temps' = temps \/ temps' = temps \cup {<<t, "workdir">>}
        /\ UNCHANGED holder
    BY <1>5 DEF TakeSlot, Slot
  <2>2. Typed' BY <1>1, <2>1 DEF Labels
  <2>3. Placed' /\ FilesInside' BY <1>1, <2>1 DEF Placed, FilesInside, Stage
  <2>4. SlotsRun' BY <2>1, SlotTaken DEF SlotsRun
  <2>5. LocksHeld' BY <1>1, <2>1 DEF LocksHeld, Stage
  <2>6. LoadsCounted' BY <1>1, <2>1 DEF LoadsCounted, ModelOf, Stage
  <2> QED BY <2>2, <2>3, <2>4, <2>5, <2>6
<1> QED BY <1>2, <1>3, <1>4, <1>5

\* The lock is held from the second look at the cache to the end of the load,
\* so no thread that would load the same model is inside.
LEMMA LoadInv ==
  ASSUME EngineInv, NEW t \in Threads, Load(t)
  PROVE  EngineInv'
<1> USE DEF EngineInv, Typed
<1>1. /\ pc[t] = "load" /\ pc' = [pc EXCEPT ![t] = pc'[t]]
      /\ pc'[t] = IF Stage(t) = "aligning" THEN "enter" ELSE "decode"
      /\ loads' = [loads EXCEPT ![ModelOf(t)] = @ + 1] /\ loaded' = loaded \cup {ModelOf(t)}
      /\ holder' = [holder EXCEPT ![LockOf(Stage(t))] = Nobody]
      /\ UNCHANGED <<todo, call, slots, temps>>
  BY DEF Load, Goto, Loaded, Release, calling
<1>2. Stage(t) \in {"aligning", "diarizing"} BY <1>1 DEF Placed
<1>3. LockOf(Stage(t)) \in Locks BY DEF LockOf, Locks
<1>4. ModelOf(t) \in Models /\ ModelOf(t) \notin loaded
  BY <1>1, ModelTypes DEF LoadsCounted
<1>5. Typed'
  <2>1. loads' \in [Models -> Nat] /\ loaded' \subseteq Models BY <1>1, <1>4
  <2>2. pc' \in [Threads -> Labels] /\ holder' \in [Locks -> Threads \cup {Nobody}]
    BY <1>1, <1>3 DEF Labels
  <2> QED BY <1>1, <2>1, <2>2
<1>6. Placed' /\ SlotsRun' /\ FilesInside'
  BY <1>1, <1>2 DEF Placed, SlotsRun, FilesInside, Stage
<1>7. LocksHeld' BY <1>1, <1>2, <1>3, ThreadsAssumption DEF LocksHeld, Stage
<1>8. ASSUME NEW u \in Threads, u # t, pc[u] = "load" PROVE ModelOf(u) # ModelOf(t)
  <2>1. Stage(u) \in {"aligning", "diarizing"} BY <1>8 DEF Placed
  <2>2. holder[LockOf(Stage(u))] = u /\ holder[LockOf(Stage(t))] = t
    BY <1>1, <1>8 DEF LocksHeld
  <2>3. Stage(u) # Stage(t) BY <1>8, <2>2
  <2> QED BY <1>2, <2>1, <2>3, ModelTypes
<1>9. ASSUME NEW u \in Threads, pc'[u] = "load" PROVE ModelOf(u)' \notin loaded'
  <2>1. u # t /\ pc[u] = "load" BY <1>1, <1>9
  <2>2. ModelOf(u)' = ModelOf(u) BY <1>1 DEF ModelOf, Stage
  <2> QED BY <1>1, <1>8, <2>1, <2>2 DEF LoadsCounted
<1>10. \A m \in Models : loads'[m] = IF m \in loaded' THEN 1 ELSE 0
  BY <1>1, <1>4 DEF LoadsCounted
<1>11. LoadsCounted' BY <1>9, <1>10 DEF LoadsCounted
<1> QED BY <1>5, <1>6, <1>7, <1>11

-----------------------------------------------------------------------------
\* The invariant, from which the theorems follow.
LEMMA NextInv == EngineInv /\ [Next]_vars => EngineInv'
<1> SUFFICES ASSUME EngineInv, [Next]_vars PROVE EngineInv'
  OBVIOUS
<1>1. CASE UNCHANGED vars
  BY <1>1 DEF vars, settings, locals, calling, memory, EngineInv, Typed, Placed, SlotsRun,
              LocksHeld, LoadsCounted, FilesInside, Stage, ModelOf
<1>2. CASE Next
  BY <1>2, StartInv, StageInv, EndInv, InsideInv, LoadInv DEF Next, Step
<1> QED BY <1>1, <1>2

LEMMA EngineInvariant == Spec => []EngineInv
BY InitInv, NextInv, PTL DEF Spec

\* Whatever mix of stages, tasks and failures: at most gpu_concurrency models
\* run, and the local tier's pipelines one at a time.
THEOREM SlotsBoundModels == Spec => []GpuBounded
<1>1. ASSUME EngineInv PROVE GpuBounded
  <2>1. Running = slots BY <1>1 DEF EngineInv, Typed, SlotsRun, Running
  <2>2. ASSUME NEW t \in Running, NEW u \in Running,
               Stage(t) = "pipeline", Stage(u) = "pipeline"
        PROVE  t = u
    BY <1>1, <2>2 DEF EngineInv, LocksHeld, Running
  <2> QED BY <1>1, <2>1, <2>2 DEF GpuBounded, EngineInv, SlotsRun
<1> QED BY <1>1, EngineInvariant, PTL

\* However many threads need a model at once, and however loads fail, no model
\* is loaded a second time.
THEOREM ModelsLoadOnce == Spec => []LoadedOnce
<1>1. ASSUME EngineInv PROVE LoadedOnce
  BY <1>1 DEF EngineInv, LoadsCounted, LoadedOnce
<1> QED BY <1>1, EngineInvariant, PTL

\* A call that ended left no slot, no lock and no file behind.
THEOREM CallsCleanUp == Spec => []NothingLeftBehind
<1>1. ASSUME EngineInv PROVE NothingLeftBehind
  BY <1>1 DEF EngineInv, SlotsRun, LocksHeld, FilesInside, NothingLeftBehind
<1> QED BY <1>1, EngineInvariant, PTL

-----------------------------------------------------------------------------
\* The rest of the type invariant: the settings stay, stages behind a call are
\* stages, calls are counted, and transcripts are what the text, its timing and
\* its windows allow.
Counted ==
  /\ tier \in Tiers /\ preferAlign \in BOOLEAN
  /\ ran \in [Threads -> SUBSET Stages]
  /\ text \in [Threads -> Texts] /\ timing \in [Threads -> Timings]
  /\ window \in [Threads -> Windows]
  /\ result \in [Threads -> {NoResult} \cup Transcripts]
  /\ calls \in 0..MaxCalls

LEMMA CountedInit == Init => Counted
<1>1. NoText \in Texts BY DEF NoText, Texts
<1> QED BY <1>1, CallsAssumption DEF Init, Counted, Stages, Timings, Windows

LEMMA CountedInv == EngineInv /\ Counted /\ [Next]_vars => Counted'
<1> SUFFICES ASSUME EngineInv, Counted, [Next]_vars PROVE Counted'
  OBVIOUS
<1> USE CallsAssumption DEF Counted
<1>1. ASSUME NEW t \in Threads, NEW q \in Requests, Start(t, q) PROVE Counted'
  <2>1. Timeline(q) \in {"none", "plausible", "implausible"} /\ q.segments \in {"none", "blank", "trusted", "crammed"}
    BY RequestsAssumption DEF Timeline
  <2>2. LabelWords(q) \in Timings /\ "none" \in Timings
    BY <2>1 DEF LabelWords, Trusted, Timings
  <2>3. [words |-> Timeline(q), segments |-> q.segments] \in Texts
    BY <2>1 DEF Texts
  <2> QED BY <1>1, <2>2, <2>3 DEF Start, settings, memory
<1>2. ASSUME NEW t \in Threads, Run(t) PROVE Counted'
  <2>1. todo[t] \in Seq(Stages) /\ todo[t] # <<>>
    BY <1>2 DEF EngineInv, Typed, Placed, Run
  <2>2. Stage(t) \in Stages BY <2>1 DEF Stage
  <2> QED BY <1>2, <2>2 DEF Run, settings, calling, memory, Timings
<1>3. ASSUME NEW t \in Threads, Raise(t) \/ Finish(t) PROVE Counted'
  <2>1. NoText \in Texts BY DEF NoText, Texts
  <2>2. \A rung \in Rungs(t) : Transcript(t, rung) \in Transcripts
    <3>1. call[t].review \in BOOLEAN BY RequestsAssumption DEF EngineInv, Typed
    <3>2. ASSUME NEW rung \in Rungs(t)
          PROVE  rung \in {"forced", "provider_words", "segment_split", "segment_only"}
      BY DEF Rungs
    <3> QED BY <3>1, <3>2 DEF Transcript, Transcripts
  <2>3. result' \in [Threads -> {NoResult} \cup Transcripts]
    BY <1>3, <2>2 DEF Raise, Finish, calling
  <2>4. UNCHANGED settings /\ calls' = calls /\ Return(t)
    BY <1>3 DEF Raise, Finish, calling
  <2> QED BY <2>1, <2>3, <2>4 DEF Return, settings, Timings, Windows
<1>4. ASSUME NEW t \in Threads, Ask(t) PROVE Counted'
  BY <1>4 DEF Ask, Payloads, Texts, Timings, settings, calling, memory
<1>5. ASSUME NEW t \in Threads, TakeSlot(t) PROVE Counted'
  <2>1. Anchor(text[t]) \in Windows /\ "segments" \in Windows BY DEF Anchor, Windows
  <2> QED BY <1>5, <2>1 DEF TakeSlot, settings, calling, memory
<1>6. ASSUME NEW t \in Threads,
             Decode(t) \/ Lookup(t) \/ TakeLock(t) \/ Check(t) \/ Load(t)
      PROVE  Counted'
  BY <1>6 DEF Decode, Lookup, TakeLock, Check, Load, settings, locals, calling, memory
<1>7. CASE UNCHANGED vars
  BY <1>7 DEF vars, settings, locals, calling
<1> QED BY <1>1, <1>2, <1>3, <1>4, <1>5, <1>6, <1>7 DEF Next, Step

LEMMA TypeInvariant == Spec => [](EngineInv /\ Counted)
BY CountedInit, EngineInvariant, CountedInv, PTL DEF Spec

\* Every variable stays in its domain, for every set of threads and requests.
THEOREM TypeCorrect == Spec => []TypeOK
<1>1. EngineInv /\ Counted => TypeOK
  BY DEF EngineInv, Typed, Counted, TypeOK
<1> QED BY <1>1, TypeInvariant, PTL

-----------------------------------------------------------------------------
(* What an engine call returns: the plan made when it starts, the stages   *)
(* behind it and the stages left always add up.                            *)

\* Stages of a plan, in any order.
Of(s) == {s[i] : i \in 1..Len(s)}

Aligners == {"aligning", "pipeline"}

Diarized(q) == q.task # "align" /\ Diarizes(q)

\* How far a call has got in its plan.
OnPlan(t) ==
  /\ pc[t] = "idle" => ran[t] = {}
  /\ pc[t] \in {"idle", "finish"} => todo[t] = <<>>
  /\ pc[t] # "idle" =>
       /\ Admitted(tier, call[t])
       /\ "unserved" \notin Of(todo[t])
       /\ "diarizing" \in ran[t] \cup Of(todo[t]) <=> Diarized(call[t])
       /\ ForcedPromised(call[t]) => (ran[t] \cup Of(todo[t])) \cap Aligners # {}
       /\ timing[t] = "aligned" <=> ran[t] \cap Aligners # {}
       /\ pc[t] = "ask" => todo[t] # <<>> /\ Head(todo[t]) = "asking" /\ ran[t] = {}
       /\ pc[t] # "ask" => "asking" \notin Of(todo[t])
       /\ pc[t] = "ask" => "asking" \notin Of(Tail(todo[t]))
  /\ pc[t] # "raise"

\* What anchors a running alignment.
Anchored(t) ==
  pc[t] = "run" /\ Stage(t) = "aligning" /\ window[t] = "segments" /\ call[t].task # "align"
  => text[t].segments = "trusted" /\ text[t].words # "implausible"

\* What the last call of a thread returned.
Told(t) ==
  result[t] # NoResult =>
    /\ result[t].review = call[t].review
    /\ result[t].speakers = IF call[t].task = "align" THEN "kept"
                             ELSE IF Diarizes(call[t]) THEN "diarized" ELSE "none"
    /\ result[t].rung = "forced" <=> result[t].ran \cap Aligners # {}
    /\ ForcedPromised(call[t]) => result[t].rung = "forced"

ResultInv == \A t \in Threads : OnPlan(t) /\ Anchored(t) /\ Told(t)

-----------------------------------------------------------------------------
\* Stages are taken from the front of a plan and added at its end.
LEMMA OfTail ==
  ASSUME NEW s \in Seq(Stages), s # <<>>
  PROVE  Of(s) = {Head(s)} \cup Of(Tail(s))
<1>1. Len(s) \in Nat \ {0} /\ Len(Tail(s)) = Len(s) - 1 /\ Head(s) = s[1]
  OBVIOUS
<1>2. \A i \in 1..Len(Tail(s)) : Tail(s)[i] = s[i + 1]
  OBVIOUS
<1>3. ASSUME NEW i \in 1..Len(s) PROVE s[i] \in {Head(s)} \cup Of(Tail(s))
  <2>1. CASE i = 1 BY <1>1, <2>1
  <2>2. CASE i # 1
    <3>1. i - 1 \in 1..Len(Tail(s)) BY <1>1, <2>2
    <3>2. s[i] = Tail(s)[i - 1] BY <1>1, <1>2, <3>1
    <3> QED BY <3>1, <3>2 DEF Of
  <2> QED BY <2>1, <2>2
<1>4. ASSUME NEW i \in 1..Len(Tail(s)) PROVE Tail(s)[i] \in Of(s)
  <2>1. i + 1 \in 1..Len(s) BY <1>1
  <2> QED BY <1>2, <2>1 DEF Of
<1>5. Head(s) \in Of(s)
  BY <1>1 DEF Of
<1>6. Of(s) \subseteq {Head(s)} \cup Of(Tail(s))
  BY <1>3 DEF Of
<1>7. Of(Tail(s)) \subseteq Of(s)
  BY <1>4 DEF Of
<1> QED BY <1>5, <1>6, <1>7

LEMMA OfShort ==
  /\ Of(<<>>) = {}
  /\ \A x : Of(<<x>>) = {x}
  /\ \A x, y : Of(<<x, y>>) = {x, y}
  /\ \A x, y, z : Of(<<x, y, z>>) = {x, y, z}
<1>1. 1..0 = {} /\ 1..1 = {1} /\ 1..2 = {1, 2} /\ 1..3 = {1, 2, 3}
  OBVIOUS
<1>2. Of(<<>>) = {} BY <1>1 DEF Of
<1>3. ASSUME NEW x PROVE Of(<<x>>) = {x}
  BY <1>1 DEF Of
<1>4. ASSUME NEW x, NEW y PROVE Of(<<x, y>>) = {x, y}
  BY <1>1 DEF Of
<1>5. ASSUME NEW x, NEW y, NEW z PROVE Of(<<x, y, z>>) = {x, y, z}
  BY <1>1 DEF Of
<1> QED BY <1>2, <1>3, <1>4, <1>5

LEMMA Appended ==
  ASSUME NEW x, NEW y, NEW z
  PROVE  <<x>> \o <<y>> = <<x, y>> /\ <<x, y>> \o <<z>> = <<x, y, z>>
<1> DEFINE S == {x, y, z}
           r == <<x>> \o <<y>>
           s == <<x, y>> \o <<z>>
<1>1. /\ r \in Seq(S) /\ Len(r) = 2 /\ r[1] = x /\ r[2] = y
      /\ s \in Seq(S) /\ Len(s) = 3 /\ s[1] = x /\ s[2] = y /\ s[3] = z
  OBVIOUS
<1>2. /\ <<x, y>> \in Seq(S) /\ Len(<<x, y>>) = 2
      /\ <<x, y, z>> \in Seq(S) /\ Len(<<x, y, z>>) = 3
  OBVIOUS
<1> HIDE DEF S, r, s
<1>3. \A i \in 1..Len(r) : r[i] = <<x, y>>[i]
  BY <1>1
<1>4. \A i \in 1..Len(s) : s[i] = <<x, y, z>>[i]
  BY <1>1
<1>5. r = <<x, y>> BY <1>1, <1>2, <1>3, SeqEqual
<1>6. s = <<x, y, z>> BY <1>1, <1>2, <1>4, SeqEqual
<1> QED BY <1>5, <1>6 DEF r, s

\* The plans there are.
LEMMA Plans ==
  ASSUME NEW q
  PROVE  /\ LocalStages(q) = IF Diarizes(q) THEN <<"pipeline", "diarizing">> ELSE <<"pipeline">>
         /\ HybridStages(q) = IF Diarizes(q) THEN <<"asking", "aligning", "diarizing">>
                                             ELSE <<"asking", "aligning">>
         /\ RemoteStages(q) = IF Diarizes(q) THEN <<"asking", "diarizing">> ELSE <<"asking">>
<1>1. CASE Diarizes(q)
  BY <1>1, Appended DEF LocalStages, HybridStages, RemoteStages, Diarizing
<1>2. CASE ~Diarizes(q)
  <2>1. Diarizing(q) = <<>> BY <1>2 DEF Diarizing
  <2>2. \A x, y : <<x>> \o <<>> = <<x>> /\ <<x, y>> \o <<>> = <<x, y>>
    OBVIOUS
  <2> QED BY <1>2, <2>1, <2>2 DEF LocalStages, HybridStages, RemoteStages
<1> QED BY <1>1, <1>2

\* The provider is asked first and once.
Shape(s, stages) ==
  /\ s # <<>> /\ Of(s) = stages
  /\ "asking" \in stages => Head(s) = "asking"
  /\ "asking" \notin Of(Tail(s))

LEMMA Shapes ==
  /\ Shape(<<"pipeline">>, {"pipeline"})
  /\ Shape(<<"pipeline", "diarizing">>, {"pipeline", "diarizing"})
  /\ Shape(<<"asking">>, {"asking"})
  /\ Shape(<<"asking", "diarizing">>, {"asking", "diarizing"})
  /\ Shape(<<"asking", "aligning">>, {"asking", "aligning"})
  /\ Shape(<<"asking", "aligning", "diarizing">>, {"asking", "aligning", "diarizing"})
  /\ Shape(<<"aligning">>, {"aligning"})
  /\ Shape(<<"aligning", "diarizing">>, {"aligning", "diarizing"})
  /\ Shape(<<"diarizing">>, {"diarizing"})
BY OfShort DEF Shape

\* What each task and tier has to do, seen from its results.
LEMMA PlanRight ==
  ASSUME NEW q \in Requests, Admitted(tier, q), tier \in Tiers, preferAlign \in BOOLEAN
  PROVE  LET s == StagesOf(q)
         IN  /\ s # <<>> /\ "unserved" \notin Of(s)
             /\ "diarizing" \in Of(s) <=> Diarized(q)
             /\ ForcedPromised(q) => Of(s) \cap Aligners # {}
             /\ Head(s) # "asking" => "asking" \notin Of(s)
             /\ "asking" \notin Of(Tail(s))
<1>1. q.task \in Tasks /\ (q.task = "transcribe" => tier # "diarize")
  BY DEF Admitted, SupportedTasks, Tasks
<1>2. q.task = "diarize" => Diarizes(q)
  BY DEF Admitted, Valid, TranscriptFits
<1>3. q.task = "timestamp" => ~Diarizes(q)
  BY DEF Admitted, Valid, TranscriptFits
<1> DEFINE s == StagesOf(q)
<1> SUFFICES /\ s # <<>> /\ "unserved" \notin Of(s)
             /\ "diarizing" \in Of(s) <=> Diarized(q)
             /\ ForcedPromised(q) => Of(s) \cap Aligners # {}
             /\ Head(s) # "asking" => "asking" \notin Of(s)
             /\ "asking" \notin Of(Tail(s))
  OBVIOUS
<1>4. CASE q.task = "transcribe" /\ tier \in {"local", "hybrid"}
  <2>1. \/ /\ Diarizes(q)
           /\ Shape(s, {"pipeline", "diarizing"}) \/ Shape(s, {"asking", "aligning", "diarizing"})
        \/ /\ ~Diarizes(q)
           /\ Shape(s, {"pipeline"}) \/ Shape(s, {"asking", "aligning"})
    BY <1>4, Plans, Shapes DEF StagesOf, TranscribeStages
  <2> HIDE DEF s
  <2> QED BY <1>4, <2>1 DEF Shape, Diarized, Aligners
<1>5. CASE q.task = "transcribe" /\ tier = "remote"
  <2>1. \/ Diarizes(q) /\ Shape(s, {"asking", "diarizing"})
        \/ ~Diarizes(q) /\ Shape(s, {"asking"})
    BY <1>5, Plans, Shapes DEF StagesOf, TranscribeStages
  <2>2. ~ForcedPromised(q)
    BY <1>5 DEF ForcedPromised
  <2> HIDE DEF s
  <2> QED BY <1>5, <2>1, <2>2 DEF Shape, Diarized
<1>6. CASE q.task = "diarize"
  <2>1. \/ Shape(s, {"aligning", "diarizing"})
        \/ Shape(s, {"diarizing"}) /\ LabelWords(q) # "none"
    BY <1>6, Shapes DEF StagesOf, LabelStages
  <2>2. LabelWords(q) # "none" => ~ForcedPromised(q)
    BY <1>6 DEF LabelWords, Trusted, ForcedPromised
  <2> HIDE DEF s
  <2> QED BY <1>2, <1>6, <2>1, <2>2 DEF Shape, Diarized, Aligners
<1>7. CASE q.task \in Retiming
  <2>1. Shape(s, {"aligning"})
    BY <1>7, Shapes DEF StagesOf, RetimeStages, Retiming
  <2>2. ~Diarized(q)
    BY <1>3, <1>7 DEF Diarized, Retiming
  <2> HIDE DEF s
  <2> QED BY <2>1, <2>2 DEF Shape, Aligners
<1> QED BY <1>1, <1>4, <1>5, <1>6, <1>7 DEF Tasks, Tiers, Retiming

LEMMA EntryPlanned ==
  ASSUME NEW s \in Seq(Stages)
  PROVE  /\ Entry(s) \notin {"idle", "run"}
         /\ Entry(s) = "finish" <=> s = <<>>
         /\ Entry(s) = "ask" => s # <<>> /\ Head(s) = "asking" /\ "asking" \in Of(s)
         /\ Entry(s) = "raise" => "unserved" \in Of(s)
<1>1. s # <<>> => Head(s) \in Of(s)
  BY OfTail
<1>2. s # <<>> => Entry(s) # "finish"
  BY DEF Entry
<1> QED BY <1>1, <1>2 DEF Entry

-----------------------------------------------------------------------------
\* A thread is where it was as long as its own variables and the settings are.
LEMMA Untouched ==
  ASSUME NEW u \in Threads, OnPlan(u), Anchored(u), Told(u),
         UNCHANGED settings,
         pc'[u] = pc[u], call'[u] = call[u], todo'[u] = todo[u], ran'[u] = ran[u],
         text'[u] = text[u], timing'[u] = timing[u], window'[u] = window[u],
         result'[u] = result[u]
  PROVE  (OnPlan(u) /\ Anchored(u) /\ Told(u))'
<1>1. tier' = tier /\ preferAlign' = preferAlign
  BY DEF settings
<1>2. OnPlan(u)' BY <1>1 DEF OnPlan, ForcedPromised
<1>3. Anchored(u)' BY DEF Anchored, Stage
<1>4. Told(u)' BY <1>1 DEF Told, ForcedPromised
<1> QED BY <1>2, <1>3, <1>4

LEMMA StartResult ==
  ASSUME EngineInv, Counted, ResultInv, NEW t \in Threads, NEW q \in Requests, Start(t, q)
  PROVE  ResultInv'
<1> DEFINE s == StagesOf(q)
<1> USE DEF EngineInv, Typed, Counted
<1>1. Admitted(tier, q) /\ s \in Seq(Stages)
  BY PlannedStages DEF Start
<1>2. /\ s # <<>> /\ "unserved" \notin Of(s)
      /\ "diarizing" \in Of(s) <=> Diarized(q)
      /\ ForcedPromised(q) => Of(s) \cap Aligners # {}
      /\ Head(s) # "asking" => "asking" \notin Of(s)
      /\ "asking" \notin Of(Tail(s))
  BY <1>1, PlanRight
<1>3. /\ Entry(s) \notin {"idle", "run", "finish", "raise"}
      /\ Entry(s) = "ask" => s # <<>> /\ Head(s) = "asking"
      /\ Entry(s) # "ask" => "asking" \notin Of(s)
  BY <1>1, <1>2, EntryPlanned DEF Entry
<1>4. /\ pc[t] = "idle" /\ pc' = [pc EXCEPT ![t] = Entry(s)] /\ todo' = [todo EXCEPT ![t] = s]
      /\ call' = [call EXCEPT ![t] = q] /\ result' = [result EXCEPT ![t] = NoResult]
      /\ UNCHANGED <<tier, preferAlign, ran, window>>
  BY DEF Start, Enter, settings
<1>5. \A u \in Threads : u # t => text'[u] = text[u] /\ timing'[u] = timing[u]
  BY DEF Start
<1>6. timing'[t] # "aligned"
  <2>1. Timeline(q) # "aligned" BY RequestsAssumption DEF Timeline
  <2>2. LabelWords(q) # "aligned" BY <2>1 DEF LabelWords, Trusted
  <2> QED BY <2>2 DEF Start
<1> HIDE DEF s
<1>7. ASSUME NEW u \in Threads, u # t PROVE (OnPlan(u) /\ Anchored(u) /\ Told(u))'
  BY <1>4, <1>5, <1>7, Untouched DEF ResultInv, settings
<1>8. ran[t] = {} BY <1>4 DEF ResultInv, OnPlan
<1>9. OnPlan(t)'
  BY <1>1, <1>2, <1>3, <1>4, <1>6, <1>8 DEF OnPlan, ForcedPromised
<1>10. Anchored(t)' /\ Told(t)'
  BY <1>3, <1>4 DEF Anchored, Told
<1> QED BY <1>7, <1>9, <1>10 DEF ResultInv

LEMMA AskResult ==
  ASSUME EngineInv, Counted, ResultInv, NEW t \in Threads, Ask(t)
  PROVE  ResultInv'
<1> DEFINE s == Tail(todo[t])
<1> USE DEF EngineInv, Typed, Counted
<1>1. /\ pc[t] = "ask" /\ todo[t] # <<>> /\ Head(todo[t]) = "asking" /\ ran[t] = {}
      /\ "asking" \notin Of(s)
  BY DEF Ask, ResultInv, OnPlan
<1>2. s \in Seq(Stages) /\ Of(todo[t]) = {"asking"} \cup Of(s)
  BY <1>1, OfTail
<1>3. /\ pc' = [pc EXCEPT ![t] = Entry(s)] /\ todo' = [todo EXCEPT ![t] = s]
      /\ UNCHANGED <<tier, preferAlign, call, result, ran, window>>
  BY DEF Ask, Enter, settings, calling
<1>4. \A u \in Threads : u # t => text'[u] = text[u] /\ timing'[u] = timing[u]
  BY DEF Ask
<1>5. timing'[t] # "aligned"
  BY DEF Ask, Payloads, Texts
<1> HIDE DEF s
<1>6. ASSUME NEW u \in Threads, u # t PROVE (OnPlan(u) /\ Anchored(u) /\ Told(u))'
  BY <1>3, <1>4, <1>6, Untouched DEF ResultInv, settings
<1>7. /\ Admitted(tier, call[t]) /\ "unserved" \notin Of(s)
      /\ "diarizing" \in Of(s) <=> Diarized(call[t])
      /\ ForcedPromised(call[t]) => Of(s) \cap Aligners # {}
  BY <1>1, <1>2 DEF ResultInv, OnPlan, Aligners
<1>8. /\ Entry(s) \notin {"idle", "run", "ask", "raise"} /\ (Entry(s) = "finish" => s = <<>>)
  BY <1>1, <1>2, <1>7, EntryPlanned
<1>9. OnPlan(t)'
  BY <1>1, <1>3, <1>5, <1>7, <1>8 DEF OnPlan, ForcedPromised
<1>10. Anchored(t)' BY <1>3, <1>8 DEF Anchored
<1>11. Told(t)' BY <1>3 DEF ResultInv, Told, ForcedPromised
<1> QED BY <1>6, <1>9, <1>10, <1>11 DEF ResultInv

LEMMA RunResult ==
  ASSUME EngineInv, Counted, ResultInv, NEW t \in Threads, Run(t)
  PROVE  ResultInv'
<1> DEFINE s == Tail(todo[t])
           x == Head(todo[t])
<1> USE DEF EngineInv, Typed, Counted
<1>1. /\ pc[t] = "run" /\ todo[t] # <<>>
      /\ Admitted(tier, call[t])
      /\ "unserved" \notin Of(todo[t]) /\ "asking" \notin Of(todo[t])
      /\ "diarizing" \in ran[t] \cup Of(todo[t]) <=> Diarized(call[t])
      /\ ForcedPromised(call[t]) => (ran[t] \cup Of(todo[t])) \cap Aligners # {}
      /\ timing[t] = "aligned" <=> ran[t] \cap Aligners # {}
  BY DEF Run, Placed, ResultInv, OnPlan
<1>2. s \in Seq(Stages) /\ x \in Stages /\ Of(todo[t]) = {x} \cup Of(s)
  BY <1>1, OfTail
<1>3. x \in {"diarizing"} \cup Aligners
  BY <1>1, <1>2 DEF Stages, Aligners
<1>4. /\ pc' = [pc EXCEPT ![t] = Entry(s)] /\ todo' = [todo EXCEPT ![t] = s]
      /\ ran' = [ran EXCEPT ![t] = @ \cup {x}]
      /\ timing' = IF x = "diarizing" THEN timing ELSE [timing EXCEPT ![t] = "aligned"]
      /\ UNCHANGED <<tier, preferAlign, call, result, text, window>>
  BY DEF Run, Enter, settings, calling, Stage
<1>5. Entry(s) \notin {"idle", "run", "ask", "raise"} /\ (Entry(s) = "finish" => s = <<>>)
  BY <1>1, <1>2, EntryPlanned
<1> HIDE DEF s, x
<1>6. ASSUME NEW u \in Threads, u # t PROVE (OnPlan(u) /\ Anchored(u) /\ Told(u))'
  BY <1>4, <1>6, Untouched DEF ResultInv, settings
<1>7. ran'[t] \cup Of(s) = ran[t] \cup Of(todo[t]) /\ ran'[t] = ran[t] \cup {x}
  BY <1>2, <1>4
<1>8. timing'[t] = "aligned" <=> ran'[t] \cap Aligners # {}
  BY <1>1, <1>3, <1>4, <1>7 DEF Aligners
<1>9. "unserved" \notin Of(s) /\ "asking" \notin Of(s)
  BY <1>1, <1>2
<1>10. OnPlan(t)'
  BY <1>1, <1>4, <1>5, <1>7, <1>8, <1>9 DEF OnPlan, ForcedPromised
<1>11. Anchored(t)' /\ Told(t)'
  BY <1>4, <1>5 DEF ResultInv, Anchored, Told, ForcedPromised
<1> QED BY <1>6, <1>10, <1>11 DEF ResultInv

\* Inside a stage a call stays where it is in its plan.
LEMMA InsideResult ==
  ASSUME EngineInv, Counted, ResultInv, NEW t \in Threads,
         Decode(t) \/ Lookup(t) \/ TakeLock(t) \/ Check(t) \/ Load(t) \/ TakeSlot(t)
  PROVE  ResultInv'
<1> USE DEF EngineInv, Typed, Counted
<1>1. /\ pc[t] \notin {"idle", "ask", "finish", "raise"}
      /\ pc' = [pc EXCEPT ![t] = pc'[t]]
      /\ pc'[t] \notin {"idle", "ask", "finish", "raise"}
      /\ UNCHANGED <<tier, preferAlign, todo, call, result, ran, text, timing>>
  BY DEF Decode, Lookup, TakeLock, Check, Load, TakeSlot, Goto, Loaded, settings, locals, calling
<1>2. \A u \in Threads : u # t => window'[u] = window[u]
  BY DEF Decode, Lookup, TakeLock, Check, Load, TakeSlot, locals
<1>3. ASSUME NEW u \in Threads, u # t PROVE (OnPlan(u) /\ Anchored(u) /\ Told(u))'
  BY <1>1, <1>2, <1>3, Untouched DEF ResultInv, settings
<1>4. OnPlan(t)' /\ Told(t)'
  BY <1>1 DEF ResultInv, OnPlan, Told, ForcedPromised
<1>5. Anchored(t)'
  <2>1. CASE TakeSlot(t)
    <3>1. Stage(t) = "aligning" =>
            window'[t] = IF call[t].task = "align" THEN "segments" ELSE Anchor(text[t])
      BY <2>1 DEF TakeSlot
    <3>2. Anchor(text[t]) = "segments" =>
            text[t].segments = "trusted" /\ text[t].words # "implausible"
      BY DEF Anchor
    <3> QED BY <1>1, <3>1, <3>2 DEF Anchored, Stage
  <2>2. CASE ~TakeSlot(t)
    <3>1. pc'[t] # "run"
      BY <2>2 DEF Decode, Lookup, TakeLock, Check, Load, Goto, Loaded
    <3> QED BY <3>1 DEF Anchored
  <2> QED BY <2>1, <2>2
<1> QED BY <1>3, <1>4, <1>5 DEF ResultInv

\* An exception leaves no result, a return leaves the one asked for.
LEMMA EndResult ==
  ASSUME EngineInv, Counted, ResultInv, NEW t \in Threads, Raise(t) \/ Finish(t)
  PROVE  ResultInv'
<1> USE DEF EngineInv, Typed, Counted
<1>1. /\ pc' = [pc EXCEPT ![t] = "idle"] /\ todo' = [todo EXCEPT ![t] = <<>>]
      /\ ran' = [ran EXCEPT ![t] = {}]
      /\ UNCHANGED <<tier, preferAlign, call>>
  BY DEF Raise, Finish, Return, Goto, settings, calling
<1>2. \A u \in Threads : u # t => /\ text'[u] = text[u] /\ timing'[u] = timing[u]
                                  /\ window'[u] = window[u] /\ result'[u] = result[u]
  BY DEF Raise, Finish, Return, calling
<1>3. ASSUME NEW u \in Threads, u # t PROVE (OnPlan(u) /\ Anchored(u) /\ Told(u))'
  BY <1>1, <1>2, <1>3, Untouched DEF ResultInv, settings
<1>4. OnPlan(t)' /\ Anchored(t)'
  BY <1>1 DEF OnPlan, Anchored
<1>5. CASE Raise(t)
  <2>1. result' = result BY <1>5 DEF Raise, calling
  <2> QED BY <1>1, <1>3, <1>4, <2>1 DEF ResultInv, Told, ForcedPromised
<1>6. CASE Finish(t)
  <2>1. /\ pc[t] = "finish" /\ todo[t] = <<>> /\ Of(todo[t]) = {}
        /\ Admitted(tier, call[t])
    BY <1>6, OfShort DEF Finish, ResultInv, OnPlan
  <2>2. /\ "diarizing" \in ran[t] <=> Diarized(call[t])
        /\ ForcedPromised(call[t]) => ran[t] \cap Aligners # {}
        /\ timing[t] = "aligned" <=> ran[t] \cap Aligners # {}
    BY <2>1 DEF ResultInv, OnPlan
  <2>3. PICK rung \in Rungs(t) : result'[t] \in {NoResult, Transcript(t, rung)}
    BY <1>6 DEF Finish
  <2>4. rung = "forced" <=> timing[t] = "aligned"
    BY <2>3 DEF Rungs
  <2>5. call[t].review = (call[t].review /\ "diarizing" \in ran[t])
    <3>1. call[t].review \in BOOLEAN BY RequestsAssumption
    <3>2. call[t].review => Diarized(call[t])
      BY <2>1 DEF Admitted, Valid, ReviewAllowed, Diarized
    <3> QED BY <2>2, <3>1, <3>2
  <2> DEFINE r == Transcript(t, rung)
  <2>6. r.rung = rung /\ r.ran = ran[t]
    BY DEF Transcript
  <2>7. r.speakers = IF call[t].task = "align" THEN "kept"
                     ELSE IF Diarizes(call[t]) THEN "diarized" ELSE "none"
    BY <2>2 DEF Transcript, Diarized
  <2>8. r.review = (call[t].review /\ "diarizing" \in ran[t])
    BY DEF Transcript
  <2> HIDE DEF r
  <2>9. result'[t] # NoResult => result'[t] = r
    BY <2>3 DEF r
  <2>10. r.review = call[t].review
    BY <2>5, <2>8
  <2>11. /\ r.rung = "forced" <=> r.ran \cap Aligners # {}
         /\ ForcedPromised(call[t]) => r.rung = "forced"
    <3>1. r.rung = "forced" <=> ran[t] \cap Aligners # {}
      BY <2>2, <2>4, <2>6
    <3> QED BY <2>2, <2>6, <3>1
  <2>12. Told(t)'
    BY <1>1, <2>7, <2>9, <2>10, <2>11 DEF Told, ForcedPromised
  <2> QED BY <1>3, <1>4, <2>12 DEF ResultInv
<1> QED BY <1>5, <1>6

-----------------------------------------------------------------------------
\* The plan of a call holds from start to end, from which the theorems follow.
LEMMA InitResult == Init => ResultInv
BY DEF Init, ResultInv, OnPlan, Anchored, Told

LEMMA NextResult == EngineInv /\ Counted /\ ResultInv /\ [Next]_vars => ResultInv'
<1> SUFFICES ASSUME EngineInv, Counted, ResultInv, [Next]_vars PROVE ResultInv'
  OBVIOUS
<1>1. CASE UNCHANGED vars
  BY <1>1, Untouched DEF ResultInv, vars, settings, locals, calling
<1>2. CASE Next
  BY <1>2, StartResult, AskResult, RunResult, InsideResult, EndResult DEF Next, Step
<1> QED BY <1>1, <1>2

LEMMA ResultInvariant == Spec => []ResultInv
BY InitResult, NextResult, TypeInvariant, PTL DEF Spec

\* For every set of requests: what admission lets through is served by the
\* deployment it was sent to, with the speakers and the review it asked for.
THEOREM ServedAsAsked == Spec => []ResultAsAsked
<1>1. ASSUME ResultInv PROVE ResultAsAsked
  BY <1>1 DEF ResultInv, OnPlan, Told, Returned, ResultAsAsked
<1> QED BY <1>1, ResultInvariant, PTL

\* For every set of requests and every answer of a provider: a result is
\* reported as forced if and only if its words were aligned to the audio, it is
\* wherever that is promised, and a rejected timeline anchors no alignment.
THEOREM TimesComeFromTheAudio == Spec => []TimedByTheAudio
<1>1. ASSUME ResultInv PROVE TimedByTheAudio
  BY <1>1 DEF ResultInv, Told, Anchored, Returned, Running, Aligners, TimedByTheAudio
<1> QED BY <1>1, ResultInvariant, PTL
=============================================================================
