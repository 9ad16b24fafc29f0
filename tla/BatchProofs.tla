------------------------------ MODULE BatchProofs ------------------------------
(***************************************************************************)
(* Theorems about BatchFuture, for every number of callables and every set *)
(* of max_concurrency values, and about BatchGet.  The argument: IInv      *)
(* places every semaphore slot, coroutine and index, each action keeps it, *)
(* and the properties follow from it state by state.  A caller of Get is a *)
(* script of BatchFuture, so what is proved of the coroutines holds under  *)
(* it, and what Get writes into the caller's slice is what the futures of  *)
(* the batch became.                                                       *)
(***************************************************************************)
EXTENDS BatchGet, FiniteSetTheorems, SequenceTheorems, TLAPS

-----------------------------------------------------------------------------
(* Sets of indexes *)

\* Every set of indexes is finite, so the counters below count something.
LEMMA IdxSetsFinite ==
  \A S \in SUBSET Idx : IsFiniteSet(S) /\ Cardinality(S) \in Nat
<1>1. IsFiniteSet(Idx)
  BY NAssumption, FS_Interval DEF Idx
<1>2. QED
  BY <1>1, FS_Subset, FS_CardinalityType

\* The coroutines live before and after a step are such sets.
LEMMA LiveFinite ==
  /\ IsFiniteSet(Live) /\ Cardinality(Live) \in Nat
  /\ IsFiniteSet(Live') /\ Cardinality(Live') \in Nat
<1>1. Live \in SUBSET Idx /\ Live' \in SUBSET Idx
  BY DEF Live
<1>2. QED
  BY <1>1, IdxSetsFinite

-----------------------------------------------------------------------------
(* The inductive invariant *)

LEMMA InitInv == Init => IInv
<1> SUFFICES ASSUME Init PROVE IInv
  OBVIOUS
<1>1. batchSize \in Int
  BY NAssumption, MaxConcurrencyAssumption DEF Init, EffectiveLimit
<1>2. TypeOK
  <2>1. /\ worker \in [Idx -> WorkerState] /\ calls \in [Idx -> Nat]
        /\ task \in [Idx -> TaskState] /\ future \in [Idx -> FutureState]
    BY DEF Init, WorkerState, TaskState, FutureState
  <2>2. /\ permits \in Nat /\ next \in 0..N
        /\ wg \in 0..2 /\ wgForFutures \in Nat
    BY NAssumption DEF Init
  <2>3. closed \in BOOLEAN /\ sub \in SubState /\ proc \in ProcState /\ getter \in GetterState /\ result = <<>>
    BY DEF Init, SubState, ProcState, GetterState
  <2>4. QED
    BY <1>1, <2>1, <2>2, <2>3 DEF TypeOK
<1>3. Cardinality(Live) = 0
  <2>1. Live = {}
    BY DEF Init, Live
  <2>2. QED
    BY <2>1, FS_EmptySet
<1>4. PermitInv
  BY <1>3 DEF Init, PermitInv
<1>5. SubmitInv
  BY NAssumption DEF Init, SubmitInv, Idx
<1>6. WorkerInv /\ GetInv
  BY DEF Init, WorkerInv, GetInv, Outcome
<1>7. QED
  BY <1>2, <1>4, <1>5, <1>6 DEF IInv

\* A step that leaves worker alone leaves the live coroutines alone.
LEMMA LiveUnchanged == worker' = worker => Live' = Live
BY DEF Live

LEMMA AcquireInv == IInv /\ Acquire => IInv'
<1> SUFFICES ASSUME IInv, Acquire PROVE IInv'
  OBVIOUS
<1>1. Live' = Live
  BY LiveUnchanged DEF Acquire
<1>2. TypeOK'
  BY DEF IInv, TypeOK, Acquire, SubState
<1>3. PermitInv'
  BY <1>1, LiveFinite DEF IInv, TypeOK, PermitInv, Acquire, HasRoom
<1>4. SubmitInv'
  BY <1>1 DEF IInv, SubmitInv, Acquire
<1>5. WorkerInv' /\ GetInv'
  BY DEF IInv, WorkerInv, GetInv, Acquire
<1>6. QED
  BY <1>2, <1>3, <1>4, <1>5 DEF IInv

LEMMA HandOverInv == IInv /\ HandOver => IInv'
<1> SUFFICES ASSUME IInv, HandOver PROVE IInv'
  OBVIOUS
<1>1. next \in Idx /\ worker[next] = "none"
  BY NAssumption DEF IInv, TypeOK, SubmitInv, HandOver, Idx
<1>2. worker' = [worker EXCEPT ![next] = "spawned"] /\ worker \in [Idx -> WorkerState]
  BY DEF IInv, TypeOK, HandOver
<1>3. Live' = Live \cup {next} /\ next \notin Live
  BY <1>1, <1>2 DEF Live
<1>4. Cardinality(Live') = Cardinality(Live) + 1
  BY <1>3, LiveFinite, FS_AddElement
<1>5. TypeOK'
  <2>1. worker' \in [Idx -> WorkerState]
    BY <1>1, <1>2 DEF WorkerState
  <2>2. next' \in 0..N
    BY <1>1, NAssumption DEF HandOver, Idx
  <2>3. wgForFutures' \in Nat /\ sub' \in SubState
    BY DEF IInv, TypeOK, HandOver, SubState
  <2>4. QED
    BY <2>1, <2>2, <2>3 DEF IInv, TypeOK, HandOver
<1>6. PermitInv'
  BY <1>4, LiveFinite DEF IInv, TypeOK, PermitInv, HandOver
<1>7. SubmitInv'
  <2>1. \A i \in Idx : worker'[i] = "none" <=> i >= next'
    BY <1>1, <1>2, NAssumption DEF IInv, SubmitInv, HandOver, Idx
  <2>2. QED
    BY <2>1 DEF IInv, SubmitInv, HandOver
<1>8. WorkerInv'
  BY <1>1, <1>2 DEF IInv, WorkerInv, HandOver
<1>9. GetInv'
  BY DEF IInv, GetInv, HandOver
<1>10. QED
  BY <1>5, <1>6, <1>7, <1>8, <1>9 DEF IInv

LEMMA CloseWorkInv == IInv /\ CloseWork => IInv'
<1> SUFFICES ASSUME IInv, CloseWork PROVE IInv'
  OBVIOUS
<1>1. Live' = Live
  BY LiveUnchanged DEF CloseWork
<1>2. proc = "receive"
  BY DEF IInv, TypeOK, SubmitInv, CloseWork
<1>3. TypeOK'
  BY <1>2 DEF IInv, TypeOK, GetInv, CloseWork, SubState
<1>4. PermitInv' /\ SubmitInv'
  BY <1>1, <1>2 DEF IInv, PermitInv, SubmitInv, CloseWork
<1>5. WorkerInv' /\ GetInv'
  BY <1>2 DEF IInv, WorkerInv, GetInv, CloseWork
<1>6. QED
  BY <1>3, <1>4, <1>5 DEF IInv

LEMMA ProcessorInv == IInv /\ Processor => IInv'
<1> SUFFICES ASSUME IInv, Processor PROVE IInv'
  OBVIOUS
<1>1. Live' = Live
  BY LiveUnchanged DEF Processor, EndReceive, EndProcessor
<1>2. CASE EndReceive
  <2>1. TypeOK'
    BY <1>2 DEF IInv, TypeOK, EndReceive, ProcState
  <2>2. PermitInv' /\ SubmitInv' /\ WorkerInv' /\ GetInv'
    BY <1>1, <1>2 DEF IInv, PermitInv, SubmitInv, WorkerInv, GetInv, EndReceive
  <2>3. QED
    BY <2>1, <2>2 DEF IInv
<1>3. CASE EndProcessor
  <2>1. sub = "done"
    BY <1>3 DEF IInv, SubmitInv, EndProcessor
  <2>2. Live = {}
    BY <1>3, LiveFinite, FS_EmptySet DEF IInv, PermitInv, EndProcessor
  <2>3. TypeOK'
    BY <1>3, <2>1 DEF IInv, TypeOK, GetInv, EndProcessor, ProcState
  <2>4. PermitInv' /\ SubmitInv' /\ WorkerInv'
    BY <1>1, <1>3, <2>1, <2>2 DEF IInv, PermitInv, SubmitInv, WorkerInv, EndProcessor
  <2>5. GetInv'
    BY <1>3, <2>1 DEF IInv, TypeOK, GetInv, EndProcessor
  <2>6. QED
    BY <2>3, <2>4, <2>5 DEF IInv
<1>4. QED
  BY <1>2, <1>3 DEF Processor

LEMMA StartTaskInv == ASSUME NEW i \in Idx PROVE IInv /\ StartTask(i) => IInv'
<1> SUFFICES ASSUME IInv, StartTask(i) PROVE IInv'
  OBVIOUS
<1>1. worker[i] = "spawned" /\ worker' = [worker EXCEPT ![i] = "get"] /\ worker \in [Idx -> WorkerState]
  BY DEF IInv, TypeOK, StartTask
<1>2. Live' = Live
  BY <1>1 DEF Live
<1>3. TypeOK'
  BY DEF IInv, TypeOK, StartTask, WorkerState, TaskState
<1>4. PermitInv' /\ GetInv'
  <2>1. getter \in {"idle", "wait"}
    <3>1. i \in Live
      BY <1>1 DEF Live
    <3>2. QED
      BY <3>1 DEF IInv, TypeOK, SubmitInv, GetInv, GetterState
  <2>2. QED
    BY <1>2, <2>1 DEF IInv, PermitInv, GetInv, StartTask
<1>5. SubmitInv'
  BY <1>1, <1>2 DEF IInv, SubmitInv, StartTask
<1>6. WorkerInv'
  BY <1>1 DEF IInv, TypeOK, WorkerInv, StartTask, Outcome
<1>7. QED
  BY <1>3, <1>4, <1>5, <1>6 DEF IInv

LEMMA FinishTaskInv ==
  ASSUME NEW i \in Idx, NEW o \in Outcome PROVE IInv /\ FinishTask(i, o) => IInv'
<1> SUFFICES ASSUME IInv, FinishTask(i, o) PROVE IInv'
  OBVIOUS
<1>1. Live' = Live
  BY LiveUnchanged DEF FinishTask
<1>2. i \in Live
  BY DEF IInv, WorkerInv, FinishTask, Live
<1>3. getter \in {"idle", "wait"}
  BY <1>2 DEF IInv, TypeOK, SubmitInv, GetInv, GetterState
<1>4. TypeOK'
  BY DEF IInv, TypeOK, FinishTask, TaskState, FutureState
<1>5. PermitInv' /\ SubmitInv' /\ GetInv'
  BY <1>1, <1>3 DEF IInv, PermitInv, SubmitInv, GetInv, FinishTask
<1>6. WorkerInv'
  BY DEF IInv, TypeOK, WorkerInv, FinishTask, Outcome
<1>7. QED
  BY <1>4, <1>5, <1>6 DEF IInv

LEMMA ReleaseInv == ASSUME NEW i \in Idx PROVE IInv /\ Release(i) => IInv'
<1> SUFFICES ASSUME IInv, Release(i) PROVE IInv'
  OBVIOUS
<1>1. worker[i] = "get" /\ worker' = [worker EXCEPT ![i] = "done"] /\ worker \in [Idx -> WorkerState]
  BY DEF IInv, TypeOK, Release
<1>2. Live' = Live \ {i} /\ i \in Live
  BY <1>1 DEF Live
<1>3. Cardinality(Live') = Cardinality(Live) - 1
  BY <1>2, LiveFinite, FS_RemoveElement
<1>4. TypeOK'
  <2>1. permits' \in Nat /\ wgForFutures' \in Nat
    BY <1>3, LiveFinite DEF IInv, TypeOK, PermitInv, Release
  <2>2. worker' \in [Idx -> WorkerState]
    BY <1>1 DEF WorkerState
  <2>3. QED
    BY <2>1, <2>2 DEF IInv, TypeOK, Release
<1>5. PermitInv'
  BY <1>3, LiveFinite DEF IInv, TypeOK, PermitInv, Release
<1>6. SubmitInv'
  BY <1>1, <1>2 DEF IInv, SubmitInv, Release
<1>7. WorkerInv' /\ GetInv'
  BY <1>1 DEF IInv, WorkerInv, GetInv, Release, Outcome
<1>8. QED
  BY <1>4, <1>5, <1>6, <1>7 DEF IInv

\* get() reads the futures after both coroutines have ended, hence all of
\* them are resolved and the slice it fills is the tasks' outcomes.
LEMMA DeliveredIsTask ==
  ASSUME IInv, IsReady
  PROVE  /\ future = task
         /\ \A i \in Idx : task[i] \in Outcome
<1>1. \A i \in Idx : task[i] \in Outcome /\ future[i] = task[i]
  BY DEF IInv, WorkerInv, IsReady
<1>2. QED
  BY <1>1 DEF IInv, TypeOK

LEMMA ScriptInv == IInv /\ Script => IInv'
<1> SUFFICES ASSUME IInv, Script PROVE IInv'
  OBVIOUS
<1>1. Live' = Live
  BY LiveUnchanged DEF Script, CallGet, GetReturn
<1>2. PermitInv' /\ SubmitInv' /\ WorkerInv'
  BY <1>1 DEF IInv, PermitInv, SubmitInv, WorkerInv, Script, CallGet, GetReturn
<1>3. CASE CallGet
  BY <1>2, <1>3 DEF IInv, TypeOK, GetInv, CallGet, GetterState
<1>4. CASE GetReturn
  <2>1. future = task
    BY <1>4, DeliveredIsTask DEF GetReturn
  <2>2. sub = "done" /\ proc = "done"
    BY <1>4 DEF IInv, TypeOK, GetInv, GetReturn
  <2>3. TypeOK'
    BY <1>4 DEF IInv, TypeOK, GetReturn, GetterState
  <2>4. GetInv'
    BY <1>4, <2>1, <2>2 DEF IInv, GetInv, GetReturn
  <2>5. QED
    BY <1>2, <2>3, <2>4 DEF IInv
<1>5. QED
  BY <1>3, <1>4 DEF Script

LEMMA NextInv == IInv /\ [Next]_vars => IInv'
<1> SUFFICES ASSUME IInv, [Next]_vars PROVE IInv'
  OBVIOUS
<1>1. CASE Submitter
  BY <1>1, AcquireInv, HandOverInv, CloseWorkInv DEF Submitter
<1>2. CASE Processor
  BY <1>2, ProcessorInv
<1>3. ASSUME NEW i \in Idx, Worker(i) \/ Task(i) PROVE IInv'
  BY <1>3, StartTaskInv, ReleaseInv, FinishTaskInv DEF Worker, Task
<1>4. CASE Script
  BY <1>4, ScriptInv
<1>5. CASE UNCHANGED vars
  <2>1. Live' = Live
    BY <1>5, LiveUnchanged DEF vars
  <2>2. QED
    BY <1>5, <2>1 DEF vars, IInv, TypeOK, PermitInv, SubmitInv, WorkerInv, GetInv
<1>6. QED
  BY <1>1, <1>2, <1>3, <1>4, <1>5 DEF Next

\* The state of the batch future is always the one IInv describes: each slot
\* of the semaphore belongs to a live coroutine or to the submitter.
THEOREM Invariance == Spec => []IInv
<1>1. QED
  BY InitInv, NextInv, PTL DEF Spec

\* Every variable keeps its type; in particular no counter goes negative,
\* which would make the wait groups panic.
THEOREM TypeCorrect == Spec => []TypeOK
<1>1. IInv => TypeOK
  BY DEF IInv
<1>2. QED
  BY <1>1, Invariance, PTL

-----------------------------------------------------------------------------
(* What follows from the invariant *)

\* A running callable has a live coroutine, which holds a slot.
LEMMA RunningIsLive ==
  ASSUME IInv
  PROVE  /\ Running \subseteq Live
         /\ Cardinality(Running) \in Nat
         /\ Cardinality(Running) <= Cardinality(Live)
<1>1. Running \subseteq Live
  BY DEF IInv, WorkerInv, Running, Live
<1>2. Running \in SUBSET Idx
  BY DEF Running
<1>3. QED
  BY <1>1, <1>2, IdxSetsFinite, LiveFinite, FS_Subset

\* max_concurrency is respected, whatever the order in which the scheduler
\* resumes submitter, processor and the coroutines of the indexes.
THEOREM ConcurrencyBounded == Spec => []ConcurrencyBound
<1>1. IInv => ConcurrencyBound
  BY RunningIsLive, LiveFinite DEF IInv, TypeOK, PermitInv, ConcurrencyBound
<1>2. QED
  BY <1>1, Invariance, PTL

\* No factory is invoked twice, and none is left out of a batch that get()
\* has returned.
THEOREM FactoriesOnce == Spec => []EachFactoryOnce
<1>1. IInv => EachFactoryOnce
  <2> SUFFICES ASSUME IInv, NEW i \in Idx
               PROVE  calls[i] <= 1 /\ (getter \in {"values", "error"} => calls[i] = 1)
    BY DEF EachFactoryOnce
  <2>1. calls[i] <= 1
    BY DEF IInv, WorkerInv
  <2>2. ASSUME getter \in {"values", "error"} PROVE calls[i] = 1
    <3>1. worker[i] # "none" /\ i \notin Live
      BY <2>2, NAssumption DEF IInv, SubmitInv, GetInv, Idx
    <3>2. QED
      BY <3>1 DEF IInv, WorkerInv, Live
  <2>3. QED
    BY <2>1, <2>2
<1>2. QED
  BY <1>1, Invariance, PTL

\* Once get() returns, the whole machinery has come to rest and the results
\* are those of the callables, in their order.
THEOREM GetComplete == Spec => []GetIsComplete
<1>1. IInv => GetIsComplete
  <2> SUFFICES ASSUME IInv, getter \in {"values", "error"}
               PROVE  /\ sub = "done" /\ proc = "done" /\ Live = {} /\ permits = 0
                      /\ result = task /\ \A i \in Idx : task[i] \in Outcome
    BY DEF GetIsComplete
  <2>1. sub = "done" /\ proc = "done" /\ result = task /\ Live = {}
    BY DEF IInv, SubmitInv, GetInv
  <2>2. permits = 0
    BY <2>1, FS_EmptySet DEF IInv, PermitInv
  <2>3. ASSUME NEW i \in Idx PROVE task[i] \in Outcome
    <3>1. worker[i] # "none" /\ i \notin Live
      BY <2>1, NAssumption DEF IInv, SubmitInv, Idx
    <3>2. task[i] # "none" /\ task[i] # "running"
      BY <3>1 DEF IInv, WorkerInv, Live
    <3>3. QED
      BY <3>2 DEF IInv, TypeOK, TaskState
  <2>4. QED
    BY <2>1, <2>2, <2>3
<1>2. QED
  BY <1>1, Invariance, PTL

\* A negative max_concurrency starts nothing and get() never returns.
THEOREM NegativeStalls == Spec => []NegativeLimitStalls
<1>1. IInv => NegativeLimitStalls
  <2> SUFFICES ASSUME IInv, batchSize < 0, N > 0
               PROVE  /\ \A i \in Idx : task[i] = "none"
                      /\ getter \notin {"values", "error"}
    BY DEF NegativeLimitStalls
  <2>1. next = 0 /\ sub # "done"
    BY DEF IInv, PermitInv, SubmitInv
  <2>2. getter \notin {"values", "error"}
    BY <2>1 DEF IInv, GetInv
  <2>3. \A i \in Idx : task[i] = "none"
    BY <2>1, NAssumption DEF IInv, SubmitInv, WorkerInv, Idx
  <2>4. QED
    BY <2>2, <2>3
<1>2. QED
  BY <1>1, Invariance, PTL

\* The level is kept: when no coroutine of the batch can move, the slots
\* taken are those of running callables, and either all slots are taken or
\* every unfinished callable is running.
THEOREM LevelKept == Spec => []KeepsLevel
<1>1. IInv => KeepsLevel
  <2> SUFFICES ASSUME IInv, Quiet, batchSize >= 0
               PROVE  Cardinality(Running) =
                        IF Cardinality(Unfinished) < batchSize
                        THEN Cardinality(Unfinished) ELSE batchSize
    BY DEF KeepsLevel
  <2>1. Running = Live
    <3>1. Live \subseteq Running
      BY DEF Quiet, Live, Running
    <3>2. QED
      BY <3>1, RunningIsLive
  <2>2. permits = Cardinality(Running)
    BY <2>1, LiveFinite DEF IInv, PermitInv, Quiet
  <2>3. /\ Cardinality(Unfinished) \in Nat
        /\ Cardinality(Running) <= Cardinality(Unfinished)
    <3>1. Unfinished \in SUBSET Idx /\ Running \in SUBSET Unfinished
      BY DEF Unfinished, Running, Outcome
    <3>2. QED
      BY <3>1, IdxSetsFinite, FS_Subset
  <2>4. CASE sub = "acquire" /\ next < N /\ ~HasRoom
    BY <2>2, <2>3, <2>4 DEF IInv, TypeOK, PermitInv, HasRoom
  <2>5. CASE sub = "done"
    <3>1. ASSUME NEW i \in Unfinished PROVE i \in Running
      <4>1. i \in Idx /\ task[i] \notin Outcome
        BY <3>1 DEF Unfinished
      <4>2. worker[i] # "none"
        BY <2>5, <4>1, NAssumption DEF IInv, SubmitInv, Idx
      <4>3. CASE i \in Live
        BY <2>1, <4>3
      <4>4. CASE i \notin Live
        BY <4>1, <4>2, <4>4 DEF IInv, TypeOK, WorkerInv, TaskState, WorkerState, Live
      <4>5. QED
        BY <4>3, <4>4
    <3>2. Unfinished = Running
      BY <3>1 DEF Unfinished, Running, Outcome
    <3>3. QED
      BY <2>2, <2>3, <3>2 DEF IInv, TypeOK, PermitInv
  <2>6. QED
    BY <2>4, <2>5 DEF Quiet
<1>2. QED
  BY <1>1, Invariance, PTL

-----------------------------------------------------------------------------
(* Refinement *)

\* BatchPool counts with its own instance of FiniteSets; it is the same count.
LEMMA SameCardinality == \A S : Pool!Cardinality(S) = Cardinality(S)
BY Zenon DEF Pool!Cardinality, Cardinality

LEMMA RefineInit == Init => Pool!PoolInit
<1>1. Init => batchSize \in Int
  BY InitInv DEF IInv, TypeOK
<1>2. QED
  BY <1>1 DEF Init, Pool!PoolInit, Idx, Pool!Idx

\* Starting a callable is a start of the pool: it is live and not running,
\* so fewer callables than slots run.
LEMMA RefineStart ==
  ASSUME NEW i \in Idx, IInv, StartTask(i)
  PROVE  Pool!PoolStart(i)
<1>1. i \in Live /\ i \notin Running
  BY DEF IInv, WorkerInv, StartTask, Live, Running
<1>2. Cardinality(Running) < Cardinality(Live)
  BY <1>1, RunningIsLive, LiveFinite, FS_Subset
<1>3. Cardinality(Live) <= batchSize /\ batchSize >= 0
  <2>1. Cardinality(Live) # 0
    BY <1>1, LiveFinite, FS_EmptySet
  <2>2. QED
    BY <2>1, LiveFinite DEF IInv, TypeOK, PermitInv
<1>4. Cardinality({j \in Pool!Idx : task[j] = "running"}) < Pool!Limit(batchSize)
  <2>1. {j \in Pool!Idx : task[j] = "running"} = Running
    BY DEF Running, Idx, Pool!Idx
  <2>2. Pool!Limit(batchSize) = batchSize
    BY <1>3 DEF IInv, TypeOK, Pool!Limit
  <2>3. Cardinality(Running) < batchSize
    BY <1>2, <1>3, RunningIsLive, LiveFinite DEF IInv, TypeOK
  <2>4. QED
    BY <2>1, <2>2, <2>3, Zenon
<1>5. task[i] = "none"
  BY DEF IInv, WorkerInv, StartTask
<1>6. task' = [task EXCEPT ![i] = "running"] /\ UNCHANGED <<batchSize, result>>
  BY DEF StartTask
<1>7. QED
  BY <1>4, <1>5, <1>6, SameCardinality, Zenon DEF Pool!PoolStart

LEMMA RefineGet == IInv /\ GetReturn => Pool!PoolDeliver
<1> SUFFICES ASSUME IInv, GetReturn PROVE Pool!PoolDeliver
  OBVIOUS
<1>1. future = task /\ \A i \in Idx : task[i] \in Outcome
  BY DeliveredIsTask DEF GetReturn
<1>2. result = <<>>
  BY DEF IInv, GetInv, GetReturn
<1>3. QED
  BY <1>1, <1>2 DEF GetReturn, Pool!PoolDeliver, Idx, Pool!Idx, Outcome, Pool!Outcome

LEMMA RefineNext == IInv /\ [Next]_vars => [Pool!PoolNext]_(Pool!poolVars)
<1> SUFFICES ASSUME IInv, [Next]_vars PROVE [Pool!PoolNext]_(Pool!poolVars)
  OBVIOUS
<1> USE DEF Pool!poolVars
<1>1. CASE Submitter
  BY <1>1 DEF Submitter, Acquire, HandOver, CloseWork
<1>2. CASE Processor
  BY <1>2 DEF Processor, EndReceive, EndProcessor
<1>3. ASSUME NEW i \in Idx, StartTask(i) PROVE Pool!PoolNext
  BY <1>3, RefineStart DEF Pool!PoolNext, Idx, Pool!Idx
<1>4. ASSUME NEW i \in Idx, Release(i) PROVE UNCHANGED Pool!poolVars
  BY <1>4 DEF Release
<1>5. ASSUME NEW i \in Idx, NEW o \in Outcome, FinishTask(i, o) PROVE Pool!PoolNext
  <2>1. Pool!PoolFinish(i, o)
    BY <1>5 DEF FinishTask, Pool!PoolFinish
  <2>2. QED
    BY <2>1 DEF Pool!PoolNext, Idx, Pool!Idx, Outcome, Pool!Outcome
<1>6. CASE CallGet
  BY <1>6 DEF CallGet
<1>7. CASE GetReturn
  BY <1>7, RefineGet DEF Pool!PoolNext
<1>8. CASE UNCHANGED vars
  BY <1>8 DEF vars
<1>9. QED
  BY <1>1, <1>2, <1>3, <1>4, <1>5, <1>6, <1>7, <1>8 DEF Next, Worker, Task, Script

\* The coroutines, channels and wait groups implement the pool: a script sees
\* no more than callables that start, end, and are handed over together.
THEOREM ImplementsPool == Spec => PoolSpec
<1>1. QED
  BY RefineInit, RefineNext, Invariance, PTL DEF Spec, PoolSpec, Pool!PoolSpec

-----------------------------------------------------------------------------
(* The caller of Get *)

\* Elements of a slice: k is the index the caller had one of its own at.
Elements == {Zero} \cup {Old(k) : k \in 1..MaxCap} \cup {Value(k) : k \in 1..N}

\* The slice a future's error leaves element k of.
Untouched(k) == array[k] = Zero \/ (k \in DOMAIN before /\ array[k] = before[k])

\* The caller's steps fit the getter of BatchFuture.
StepInv ==
  /\ pc \in {"check", "refused", "panic"} <=> getter = "idle"
  /\ pc \in {"wait", "loop"} <=> getter = "wait"
  /\ pc \in {"check", "wait"} => pos = 1
  /\ pc = "returned" => pos = N + 1
  /\ pc = "refused" => ptr = "other"
  /\ pc \in {"wait", "loop", "returned"} => ptr \in {"nil", "slice"}

SliceInv ==
  /\ array \in Seq(Elements) /\ before \in Seq({Old(k) : k \in 1..MaxCap})
  /\ pc = "check" => array = before
  /\ pc \in {"wait", "loop", "returned"} /\ ptr = "slice" => len = N

\* The loop has read the futures before pos, which are ready for good.
LoopInv ==
  /\ \A k \in 1..N : k < pos => FutureOf(k) # "unset"
  /\ errs = {k \in 1..N : k < pos /\ FutureOf(k) = "err"}
  /\ \A k \in DOMAIN array :
       IF ptr = "slice" /\ k <= N /\ k < pos /\ FutureOf(k) = "ok"
       THEN array[k] = Value(k) ELSE Untouched(k)

GInv == IInv /\ GetTypeOK /\ StepInv /\ SliceInv /\ LoopInv /\ FullSliceFits

-----------------------------------------------------------------------------
(* A caller of Get does what a script of BatchFuture may do *)

LEMMA StepIsBatchStep == [GetNext]_gvars => [Next]_vars
<1> SUFFICES ASSUME [GetNext]_gvars PROVE [Next]_vars
  OBVIOUS
<1>1. CASE UNCHANGED caller /\ (Submitter \/ Processor)
  BY <1>1 DEF Next
<1>2. CASE UNCHANGED caller /\ \E i \in Idx : Worker(i) \/ Task(i)
  BY <1>2 DEF Next
<1>3. CASE CheckNil
  BY <1>3 DEF CheckNil, Next, Script
<1>4. CASE Refuse
  BY <1>4 DEF Refuse, vars
<1>5. CASE Resize
  BY <1>5 DEF Resize, Next, Script, vars
<1>6. CASE GetGoesOn
  BY <1>6 DEF GetGoesOn, WaitReturns, ReadFuture, Return, Next, Script, vars
<1>7. CASE UNCHANGED gvars
  BY <1>7 DEF gvars
<1>. QED  BY <1>1, <1>2, <1>3, <1>4, <1>5, <1>6, <1>7 DEF GetNext

\* Every behaviour of a batch and its caller is one of BatchFuture: each
\* theorem about BatchFuture holds of it.
THEOREM CallerIsScript == GetSpec => Spec
<1>1. GetInit => Init
  BY DEF GetInit
<1>. QED  BY <1>1, StepIsBatchStep, PTL DEF GetSpec, Spec

-----------------------------------------------------------------------------
LEMMA GetInitInv == GetInit => GInv
<1> SUFFICES ASSUME GetInit PROVE GInv
  OBVIOUS
<1>1. IInv /\ TypeOK
  BY InitInv DEF GetInit, IInv
<1>2. PICK c \in 0..MaxCap : array = [k \in 1..c |-> Old(k)] /\ len \in 0..c
  BY MaxCapAssumption DEF GetInit
<1>3. c \in Nat /\ Len(array) = c /\ DOMAIN array = 1..c /\ before = array
  BY <1>2 DEF GetInit
<1>4. pc = "check" /\ pos = 1 /\ errs = {} /\ getter = "idle" /\ ptr \in {"nil", "slice", "other"}
  BY DEF GetInit, Init
<1>5. GetTypeOK
  BY <1>1, <1>2, <1>3, <1>4, NAssumption DEF GetTypeOK, Cap
<1>6. StepInv
  BY <1>4 DEF StepInv
<1>7. SliceInv
  <2>1. \A k \in 1..c : array[k] = Old(k) /\ k \in 1..MaxCap
    BY <1>2, MaxCapAssumption
  <2>2. array \in Seq({Old(k) : k \in 1..MaxCap})
    BY <1>2, <1>3, <2>1
  <2>3. array \in Seq(Elements)
    BY <1>2, <1>3, <2>1 DEF Elements
  <2>. QED  BY <2>2, <2>3, <1>3, <1>4 DEF SliceInv
<1>8. LoopInv
  <2>1. \A k \in 1..N : ~(k < pos)
    BY <1>4, NAssumption
  <2>2. \A k \in DOMAIN array : k <= N => ~(k < pos)
    BY <1>3, <1>4
  <2>3. \A k \in DOMAIN array : Untouched(k)
    BY <1>3 DEF Untouched
  <2>. QED  BY <2>1, <2>2, <2>3, <1>4 DEF LoopInv
<1>9. FullSliceFits
  BY <1>4 DEF FullSliceFits
<1>. QED  BY <1>1, <1>5, <1>6, <1>7, <1>8, <1>9 DEF GInv

\* The coroutines resolve futures the loop has not read.
LEMMA BatchStepInv ==
  ASSUME GInv, UNCHANGED caller, getter' = getter, IInv',
         \A i \in Idx : future[i] # "unset" => future'[i] = future[i]
  PROVE  GInv'
<1>1. GetTypeOK' /\ FullSliceFits' /\ StepInv' /\ SliceInv'
  BY DEF GInv, IInv, GetTypeOK, FullSliceFits, StepInv, SliceInv, caller, Cap, Elements,
         Zero, Old, Value
<1>2. \A k \in 1..N : k < pos => FutureOf(k)' = FutureOf(k)
  <2>1. \A k \in 1..N : k - 1 \in Idx
    BY NAssumption DEF Idx
  <2>. QED  BY <2>1 DEF GInv, LoopInv, FutureOf
<1>3. LoopInv'
  <2>1. \A k \in DOMAIN array : k <= N => k \in 1..N
    BY DEF GInv, SliceInv
  <2>. QED  BY <1>2, <2>1 DEF GInv, LoopInv, Untouched, caller, Value, Zero
<1>. QED  BY <1>1, <1>3 DEF GInv

LEMMA CoroutinesInv ==
  ASSUME GInv, UNCHANGED caller,
         (Submitter \/ Processor) \/ \E i \in Idx : Worker(i) \/ Task(i)
  PROVE  GInv'
<1>1. IInv'
  BY NextInv DEF GInv, Next
<1>2. CASE Submitter \/ Processor
  <2>1. getter' = getter /\ future' = future
    BY <1>2 DEF Submitter, Acquire, HandOver, CloseWork, Processor, EndReceive, EndProcessor
  <2>. QED  BY <1>1, <2>1, BatchStepInv
<1>3. ASSUME NEW i \in Idx, Worker(i) PROVE GInv'
  <2>1. getter' = getter /\ future' = future
    BY <1>3 DEF Worker, StartTask, Release
  <2>. QED  BY <1>1, <2>1, BatchStepInv
<1>4. ASSUME NEW i \in Idx, NEW o \in Outcome, FinishTask(i, o) PROVE GInv'
  <2>1. future[i] = "unset"
    BY <1>4 DEF GInv, IInv, WorkerInv, FinishTask, Outcome
  <2>2. getter' = getter /\ future' = [future EXCEPT ![i] = o] /\ future \in [Idx -> FutureState]
    BY <1>4 DEF FinishTask, GInv, IInv, TypeOK
  <2>3. \A j \in Idx : future[j] # "unset" => future'[j] = future[j]
    BY <2>1, <2>2
  <2>. QED  BY <1>1, <2>2, <2>3, BatchStepInv
<1>. QED  BY <1>2, <1>3, <1>4 DEF Task

-----------------------------------------------------------------------------
(* The caller's steps *)

\* A step of the caller that leaves the slice and the futures as they are.
LEMMA KeepSliceInv ==
  ASSUME GInv, IInv', StepInv', pc' \in {"wait", "loop", "returned", "refused"},
         UNCHANGED <<future, ptr, array, len, before, pos, errs>>,
         pc' \in {"wait", "loop", "returned"} /\ ptr = "slice" => len = N
  PROVE  GInv'
<1>1. GetTypeOK' /\ FullSliceFits'
  BY DEF GInv, IInv, GetTypeOK, FullSliceFits, Cap
<1>2. SliceInv'
  BY DEF GInv, SliceInv, Elements, Zero, Old, Value
<1>3. LoopInv'
  BY DEF GInv, LoopInv, FutureOf, Untouched, Zero, Value
<1>. QED  BY <1>1, <1>2, <1>3 DEF GInv

LEMMA CallerNextInv ==
  ASSUME GInv, CheckNil \/ Refuse \/ WaitReturns \/ Return
  PROVE  GInv'
<1>1. [Next]_vars
  BY DEF CheckNil, Refuse, WaitReturns, Return, Next, Script, vars
<1>2. IInv'
  BY <1>1, NextInv DEF GInv
<1>3. UNCHANGED <<future, ptr, array, len, before, pos, errs>>
  BY DEF CheckNil, Refuse, WaitReturns, Return, CallGet, GetReturn, vars
<1>4. pc' \in {"wait", "loop", "returned", "refused"}
  BY DEF CheckNil, Refuse, WaitReturns, Return
<1>5. StepInv'
  <2>1. CASE CheckNil
    BY <2>1 DEF CheckNil, CallGet, GInv, StepInv
  <2>2. CASE Refuse
    BY <2>2 DEF Refuse, GInv, StepInv, vars
  <2>3. CASE WaitReturns
    BY <2>3 DEF WaitReturns, GInv, StepInv, vars
  <2>4. CASE Return
    <3>1. pos = N + 1
      BY <2>4, NAssumption DEF Return, GInv, GetTypeOK
    <3>2. pc = "loop" /\ pc' = "returned" /\ getter' \in {"values", "error"}
      BY <2>4 DEF Return, GetReturn
    <3>3. ptr \in {"nil", "slice"}
      BY <3>2 DEF GInv, StepInv
    <3>. QED  BY <1>3, <3>1, <3>2, <3>3 DEF StepInv
  <2>. QED  BY <2>1, <2>2, <2>3, <2>4
<1>6. pc' \in {"wait", "loop", "returned"} /\ ptr = "slice" => len = N
  BY DEF CheckNil, Refuse, WaitReturns, Return, GInv, SliceInv
<1>. QED  BY <1>2, <1>3, <1>4, <1>5, <1>6, KeepSliceInv

\* What Resize makes of the array: at the capacity asked for, the caller's
\* elements and zero ones.
LEMMA ResizedArray ==
  ASSUME GInv, pc = "check", NEW c \in Nat,
         array' = IF c = Cap THEN array
                  ELSE [k \in 1..c |-> IF k <= Cap THEN array[k] ELSE Zero],
         before' = before
  PROVE  /\ array' \in Seq(Elements) /\ Len(array') = c /\ DOMAIN array' = 1..c
         /\ \A k \in 1..c : Untouched(k)'
<1>1. array \in Seq(Elements) /\ array = before /\ Cap \in Nat /\ DOMAIN array = 1..Cap
  BY DEF GInv, SliceInv, Cap
<1>2. Zero \in Elements
  BY DEF Elements
<1>3. CASE c = Cap
  BY <1>1, <1>3 DEF Untouched, Cap
<1>4. CASE c # Cap
  <2>1. array' = [k \in 1..c |-> IF k <= Cap THEN array[k] ELSE Zero]
    BY <1>4
  <2>2. \A k \in 1..c : k <= Cap => k \in DOMAIN array /\ array[k] \in Elements
    BY <1>1
  <2>3. \A k \in 1..c : array'[k] \in Elements
    BY <1>2, <2>1, <2>2
  <2>4. array' \in Seq(Elements) /\ Len(array') = c /\ DOMAIN array' = 1..c
    BY <2>1, <2>3
  <2>5. \A k \in 1..c : array'[k] = Zero \/ (k \in DOMAIN before /\ array'[k] = before[k])
    BY <1>1, <2>1, <2>2
  <2>. QED  BY <2>4, <2>5 DEF Untouched, Zero
<1>. QED  BY <1>3, <1>4

LEMMA ResizeInv == GInv /\ Resize => GInv'
<1> SUFFICES ASSUME GInv, Resize PROVE GInv'
  OBVIOUS
<1>1. PICK c \in 0..(2 * (N + MaxCap) + 1) :
        /\ IF Cap < N THEN GrownTo(Missing, c) ELSE c = Cap
        /\ array' = IF c = Cap THEN array
                    ELSE [k \in 1..c |-> IF k <= Cap THEN array[k] ELSE Zero]
        /\ IF c < N THEN pc' = "panic" /\ UNCHANGED <<len, vars>>
                    ELSE pc' = "wait" /\ len' = N /\ CallGet
  BY DEF Resize
<1>2. /\ pc = "check" /\ ptr = "slice" /\ UNCHANGED <<ptr, before, pos, errs, future>>
      /\ pos = 1 /\ [Next]_vars
  BY <1>1 DEF Resize, CallGet, vars, GInv, StepInv, Next, Script
<1>3. c \in Nat
  BY <1>1, NAssumption, MaxCapAssumption
<1>4. /\ array' \in Seq(Elements) /\ Len(array') = c /\ DOMAIN array' = 1..c
      /\ \A k \in 1..c : Untouched(k)'
  BY <1>1, <1>2, <1>3, ResizedArray
<1>5. IInv' /\ TypeOK'
  BY <1>2, NextInv DEF GInv, IInv
<1>6. len \in Nat /\ Cap \in Nat /\ len <= Cap
  BY DEF GInv, GetTypeOK, SliceInv, Cap
<1>7. FullSliceFits' /\ len' \in 0..c
  <2>1. CASE c < N
    <3>1. Cap < N /\ GrownTo(Missing, c)
      BY <1>1, <1>6, <2>1, NAssumption
    <3>2. len # c
      <4>1. CASE len + (N - Cap) <= Cap
        BY <1>6, <2>1, <3>1, <4>1, NAssumption DEF GrownTo, Missing
      <4>2. CASE ~(len + (N - Cap) <= Cap)
        BY <1>3, <1>6, <2>1, <3>1, <4>2, NAssumption DEF GrownTo, Missing
      <4>. QED  BY <4>1, <4>2
    <3>3. len' = len /\ len <= c
      <4>1. len' = len
        BY <1>1, <2>1
      <4>2. c >= Cap
        <5>1. CASE len + (N - Cap) <= Cap
          BY <1>6, <3>1, <5>1 DEF GrownTo, Missing
        <5>2. CASE ~(len + (N - Cap) <= Cap)
          BY <1>3, <1>6, <3>1, <5>2, NAssumption DEF GrownTo, Missing
        <5>. QED  BY <5>1, <5>2
      <4>. QED  BY <1>3, <1>6, <4>1, <4>2
    <3>. QED  BY <1>3, <1>4, <1>6, <2>1, <3>2, <3>3, NAssumption DEF FullSliceFits, Cap
  <2>2. CASE ~(c < N)
    BY <1>1, <1>3, <2>2, NAssumption DEF FullSliceFits
  <2>. QED  BY <2>1, <2>2
<1>8. GetTypeOK'
  BY <1>1, <1>2, <1>4, <1>5, <1>7 DEF GInv, GetTypeOK, Cap
<1>9. StepInv'
  <2>1. CASE c < N
    BY <1>1, <1>2, <2>1 DEF GInv, StepInv, vars
  <2>2. CASE ~(c < N)
    BY <1>1, <1>2, <2>2 DEF GInv, StepInv, CallGet
  <2>. QED  BY <2>1, <2>2
<1>10. SliceInv'
  <2>1. pc' \in {"panic", "wait"} /\ (pc' = "wait" => len' = N)
    BY <1>1
  <2>2. (Elements = Elements') /\ before' \in Seq({Old(k) : k \in 1..MaxCap})
    BY <1>2 DEF GInv, SliceInv, Elements, Zero, Old, Value
  <2>. QED  BY <1>4, <2>1, <2>2 DEF SliceInv, Elements, Zero, Old, Value
<1>11. LoopInv'
  <2>1. \A k \in 1..N : ~(k < pos)
    BY <1>2, NAssumption
  <2>2. \A k \in 1..c : ~(k < pos)
    BY <1>2, <1>3
  <2>3. errs' = {}
    BY <1>2, <2>1 DEF GInv, LoopInv
  <2>. QED  BY <1>2, <1>4, <2>1, <2>2, <2>3 DEF LoopInv
<1>. QED  BY <1>5, <1>7, <1>8, <1>9, <1>10, <1>11 DEF GInv

\* One turn of the loop: the element at pos, if its future did not fail.
LEMMA ReadFutureInv == GInv /\ ReadFuture => GInv'
<1> SUFFICES ASSUME GInv, ReadFuture PROVE GInv'
  OBVIOUS
<1>1. /\ pc = "loop" /\ pos <= N /\ FutureOf(pos) # "unset" /\ pos' = pos + 1
      /\ UNCHANGED <<future, getter, ptr, len, before, pc>> /\ UNCHANGED vars
  BY DEF ReadFuture, vars
<1>2. pos \in 1..N
  BY <1>1, NAssumption DEF GInv, GetTypeOK
<1>3. IInv' /\ TypeOK'
  BY <1>1, NextInv DEF GInv, IInv
<1>4. \A k : FutureOf(k)' = FutureOf(k)
  BY <1>1 DEF FutureOf
<1>5. FutureOf(pos) \in {"ok", "err"}
  <2>1. pos - 1 \in Idx
    BY <1>2, NAssumption DEF Idx
  <2>. QED  BY <1>1, <2>1 DEF FutureOf, GInv, IInv, TypeOK, FutureState, Outcome
<1>6. array \in Seq(Elements) /\ DOMAIN array = 1..Len(array) /\ Value(pos) \in Elements
  BY <1>2 DEF GInv, SliceInv, Elements
<1>7. ptr = "slice" => pos \in DOMAIN array
  <2>1. ptr = "slice" => len = N
    BY <1>1 DEF GInv, SliceInv
  <2>2. len \in 0..Len(array)
    BY DEF GInv, GetTypeOK, Cap
  <2>. QED  BY <1>2, <1>6, <2>1, <2>2
<1>8. array' = IF ptr = "slice" /\ FutureOf(pos) = "ok"
               THEN [array EXCEPT ![pos] = Value(pos)] ELSE array
  BY DEF ReadFuture
<1>9. array' \in Seq(Elements) /\ Len(array') = Len(array) /\ DOMAIN array' = DOMAIN array
  BY <1>6, <1>7, <1>8
<1>10. errs' = IF FutureOf(pos) = "err" THEN errs \cup {pos} ELSE errs
  BY DEF ReadFuture
<1>11. GetTypeOK' /\ FullSliceFits'
  <2>1. Len(array') = Len(array) /\ pc' = pc /\ UNCHANGED <<getter, ptr, len>>
    BY <1>1, <1>9
  <2>2. errs' \subseteq 1..N
    BY <1>2, <1>10 DEF GInv, GetTypeOK
  <2>3. pos' \in 1..(N + 1)
    BY <1>1, <1>2, NAssumption
  <2>4. FullSliceFits'
    BY <1>1, <2>1 DEF FullSliceFits
  <2>. QED  BY <1>3, <2>1, <2>2, <2>3, <2>4 DEF GInv, GetTypeOK, Cap
<1>12. StepInv'
  BY <1>1 DEF GInv, StepInv
<1>13. SliceInv'
  BY <1>1, <1>9 DEF GInv, SliceInv, Elements, Zero, Old, Value
<1>14. \A k \in 1..N : k < pos' <=> (k < pos \/ k = pos)
  BY <1>1, <1>2, NAssumption
<1>15. \A k \in 1..N : k < pos' => FutureOf(k)' # "unset"
  BY <1>1, <1>4, <1>14 DEF GInv, LoopInv
<1>16. errs' = {k \in 1..N : k < pos' /\ FutureOf(k)' = "err"}
  BY <1>2, <1>4, <1>5, <1>10, <1>14 DEF GInv, LoopInv
<1>17. ASSUME NEW k \in DOMAIN array
       PROVE  IF ptr = "slice" /\ k <= N /\ k < pos' /\ FutureOf(k) = "ok"
              THEN array'[k] = Value(k)
              ELSE array'[k] = Zero \/ (k \in DOMAIN before /\ array'[k] = before[k])
  <2>1. k \in 1..Len(array) /\ k \in Nat
    BY <1>6
  <2>2. IF ptr = "slice" /\ k <= N /\ k < pos /\ FutureOf(k) = "ok"
        THEN array[k] = Value(k)
        ELSE array[k] = Zero \/ (k \in DOMAIN before /\ array[k] = before[k])
    BY DEF GInv, LoopInv, Untouched
  <2>3. CASE k = pos
    <3>1. ~(k < pos) /\ k <= N /\ k < pos'
      BY <1>1, <1>2, <2>3
    <3>. QED  BY <1>6, <1>8, <2>2, <2>3, <3>1
  <2>4. CASE k # pos
    <3>1. array'[k] = array[k]
      BY <1>6, <1>8, <2>4
    <3>2. k < pos' <=> k < pos
      BY <1>1, <1>2, <2>1, <2>4
    <3>. QED  BY <2>2, <3>1, <3>2
  <2>. QED  BY <2>3, <2>4
<1>18. LoopInv'
  BY <1>1, <1>4, <1>9, <1>15, <1>16, <1>17 DEF LoopInv, Untouched, Zero, Value
<1>. QED  BY <1>3, <1>11, <1>12, <1>13, <1>18 DEF GInv

LEMMA GetNextInv == GInv /\ [GetNext]_gvars => GInv'
<1> SUFFICES ASSUME GInv, [GetNext]_gvars PROVE GInv'
  OBVIOUS
<1>1. CASE UNCHANGED caller /\ (Submitter \/ Processor)
  BY <1>1, CoroutinesInv
<1>2. CASE UNCHANGED caller /\ \E i \in Idx : Worker(i) \/ Task(i)
  BY <1>2, CoroutinesInv
<1>3. CASE CheckNil \/ Refuse \/ WaitReturns \/ Return
  BY <1>3, CallerNextInv
<1>4. CASE Resize
  BY <1>4, ResizeInv
<1>5. CASE ReadFuture
  BY <1>5, ReadFutureInv
<1>6. CASE UNCHANGED gvars
  <2>1. UNCHANGED caller /\ UNCHANGED vars
    BY <1>6 DEF gvars
  <2>2. IInv' /\ getter' = getter /\ future' = future
    BY <2>1, NextInv DEF GInv, vars
  <2>. QED  BY <2>1, <2>2, BatchStepInv
<1>. QED  BY <1>1, <1>2, <1>3, <1>4, <1>5, <1>6 DEF GetNext, GetGoesOn

-----------------------------------------------------------------------------
\* The batch's invariant, and what Get has done to the caller's slice so far,
\* hold of every batch, limit, capacity and kind of pointer.
THEOREM GetInvariance == GetSpec => []GInv
<1>. QED  BY GetInitInv, GetNextInv, PTL DEF GetSpec

\* Every reachable state of the batch and its caller is well typed.
THEOREM GetTypeCorrect == GetSpec => []GetTypeOK
<1>1. GInv => GetTypeOK
  BY DEF GInv
<1>. QED  BY <1>1, GetInvariance, PTL

\* When Get has returned, each value is at the index of its future and errs
\* holds exactly the futures that failed.
THEOREM ValuesAtTheirIndex == GetSpec => []ValuesInOrder
<1>1. GInv => ValuesInOrder
  <2> SUFFICES ASSUME GInv, pc = "returned" PROVE ValuesInOrder
    BY DEF ValuesInOrder
  <2>1. pos = N + 1 /\ N \in Nat
    BY NAssumption DEF GInv, StepInv
  <2>2. \A k \in 1..N : k < pos
    BY <2>1
  <2>3. errs = {k \in 1..N : FutureOf(k) = "err"}
    BY <2>2 DEF GInv, LoopInv
  <2>4. ASSUME ptr = "slice" PROVE len = N /\ \A k \in 1..N : FutureOf(k) = "ok" <=> array[k] = Value(k)
    <3>1. len = N /\ len \in 0..Len(array) /\ DOMAIN array = 1..Len(array)
      BY <2>4 DEF GInv, SliceInv, GetTypeOK, Cap
    <3>2. \A k \in 1..N : k \in DOMAIN array
      BY <2>1, <3>1
    <3>3. \A k \in 1..N : FutureOf(k) = "ok" => array[k] = Value(k)
      BY <2>2, <2>4, <3>2 DEF GInv, LoopInv
    <3>4. ASSUME NEW k \in 1..N, FutureOf(k) # "ok" PROVE array[k] # Value(k)
      <4>1. Untouched(k)
        BY <2>4, <3>2, <3>4 DEF GInv, LoopInv
      <4>2. Zero # Value(k)
        BY DEF Zero, Value
      <4>3. \A j \in DOMAIN before : before[j] # Value(k)
        <5>1. \A j \in DOMAIN before : before[j] \in {Old(i) : i \in 1..MaxCap}
          BY DEF GInv, SliceInv
        <5>. QED  BY <5>1 DEF Old, Value
      <4>. QED  BY <4>1, <4>2, <4>3 DEF Untouched
    <3>. QED  BY <3>1, <3>3, <3>4
  <2>. QED  BY <2>3, <2>4 DEF ValuesInOrder
<1>. QED  BY <1>1, GetInvariance, PTL

\* A future that failed leaves its element alone.
THEOREM FailuresLeaveElement == GetSpec => []FailuresKeepElement
<1>1. GInv => FailuresKeepElement
  <2> SUFFICES ASSUME GInv, pc = "returned", ptr = "slice", NEW k \in errs PROVE Untouched(k)
    BY DEF FailuresKeepElement, Untouched
  <2>1. k \in 1..N /\ FutureOf(k) = "err"
    BY DEF GInv, LoopInv
  <2>2. len = N /\ len \in 0..Len(array) /\ DOMAIN array = 1..Len(array) /\ N \in Nat
    BY NAssumption DEF GInv, SliceInv, GetTypeOK, Cap
  <2>3. k \in DOMAIN array
    BY <2>1, <2>2
  <2>. QED  BY <2>1, <2>3 DEF GInv, LoopInv
<1>. QED  BY <1>1, GetInvariance, PTL

\* A slice that is full, or large enough, is never too small in the end.
THEOREM FullSlicesFit == GetSpec => []FullSliceFits
<1>1. GInv => FullSliceFits
  BY DEF GInv
<1>. QED  BY <1>1, GetInvariance, PTL
=============================================================================
