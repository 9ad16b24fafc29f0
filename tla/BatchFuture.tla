----------------------------- MODULE BatchFuture -----------------------------
(***************************************************************************)
(* The batch future of internal/temporalbatch/batchfuture, as              *)
(* concurrent.batch_run starts it: a submitter coroutine, a processor      *)
(* coroutine and one coroutine per callable, which meet over a semaphore   *)
(* (a buffered channel of batchSize slots), an unbuffered work channel and *)
(* two wait groups, and a script that calls get().                         *)
(*                                                                         *)
(* Coroutines of a workflow run one at a time and give way only where they *)
(* block, so an action here is the code between two blocking calls.  The   *)
(* order in which runnable coroutines are resumed is left open, which      *)
(* includes the order of the SDK's dispatcher.                             *)
(***************************************************************************)
EXTENDS Integers, FiniteSets

CONSTANTS N,             \* number of callables given to batch_run
          MaxConcurrency \* the values of max_concurrency a script may pass

ASSUME NAssumption == N \in Nat
ASSUME MaxConcurrencyAssumption == MaxConcurrency \subseteq Int

VARIABLES
  batchSize,  \* b.batchSize, fixed at the start
  permits,    \* elements in the semaphore channel
  sub,        \* submitter: at semaphore.Send, at workChan.Send, or ended
  next,       \* submitter's loop index i
  closed,     \* workChan has been closed
  proc,       \* processor: at workChan.Receive, at wgForFutures.Wait, or ended
  worker,     \* per index: the coroutine batch-future-processor-one-future-i
  calls,      \* per index: how often its factory was invoked
  task,       \* per index: the future its factory returned
  future,     \* per index: b.futures[i], chained to the task's future
  wg,         \* counter of b.wg
  wgForFutures,
  getter,     \* the script in BatchFuture.Get
  result      \* the slice Get fills, in the order of the callables

vars == <<batchSize, permits, sub, next, closed, proc, worker, calls, task,
          future, wg, wgForFutures, getter, result>>

Idx == 0..(N - 1)
Outcome == {"ok", "err"}

SubState == {"acquire", "send", "done"}
ProcState == {"receive", "wait", "done"}
WorkerState == {"none", "spawned", "get", "done"}
TaskState == {"none", "running"} \cup Outcome
FutureState == {"unset"} \cup Outcome
GetterState == {"idle", "wait", "values", "error"}

\* max_concurrency as batch_run passes it on: 0, its default, means all at once.
EffectiveLimit(m) == IF m = 0 THEN N ELSE m

\* Variant, not the code's: a buffer that takes one more than its size.
HasRoomForOneMore == permits <= batchSize

\* A send on the semaphore goes through while the buffer has room; a buffer
\* of negative size never has.
HasRoom == permits < batchSize

-----------------------------------------------------------------------------
\* NewBatchFuture and start: the two coroutines exist, b.wg counts them.
Init ==
  /\ batchSize \in {EffectiveLimit(m) : m \in MaxConcurrency}
  /\ permits = 0
  /\ sub = "acquire" /\ next = 0
  /\ closed = FALSE
  /\ proc = "receive"
  /\ worker = [i \in Idx |-> "none"]
  /\ calls = [i \in Idx |-> 0]
  /\ task = [i \in Idx |-> "none"]
  /\ future = [i \in Idx |-> "unset"]
  /\ wg = 2
  /\ wgForFutures = 0
  /\ getter = "idle"
  /\ result = <<>>

-----------------------------------------------------------------------------
(* The submitter *)

\* semaphore.Send: one slot is taken before index next is handed over.
Acquire ==
  /\ sub = "acquire" /\ next < N
  /\ HasRoom
  /\ permits' = permits + 1
  /\ sub' = "send"
  /\ UNCHANGED <<batchSize, next, closed, proc, worker, calls, task, future,
                 wg, wgForFutures, getter, result>>

\* workChan.Send meets workChan.Receive: the channel has no buffer, so both
\* coroutines go on together, the processor through Add and GoNamed.
HandOver ==
  /\ sub = "send" /\ proc = "receive"
  /\ wgForFutures' = wgForFutures + 1
  /\ worker' = [worker EXCEPT ![next] = "spawned"]
  /\ next' = next + 1
  /\ sub' = "acquire"
  /\ UNCHANGED <<batchSize, permits, closed, proc, calls, task, future, wg,
                 getter, result>>

\* The loop is over: workChan.Close and the deferred b.wg.Done.
CloseWork ==
  /\ sub = "acquire" /\ next = N
  /\ closed' = TRUE
  /\ sub' = "done"
  /\ wg' = wg - 1
  /\ UNCHANGED <<batchSize, permits, next, proc, worker, calls, task, future,
                 wgForFutures, getter, result>>

-----------------------------------------------------------------------------
(* The processor *)

\* workChan.Receive returns false on the closed channel.
EndReceive ==
  /\ proc = "receive" /\ closed
  /\ proc' = "wait"
  /\ UNCHANGED <<batchSize, permits, sub, next, closed, worker, calls, task,
                 future, wg, wgForFutures, getter, result>>

\* Variant, not the code's: the processor ends without the wait.
EndProcessorNoWait ==
  /\ proc = "wait"
  /\ proc' = "done"
  /\ wg' = wg - 1
  /\ UNCHANGED <<batchSize, permits, sub, next, closed, worker, calls, task,
                 future, wgForFutures, getter, result>>

\* wgForFutures.Wait returns, then the deferred b.wg.Done.
EndProcessor ==
  /\ proc = "wait" /\ wgForFutures = 0
  /\ proc' = "done"
  /\ wg' = wg - 1
  /\ UNCHANGED <<batchSize, permits, sub, next, closed, worker, calls, task,
                 future, wgForFutures, getter, result>>

-----------------------------------------------------------------------------
(* The coroutine of one index *)

\* Variant, not the code's: the coroutine reads the index the loop has come to
\* (no idx := idx) instead of its own.
StartTaskOfLoop(i) ==
  /\ worker[i] = "spawned"
  /\ calls' = [calls EXCEPT ![next - 1] = @ + 1]
  /\ task' = [task EXCEPT ![next - 1] = "running"]
  /\ worker' = [worker EXCEPT ![i] = "get"]
  /\ UNCHANGED <<batchSize, permits, sub, next, closed, proc, future, wg,
                 wgForFutures, getter, result>>

\* The factory starts the callable and returns its future, to which
\* settables[i] is chained; the coroutine then blocks in f.Get.
StartTask(i) ==
  /\ worker[i] = "spawned"
  /\ calls' = [calls EXCEPT ![i] = @ + 1]
  /\ task' = [task EXCEPT ![i] = "running"]
  /\ worker' = [worker EXCEPT ![i] = "get"]
  /\ UNCHANGED <<batchSize, permits, sub, next, closed, proc, future, wg,
                 wgForFutures, getter, result>>

\* The callable ends: settable.Set resolves its future and, through the
\* chain, the future the script holds.
FinishTask(i, o) ==
  /\ task[i] = "running"
  /\ task' = [task EXCEPT ![i] = o]
  /\ future' = [future EXCEPT ![i] = o]
  /\ UNCHANGED <<batchSize, permits, sub, next, closed, proc, worker, calls,
                 wg, wgForFutures, getter, result>>

\* Variant, not the code's: the slot is not given back.
ReleaseKeepsSlot(i) ==
  /\ worker[i] = "get" /\ task[i] \in Outcome
  /\ worker' = [worker EXCEPT ![i] = "done"]
  /\ wgForFutures' = wgForFutures - 1
  /\ UNCHANGED <<batchSize, permits, sub, next, closed, proc, calls, task, future, wg,
                 getter, result>>

\* f.Get has returned: semaphore.Receive and the deferred wgForFutures.Done.
Release(i) ==
  /\ worker[i] = "get" /\ task[i] \in Outcome
  /\ permits > 0
  /\ permits' = permits - 1
  /\ worker' = [worker EXCEPT ![i] = "done"]
  /\ wgForFutures' = wgForFutures - 1
  /\ UNCHANGED <<batchSize, sub, next, closed, proc, calls, task, future, wg,
                 getter, result>>

-----------------------------------------------------------------------------
(* The script *)

CallGet ==
  /\ getter = "idle"
  /\ getter' = "wait"
  /\ UNCHANGED <<batchSize, permits, sub, next, closed, proc, worker, calls,
                 task, future, wg, wgForFutures, result>>

\* IsReady: no future of the batch is pending.
IsReady == \A i \in Idx : future[i] # "unset"

\* b.wg.Wait has returned.  The loop over the futures reads each of them and
\* would block on a pending one; the wrapper in plugin/workflow returns the
\* list of values, or the errors alone when there is one.
GetReturn ==
  /\ getter = "wait"
  /\ wg = 0
  /\ IsReady
  /\ result' = future
  /\ getter' = IF \E i \in Idx : future[i] = "err" THEN "error" ELSE "values"
  /\ UNCHANGED <<batchSize, permits, sub, next, closed, proc, worker, calls,
                 task, future, wg, wgForFutures>>

-----------------------------------------------------------------------------
Submitter == Acquire \/ HandOver \/ CloseWork
Processor == EndReceive \/ EndProcessor
Worker(i) == StartTask(i) \/ Release(i)
Task(i) == \E o \in Outcome : FinishTask(i, o)
Script == CallGet \/ GetReturn

Next ==
  \/ Submitter
  \/ Processor
  \/ \E i \in Idx : Worker(i) \/ Task(i)
  \/ Script

Spec == Init /\ [][Next]_vars

-----------------------------------------------------------------------------
(* Properties *)

TypeOK ==
  /\ batchSize \in Int
  /\ permits \in Nat
  /\ sub \in SubState
  /\ next \in 0..N
  /\ closed \in BOOLEAN
  /\ proc \in ProcState
  /\ worker \in [Idx -> WorkerState]
  /\ calls \in [Idx -> Nat]
  /\ task \in [Idx -> TaskState]
  /\ future \in [Idx -> FutureState]
  /\ wg \in 0..2
  /\ wgForFutures \in Nat
  /\ getter \in GetterState
  /\ result \in {<<>>} \cup [Idx -> FutureState]

Running == {i \in Idx : task[i] = "running"}
Live == {i \in Idx : worker[i] \in {"spawned", "get"}}

\* Never more callables running than max_concurrency allows, although slots
\* are taken by the submitter and given back by the coroutines of the indexes.
ConcurrencyBound == Cardinality(Running) <= IF batchSize < 0 THEN 0 ELSE batchSize

\* Each factory is invoked at most once, and for every index by the time
\* get() returns: no index is lost or shared between coroutines.
EachFactoryOnce ==
  \A i \in Idx : calls[i] <= 1 /\ (getter \in {"values", "error"} => calls[i] = 1)

\* When get() has returned, every coroutine of the batch is gone, the
\* semaphore is empty again, and result i is how callable i ended.
GetIsComplete ==
  getter \in {"values", "error"} =>
    /\ sub = "done" /\ proc = "done" /\ Live = {} /\ permits = 0
    /\ result = task /\ \A i \in Idx : task[i] \in Outcome

\* "maintaining the specified concurrency level" (batch.go:42): whenever no
\* coroutine of the batch can move, as many callables run as the limit and
\* the number of unfinished ones permit.
Quiet ==
  /\ \/ sub = "acquire" /\ next < N /\ ~HasRoom
     \/ sub = "done"
  /\ proc = "receive" => ~closed
  /\ proc = "wait" => wgForFutures > 0
  /\ \A i \in Live : worker[i] = "get" /\ task[i] = "running"

Unfinished == {i \in Idx : task[i] \notin Outcome}

KeepsLevel ==
  Quiet /\ batchSize >= 0 =>
    Cardinality(Running) =
      IF Cardinality(Unfinished) < batchSize THEN Cardinality(Unfinished) ELSE batchSize

\* A script that calls get() gets an answer, for every limit batch_run makes
\* of a max_concurrency that is not negative.
GetReturns == (getter = "wait" /\ (batchSize > 0 \/ N = 0)) ~> (getter \in {"values", "error"})

\* A negative max_concurrency is passed on (only 0 is replaced): the semaphore
\* never has room, so no callable is ever started and get() never returns.
NegativeLimitStalls ==
  batchSize < 0 /\ N > 0 =>
    /\ \A i \in Idx : task[i] = "none"
    /\ getter \notin {"values", "error"}

-----------------------------------------------------------------------------
(* Why they hold: where every slot, coroutine and index is *)

\* Slots are held by the live coroutines and by the submitter between its two
\* sends; the buffer is never beyond its size, and one of negative size lets
\* no index through.
PermitInv ==
  /\ permits = Cardinality(Live) + (IF sub = "send" THEN 1 ELSE 0)
  /\ permits = 0 \/ permits <= batchSize
  /\ wgForFutures = Cardinality(Live)
  /\ batchSize < 0 => next = 0

\* The submitter's index splits the batch; the channel is closed at its end.
SubmitInv ==
  /\ \A i \in Idx : worker[i] = "none" <=> i >= next
  /\ sub = "send" => next < N
  /\ closed <=> sub = "done"
  /\ sub = "done" => next = N
  /\ proc # "receive" => closed
  /\ proc = "done" => Live = {}

\* What a coroutine has done to the future of its index.
WorkerInv ==
  \A i \in Idx :
    /\ calls[i] = (IF worker[i] \in {"none", "spawned"} THEN 0 ELSE 1)
    /\ task[i] = "none" <=> worker[i] \in {"none", "spawned"}
    /\ task[i] = "running" => worker[i] = "get"
    /\ future[i] = (IF task[i] \in Outcome THEN task[i] ELSE "unset")

\* The wait group of the batch, and what get() has seen through it.
GetInv ==
  /\ wg = (IF sub = "done" THEN 0 ELSE 1) + (IF proc = "done" THEN 0 ELSE 1)
  /\ getter \in {"idle", "wait"} => result = <<>>
  /\ getter \in {"values", "error"} =>
       sub = "done" /\ proc = "done" /\ result = task

\* The inductive invariant: with it, each property above follows state by state.
IInv == TypeOK /\ PermitInv /\ SubmitInv /\ WorkerInv /\ GetInv

-----------------------------------------------------------------------------
\* The batch future implements the pool of BatchPool.
Pool == INSTANCE BatchPool WITH delivered <- result
PoolSpec == Pool!PoolSpec
=============================================================================
