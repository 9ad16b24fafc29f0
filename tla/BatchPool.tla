------------------------------ MODULE BatchPool ------------------------------
(***************************************************************************)
(* What a batch future promises, with no coroutine, channel or wait group: *)
(* every callable of a batch is run once, at most Limit(batchSize) of them *)
(* at a time, and the batch is handed over only when all of them have      *)
(* ended, each result in the place of its callable.                        *)
(* Source of the promise: internal/temporalbatch/batch.go:15-43 and the    *)
(* code of NewBatchFuture it describes.                                    *)
(***************************************************************************)
EXTENDS Integers, FiniteSets

CONSTANT N                  \* number of callables of the batch

VARIABLES batchSize,        \* the concurrency limit, fixed when the batch starts
          task,             \* per callable: not run, running, or how it ended
          delivered         \* what get() handed over; <<>> until it did

poolVars == <<batchSize, task, delivered>>

Idx == 0..(N - 1)
Outcome == {"ok", "err"}
Limit(b) == IF b < 0 THEN 0 ELSE b

PoolInit ==
  /\ batchSize \in Int
  /\ task = [i \in Idx |-> "none"]
  /\ delivered = <<>>

\* A callable may start while fewer than the limit are running.
PoolStart(i) ==
  /\ task[i] = "none"
  /\ Cardinality({j \in Idx : task[j] = "running"}) < Limit(batchSize)
  /\ task' = [task EXCEPT ![i] = "running"]
  /\ UNCHANGED <<batchSize, delivered>>

PoolFinish(i, o) ==
  /\ task[i] = "running"
  /\ task' = [task EXCEPT ![i] = o]
  /\ UNCHANGED <<batchSize, delivered>>

\* get() returns once, with the outcome of every callable.
PoolDeliver ==
  /\ delivered = <<>>
  /\ \A i \in Idx : task[i] \in Outcome
  /\ delivered' = task
  /\ UNCHANGED <<batchSize, task>>

PoolNext ==
  \/ \E i \in Idx : PoolStart(i)
  \/ \E i \in Idx, o \in Outcome : PoolFinish(i, o)
  \/ PoolDeliver

PoolSpec == PoolInit /\ [][PoolNext]_poolVars
=============================================================================
