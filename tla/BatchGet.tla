------------------------------ MODULE BatchGet ------------------------------
(***************************************************************************)
(* A batch future and its caller: BatchFuture.Get step by step             *)
(* (internal/temporalbatch/batchfuture), over the coroutines of            *)
(* BatchFuture.  Get checks the value pointer, resizes the caller's slice, *)
(* waits for the batch, and fills the slice from the futures.              *)
(*                                                                         *)
(* The get() of a script passes a pointer to a nil slice                   *)
(* (plugin/workflow/batch_future.go:34); Go code may pass any.  CallGet    *)
(* and GetReturn of BatchFuture are the first and the last step here.      *)
(***************************************************************************)
EXTENDS BatchFuture, Sequences

CONSTANT MaxCap  \* bound: capacity of the caller's slice

ASSUME MaxCapAssumption == MaxCap \in Nat

VARIABLES
  ptr,     \* what the caller passes: "nil", "slice", or anything else
  array,   \* the elements of the slice up to its capacity
  len,     \* its length
  before,  \* history: the elements the caller had in the slice
  pc,      \* Get: at its checks, the wait, the loop; returned or panicked
  pos,     \* index of the next future the loop reads, plus one
  errs     \* elements whose future's error was merged into errs

caller == <<ptr, array, len, before, pc, pos, errs>>
gvars == <<vars, caller>>

Cap == Len(array)

\* What an element holds: nothing, something of the caller's, or the value of
\* the k-th future.
Zero == [from |-> "zero", k |-> 0]
Old(k) == [from |-> "caller", k |-> k]
Value(k) == [from |-> "future", k |-> k]
FutureOf(k) == future[k - 1]

-----------------------------------------------------------------------------
GetInit ==
  /\ Init
  /\ ptr \in {"nil", "slice", "other"}
  /\ \E c \in 0..(IF ptr = "slice" THEN MaxCap ELSE 0) :
       /\ array = [k \in 1..c |-> Old(k)]
       /\ len \in 0..c
  /\ before = array
  /\ pc = "check" /\ pos = 1 /\ errs = {}

\* A nil pointer waits without a slice; anything but a slice is refused.
CheckNil ==
  /\ pc = "check" /\ ptr = "nil"
  /\ CallGet
  /\ pc' = "wait"
  /\ UNCHANGED <<ptr, array, len, before, pos, errs>>

Refuse ==
  /\ pc = "check" /\ ptr = "other"
  /\ pc' = "refused"
  /\ UNCHANGED <<vars, ptr, array, len, before, pos, errs>>

\* reflect.Value.Grow(m) makes room for m elements past the LENGTH.  The new
\* array, if one is needed, takes twice the old capacity or what was asked,
\* rounded up to a size class (by at most one element here).
GrownTo(m, c) ==
  IF len + m <= Cap THEN c = Cap
  ELSE LET asked == IF len + m > 2 * Cap THEN len + m ELSE 2 * Cap
       IN c \in {asked, asked + 1}

\* Variant, not the code's: one element short.
MissingButOne == N - Cap - 1

\* if slice.Cap() < n { slice.Grow(n - slice.Cap()) }: what to grow by.
Missing == N - Cap

\* slice.SetLen(n) panics beyond the capacity.  Growing keeps the elements up
\* to the old capacity; the others are zero.
Resize ==
  /\ pc = "check" /\ ptr = "slice"
  /\ \E c \in 0..(2 * (N + MaxCap) + 1) :
       /\ IF Cap < N THEN GrownTo(Missing, c) ELSE c = Cap
       /\ array' = IF c = Cap THEN array
                   ELSE [k \in 1..c |-> IF k <= Cap THEN array[k] ELSE Zero]
       /\ IF c < N THEN pc' = "panic" /\ UNCHANGED <<len, vars>>
                   ELSE pc' = "wait" /\ len' = N /\ CallGet
  /\ UNCHANGED <<ptr, before, pos, errs>>

\* b.wg.Wait returns.
WaitReturns ==
  /\ pc = "wait" /\ wg = 0
  /\ pc' = "loop"
  /\ UNCHANGED <<vars, ptr, array, len, before, pos, errs>>

\* Variant, not the code's: the element is set whether or not the future failed.
ReadFutureAlways ==
  /\ pc = "loop" /\ pos <= N /\ FutureOf(pos) # "unset"
  /\ pos' = pos + 1
  /\ array' = IF ptr = "slice" THEN [array EXCEPT ![pos] = Value(pos)] ELSE array
  /\ errs' = IF FutureOf(pos) = "err" THEN errs \cup {pos} ELSE errs
  /\ UNCHANGED <<vars, ptr, len, before, pc>>

\* Variant, not the code's: values are appended as they come.
ReadFutureDense ==
  /\ pc = "loop" /\ pos <= N /\ FutureOf(pos) # "unset"
  /\ pos' = pos + 1
  /\ array' = IF ptr = "slice" /\ FutureOf(pos) = "ok"
                THEN [array EXCEPT ![pos - Cardinality(errs)] = Value(pos)] ELSE array
  /\ errs' = IF FutureOf(pos) = "err" THEN errs \cup {pos} ELSE errs
  /\ UNCHANGED <<vars, ptr, len, before, pc>>

\* b.futures[i].Get(ctx, &slice[i]) blocks until the future is ready; an error
\* leaves the element as it is.
ReadFuture ==
  /\ pc = "loop" /\ pos <= N /\ FutureOf(pos) # "unset"
  /\ pos' = pos + 1
  /\ array' = IF ptr = "slice" /\ FutureOf(pos) = "ok"
                THEN [array EXCEPT ![pos] = Value(pos)] ELSE array
  /\ errs' = IF FutureOf(pos) = "err" THEN errs \cup {pos} ELSE errs
  /\ UNCHANGED <<vars, ptr, len, before, pc>>

Return ==
  /\ pc = "loop" /\ pos > N
  /\ GetReturn
  /\ pc' = "returned"
  /\ UNCHANGED <<ptr, array, len, before, pos, errs>>

\* Get once it is past its checks.
GetGoesOn == WaitReturns \/ ReadFuture \/ Return

GetNext ==
  \/ UNCHANGED caller /\ (Submitter \/ Processor)
  \/ UNCHANGED caller /\ \E i \in Idx : Worker(i) \/ Task(i)
  \/ CheckNil \/ Refuse \/ Resize
  \/ GetGoesOn

GetSpec == GetInit /\ [][GetNext]_gvars

\* The dispatcher resumes every runnable coroutine, that of the caller too, and
\* callables end.  Nobody has to call Get.
FairGetSpec ==
  /\ GetSpec
  /\ WF_gvars(UNCHANGED caller /\ Submitter)
  /\ WF_gvars(UNCHANGED caller /\ Processor)
  /\ \A i \in Idx : /\ WF_gvars(UNCHANGED caller /\ Worker(i))
                    /\ WF_gvars(UNCHANGED caller /\ Task(i))
  /\ WF_gvars(GetGoesOn)

-----------------------------------------------------------------------------
(* Properties *)

GetTypeOK ==
  /\ TypeOK
  /\ ptr \in {"nil", "slice", "other"}
  /\ len \in 0..Cap
  /\ pc \in {"check", "wait", "loop", "returned", "refused", "panic"}
  /\ pos \in 1..(N + 1) /\ errs \subseteq 1..N

\* "values will be set on successful futures and the errors of failed futures
\* will be returned" (batch_future.go:102), each value at the index of its
\* future, in whatever order the callables end.
ValuesInOrder ==
  pc = "returned" =>
    /\ errs = {k \in 1..N : FutureOf(k) = "err"}
    /\ ptr = "slice" =>
         /\ len = N
         /\ \A k \in 1..N : FutureOf(k) = "ok" <=> array[k] = Value(k)

\* Where a future failed, the caller finds its own element or a zero one:
\* never the value of another future, and never an element of the caller's
\* that stood elsewhere.
FailuresKeepElement ==
  pc = "returned" /\ ptr = "slice" =>
    \A k \in errs : array[k] = Zero \/ (k \in DOMAIN before /\ array[k] = before[k])

\* "the slice itself can be nil - it will be allocated and/or resized to fit
\* if needed" (batch.go:21), if the caller has filled it to its capacity (a nil
\* one and make([]T, k) are) or it is large enough.
FullSliceFits == len = Cap \/ Cap >= N => pc # "panic"
=============================================================================
