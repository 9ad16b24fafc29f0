----------------------------- MODULE ThreadLogs -----------------------------
(***************************************************************************)
(* The log buffer of a run (service/thread.go): one list for all Starlark  *)
(* threads of the run, which print() extends and, past a limit, shortens   *)
(* by one line, and which the "logs" query reads.                          *)
(*                                                                         *)
(* The limit belongs to the thread, not to the list: each thread reads     *)
(* STAR_CORE_LOG_LEN when it is created, and a script may change its own   *)
(* environ (os.environ) between two calls of concurrent.run.               *)
(***************************************************************************)
EXTENDS Integers, Sequences

CONSTANTS Lengths,     \* the numbers STAR_CORE_LOG_LEN may hold
          DefaultLen,  \* defaultLogLen, 1000 in the code
          MaxThreads,  \* bound: threads of a run
          MaxLines     \* bound: lines printed in a run

ASSUME LengthsAssumption == Lengths \subseteq Int /\ DefaultLen \in Int

VARIABLES
  environ,  \* STAR_CORE_LOG_LEN in globals.environ
  limit,    \* per thread, in order of creation: its ll
  printed,  \* history: lines printed; a line is named by its number
  logs,     \* globals.logs
  panicked  \* CreateThread met an environ value that is not a string

vars == <<environ, limit, printed, logs, panicked>>

Threads == 1..MaxThreads

\* Unset, text that is no number, a number, or a value that is not a string.
Number(n) == [kind |-> "number", len |-> n]
Values == {[kind |-> k, len |-> 0] : k \in {"unset", "text", "other"}}
            \cup {Number(n) : n \in Lengths}

\* ll of a thread created under v: text is reported and the default taken.
LimitUnder(v) == IF v.kind = "number" THEN v.len ELSE DefaultLen

-----------------------------------------------------------------------------
\* Run has taken the environ of its caller and created the thread of main, or
\* panicked on a value that is not a string.
Init ==
  /\ environ \in Values
  /\ panicked = (environ.kind = "other")
  /\ limit = IF panicked THEN <<>> ELSE <<LimitUnder(environ)>>
  /\ printed = 0
  /\ logs = <<>>

\* os.environ is the dictionary itself.
SetEnviron(v) ==
  /\ ~panicked
  /\ environ' = v
  /\ UNCHANGED <<limit, printed, logs, panicked>>

\* concurrent.run and batch_run create a thread per callable.
CreateThread ==
  /\ ~panicked
  /\ Len(limit) < MaxThreads
  /\ IF environ.kind = "other"
       THEN panicked' = TRUE /\ UNCHANGED limit
       ELSE limit' = Append(limit, LimitUnder(environ)) /\ UNCHANGED panicked
  /\ UNCHANGED <<environ, printed, logs>>

\* print(): PushBack, which leaves the list for kept.
Pushed == Append(logs, printed + 1)

PrintTo(t, kept) ==
  /\ ~panicked
  /\ t \in DOMAIN limit
  /\ printed < MaxLines
  /\ printed' = printed + 1
  /\ logs' = kept
  /\ UNCHANGED <<environ, limit, panicked>>

\* Variants, not the code's: the newest line goes; a full list counts as too
\* long.
PrintDropsNewest(t) == PrintTo(t, IF Len(Pushed) > limit[t] THEN logs ELSE Pushed)
PrintDropsAtLimit(t) == PrintTo(t, IF Len(Pushed) >= limit[t] THEN Tail(Pushed) ELSE Pushed)

\* At most one Remove(Front), however much longer the list is.
PrintLine(t) == PrintTo(t, IF Len(Pushed) > limit[t] THEN Tail(Pushed) ELSE Pushed)

Next ==
  \/ \E v \in Values : SetEnviron(v)
  \/ CreateThread
  \/ \E t \in Threads : PrintLine(t)

Spec == Init /\ [][Next]_vars

-----------------------------------------------------------------------------
(* Properties *)

TypeOK ==
  /\ environ \in Values
  /\ limit \in Seq(Int)
  /\ printed \in Nat
  /\ logs \in Seq(1..printed)
  /\ panicked \in BOOLEAN

\* The logs query answers with the latest lines, in order and without a gap,
\* whichever threads printed them and under whichever limits.
LogsAreLatest ==
  /\ Len(logs) <= printed
  /\ \A k \in 1..Len(logs) : logs[k] = printed - Len(logs) + k

\* No thread with a small limit takes lines away that the smallest limit
\* promises: that many of the latest lines can always be read.
SmallestLimitKept ==
  \A m \in 0..printed :
    (\A t \in DOMAIN limit : limit[t] >= m) => Len(logs) >= m

\* And the list is never longer than the largest limit; a negative one, whose
\* thread always removes a line, counts as none.
LargestLimitHolds ==
  \A m \in 0..printed :
    (\A t \in DOMAIN limit : limit[t] <= m) => Len(logs) <= m

\* The list is as long as the limits together allow.
LengthWithinLimits == SmallestLimitKept /\ LargestLimitHolds

\* A line is only removed to make room for a new one: a smaller limit never
\* shrinks what other threads have already filled.
NeverShrinks == [][Len(logs') >= Len(logs)]_vars

IInv == TypeOK /\ LogsAreLatest /\ SmallestLimitKept /\ LargestLimitHolds
=============================================================================
