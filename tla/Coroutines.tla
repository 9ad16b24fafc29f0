------------------------------ MODULE Coroutines ------------------------------
(***************************************************************************)
(* The coroutines of a run: concurrent.run (plugin/concurrent) starts one  *)
(* per call with a Starlark thread of its own, any script may ask for the  *)
(* result of any other, print (ThreadLogs) and report progress             *)
(* (plugin/progress).                                                      *)
(*                                                                         *)
(* The SDK runs one coroutine at a time, until it blocks or ends.  Which   *)
(* one of those that can go on comes next is left open here.  They go on   *)
(* after main has returned, as they do while its exit hooks block; the end *)
(* of the run is in ServiceRun.                                            *)
(***************************************************************************)
EXTENDS ThreadLogs, FiniteSets

CONSTANT MaxWork  \* bound: what the scripts of a run do, but for starting and ending

ASSUME BoundsAssumption == MaxThreads \in Nat \ {0} /\ MaxWork \in Nat

VARIABLES
  cur,      \* the coroutine that runs, 0 for none
  where,    \* per coroutine: where it is; coroutine 1 calls main
  thread,   \* per coroutine: its thread among those of ThreadLogs
  awaits,   \* per coroutine: the one whose result its script waits for
  future,   \* per coroutine: what its future is set to, <<>> before
  got,      \* history: what a script got as the result of a coroutine
  progress, \* globals.progress, each report with what its script had got by then
  work      \* history: how much the scripts have done

coVars == <<cur, where, thread, awaits, future, got, progress, work>>
allVars == <<vars, coVars>>

\* A coroutine is named by its number.
Coroutines == Threads
Places == {"none", "new", "ready", "get", "blocked", "done", "panicked"}

\* How a function ends: with its value, or with an error and where that arose.
Value(c) == <<"value", c>>
Error(c) == <<"error", c>>
Outcomes == {Value(c) : c \in Coroutines} \cup {Error(c) : c \in Coroutines}

-----------------------------------------------------------------------------
CoInit ==
  /\ Init
  /\ cur = 1
  /\ where = [c \in Coroutines |-> IF c = 1 THEN "ready" ELSE "none"]
  /\ thread = [c \in Coroutines |-> IF c = 1 THEN 1 ELSE 0]
  /\ awaits = [c \in Coroutines |-> 0]
  /\ future = [c \in Coroutines |-> <<>>]
  /\ got = [c \in Coroutines |-> [d \in Coroutines |-> <<>>]]
  /\ progress = <<>>
  /\ work = 0

\* A panic of main ends the run; one of another coroutine fails the workflow
\* task, each time it is tried.
Stopped == panicked \/ \E c \in Coroutines : where[c] = "panicked"

Runs(c) == ~Stopped /\ cur = c /\ where[c] = "ready"
Works(c, cost) == Runs(c) /\ work + cost <= MaxWork /\ work' = work + cost

\* concurrent.run: a coroutine that starts when its caller yields.
Go(c) ==
  /\ Runs(c)
  /\ \E n \in Coroutines :
       /\ where[n] = "none" /\ \A m \in 1..(n - 1) : where[m] # "none"
       /\ where' = [where EXCEPT ![n] = "new"]
  /\ UNCHANGED <<vars, cur, thread, awaits, future, got, progress, work>>

\* concurrent.run without a function, as any builtin that indexes its arguments.
Panic(c) ==
  /\ Runs(c)
  /\ where' = [where EXCEPT ![c] = "panicked"]
  /\ UNCHANGED <<vars, cur, thread, awaits, future, got, progress, work>>

\* Variant, not the code's: an error does not settle the future.
SettleValue(c, outcome) ==
  /\ future' = IF outcome[1] = "value" THEN [future EXCEPT ![c] = outcome] ELSE future
  /\ where' = [where EXCEPT ![c] = "done"]
  /\ cur' = 0

\* starlark.Call returns and settable.Set takes what it returned.
Settle(c, outcome) ==
  /\ future' = [future EXCEPT ![c] = outcome]
  /\ where' = [where EXCEPT ![c] = "done"]
  /\ cur' = 0

\* The function returns, or fails by itself.
Return(c) ==
  /\ Runs(c)
  /\ \E outcome \in {Value(c), Error(c)} : Settle(c, outcome)
  /\ UNCHANGED <<vars, thread, awaits, got, progress, work>>

\* Variant, not the code's: a script does not notice the error it got.
TakeValue(c, d) ==
  /\ got' = [got EXCEPT ![c][d] = Value(d)]
  /\ cur' = c /\ where' = [where EXCEPT ![c] = "ready"] /\ UNCHANGED future

\* Future.Get of what is there: an error fails the script that asked.
Take(c, d) ==
  /\ got' = [got EXCEPT ![c][d] = future[d]]
  /\ IF future[d][1] = "error" THEN Settle(c, future[d])
     ELSE cur' = c /\ where' = [where EXCEPT ![c] = "ready"] /\ UNCHANGED future

\* Variant, not the code's: a future without an outcome gives None.
ResultNow(c, d) ==
  /\ Works(c, 2) /\ d # 1 /\ where[d] # "none"
  /\ IF future[d] # <<>> THEN Take(c, d) /\ UNCHANGED awaits
     ELSE got' = [got EXCEPT ![c][d] = Value(d)] /\ UNCHANGED <<cur, where, awaits, future>>
  /\ UNCHANGED <<vars, thread, progress>>

\* result(), of any coroutine whose future the script may hold, its own included.
\* Main has none that scripts could hold.
Result(c, d) ==
  /\ Works(c, 2) /\ d # 1 /\ where[d] # "none"
  /\ IF future[d] # <<>> THEN Take(c, d) /\ UNCHANGED awaits
     ELSE /\ where' = [where EXCEPT ![c] = "get"]
          /\ awaits' = [awaits EXCEPT ![c] = d]
          /\ cur' = 0
          /\ UNCHANGED <<future, got>>
  /\ UNCHANGED <<vars, thread, progress>>

\* A call that blocks: an activity, a timer.
Block(c) ==
  /\ Works(c, 2)
  /\ where' = [where EXCEPT ![c] = "blocked"]
  /\ cur' = 0
  /\ UNCHANGED <<vars, thread, awaits, future, got, progress>>

\* progress.report.
Report(c) ==
  /\ Works(c, 2)
  /\ progress' = Append(progress, [by |-> c, heard |-> {d \in Coroutines : got[c][d] # <<>>}])
  /\ UNCHANGED <<vars, cur, where, thread, awaits, future, got>>

ThreadPrint(c) ==
  /\ Works(c, 1) /\ PrintLine(thread[c])
  /\ UNCHANGED <<cur, where, thread, awaits, future, got, progress>>

SetOsEnviron(c) ==
  /\ Works(c, 1) /\ \E v \in Values \ {environ} : SetEnviron(v)
  /\ UNCHANGED <<cur, where, thread, awaits, future, got, progress>>

Idle == ~Stopped /\ cur = 0

\* A new coroutine creates its thread, under the environ as it is by now.
Start(c) ==
  /\ Idle /\ where[c] = "new"
  /\ CreateThread
  /\ cur' = c
  /\ where' = [where EXCEPT ![c] = "ready"]
  /\ thread' = [thread EXCEPT ![c] = Len(limit')]
  /\ UNCHANGED <<awaits, future, got, progress, work>>

\* A blocking call is over.
Unblock(c) ==
  /\ Idle /\ where[c] = "blocked"
  /\ cur' = c
  /\ where' = [where EXCEPT ![c] = "ready"]
  /\ UNCHANGED <<vars, thread, awaits, future, got, progress, work>>

\* The future a script waits for is set.
Resume(c) ==
  /\ Idle /\ where[c] = "get" /\ future[awaits[c]] # <<>>
  /\ Take(c, awaits[c])
  /\ UNCHANGED <<vars, thread, awaits, progress, work>>

Dispatch == \E c \in Coroutines : Start(c) \/ Unblock(c) \/ Resume(c)

CoNext ==
  \/ Dispatch
  \/ \E c \in Coroutines : \/ Go(c) \/ Panic(c) \/ Return(c) \/ Block(c) \/ Report(c)
                           \/ ThreadPrint(c) \/ SetOsEnviron(c)
                           \/ \E d \in Coroutines : Result(c, d)

CoSpec == CoInit /\ [][CoNext]_allVars

\* The SDK goes on as long as a coroutine can, blocking calls time out, and no
\* function runs forever.
FairCoSpec ==
  CoSpec /\ WF_allVars(Dispatch) /\ WF_allVars(\E c \in Coroutines : Return(c))

-----------------------------------------------------------------------------
(* Properties *)

CoTypeOK ==
  /\ cur \in Coroutines \cup {0}
  /\ where \in [Coroutines -> Places]
  /\ thread \in [Coroutines -> 0..MaxThreads]
  /\ awaits \in [Coroutines -> Coroutines \cup {0}]
  /\ future \in [Coroutines -> Outcomes \cup {<<>>}]
  /\ got \in [Coroutines -> [Coroutines -> Outcomes \cup {<<>>}]]
  /\ progress \in Seq([by : Coroutines, heard : SUBSET Coroutines])
  /\ work \in 0..MaxWork

\* A future is set when its function has ended; what a script got is what it is set
\* to; an error it got has ended it; and an error is that of the function it names.
SetAtEnd == \A c \in Coroutines : (future[c] # <<>>) <=> (where[c] = "done")
GotIsSet == \A c, d \in Coroutines : got[c][d] # <<>> => got[c][d] = future[d]
ErrorEnds ==
  \A c, d \in Coroutines :
    got[c][d] # <<>> /\ got[c][d][1] = "error" => future[c] # <<>> /\ future[c][1] = "error"
Named ==
  \A c \in Coroutines :
    future[c] # <<>> =>
      future[future[c][2]] = future[c] /\ (future[c][1] = "value" => future[c] = Value(c))

\* Whoever waits, waits for a coroutine.
WaitsForOne == \A c \in Coroutines : where[c] = "get" => awaits[c] \in Coroutines

\* What a report knows of has ended.
HeardEnded == \A i \in DOMAIN progress : \A d \in progress[i].heard : where[d] = "done"

\* Whoever asks for the result of a coroutine, and however often, gets the one
\* outcome its function ended with; a function that returned has got no error on
\* its way; and an error is told wherever it went as that of the function it
\* arose in.
ResultsAgree ==
  /\ \A c, d \in Coroutines : got[c][d] # <<>> =>
       /\ got[c][d] = future[d]
       /\ future[c] # <<>> /\ future[c][1] = "value" => got[c][d][1] = "value"
  /\ Named

\* Progress is told in causal order: once a script that has got the result of a
\* coroutine reports, that coroutine reports no more.
ReportsFollowResults ==
  \A i, j \in DOMAIN progress : i < j => progress[j].by \notin progress[i].heard

CoInv ==
  /\ CoTypeOK /\ SetAtEnd /\ GotIsSet /\ ErrorEnds /\ Named
  /\ WaitsForOne /\ HeardEnded /\ ReportsFollowResults

\* However the scripts block and wait, the run comes to rest with every function
\* that was called at its end, but for those that wait for each other; unless
\* Go code panicked.
AtRest ==
  \A c \in Coroutines :
    \/ where[c] \in {"none", "done"}
    \/ where[c] = "get" /\ where[awaits[c]] = "get"
RunSettles == <>[](Stopped \/ AtRest)
=============================================================================
