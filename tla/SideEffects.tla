----------------------------- MODULE SideEffects -----------------------------
(***************************************************************************)
(* Random numbers, UUIDs and the time as a script gets them                *)
(* (plugin/random, plugin/uuid, plugin/time) when the worker that runs it  *)
(* is lost and another one replays the workflow.                           *)
(*                                                                         *)
(* Each value is drawn in a side effect: on first execution the function   *)
(* runs and its value becomes a marker of the history; on replay the       *)
(* marker gives the value and the function does not run.  Markers are      *)
(* durable from the end of the workflow task, that is once the script has  *)
(* blocked.  The generator of random.seed lives in the plugin's module, in *)
(* the memory of the worker.                                               *)
(*                                                                         *)
(* The time of a workflow is that at which its current task began.  The    *)
(* variable STARLARK_TIME of the environment moves the time a script sees. *)
(* Times are small integers, and 64 bits are those from -Width up to       *)
(* Width - 1.                                                              *)
(***************************************************************************)
EXTENDS Integers, Sequences, FiniteSets

CONSTANTS Runs,        \* scripts and the values of STARLARK_TIME they run under:
                       \* <<>>, <<"unix", n>> or <<"bad">>; a script is
                       \* a sequence of Ops
          Free,        \* values an unseeded draw may have
          MaxRestarts, \* bound: workers lost in one run
          Width,       \* integers wrap beyond it
          Nap          \* how long "sleep" sleeps

ASSUME MaxRestartsAssumption == MaxRestarts \in Nat
Ops == {"seed", "draw", "uuid", "block", "now", "sleep", "nap"}

ASSUME RunsAssumption ==
  \A r \in Runs :
    /\ r[1] \in Seq(Ops)
    /\ r[2] \in {<<>>, <<"bad">>} \/ (r[2] = <<"unix", r[2][2]>> /\ r[2][2] \in Int)
ASSUME TimeAssumption == Width \in Nat \ {0} /\ Nap \in Nat \ {0}

VARIABLES
  script,    \* what the workflow's script does
  pc,        \* index of its next operation
  rand,      \* m.rand: -1 for nil, else how many values the source has given
  seen,      \* values the script got in this execution
  markers,   \* side effect markers: those of the history, then those pending
  durable,   \* how many of them are in the history
  acted,     \* history: the values on which completed tasks were based
  replayed,  \* history: how many values this execution gets from markers
  restarts,
  env,       \* STARLARK_TIME
  times,     \* when each task of the workflow began, the current or next one last
  task,      \* which of them this execution is in
  delta,     \* m.delta of the time module
  read,      \* times the script got in this execution, with the time it was
  actedRead  \* history: those on which completed tasks were based

timeVars == <<env, times, task, delta, read, actedRead>>
vars == <<script, pc, rand, seen, markers, durable, acted, replayed, restarts, timeVars>>

\* The k-th value of the seeded source, an unseeded value, a new UUID.
Seeded(k) == [from |-> "source", v |-> k]
Unseeded(v) == [from |-> "free", v |-> v]
Fresh(v) == [from |-> "uuid", v |-> v]

Op(o) == pc \in DOMAIN script /\ script[pc] = o

-----------------------------------------------------------------------------
\* Before the plugins are created.
Init ==
  /\ \E r \in Runs : script = r[1] /\ env = r[2]
  /\ pc = 0 /\ rand = -1
  /\ seen = <<>> /\ markers = <<>> /\ durable = 0
  /\ acted = <<>> /\ replayed = 0 /\ restarts = 0
  /\ times = <<0>> /\ task = 1 /\ delta = 0 /\ read = <<>> /\ actedRead = <<>>

\* workflow.Now.
Now == times[task]

\* Variant, not the code's: the difference the other way round.
DeltaReversed(sysTime) == IF env = <<>> THEN 0 ELSE sysTime - env[2]

\* GetEffectiveTime and Sub, which does not go beyond the width.
Delta(sysTime) ==
  IF env = <<>> THEN 0
  ELSE LET d == env[2] - sysTime
       IN IF d < -Width THEN -Width ELSE IF d > Width - 1 THEN Width - 1 ELSE d

\* The plugins' Create: no generator, and the time as it is when Run begins.  A
\* value of STARLARK_TIME that cannot be parsed panics.
Create ==
  /\ pc = 0 /\ env # <<"bad">>
  /\ pc' = 1
  /\ delta' = Delta(Now)
  /\ UNCHANGED <<script, rand, seen, markers, durable, acted, replayed, restarts, env, times,
                 task, read, actedRead>>

\* UnixNano wraps.
UnixNano(t) == ((t + Width) % (2 * Width)) - Width

\* time.time and time.time_ns.
TimeNs ==
  /\ Op("now")
  /\ read' = Append(read, [now |-> Now, got |-> UnixNano(Now + delta)])
  /\ pc' = pc + 1
  /\ UNCHANGED <<script, rand, seen, markers, durable, acted, replayed, restarts, env, times, task,
                 delta, actedRead>>

\* workflow.SideEffect: replayed from its marker, or computed and recorded.
Replaying == Len(seen) < Len(markers)

SideEffect(values) ==
  \E x \in (IF Replaying THEN {markers[Len(seen) + 1]} ELSE values) :
    /\ seen' = Append(seen, x)
    /\ markers' = IF Replaying THEN markers ELSE Append(markers, x)

\* Variant, not the code's: a second seed does not start over.
SeedOnce ==
  /\ Op("seed")
  /\ rand' = IF rand = -1 THEN 0 ELSE rand
  /\ pc' = pc + 1
  /\ UNCHANGED <<script, seen, markers, durable, acted, replayed, restarts, timeVars>>

\* random.seed: a new source, made outside any side effect.
Seed ==
  /\ Op("seed")
  /\ rand' = 0
  /\ pc' = pc + 1
  /\ UNCHANGED <<script, seen, markers, durable, acted, replayed, restarts, timeVars>>

\* Variant, not the code's: unseeded numbers are drawn outside a side effect.
DrawDirectly ==
  /\ Op("draw")
  /\ \E x \in IF rand >= 0 THEN {Seeded(rand + 1)} ELSE {Unseeded(v) : v \in Free} :
       seen' = Append(seen, x)
  /\ rand' = IF rand >= 0 THEN rand + 1 ELSE rand
  /\ pc' = pc + 1
  /\ UNCHANGED <<script, markers, durable, acted, replayed, restarts, timeVars>>

\* random.randint and random.random: the source moves on only if the
\* function of the side effect runs.
Draw ==
  /\ Op("draw")
  /\ SideEffect(IF rand >= 0 THEN {Seeded(rand + 1)} ELSE {Unseeded(v) : v \in Free})
  /\ rand' = IF rand >= 0 /\ ~Replaying THEN rand + 1 ELSE rand
  /\ pc' = pc + 1
  /\ UNCHANGED <<script, durable, acted, replayed, restarts, timeVars>>

\* uuid.uuid4: no two are equal.
Uuid4 ==
  /\ Op("uuid")
  /\ SideEffect({Fresh(restarts * (Len(script) + 1) + pc)})
  /\ pc' = pc + 1
  /\ UNCHANGED <<script, rand, durable, acted, replayed, restarts, timeVars>>

\* The workflow task completes with everything that was decided so far, and the
\* next one begins once what the script waits for is there.
EndTask(next) ==
  /\ durable' = Len(markers)
  /\ acted' = IF Len(seen) < Len(acted) THEN acted ELSE seen
  /\ actedRead' = IF Len(read) < Len(actedRead) THEN actedRead ELSE read
  /\ task' = task + 1
  /\ \E t \in next : times' = IF task < Len(times) THEN times ELSE Append(times, t)
  /\ pc' = pc + 1
  /\ UNCHANGED <<script, rand, seen, markers, replayed, restarts, env, delta, read>>

\* The script blocks, as in an activity.
Block == Op("block") /\ EndTask(Now..(Now + 1))

\* time.sleep blocks on a timer, unless there is nothing to sleep.
Sleep == Op("sleep") /\ EndTask((Now + Nap)..(Now + Nap + 1))

SleepNot ==
  /\ Op("nap")
  /\ pc' = pc + 1
  /\ UNCHANGED <<script, rand, seen, markers, durable, acted, replayed, restarts, timeVars>>

\* The worker is lost: another one creates the plugins anew and runs the script
\* from its beginning, over the history.  The task that was lost begins again.
Restart ==
  /\ restarts < MaxRestarts
  /\ restarts' = restarts + 1
  /\ markers' = SubSeq(markers, 1, durable)
  /\ replayed' = durable
  /\ pc' = 0 /\ rand' = -1 /\ seen' = <<>>
  /\ \E t \in 0..1 : times' = [times EXCEPT ![Len(times)] = @ + t]
  /\ task' = 1 /\ delta' = 0 /\ read' = <<>>
  /\ UNCHANGED <<script, durable, acted, env, actedRead>>

Next == Create \/ Seed \/ Draw \/ Uuid4 \/ TimeNs \/ Block \/ Sleep \/ SleepNot \/ Restart

Spec == Init /\ [][Next]_vars

-----------------------------------------------------------------------------
(* Properties *)

Marks == [from : {"source", "free", "uuid"}, v : Int \cup Free]
Reads == [now : Int, got : Int]

TypeOK ==
  /\ script \in Seq(Ops) /\ pc \in Nat /\ rand \in Int /\ restarts \in Nat
  /\ seen \in Seq(Marks) /\ markers \in Seq(Marks) /\ acted \in Seq(Marks)
  /\ durable \in Nat /\ replayed \in Nat
  /\ env \in {<<>>, <<"bad">>} \/ (env = <<"unix", env[2]>> /\ env[2] \in Int)
  /\ times \in Seq(Nat) /\ task \in Nat /\ delta \in Int
  /\ read \in Seq(Reads) /\ actedRead \in Seq(Reads)

\* What a workflow task was based on is what the script sees ever after: a
\* replay never gives it another number or another UUID.
ReplayStable ==
  \A k \in DOMAIN seen : k \in DOMAIN acted => seen[k] = acted[k]

\* How many operations before p are among ops; the last random.seed before p.
Count(ops, p) == Cardinality({r \in 1..(p - 1) : script[r] \in ops})
Got(p) == Count({"draw", "uuid"}, p)
SeededAt(q, p) ==
  /\ q < p /\ script[q] = "seed"
  /\ \A r \in (q + 1)..(p - 1) : script[r] # "seed"

\* Operation p draws value number k of the source if it is draw number k since
\* random.seed, called at q.
AsSeeded(q, p) == seen[Got(p + 1)] = Seeded(Count({"draw"}, p + 1) - Count({"draw"}, q))

\* A seed that was set past the replayed part of a run gives the numbers it
\* stands for, however often the worker was lost before.
SeededPastReplay ==
  \A p \in 1..(pc - 1), q \in 1..(pc - 1) :
    script[p] = "draw" /\ SeededAt(q, p) /\ Got(q) >= replayed => AsSeeded(q, p)

\* "Seed it with a known value and validate the next random number generated
\* is the expected one" (test/testdata/random_test.star:40): so does any seed.
SeedIsReproducible ==
  \A p \in 1..(pc - 1), q \in 1..(pc - 1) :
    script[p] = "draw" /\ SeededAt(q, p) => AsSeeded(q, p)

\* The time asked for at the beginning of the run; and 64 bits hold its distance
\* from the system's, as well as the time asked for as it is by now.
Asked == IF env = <<>> THEN times[1] ELSE env[2]
Near == env # <<"bad">> /\ {Asked - times[1], Asked + Now - times[1]} \subseteq -Width..(Width - 1)

\* A script sees the time as if its run had begun when STARLARK_TIME says
\* (service/plugin.go:12), as much later as the workflow has gone on since.
ShiftedAsAsked == \A k \in DOMAIN read : read[k].got = Asked + read[k].now - times[1]

\* That, the same again on a replay, and after a sleep at least as much later as it
\* slept.  Only a time so far away that its distance does not fit comes out
\* otherwise.
TimeAsAsked ==
  Near =>
    /\ ShiftedAsAsked
    /\ \A k \in DOMAIN read : k \in DOMAIN actedRead => read[k] = actedRead[k]
    /\ (pc > 2 /\ pc - 1 \in DOMAIN script /\ script[pc - 1] = "now" /\ script[pc - 2] = "sleep" =>
          \A k \in 1..(Len(read) - 1) : read[Len(read)].got >= read[k].got + Nap)

-----------------------------------------------------------------------------
(* Why they hold *)

\* What the script got and what was acted upon are both beginnings of the markers.
MarkersInv ==
  /\ durable \in 0..Len(markers)
  /\ Len(seen) <= Len(markers) /\ \A k \in 1..Len(seen) : seen[k] = markers[k]
  /\ Len(acted) <= durable /\ \A k \in 1..Len(acted) : acted[k] = markers[k]

\* Time goes on from task to task; and the difference is that at the beginning of
\* the first.
TimesInv ==
  /\ task \in 1..Len(times)
  /\ \A i, j \in 1..Len(times) : i <= j => times[i] <= times[j]
  /\ pc = 0 => task = 1 /\ read = <<>>
  /\ pc > 0 => env # <<"bad">> /\ delta = Delta(times[1])
  /\ \A k \in 1..Len(read) :
       \E j \in 1..task : read[k] = [now |-> times[j], got |-> UnixNano(times[j] + delta)]

IInv == TypeOK /\ MarkersInv /\ TimesInv

\* An execution is as far in its values, its times and its tasks as in its script.
CountInv ==
  /\ Len(seen) = Got(pc)
  /\ Len(read) = Count({"now"}, pc)
  /\ task = 1 + Count({"block", "sleep"}, pc)

\* The markers are those to replay, until the script has got as many; and the
\* source has given as many values as were drawn since it was seeded past them.
SourceInv ==
  /\ Len(markers) = IF Len(seen) < replayed THEN replayed ELSE Len(seen)
  /\ \A q \in 1..(pc - 1) :
       SeededAt(q, pc) /\ Got(q) >= replayed => rand = Count({"draw"}, pc) - Count({"draw"}, q)
  /\ SeededPastReplay

\* Operation p gets time number k; the task it is in.
ReadAt(k, p) == p \in DOMAIN script /\ script[p] = "now" /\ Count({"now"}, p) = k - 1
TaskOf(p) == 1 + Count({"block", "sleep"}, p)
TimeAt(p) == [now |-> times[TaskOf(p)], got |-> UnixNano(times[TaskOf(p)] + Delta(times[1]))]

\* A script gets the times at which its tasks began, in every execution; and a task
\* begins that much later than the one before that slept.
ReadInv ==
  /\ \A k \in 1..Len(read) : \E p \in 1..(pc - 1) : ReadAt(k, p) /\ read[k] = TimeAt(p)
  /\ \A k \in 1..Len(actedRead) :
       \E p \in DOMAIN script :
         ReadAt(k, p) /\ TaskOf(p) < Len(times) /\ actedRead[k] = TimeAt(p)
  /\ \A p \in DOMAIN script :
       script[p] = "sleep" /\ TaskOf(p) < Len(times) =>
         times[TaskOf(p) + 1] >= times[TaskOf(p)] + Nap

ScriptInv == CountInv /\ SourceInv /\ ReadInv
=============================================================================
