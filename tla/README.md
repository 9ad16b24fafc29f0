# Models and proofs of starlark-worker

starlark-worker runs Starlark scripts as durable workflows on Cadence or
Temporal. A client packs a script and the files it loads into a tarball and
starts a workflow; `Service.Run` interprets the script inside that workflow,
with plugins (`@plugin` modules) for concurrency, timers, HTTP, random numbers,
exit hooks, and so on. Everything that blocks goes through the workflow SDK, so
the script is replayed from the workflow's history when its worker is lost.

This directory holds TLA+ models of the parts where order, cancellation,
failure and replay matter, the TLC runs that check them on small instances, and
theorems about them proved with TLAPS for every value of their constants.

## The system: components, state, operations

| component | source | state | operations |
|---|---|---|---|
| Service.Run | `service/service.go` | environ, logs, progress, exit hooks, `isCanceled` of one run | prepare, call main, run hooks, turn errors into one |
| exit hooks | `service/exit_hook.go`, `plugin/atexit` | a slice of hooks | register, unregister, run |
| threads and logs | `service/thread.go`, `plugin/os` | a log limit per thread, one shared list | create a thread, print, query |
| batch future | `internal/temporalbatch`, `plugin/workflow/batch_future.go` | semaphore, work channel, two wait groups, futures | start, is_ready, get |
| concurrent | `plugin/concurrent` | none of its own | run, batch_run |
| random, uuid | `plugin/random`, `plugin/uuid` | the seeded source | seed, randint, random, uuid4 |
| progress | `plugin/progress` | the run's list of reports | report, query |
| time | `plugin/time` | the difference to the time asked for | time, time_ns, sleep |
| json, hashlib, test | `plugin/*` | none | pure functions |
| workflow plugin | `plugin/workflow` | none | execute_activity, execute_workflow |
| request | `plugin/request` | an HTTP client | do, do_json and their activities |
| backends | `internal/internal_cadence.go`, `internal/internal_temporal.go` | none | options, errors, data converters |
| facades | `workflow`, `activity`, `worker`, `encoded` | none | pass calls on to the backend of the context |
| codec | `star/codec.go`, `star/dataclass.go` | none | encode, decode |
| loading | `star/star.go`, `client/*`, `ext/tar.go` | files by path; modules already packed | package, load |
| header propagators | `cadence`, `temporal` | headers in a context | inject, extract |
| builder, defaults | `service/service.go`, `service/defaults.go` | options of activities and children | set, build |
| commands | `cmd/*_client_main` | flags | package, run |
| workers | `cmd/service`, `cadence`, `temporal` | none | wiring |

How they interact: `Service.Run` creates the plugins and the main thread, calls
main, and then runs the exit hooks. Scripts call the plugins; `concurrent` starts
coroutines of the SDK's dispatcher, each with a Starlark thread of its own, that
share the run's state (hooks, logs, progress, environ, the random source).
Coroutines run one at a time and give way where they block: in an activity, a
timer, a channel or a wait group. A cancellation reaches whatever blocks on the
workflow's context, which `GetContext` replaces by a disconnected one once
`isCanceled` is set. A worker may be lost at any time; another then replays the
script over the history.

What is hard in it, and what makes each part correct:

- *Exit hooks.* The loop reads a slice while coroutines append to it and shift
  it. Correct: no hook that stays registered is missed, none is nil, last in
  first out, none runs twice.
- *Service.Run.* Cancellation, failures and panics meet the hooks in any order.
  Correct: the hooks clean up, success means that nothing failed, a failure
  tells why as far as the backend can, a run ends.
- *Batch future.* Three kinds of coroutine share a semaphore and two wait
  groups. Correct: the limit is kept and used, every callable runs once, get()
  answers, with every value at its index.
- *Coroutines.* Scripts start coroutines, wait for each other's results, fail
  and panic, and share the lists of the run. Correct: one outcome per function
  for all who ask, no error lost, progress in causal order, nobody waiting but
  for those who wait for each other.
- *Logs.* Each thread has its own limit for one list. Correct: the latest
  lines, no fewer than the smallest limit and no more than the largest.
- *Loading.* A client follows the loads of files on its disk, a run follows
  them through names in a package; graphs of loads have cycles. Correct: the
  packager ends, the package is closed under loads and holds nothing else, a
  run of it misses no file.
- *Activities.* An attempt fails before or after the server has acted, and the
  service repeats it. Correct: what cannot heal is not retried, what can is,
  until the time is over; a value has passed every check.
- *Calls.* Arguments and results are written and read by converters that differ
  between the backends, and keywords change options that Service.Run has set
  from those the service was built with. Headers travel along. Correct: a value
  arrives as it is where JSON has a form for it, a call is scheduled as builder
  and script asked, a callee has its caller's headers, a workflow starts with
  what the flags of the command say.
- *Random numbers and times.* A generator and a time difference in memory meet
  replay. Correct: what the script has acted upon does not change, a seed stands
  for its sequence, the time is the one asked for.

## Modules

| module | models | extends or instantiates |
|---|---|---|
| `AtExit` | what exit hooks promise: a set of live hooks, at least one call of each | |
| `ExitHooks` | the slice and the loop | instantiates `AtExit` |
| `Failures` | errors, and what backends and `processError` make of them | |
| `ServiceRun` | a run whose main leaves coroutines behind, and the runs that wait for it | extends `ExitHooks`, `Failures` |
| `BatchPool` | what a batch promises: a pool of bounded size, results delivered at once | |
| `BatchFuture` | the batch's coroutines | instantiates `BatchPool` |
| `BatchGet` | a batch and its caller: `BatchFuture.Get` step by step, writing into the caller's slice | extends `BatchFuture` |
| `ThreadLogs` | log limits and the log list | |
| `Coroutines` | the coroutines of a run, their threads, futures and progress | extends `ThreadLogs` |
| `SideEffects` | random numbers, UUIDs and times under replay | |
| `Packaging` | the packager of the clients | |
| `ScriptLoad` | a run opening its package and executing its files | extends `Packaging` |
| `ActivityRetry` | request activities under retries, per backend | |
| `Codec` | values as text and back, and the data converters of the backends | |
| `Options` | options of calls: builder, defaults, adapters of the backends | |
| `Headers` | the header propagators | |
| `Command` | the run command of the clients | extends `Codec` |
| `RemoteCall` | execute_activity and execute_workflow, twice in a row, and the start of a workflow by the command | extends `Command`, `Options`, `Headers` |
| `BatchProofs`, `ExitHooksProofs`, `ServiceRunProofs`, `CoroutinesProofs`, `SideEffectsProofs`, `ScriptLoadProofs`, `ActivityRetryProofs`, `RemoteCallProofs` | theorems | extend the module they name |
| `MC*` | constants for TLC | extend the module they name |

Operators marked "Variant, not the code's" stand next to the definition they
distort. Each is a plausible mistake in that piece of code; no specification
uses them, and putting one in the place of the definition makes a property
fail, which shows that the property constrains the code.

### Correspondence to the code

*ExitHooks.* `slots` is the backing array up to its capacity and `len` the
length of `r.hooks`; `AppendInPlace` and `AppendMoving` are the two things a Go
append does, `Unregister` shifts in place as `append(r.hooks[:i],
r.hooks[i+1:]...)` does and leaves a stale copy behind. `BeginRun` is
`hooks := r.hooks`: the loop then reads `Seen`, the array it started with,
which is still the registry's (`attached`) until an append has to move. Scripts
act before the loop and while a hook is being called (`ScriptRuns`); between
two turns of the loop nothing blocks.

*ServiceRun.* `run` follows `Service.Run`; the coroutines follow the script of
`test/testdata/atexit_test.star`: create a resource, register its deletion,
work, delete it, unregister. `bound` says whether a blocking call was made on
the cancelable context. `Interrupted` leaves open whether the server had
already acted. `LooksCanceled` is the `errors.As` of `Run`: its target is an
interface which every custom error satisfies, so a failed activity counts too. So
does an activity's timeout on Cadence; on Temporal, whose `TimeoutError` has
`LastHeartbeatDetails` in place of `HasDetails` and `Details`, it does not, and the
hooks of a run that ended by it stay within reach of a cancellation. A Temporal
timeout that carries the failure of an earlier attempt as its cause is left out.
A panic ends the run past the hooks. `ParentFails` is a workflow that waits for
the run by `execute_workflow` and fails with what it is told.

*Failures.* An error is its kind and what tells it from others of the kind.
`Wire` is the way of an error to whoever waits in another workflow, which is up
to the SDKs; `ReasonOf` and `ProcessError` are the code's. Temporal's `Reason` is
the whole text of the error, which the model keeps apart as `TextOf`.

*BatchFuture.* One action is the code between two blocking calls: `Acquire` is
the send on the semaphore, `HandOver` the meeting of the unbuffered channel's
two ends (and the processor's turn up to the next receive), `CloseWork`,
`EndReceive` and `EndProcessor` the ends of the two loops, `StartTask` the
factory's call, `Release` what follows `f.Get`. `FinishTask` is the callable's
end, which resolves the chained future of the script.

*BatchGet.* Runs over the coroutines of `BatchFuture` and takes the place of the
script there: its first step past the checks is `CallGet`, its last one is
`GetReturn`. `ptr`, `array` and `len` are the caller's pointer and slice; the
actions are the nil check, the refusal of a non-slice, the resizing, the wait,
one turn of the loop, and the return.

*ThreadLogs.* `limit` is the `ll` each thread's print function has captured.
`environ` is the value of STAR_CORE_LOG_LEN only, which scripts change through
`os.environ`; a value that is no string makes `getEnviron` panic.

*Coroutines.* `Go` is `concurrent.run`, `Start` the first step of what it hands to
`workflow.Go`, `Settle` its last. `Result` is `future.result()`, which blocks
(`where` is "get") or takes the outcome at once; an error it takes ends the
script, and the error keeps the name of the function it arose in. `ThreadPrint` and
`SetOsEnviron` are steps of `ThreadLogs`. `cur` is the coroutine the dispatcher of
the SDK has chosen; it keeps it until it blocks. The order in which the SDK
chooses is left open, so the model has more behaviours than one version of the
SDK. `Panic` in a coroutine other than main stops the run's task, since only
main's goroutine recovers.

*SideEffects.* `markers` are the side effects recorded so far, of which
`durable` are in the history; `Block` is the end of a workflow task, `Restart`
the loss of the worker. `rand` is how far the seeded source of the plugin's
module has come. For the time, `times` holds when each task of the workflow
began, which `Now` reads, and `Restart` begins the last one again a little later.
`Create` computes `delta` when the plugins are made, on a replay from the first
task's time; `Delta` saturates as Go's Sub does and `UnixNano` wraps.

*Packaging, ScriptLoad.* A path is the sequence of its names; a load is what a
script writes, by where it starts (`@`, `//`, `/`, or the working directory)
and how many `..` it begins with. `Resolve` is where the client looks, `Asked`
the name a run asks for, `Key` the name a file got in the package. `stack` is
the recursion of `load`, one frame per call and the index of its loop;
`frames` is that of the thread's loads in a run. `Under` is the test by prefix
of the text, which `Longer` names satisfy as well. A file's kind says what becomes
of it: the client parses .star files only, so a .py file that does not parse
("brokenpy") is packed and fails in the run, and a file that cannot be read ("locked")
is refused, by `DirToTar` as well, which parses nothing. What a script does beside
loading is left out, except that it may fail.

*ActivityRetry.* `Send` is `Do` and `DoJSON` up to `client.Do`; `DoFails`, `Do`
and `DoJSON` are what follows. `Handle` (the server), `TimesOut`, `Decide` and
`Retry` (the workflow service) are modelled from how the source uses them:
the policy they follow is the one the backend's adapter has made of
`DefaultRetryPolicy`, and reasons are compared as the service sees them
(`SeenAs`). What an answer's body is asserted to be may hold, fail or panic, when
values are compared that Go cannot compare (`activities.go:128`). Time is counted in
intervals between attempts. ScheduleToStartTimeout, for an attempt that no worker takes,
is left out.

*Codec, RemoteCall.* A value and a JSON tree are functions from paths to nodes: the
codec, which the code writes by recursion over a value, then changes node by node,
and what it does can be proved for values of any depth. What fails in the code
leaves `BrokenTree`. A node, a string and the content of bytes are tuples that
begin with their kind. `Encode`, `Decode` and the converters have the names of
the code; `ToLine` adds the encoder of Go, which follows whenever `Encode`
fails, because `UnsupportedTypeError` is an interface that every error
satisfies. `TaskList`, `Domain`, `AsBytes`, `RefuseKeyword` and `WrongType` are one
turn of the loop over the keywords, `Execute` and `ExecuteFuture` the two ends of
the call. The callee, which is not in the source, reads the arguments into its
parameters and answers with the first of them, and the script makes the call
again with the answer (`CallAgain`).

*Options.* `Set` is one setter of the builder, `EnterRun` the two calls by which
`Service.Run` puts the options into its context. Each adapter's function is an
operator with its backend at the end of its name. An option is unset or names
what it was set to; `own` are search attributes written to the workflow itself.

*Headers, Command.* `Inject` and `Extract` of each backend work on the headers of
the caller's context; `Absent` is a context no propagator has made, from which
the type assertion of `GetContextHeaders` panics. `ReadFlags` is the run command up
to the start of the workflow, each argument `Broken` where the command exits.

## Runs

| run | asks | bounds |
|---|---|---|
| `batch_future` | limit kept and used, each factory once, get() complete, values and errors at their index, the pool is implemented, and get() answers under fairness | 4 callables; limits -1, 0, 1, 2; capacities to 5 |
| `exit_hooks` | no nil hook, last in first out, `AtExit` is implemented | 5 registrations of 2 functions |
| `exit_hook_twice` | *fails:* no hook is called twice | 3 registrations of 2 functions |
| `service_run` | hooks clean up, a canceled run shields its hooks, success is clean, a failure has the reason its backend can give, here and in the runs that wait, a run ends under fairness | 2 coroutines, every fault, 2 runs above, both backends |
| `service_run_cancel` | *fails:* a canceled run leaves no resource | 2 coroutines, no faults |
| `thread_logs` | the latest lines, between the smallest and the largest limit; one outcome for all who ask; progress in causal order; and the run comes to rest under fairness | 3 coroutines; limits -1, 2, 3; work of 6: a line or a change of the environment is 1, a result, a block or a report 2 |
| `side_effects` | replay is stable, a seed past the replayed part holds, the time is as asked for | all scripts of 5 operations on numbers, or of 4 on time under 6 values of STARLARK_TIME; 2 losses |
| `side_effects_seed` | *fails:* a seed always stands for its sequence | the same |
| `script_load` | closed and minimal packages, bounded nesting, a run misses no file, names are not confused; packaging ends, and so does a run that is not recursive | files a, b, c, a neighbour of the root, up to 2 loads in a and 1 in b, of 7 kinds; b a .star or a .py file or one that does not parse, c data, of an unknown extension, not parsed or not readable; 2 working directories |
| `activity_retry` | what is retried on Cadence, what a value means, and that a request ends | statuses 200, 404, 500; every kind of arguments; expiration after 3 intervals |
| `temporal_reasons` | *fails:* excluded reasons end retries on Temporal | the same |
| `remote_call` | values arrive and come back, a second trip changes nothing, calls are scheduled as builder and script asked, headers arrive, workflows start as flagged | all sequences of up to 3 keywords and of up to 3 setters; 58 values, alone, and 12 x 12 in pairs; callees of 1 or 2 parameters; every pair of flags of a kind |

Why the bounds suffice. Five registrations let the array grow twice (1, 2, 4,
8), so appends in place and appends that move both occur before and during the
loop, and two functions make a function registered twice. Two coroutines make a
hook before or after the one being called. Four callables under a limit
of two have one waiting, one being handed over and two running. Three coroutines
are main and two that wait for each other or for themselves, or a chain along
which an error passes; six lines pass each limit, by one thread or by several,
and two changes of the environment leave enough lines to tell. Work that tells
coroutines apart costs more than lines, which keeps the mixtures small. Five
operations are a seed, a draw, a block and two more draws; four are two times
with a sleep and another step between; two losses let a replay be lost again.
Integers are those of 5 bits, and the times asked for lie within them, at
either end, and past it on both sides. Two runs above the one that fails let an
error cross twice, which changes it on Temporal once and then no more. Three
files give cycles of length one and two, diamonds, and a file reached by
different spellings; `MaxDepth` 4 is past the depth of any run without a cycle.
Three statuses are an expected one, an excluded one and one that is neither;
three intervals stand for the twenty of five minutes, and allow every order of
failures within them that a state distinguishes. Where a
theorem exists it holds without these bounds. `CHECK_DEADLOCK FALSE` is set
because every model ends: a run returns, a batch is done, a script is at its
end, bounds are used up.

Fairness. `FairGetSpec` of `BatchGet` says that the dispatcher resumes every
runnable coroutine and that callables end; calling get() is not promised. `RunFairness`
says that main returns, that the activities of hooks end (they have timeouts)
and that `Run` goes on. Nothing is assumed of the coroutines main left behind.
`FairCoSpec` says that the dispatcher chooses a coroutine as long as one can go
on, that blocking calls end (their timeouts see to that) and that no function
runs for ever.
Packaging and loading wait for nothing, so `FairSpec` of `ScriptLoad` says that
they go on. That of `ActivityRetry` says that an attempt ends, by
StartToCloseTimeout if not by itself, that a worker takes the next one, and
that the service decides.

## What the failing runs show

- `exit_hook_twice`: hooks a, b are registered; the loop calls b, and while it
  is blocked an unregister of a shifts b down to the index the loop visits
  next, where it is called again (`exit_hook.go:30`, `:37`). The scripts' own
  hooks assert that their resource is still there.
- `service_run_cancel`: main has returned without a cancellation error when
  the workflow is canceled; the hooks' activities are canceled too and the
  resource stays (`service.go:277-285`), although the tests describe the hooks
  as cleanup "regardless of the job completion state".
- `side_effects_seed`: `seed` makes a source in memory on each replay, while
  replayed draws do not advance it; the next draw repeats the first value
  (`random/module.go:55`, `:79`).
- `temporal_reasons`: the adapter of Temporal hands on the excluded reasons, but
  its custom errors carry them in a wrapper whose Go type is what the service
  compares (`internal_temporal.go:446`). A request with invalid arguments is
  attempted again and again. The adapter also leaves ExpirationInterval out
  (`internal_temporal.go:344-350`); `TemporalPolicy` says so, and `RetriesEnd`
  holds of Cadence only.

Some properties have a premise because the code does less without it.
`FullSliceFits` leaves out slices with spare capacity: one with length 0 and
capacity 2 under a batch of 3 is grown by 1 from its length, which changes
nothing, and `SetLen(3)` panics (`batch_future.go:122-124`). `ValuesArrive` asks
that arguments fit the callee: a list that holds bytes is no JSON and arrives as
an empty dict, since the encoder of Go takes over. `CallsAsAsked` says what
Temporal's adapter makes of a child's options: it sets the queue of activities
for task_list and resets all but the queue for domain
(`internal_temporal.go:420-429`); it writes search attributes to the calling
workflow (`:373-379`); and both adapters lose some policies. `StartsAsFlagged`
says that Temporal's command starts a workflow with no package when its file
cannot be read (`cmd/temporal_client_main/main.go:124`, where `err` is the one of
the `else if`), and that an environment with the variable `__codec__` may be
lost. `TimeAsAsked` leaves out times whose distance from the system's does not
fit. `CanceledRunShieldsHooks` counts the timeout of an activity among the errors that
leave the hooks unshielded, on Temporal only (`internal/types.go:14`). `PackageSuffices` has a premise, `AllAligned`, which the repository itself does
not always meet: test/testdata/ping.star loads `../testdata/lib/math.star`. The
client makes that absolute from its working directory (`client.go:127`), in the
README's command the root of the repository, and refuses it as out of the root;
a run takes it from the root of the package, where `..` stops.

## Proofs

All proofs assume only what the modules' named ASSUMEs state: `N`, `MaxReg`,
`MaxRestarts`, `MaxWork` and `MaxLevel` are natural, limits and lengths are
integers, there is at least one coroutine, `Width` and `Nap` are positive, no
status code is called "none", scripts consist of the operations modelled, and
calls are made of what a script or a command can pass (`CallsAssumption`: which
keywords and setters there are and of what they consist, that values consist of
nodes, and that the flags of a command that are JSON are trees, as JSON parses).
Type invariants are proved (`TypeCorrect` of each module) rather than checked;
`RunTypeOK` is both, since it says which errors a run may return.

*Batch future.* `IInv` relates the counters to the coroutines: the slots in use
are those of live coroutines and of the submitter between its two sends
(`PermitInv`), the submitter's index splits the batch into coroutines that
exist and those that do not (`SubmitInv`), each coroutine's position fixes the
state of its future (`WorkerInv`), and the wait group counts the two loops
(`GetInv`). None of the properties is inductive alone: the bound on running
callables needs the count of slots, the count needs to know which coroutines
are new. From it follow `ConcurrencyBounded`, `FactoriesOnce`, `GetComplete`,
`NegativeStalls`, `LevelKept`, and `ImplementsPool`, the refinement of
`BatchPool`.

*Get.* `CallerIsScript` shows that a caller does what a script of `BatchFuture`
may do, so all of the above holds of the specification that `batch_future`
runs. `GInv` adds where Get is (`StepInv`), what the slice may hold
(`SliceInv`), and what the loop has done (`LoopInv`): below `pos` every future is
resolved for good, which is what makes an element, once written or left alone,
final. From it follow `ValuesInOrder`, `FailuresKeepElement` and
`FullSliceFits`, the last for both capacities growing may give.

*Exit hooks.* `IInv` needs that a registration stands at one index of the slice
(`SlotsInv`) and that every hook the loop still owes lies below its index
(`OwedBelow`): a shift only moves hooks towards indexes the loop has yet to
visit. `OrderInv` says that without an unregister the loop's array keeps the
hooks it has yet to call. From these follow `NeverNil`, `LastInFirstOut` and
`ImplementsAtExit`.

*Service.Run.* Every step of a run is one of `ExitHooks` or leaves the hooks
alone (`HooksAreExitHooks`), so the theorems about hooks hold of a run with its
coroutines, cancellations and panics (`RunImplementsAtExit`). `StageInv` says
where the hooks are while `Run` is at each of its stages, and that a hook is
within reach of a cancellation only if main's error did not look like one to this
backend (`PlainErrors` lists those that do not); from it follow `SuccessIsClean`
and `CanceledRunShieldsHooks`. `CleanInv` says that a script registers its hook past the creation of its resource, which it does not
create again, and that each hook that was called and is over has deleted its own,
unless an error other than the script's was reported; at the end `OwedBelow`
leaves no hook uncalled, hence `HooksCleanUp`. After the end only the runs above
go on (`ClosedStep`): each makes an error with the same reason of the one below
on Cadence, and one without a reason on Temporal (`ProcessReason`,
`ParentTells`), hence `ReasonReported`.

*Logs.* The list is the last `Len(logs)` lines printed; each limit is at least
the smallest and at most the largest, and one removal per print keeps both
sides (`BetweenLimits`). `ListNeverShrinks` is an action property.

*Coroutines.* Every behaviour of a run's coroutines is one of `ThreadLogs`
(`BufferIsThreadLogs`), hence `LatestLinesOfRun` and `BetweenLimitsOfRun`. `CoInv`
says that a future is set exactly when its function has ended (`SetAtEnd`), that
what a script got is what the future is set to (`GotIsSet`), that an error it got
has ended it (`ErrorEnds`), that the function an error names ended with it
(`Named`), and that what a report knows of has ended (`HeardEnded`). None of
`ResultsAgree` and `ReportsFollowResults` is inductive without the first: a
coroutine that could still report after its future is set breaks the order.

*Side effects.* `MarkersInv`: what the script got in this execution and what
completed tasks were based on are both beginnings of one list of markers, the
second of its durable part, so they agree where both reach (`ReplaysAgree`).
`TimesInv`: times grow from task to task and every execution computes the same
difference, that at the beginning of the first task; with the width of integers
this gives `TimesShifted`, the first part of `TimeAsAsked`. What compares an
execution with its script needs `ScriptInv`. `CountInv` says that an execution has
as many values, times and tasks behind it as the operations of its script up to
`pc`; they are counted by cardinalities, so no induction over the script is needed,
and one step adds at most one. `SourceInv` says that past the replayed part the
source has given as many values as the script has drawn since it was seeded: from
there on `SideEffect` calls its function, and only then does the source move on
with the script. Hence `SeedsHold`. `ReadInv` says that each time a script got is the
time of the operation that asked, and so are those that completed tasks were based
on; the number of a time tells the operation (`OnePlace`), so two executions give
the same ones, and a task begins at least a sleep after the one before. Hence
`TimesAsAsked`.

*Activities.* `ReasonInv` says which reason an attempt may have ended with, given
the answer that is remembered. `ValuesAreAsserted` and `TransientRetried` hold on
both backends, `StopsOnCadence` on Cadence.

*Loading.* The file systems, the root and the loads are arbitrary; finiteness is
not needed. `CallsInv` says that each call of `load` has followed the loads
before the one it is at, `FollowedInv` that a packed script without a call has
had all of them followed: with the empty stack at the end the package is
closed. `NestsOnce` needs that a script is in the cache before its call begins.
`LoadedInv` gives `Minimal`. For the run, `FramesInv` says that it executes
packed files; with the closure of the package and the equality of `Resolve` and
the root's path for aligned loads, the file asked for is there (`Suffices`), it parses
unless it is a .py file, since the client has parsed it (`LoadedInv`), and
`Key` is injective on files inside the root (`Opens`).

*Calls.* `JsonPasses`, `BytesPass` and `ValuesSettle` are about the codec: one trip
makes of a value what `Arrived` says, and a second one leaves that as it is, since a
list has become of each tuple and `SaysDataclass` has not changed. `OneByOne` carries
them over to the converters, with the case of a single value of bytes on Cadence.
`TupleTwice`, `KeywordsTwice` and `EnvironTwice` say that what the command has decoded
from a flag, or built, is read as the same once it has been written; an environment
loses this to `__codec__`. The inductive invariant has a part for each thing a call
carries. `KeywordInv`: the keywords before `pos` were accepted and typed, and `asBytes`
is what they said; without it a failed call could have been refused at any of them.
`WireInv`: `data`, `got` and `res` are what the converters make of the arguments, and a
call past its keywords fails for a trip that failed and nothing else.
`FirstInv`: what is passed on has the form that settles, and whatever was beside it has
made the trip before, so the second call cannot fail; this is what `ResultsSettle`
needs and no single state shows. `OptsInv`: after `n` setters the builder holds, of
each kind, the options last set and the task list of the client unless they came
later; after `n` keywords the context holds what these and the adapters make of them.
The proofs about options are field by field, an adapter's record against the one
asked for. `HeadersInv` and `StartInv` give `HeadersReachEveryCallee` and
`StartsWithItsFlags`. Of the call a started run makes, it has to be shown that it is
one (`RunCallsIsCall`): the elements of a decoded tuple are values. TLC has checked
the whole invariant on the instance of `remote_call`.

Every safety invariant that a passing run checks is stated by a theorem. Only
model-checked: the liveness properties, since fairness is out of the prover's reach,
and of course the failing runs.

## Not modelled

json, hashlib and the test plugin are pure functions over libraries, as is
`utc_format_seconds` of the time plugin. The facades pass calls on; those no plugin
calls (selectors, signals, information about activities, retry policies set on
a context) have no behaviour here. The package command and the start of workers are
I/O around the SDKs; the test suite is test code. In the backends, memo,
versioning, eager execution, summaries and the information about a workflow are
left out, in the workflow plugin the ids of executions, in the request plugin
the response object of scripts, in the codec callable objects.

## Plan

Done, in this order: exit hooks and their abstract specification, `Service.Run`
over them, batch future and its pool, logs, the slice of get(), side effects,
packaging and loading, request activities under retries, calls with the codec
and the data converters, their options and headers, the commands, errors on
their way through runs, the time, coroutines with their futures and progress;
proofs of all of these, the liveness properties apart.

What could follow, by importance: the coroutines of
`BatchFuture` as coroutines of `Coroutines`, so that a batch and `concurrent.run`
share the dispatcher; an abstract specification of a call, which hands over
arguments, headers and options at once, for `RemoteCall` to implement.
