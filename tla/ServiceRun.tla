----------------------------- MODULE ServiceRun -----------------------------
(***************************************************************************)
(* Service.Run (service/service.go): prepare the run, call the main        *)
(* function of the script, run the exit hooks, and turn whatever went      *)
(* wrong into the error of the workflow, while a cancellation of the       *)
(* workflow may arrive at any time.                                        *)
(*                                                                         *)
(* The script is the one of test/testdata/atexit_test.star: main leaves    *)
(* coroutines behind (concurrent.run), and each creates a resource,        *)
(* registers a hook that deletes it, works, deletes the resource itself    *)
(* and unregisters the hook.  The resources live on a server outside.      *)
(*                                                                         *)
(* The run may be the child of another, which fails with the child's error *)
(* and may be a child itself.                                              *)
(***************************************************************************)
EXTENDS ExitHooks, Failures

CONSTANTS
  Faults,   \* what may go wrong by itself: subset of {"panic", "activity"}
  MaxLevel  \* runs above this one that wait for it

ASSUME LevelAssumption == MaxLevel \in Nat

\* The errors hooks end with, below.
ASSUME KindsAssumption ==
  {ScriptError, Canceled, Wire("cadence", Custom("hook")), Wire("temporal", Custom("hook"))} \subseteq ErrKinds

VARIABLES
  backend,    \* "cadence" or "temporal"
  level,      \* which of the nested runs err is of: 0 is the one of the script
  run,        \* where Run is: "start", "main", "hooks", "end"
  err,        \* the error Run returns
  mainErr,    \* how star.Call ended
  cancelAsked,\* the workflow's context is canceled
  isCanceled, \* globals.isCanceled: scripts get a disconnected context
  task,       \* per coroutine: where its script is
  bound,      \* per coroutine: its blocking call is on the canceled-able context
  hookBound,  \* the same of the activity of the running hook
  resource    \* per coroutine: its resource on the server

runVars == <<backend, level, run, err, mainErr, cancelAsked, isCanceled, task, bound, hookBound, resource>>
vars == <<hookVars, runVars>>

Tasks == Fns
TaskState == {"idle", "put", "created", "work", "delete", "deleted", "done", "failed"}

\* How main may fail: by an error of the script, canceled, by a custom error of a
\* plugin, or as an activity does.
MainErrors ==
  {NoError, ScriptError, Canceled, Custom("invalid-argument")}
    \cup {Wire(backend, e) : e \in {Custom("main"), GoError, PanicError, Timeout}}

-----------------------------------------------------------------------------
RunInit ==
  /\ Init
  /\ backend \in {"cadence", "temporal"} /\ level = 0
  /\ run = "start" /\ err = NoError /\ mainErr = NoError
  /\ cancelAsked = FALSE /\ isCanceled = FALSE
  /\ task = [t \in Tasks |-> "idle"]
  /\ bound = [t \in Tasks |-> FALSE]
  /\ hookBound = FALSE
  /\ resource = [t \in Tasks |-> "absent"]

\* Before main: a bad tarball; metadata that cannot be read or parsed, or a query
\* handler that cannot be set; a plugin that panics in Create.
PrepareErrors == {Custom("invalid-argument"), GoError, Custom("internal")}

PrepareFails(e) ==
  /\ run = "start"
  /\ run' = "end" /\ err' = e
  /\ UNCHANGED <<backend, level, hookVars, mainErr, cancelAsked, isCanceled, task, bound, hookBound, resource>>

StartMain ==
  /\ run = "start"
  /\ run' = "main"
  /\ UNCHANGED <<backend, level, hookVars, err, mainErr, cancelAsked, isCanceled, task, bound, hookBound, resource>>

\* star.Call returns: scripts cannot catch errors, so a canceled call of
\* main, or of a coroutine it waits for, ends main with the cancellation.
MainReturns(e) ==
  /\ run = "main"
  /\ e = Canceled => cancelAsked
  /\ mainErr' = e
  /\ isCanceled' = LooksCanceled(backend, e)
  /\ run' = "hooks"
  /\ BeginRun
  /\ UNCHANGED <<backend, level, err, cancelAsked, task, bound, hookBound, resource>>

\* The deferred recover: a Go panic in main or in a hook ends Run at once.
Panic ==
  /\ "panic" \in Faults
  /\ run = "main" \/ (run = "hooks" /\ cur # 0)
  /\ run' = "end" /\ err' = Custom("internal")
  /\ UNCHANGED <<backend, level, hookVars, mainErr, cancelAsked, isCanceled, task, bound, hookBound, resource>>

\* Variant, not the code's: Run waits for the coroutines that main left behind.
FinishAfterCoroutines ==
  /\ run = "hooks"
  /\ EndRun
  /\ \A t \in Tasks : task[t] \in {"done", "failed"}
  /\ run' = "end"
  /\ err' \in ProcessError(backend, mainErr, errs)
  /\ UNCHANGED <<backend, level, mainErr, cancelAsked, isCanceled, task, bound, hookBound, resource>>

\* All hooks were called; Run joins the errors and returns.
Finish ==
  /\ run = "hooks"
  /\ EndRun
  /\ run' = "end"
  /\ err' \in ProcessError(backend, mainErr, errs)
  /\ UNCHANGED <<backend, level, mainErr, cancelAsked, isCanceled, task, bound, hookBound, resource>>

\* The run was called by execute_workflow of another, whose script fails with it.
ParentFails ==
  /\ run = "end" /\ err # NoError /\ level < MaxLevel
  /\ level' = level + 1
  /\ err' \in ProcessError(backend, Wire(backend, err), {})
  /\ UNCHANGED <<hookVars, backend, run, mainErr, cancelAsked, isCanceled, task, bound, hookBound, resource>>

-----------------------------------------------------------------------------
(* The workflow's context *)

CancelWorkflow ==
  /\ run # "end" /\ ~cancelAsked
  /\ cancelAsked' = TRUE
  /\ UNCHANGED <<backend, level, hookVars, run, err, mainErr, isCanceled, task, bound, hookBound, resource>>

-----------------------------------------------------------------------------
(* The coroutines of the script *)

\* Coroutines make progress while main or a hook is blocked.
Resumed == run = "main" \/ (run = "hooks" /\ cur # 0)

\* The coroutine blocks in an activity or a timer on the context GetContext
\* gives it, which is out of the cancellation's reach once isCanceled is set.
Block(t, where) ==
  /\ Resumed
  /\ task' = [task EXCEPT ![t] = where]
  /\ bound' = [bound EXCEPT ![t] = ~isCanceled]
  /\ UNCHANGED <<backend, level, hookVars, run, err, mainErr, cancelAsked, isCanceled, hookBound, resource>>

Put(t) == task[t] = "idle" /\ Block(t, "put")
Delete(t) == task[t] = "work" /\ Block(t, "delete")

\* The server has created the resource and the activity's result is there.
Created(t) ==
  /\ task[t] = "put" /\ ~(bound[t] /\ cancelAsked)
  /\ Resumed
  /\ resource' = [resource EXCEPT ![t] = "present"]
  /\ task' = [task EXCEPT ![t] = "created"]
  /\ UNCHANGED <<backend, level, hookVars, run, err, mainErr, cancelAsked, isCanceled, bound, hookBound>>

\* atexit.register, then the timer that stands for the work.
RegisterHook(t) ==
  /\ Resumed
  /\ task[t] = "created"
  /\ Register(t)
  /\ task' = [task EXCEPT ![t] = "work"]
  /\ bound' = [bound EXCEPT ![t] = ~isCanceled]
  /\ UNCHANGED <<backend, level, run, err, mainErr, cancelAsked, isCanceled, hookBound, resource>>

\* The server deletes the resource; if it is gone, it answers 404 and the
\* script's assertion fails.
Deleted(t) ==
  /\ task[t] = "delete" /\ ~(bound[t] /\ cancelAsked)
  /\ Resumed
  /\ resource' = [resource EXCEPT ![t] = "deleted"]
  /\ task' = [task EXCEPT ![t] = IF resource[t] = "present" THEN "deleted" ELSE "failed"]
  /\ UNCHANGED <<backend, level, hookVars, run, err, mainErr, cancelAsked, isCanceled, bound, hookBound>>

UnregisterHook(t) ==
  /\ Resumed
  /\ task[t] = "deleted"
  /\ Unregister(t)
  /\ task' = [task EXCEPT ![t] = "done"]
  /\ UNCHANGED <<backend, level, run, err, mainErr, cancelAsked, isCanceled, bound, hookBound, resource>>

\* The blocking call is canceled, or fails; what was asked of the server may
\* have happened all the same.
Interrupted(t) ==
  /\ Resumed
  /\ task[t] \in {"put", "work", "delete"}
  /\ (bound[t] /\ cancelAsked) \/ "activity" \in Faults
  /\ task' = [task EXCEPT ![t] = "failed"]
  /\ \/ UNCHANGED resource
     \/ task[t] = "put" /\ resource' = [resource EXCEPT ![t] = "present"]
     \/ task[t] = "delete" /\ resource' = [resource EXCEPT ![t] = "deleted"]
  /\ UNCHANGED <<backend, level, hookVars, run, err, mainErr, cancelAsked, isCanceled, bound, hookBound>>

-----------------------------------------------------------------------------
(* The hooks *)

\* A hook starts the activity that deletes its resource.
StartHook ==
  /\ run = "hooks"
  /\ CallHook
  /\ hookBound' = ~isCanceled
  /\ UNCHANGED <<backend, level, run, err, mainErr, cancelAsked, isCanceled, task, bound, resource>>

HookDeletes ==
  /\ run = "hooks" /\ cur # 0
  /\ ~(hookBound /\ cancelAsked)
  /\ resource' = [resource EXCEPT ![fnOf[cur]] = "deleted"]
  /\ HookReturns(IF resource[fnOf[cur]] = "present" THEN {} ELSE {ScriptError})
  /\ UNCHANGED <<backend, level, run, err, mainErr, cancelAsked, isCanceled, task, bound, hookBound>>

HookInterrupted ==
  /\ run = "hooks" /\ cur # 0
  /\ \/ hookBound /\ cancelAsked /\ HookReturns({Canceled})
     \/ "activity" \in Faults /\ HookReturns({Wire(backend, Custom("hook"))})
  /\ \/ UNCHANGED resource
     \/ resource' = [resource EXCEPT ![fnOf[cur]] = "deleted"]
  /\ UNCHANGED <<backend, level, run, err, mainErr, cancelAsked, isCanceled, task, bound, hookBound>>

-----------------------------------------------------------------------------
TaskStep(t) ==
  \/ Put(t) \/ Created(t) \/ RegisterHook(t)
  \/ Delete(t) \/ Deleted(t) \/ UnregisterHook(t)
  \/ Interrupted(t)

RunNext ==
  \/ \E e \in PrepareErrors : PrepareFails(e)
  \/ StartMain
  \/ \E e \in MainErrors : MainReturns(e)
  \/ Panic
  \/ Finish
  \/ ParentFails
  \/ CancelWorkflow
  \/ \E t \in Tasks : TaskStep(t)
  \/ StartHook \/ HookDeletes \/ HookInterrupted

RunSpec == RunInit /\ [][RunNext]_vars

\* Main returns, activities end (they have timeouts), and Run goes on.
RunFairness ==
  /\ WF_vars(StartMain)
  /\ WF_vars(\E e \in MainErrors : MainReturns(e))
  /\ WF_vars(StartHook)
  /\ WF_vars(HookDeletes \/ HookInterrupted)
  /\ WF_vars(Finish)

FairRunSpec == RunSpec /\ RunFairness

-----------------------------------------------------------------------------
(* Properties *)

RunTypeOK ==
  /\ TypeOK
  /\ run \in {"start", "main", "hooks", "end"}
  /\ backend \in {"cadence", "temporal"} /\ level \in 0..MaxLevel
  /\ mainErr \in MainErrors
  /\ (err \in {NoError, GoError} \/ IsCustom(err))
  /\ cancelAsked \in BOOLEAN /\ isCanceled \in BOOLEAN
  /\ task \in [Tasks -> TaskState]
  /\ bound \in [Tasks -> BOOLEAN] /\ hookBound \in BOOLEAN
  /\ resource \in [Tasks -> {"absent", "present", "deleted"}]

\* Hooks that were registered when main returned and still are.
Standing == {start[k] : k \in DOMAIN start} \cap Registered

\* A run that ends after its hooks, none of which was cut short, has deleted
\* the resource of every hook that was registered when main returned, however
\* main and the coroutines it left behind went on.
HooksCleanUp ==
  (phase = "closed" /\ errs \subseteq {ScriptError}) =>
    \A r \in Standing : resource[fnOf[r]] = "deleted"

\* Only the hooks of a run that ended well, or by an error without details, can be
\* cut short by a cancellation; those of a run that ended by a cancellation never
\* are.  On Temporal an activity's timeout is an error without details.
Unshielded(main) ==
  main \in {NoError, ScriptError, Generic, PanicError} \/ (backend = "temporal" /\ main = Timeout)

CanceledRunShieldsHooks == Canceled \in errs => Unshielded(mainErr)

\* A run that reports success had neither an error in main nor in a hook.
SuccessIsClean ==
  (run = "end" /\ err = NoError) => phase = "closed" /\ mainErr = NoError /\ errs = {}

\* The reasons given where a run failed: main's, or else those of its hooks.
Given(main, hooks) ==
  IF IsCustom(main) THEN {main[2]} ELSE {e[2] : e \in {h \in hooks : IsCustom(h)}}

\* A failed run tells why: on Cadence with the reason that was given where it
\* failed, main's before that of a hook, however many runs wait for each other
\* above it; on Temporal with the text of an error made in this run's own process,
\* and with no reason to the runs above.
ReasonReported ==
  (run = "end" /\ phase = "closed" /\ err # NoError) =>
    LET given == Given(mainErr, errs)
    IN CASE given = {} \/ (backend = "temporal" /\ level > 0) -> err = Custom(Unknown)
         [] given # {} /\ backend = "cadence" -> \E r \in given : err = Custom(r)
         [] OTHER -> \E r \in given : err = Custom(TextOf(r))

\* A run ends, whatever its coroutines do to the hooks meanwhile.
RunEnds == (run = "start") ~> (run = "end")

\* Cleaning up "even if it hasn't completed, triggered by the workflow
\* cancellation" (test/temporal/temporal_test.go:54): a canceled run, whose
\* activities do not fail by themselves, leaves no resource of a standing hook.
CancellationCleansUp ==
  (phase = "closed" /\ cancelAsked) =>
    \A r \in Standing : resource[fnOf[r]] # "present"

-----------------------------------------------------------------------------
(* Why they hold *)

\* Where Run is, the exit hooks are; and a hook is within reach of a cancellation
\* only if main's error did not look like one.
StageInv ==
  /\ run \in {"start", "main"} => phase = "open" /\ errs = {} /\ err = NoError /\ ~isCanceled
  /\ run = "hooks" => phase = "running" /\ err = NoError /\ isCanceled = LooksCanceled(backend, mainErr)
  /\ run = "hooks" /\ cur # 0 /\ hookBound => ~LooksCanceled(backend, mainErr)
  /\ Canceled \in errs => ~LooksCanceled(backend, mainErr)

RunIInv == RunTypeOK /\ StageInv /\ SuccessIsClean

\* A script registers its hook once its resource is there and creates no other; and
\* the hooks the loop has called are done with, but for the one that runs.
AtWork == {"work", "delete", "deleted", "done", "failed"}
CleanInv ==
  /\ \A r \in DOMAIN fnOf : task[fnOf[r]] \in AtWork
  /\ errs \subseteq {ScriptError} =>
       \A k \in DOMAIN called :
         called[k] \notin {0, cur} => resource[fnOf[called[k]]] = "deleted"

\* No run above fails before this one has; what a run returns after its hooks is
\* made by processError.
ToldInv ==
  /\ run # "end" => level = 0
  /\ phase = "closed" => err = NoError \/ IsCustom(err)
=============================================================================
