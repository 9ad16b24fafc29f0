--------------------------- MODULE ServiceRunProofs ---------------------------
(***************************************************************************)
(* Theorems about Service.Run, for every set of coroutines, every fault    *)
(* and every number of runs above.  Each step of a run is one of ExitHooks *)
(* or leaves the hooks alone, so that what ExitHooksProofs shows of the    *)
(* hooks holds of those of a run; StageInv ties the stage of the run to    *)
(* that of the hooks.                                                      *)
(***************************************************************************)
EXTENDS ServiceRun, ExitHooksProofs

LEMMA CustomFacts ==
  \A r : IsCustom(Custom(r)) /\ Custom(r) # NoError /\ Custom(r) # Canceled /\ Custom(r)[1] = "custom"
BY DEF IsCustom, Custom, NoError, Canceled

LEMMA WireFacts ==
  ASSUME NEW b, NEW e
  PROVE  /\ Wire(b, e) = NoError => e = NoError
         /\ Wire(b, e) = Canceled => e = Canceled
BY DEF Wire, WireCadence, WireTemporal, Generic, Application, NoError, Canceled, IsCustom

LEMMA ProcessFacts ==
  ASSUME NEW b, NEW main, NEW hooks, NEW e \in ProcessError(b, main, hooks)
  PROVE  (e = NoError /\ main = NoError /\ hooks = {}) \/ (e # NoError /\ IsCustom(e))
<1>1. CASE main = NoError /\ hooks = {}
  <2>1. ~IsCustom(NoError)
    BY DEF NoError, IsCustom
  <2>2. ProcessError(b, main, hooks) = {NoError}
    BY <1>1, <2>1 DEF ProcessError
  <2>3. QED
    BY <1>1, <2>2
<1>2. CASE ~(main = NoError /\ hooks = {})
  <2>1. \E r : e = Custom(r)
    BY <1>2 DEF ProcessError
  <2>2. QED
    BY <2>1, CustomFacts
<1>3. QED
  BY <1>1, <1>2

\* Main's errors that do not look like a cancellation.
LEMMA PlainErrors ==
  ASSUME backend \in {"cadence", "temporal"}, NEW e \in MainErrors, ~LooksCanceled(backend, e)
  PROVE  Unshielded(e)
<1>1. CASE e \in {NoError, ScriptError, Canceled, Custom("invalid-argument")}
  BY <1>1 DEF LooksCanceled, Canceled, Custom, Unshielded
<1>2. ASSUME NEW f \in {Custom("main"), GoError, PanicError}, e = Wire(backend, f)
      PROVE  e \in {Generic, PanicError}
  BY <1>2 DEF LooksCanceled, Wire, WireCadence, WireTemporal, IsCustom, Custom, GoError, ScriptError,
     PanicError, Generic, Application
<1>3. CASE e = Wire(backend, Timeout)
  <2>1. e = Timeout
    BY <1>3 DEF Wire, WireCadence, WireTemporal, IsCustom, GoError, ScriptError, Timeout
  <2>2. backend # "cadence"
    BY <2>1 DEF LooksCanceled, Timeout
  <2>3. QED
    BY <2>1, <2>2 DEF Unshielded
<1>4. QED
  BY <1>1, <1>2, <1>3 DEF MainErrors, Unshielded

\* A step of the run is a step of its hooks.
LEMMA RunStepIsStep == [RunNext]_vars => [Next]_hookVars
<1> SUFFICES ASSUME [RunNext]_vars PROVE [Next]_hookVars
  OBVIOUS
<1>1. ASSUME NEW e, HookReturns({e}), e \in {ScriptError, Canceled, Wire(backend, Custom("hook"))} PROVE Next
  <2>1. e \in ErrKinds
    BY <1>1, KindsAssumption DEF Wire
  <2>2. QED
    BY <1>1, <2>1 DEF Next, Outcomes
<1>2. HookReturns({}) => Next
  BY DEF Next, Outcomes
<1>3. CASE \E e \in PrepareErrors : PrepareFails(e)
  BY <1>3 DEF PrepareFails
<1>4. CASE StartMain \/ Panic \/ ParentFails \/ CancelWorkflow
  BY <1>4 DEF StartMain, Panic, ParentFails, CancelWorkflow
<1>5. CASE \E e \in MainErrors : MainReturns(e)
  BY <1>5 DEF MainReturns, Next
<1>6. CASE Finish
  BY <1>6 DEF Finish, Next
<1>7. ASSUME NEW t \in Tasks, TaskStep(t) PROVE [Next]_hookVars
  <2>1. CASE Put(t) \/ Created(t) \/ Delete(t) \/ Deleted(t) \/ Interrupted(t)
    BY <2>1 DEF Put, Block, Created, Delete, Deleted, Interrupted
  <2>2. CASE RegisterHook(t) \/ UnregisterHook(t)
    BY <2>2 DEF RegisterHook, UnregisterHook, Next, Tasks
  <2>3. QED
    BY <1>7, <2>1, <2>2 DEF TaskStep
<1>8. CASE StartHook
  BY <1>8 DEF StartHook, Next
<1>9. CASE HookDeletes
  BY <1>1, <1>2, <1>9 DEF HookDeletes
<1>10. CASE HookInterrupted
  BY <1>1, <1>10 DEF HookInterrupted
<1>11. CASE UNCHANGED vars
  BY <1>11 DEF vars
<1>12. QED
  BY <1>3, <1>4, <1>5, <1>6, <1>7, <1>8, <1>9, <1>10, <1>11 DEF RunNext

LEMMA RunInitInv == RunInit => IInv /\ RunIInv
<1> SUFFICES ASSUME RunInit PROVE IInv /\ RunIInv
  OBVIOUS
<1>1. Init /\ IInv
  BY InitInv DEF RunInit
<1>2. NoError \in MainErrors
  BY DEF MainErrors
<1>3. RunTypeOK
  <2>1. TypeOK /\ run \in {"start", "main", "hooks", "end"} /\ mainErr \in MainErrors /\ err \in {NoError, GoError}
    BY <1>1, <1>2 DEF IInv, RunInit
  <2>2. backend \in {"cadence", "temporal"} /\ level \in 0..MaxLevel
    BY LevelAssumption DEF RunInit
  <2>3. /\ cancelAsked \in BOOLEAN /\ isCanceled \in BOOLEAN /\ hookBound \in BOOLEAN
        /\ bound \in [Tasks -> BOOLEAN] /\ resource \in [Tasks -> {"absent", "present", "deleted"}]
        /\ task \in [Tasks -> TaskState]
    BY DEF RunInit, TaskState
  <2>4. QED
    BY <2>1, <2>2, <2>3 DEF RunTypeOK
<1>4. StageInv /\ SuccessIsClean
  BY <1>1 DEF Init, RunInit, StageInv, SuccessIsClean
<1>5. QED
  BY <1>1, <1>3, <1>4 DEF RunIInv

\* The steps that only the run itself takes.
\* The invariant from its parts: what a step leaves alone need not be looked at.
LEMMA RunParts ==
  ASSUME RunTypeOK, TypeOK',
         run' \in {"start", "main", "hooks", "end"}, backend' = backend, level' \in 0..MaxLevel,
         mainErr' \in MainErrors, err' \in {NoError, GoError} \/ IsCustom(err'),
         cancelAsked' \in BOOLEAN, isCanceled' \in BOOLEAN, task' \in [Tasks -> TaskState],
         bound' \in [Tasks -> BOOLEAN], hookBound' \in BOOLEAN,
         resource' \in [Tasks -> {"absent", "present", "deleted"}],
         StageInv', SuccessIsClean'
  PROVE  RunIInv'
<1>1. MainErrors' = MainErrors /\ backend' \in {"cadence", "temporal"}
  BY DEF MainErrors, RunTypeOK
<1>2. RunTypeOK'
  BY <1>1 DEF RunTypeOK
<1>3. QED
  BY <1>2 DEF RunIInv

LEMMA RunItselfInv ==
  ASSUME IInv, RunIInv, TypeOK',
         \/ \E e \in PrepareErrors : PrepareFails(e)
         \/ StartMain \/ Panic \/ Finish \/ ParentFails \/ CancelWorkflow
         \/ \E e \in MainErrors : MainReturns(e)
  PROVE  RunIInv'
<1>1. RunTypeOK /\ StageInv /\ SuccessIsClean
  BY DEF RunIInv
<1>2. /\ level \in 0..MaxLevel /\ mainErr \in MainErrors /\ cancelAsked \in BOOLEAN /\ isCanceled \in BOOLEAN
      /\ task \in [Tasks -> TaskState] /\ bound \in [Tasks -> BOOLEAN] /\ hookBound \in BOOLEAN
      /\ resource \in [Tasks -> {"absent", "present", "deleted"}] /\ run \in {"start", "main", "hooks", "end"}
      /\ (err \in {NoError, GoError} \/ IsCustom(err))
  BY <1>1 DEF RunTypeOK
<1>3. ASSUME NEW e \in PrepareErrors, PrepareFails(e) PROVE RunIInv'
  <2>1. e # NoError /\ (e = GoError \/ IsCustom(e))
    BY CustomFacts DEF PrepareErrors, GoError, NoError
  <2>2. /\ run = "start" /\ run' = "end" /\ err' = e
        /\ UNCHANGED <<backend, level, mainErr, cancelAsked, isCanceled, task, bound, hookBound, resource>>
        /\ phase' = phase /\ errs' = errs /\ cur' = cur
    BY <1>3 DEF PrepareFails, hookVars
  <2>3. StageInv' /\ SuccessIsClean'
    BY <1>1, <2>1, <2>2 DEF StageInv, SuccessIsClean
  <2>4. QED
    BY <1>1, <1>2, <2>1, <2>2, <2>3, RunParts
<1>4. CASE StartMain \/ CancelWorkflow
  <2>1. /\ (run = "start" /\ run' = "main") \/ (run # "end" /\ run' = run)
        /\ cancelAsked' \in BOOLEAN
        /\ UNCHANGED <<backend, level, err, mainErr, isCanceled, task, bound, hookBound, resource>>
        /\ phase' = phase /\ errs' = errs /\ cur' = cur
    BY <1>2, <1>4 DEF StartMain, CancelWorkflow, hookVars
  <2>2. StageInv' /\ SuccessIsClean'
    BY <1>1, <2>1 DEF StageInv, SuccessIsClean
  <2>3. QED
    BY <1>1, <1>2, <2>1, <2>2, RunParts
<1>5. CASE Panic
  <2>1. /\ run' = "end" /\ err' = Custom("internal")
        /\ UNCHANGED <<backend, level, mainErr, cancelAsked, isCanceled, task, bound, hookBound, resource>>
        /\ phase' = phase /\ errs' = errs /\ cur' = cur
    BY <1>5 DEF Panic, hookVars
  <2>2. err' # NoError /\ IsCustom(err')
    BY <2>1, CustomFacts
  <2>3. StageInv' /\ SuccessIsClean'
    BY <1>1, <2>1, <2>2 DEF StageInv, SuccessIsClean
  <2>4. QED
    BY <1>1, <1>2, <2>1, <2>2, <2>3, RunParts
<1>6. CASE Finish
  <2>1. /\ run' = "end" /\ phase' = "closed" /\ errs' = errs
        /\ UNCHANGED <<backend, level, mainErr, cancelAsked, isCanceled, task, bound, hookBound, resource>>
    BY <1>6 DEF Finish, EndRun
  <2>2. (err' = NoError /\ mainErr = NoError /\ errs = {}) \/ (err' # NoError /\ IsCustom(err'))
    BY <1>6, ProcessFacts DEF Finish
  <2>3. StageInv' /\ SuccessIsClean'
    BY <1>1, <2>1, <2>2 DEF StageInv, SuccessIsClean
  <2>4. QED
    BY <1>1, <1>2, <2>1, <2>2, <2>3, RunParts
<1>7. CASE ParentFails
  <2>1. /\ run = "end" /\ run' = run /\ err # NoError /\ level < MaxLevel /\ level' = level + 1
        /\ UNCHANGED <<backend, mainErr, cancelAsked, isCanceled, task, bound, hookBound, resource>>
        /\ phase' = phase /\ errs' = errs /\ cur' = cur
    BY <1>7 DEF ParentFails, hookVars
  <2>2. err' \in ProcessError(backend, Wire(backend, err), {})
    BY <1>7 DEF ParentFails
  <2>3. err' # NoError /\ IsCustom(err')
    BY <2>1, <2>2, ProcessFacts, WireFacts
  <2>4. level' \in 0..MaxLevel
    BY <1>2, <2>1, LevelAssumption
  <2>5. StageInv' /\ SuccessIsClean'
    BY <1>1, <2>1, <2>3 DEF StageInv, SuccessIsClean
  <2>6. QED
    BY <1>1, <1>2, <2>1, <2>3, <2>4, <2>5, RunParts
<1>8. ASSUME NEW e \in MainErrors, MainReturns(e) PROVE RunIInv'
  <2>1. /\ run = "main" /\ run' = "hooks" /\ mainErr' = e /\ isCanceled' = LooksCanceled(backend, e)
        /\ phase' = "running" /\ errs' = errs /\ cur' = cur
        /\ UNCHANGED <<backend, level, err, cancelAsked, task, bound, hookBound, resource>>
    BY <1>8 DEF MainReturns, BeginRun
  <2>2. cur = 0 /\ errs = {} /\ err = NoError
    BY <1>1, <2>1 DEF IInv, PhaseInv, StageInv
  <2>3. LooksCanceled(backend, e) \in BOOLEAN
    BY DEF LooksCanceled
  <2>4. StageInv' /\ SuccessIsClean'
    BY <2>1, <2>2 DEF StageInv, SuccessIsClean
  <2>5. QED
    BY <1>1, <1>2, <2>1, <2>2, <2>3, <2>4, RunParts
<1>9. QED
  BY <1>3, <1>4, <1>5, <1>6, <1>7, <1>8

\* Coroutines touch no error and nothing of Run.
LEMMA TaskInv == ASSUME IInv, RunIInv, TypeOK', NEW t \in Tasks, TaskStep(t) PROVE RunIInv'
<1>1. RunTypeOK /\ StageInv /\ SuccessIsClean
  BY DEF RunIInv
<1>2. /\ level \in 0..MaxLevel /\ mainErr \in MainErrors /\ cancelAsked \in BOOLEAN /\ isCanceled \in BOOLEAN
      /\ task \in [Tasks -> TaskState] /\ bound \in [Tasks -> BOOLEAN] /\ hookBound \in BOOLEAN
      /\ resource \in [Tasks -> {"absent", "present", "deleted"}] /\ run \in {"start", "main", "hooks", "end"}
      /\ (err \in {NoError, GoError} \/ IsCustom(err))
  BY <1>1 DEF RunTypeOK
<1>3. UNCHANGED <<backend, level, run, err, mainErr, cancelAsked, isCanceled, hookBound, phase, errs, cur>>
  BY DEF TaskStep, Put, Block, Created, RegisterHook, Register, Delete, Deleted, UnregisterHook, Unregister,
     Interrupted, hookVars
<1>4. task' \in [Tasks -> TaskState]
  <2>1. {"put", "created", "work", "delete", "deleted", "done", "failed"} \subseteq TaskState
    BY DEF TaskState
  <2>2. QED
    BY <1>2, <2>1 DEF TaskStep, Put, Block, Created, RegisterHook, Delete, Deleted, UnregisterHook, Interrupted
<1>5. bound' \in [Tasks -> BOOLEAN]
  BY <1>2 DEF TaskStep, Put, Block, Created, RegisterHook, Delete, Deleted, UnregisterHook, Interrupted
<1>6. resource' \in [Tasks -> {"absent", "present", "deleted"}]
  BY <1>2 DEF TaskStep, Put, Block, Created, RegisterHook, Delete, Deleted, UnregisterHook, Interrupted
<1>7. StageInv' /\ SuccessIsClean'
  BY <1>1, <1>3 DEF StageInv, SuccessIsClean
<1>8. QED
  BY <1>1, <1>2, <1>3, <1>4, <1>5, <1>6, <1>7, RunParts

\* A hook starts, or returns with an error that is a cancellation only if it was
\* within its reach.
LEMMA HookInv ==
  ASSUME IInv, RunIInv, TypeOK', StartHook \/ HookDeletes \/ HookInterrupted PROVE RunIInv'
<1>1. RunTypeOK /\ StageInv /\ SuccessIsClean
  BY DEF RunIInv
<1>2. /\ level \in 0..MaxLevel /\ mainErr \in MainErrors /\ cancelAsked \in BOOLEAN /\ isCanceled \in BOOLEAN
      /\ task \in [Tasks -> TaskState] /\ bound \in [Tasks -> BOOLEAN] /\ hookBound \in BOOLEAN
      /\ resource \in [Tasks -> {"absent", "present", "deleted"}] /\ run \in {"start", "main", "hooks", "end"}
      /\ (err \in {NoError, GoError} \/ IsCustom(err))
  BY <1>1 DEF RunTypeOK
<1>3. /\ run = "hooks" /\ run' = run
      /\ UNCHANGED <<backend, level, err, mainErr, cancelAsked, isCanceled, task, bound>>
  BY DEF StartHook, HookDeletes, HookInterrupted
<1>4. hookBound' \in BOOLEAN /\ phase' = phase
  BY <1>2 DEF StartHook, HookDeletes, HookInterrupted, CallHook, HookReturns
<1>5. resource' \in [Tasks -> {"absent", "present", "deleted"}]
  BY <1>2 DEF StartHook, HookDeletes, HookInterrupted
<1>6. Canceled \in errs' => ~LooksCanceled(backend, mainErr)
  <2>1. CASE StartHook
    BY <1>1, <2>1 DEF StartHook, CallHook, StageInv
  <2>2. CASE HookDeletes
    <3>1. errs' \subseteq errs \cup {ScriptError}
      BY <2>2 DEF HookDeletes, HookReturns
    <3>2. ScriptError # Canceled
      BY DEF ScriptError, Canceled
    <3>3. QED
      BY <1>1, <3>1, <3>2 DEF StageInv
  <2>3. CASE HookInterrupted
    <3>1. Wire(backend, Custom("hook")) # Canceled
      BY WireFacts, CustomFacts
    <3>2. \/ errs' = errs \cup {Wire(backend, Custom("hook"))}
          \/ cur # 0 /\ hookBound
      BY <2>3 DEF HookInterrupted, HookReturns
    <3>3. QED
      BY <1>1, <1>3, <3>1, <3>2 DEF StageInv
  <2>4. QED
    BY <2>1, <2>2, <2>3
<1>7. cur' # 0 /\ hookBound' => ~LooksCanceled(backend, mainErr)
  <2>1. CASE StartHook
    BY <1>1, <1>3, <2>1 DEF StartHook, StageInv
  <2>2. CASE HookDeletes \/ HookInterrupted
    BY <2>2 DEF HookDeletes, HookInterrupted, HookReturns
  <2>3. QED
    BY <2>1, <2>2
<1>8. StageInv' /\ SuccessIsClean'
  BY <1>1, <1>3, <1>4, <1>6, <1>7 DEF StageInv, SuccessIsClean
<1>9. QED
  BY <1>1, <1>2, <1>3, <1>4, <1>5, <1>8, RunParts

LEMMA RunNextInv == IInv /\ RunIInv /\ [RunNext]_vars => IInv' /\ RunIInv'
<1> SUFFICES ASSUME IInv, RunIInv, [RunNext]_vars PROVE IInv' /\ RunIInv'
  OBVIOUS
<1>1. IInv'
  BY RunStepIsStep, NextInv
<1>2. TypeOK'
  BY <1>1 DEF IInv
<1>3. CASE UNCHANGED vars
  <2>1. RunTypeOK' /\ StageInv' /\ SuccessIsClean'
    BY <1>2, <1>3 DEF vars, runVars, hookVars, RunIInv, RunTypeOK, StageInv, SuccessIsClean, MainErrors
  <2>2. QED
    BY <1>1, <2>1 DEF RunIInv
<1>4. RunIInv'
  BY <1>2, <1>3, RunItselfInv, TaskInv, HookInv DEF RunNext
<1>5. QED
  BY <1>1, <1>4

\* The inductive invariant of a run, with that of its hooks.
THEOREM RunInvariance == RunSpec => [](IInv /\ RunIInv)
BY RunInitInv, RunNextInv, PTL DEF RunSpec

\* The types of the run.
THEOREM RunTypeCorrect == RunSpec => []RunTypeOK
<1>1. RunIInv => RunTypeOK
  BY DEF RunIInv
<1>2. QED
  BY <1>1, RunInvariance, PTL

\* A run that reports success had no error, neither in main nor in a hook.
THEOREM SuccessClean == RunSpec => []SuccessIsClean
<1>1. RunIInv => SuccessIsClean
  BY DEF RunIInv
<1>2. QED
  BY <1>1, RunInvariance, PTL

\* The hooks of a run that ended by an error with details, such as a cancellation,
\* are out of the cancellation's reach.
THEOREM HooksShielded == RunSpec => []CanceledRunShieldsHooks
<1>1. RunIInv => CanceledRunShieldsHooks
  <2> SUFFICES ASSUME RunIInv, Canceled \in errs PROVE Unshielded(mainErr)
    BY DEF CanceledRunShieldsHooks
  <2>1. backend \in {"cadence", "temporal"} /\ mainErr \in MainErrors /\ ~LooksCanceled(backend, mainErr)
    BY DEF RunIInv, RunTypeOK, StageInv
  <2>2. QED
    BY <2>1, PlainErrors
<1>2. QED
  BY <1>1, RunInvariance, PTL

\* The hooks of a run are those of ExitHooks, whatever the coroutines and the
\* cancellation do.
THEOREM HooksAreExitHooks == RunSpec => Spec
<1>1. RunInit => Init
  BY DEF RunInit
<1>2. QED
  BY <1>1, RunStepIsStep, PTL DEF RunSpec, Spec

\* So exitHooks.Run calls the hooks of a run last in, first out, and each that
\* stays registered at least once.
THEOREM RunImplementsAtExit == RunSpec => []LifoOnce /\ AtExitSpec
BY HooksAreExitHooks, LastInFirstOut, ImplementsAtExit, PTL

-----------------------------------------------------------------------------
(* What the hooks leave behind *)

\* A step that undoes no deletion keeps what CleanInv says, as long as the hooks
\* called stay the same.
LEMMA CleanKept ==
  ASSUME TypeOK, CleanInv, UNCHANGED <<errs, cur, called>>,
         \A r \in DOMAIN fnOf : fnOf'[r] = fnOf[r],
         \A r \in DOMAIN fnOf' : r \in DOMAIN fnOf \/ task'[fnOf'[r]] \in AtWork,
         \A u \in Tasks : task[u] \in AtWork =>
           /\ task'[u] \in AtWork
           /\ resource[u] = "deleted" => resource'[u] = "deleted"
  PROVE  CleanInv'
<1>1. \A r \in DOMAIN fnOf : fnOf[r] \in Tasks /\ task[fnOf[r]] \in AtWork
  BY DEF TypeOK, CleanInv, Tasks
<1>2. \A r \in DOMAIN fnOf' : task'[fnOf'[r]] \in AtWork
  BY <1>1
<1>3. ASSUME errs \subseteq {ScriptError}, NEW k \in DOMAIN called, called[k] \notin {0, cur}
      PROVE  resource'[fnOf'[called[k]]] = "deleted"
  <2>1. called[k] \in DOMAIN fnOf
    <3>1. called[k] \in 0..Len(fnOf) /\ DOMAIN fnOf = 1..Len(fnOf) /\ Len(fnOf) \in Nat
      BY DEF TypeOK
    <3>2. QED
      BY <1>3, <3>1
  <2>2. resource[fnOf[called[k]]] = "deleted"
    BY <1>3 DEF CleanInv
  <2>3. QED
    BY <1>1, <2>1, <2>2
<1>4. QED
  BY <1>2, <1>3 DEF CleanInv

LEMMA CleanTask == ASSUME TypeOK, RunTypeOK, CleanInv, NEW t \in Tasks, TaskStep(t) PROVE CleanInv'
<1>1. /\ fnOf \in Seq(Fns) /\ Len(fnOf) \in Nat /\ DOMAIN fnOf = 1..Len(fnOf)
      /\ task \in [Tasks -> TaskState] /\ resource \in [Tasks -> {"absent", "present", "deleted"}]
  BY DEF TypeOK, RunTypeOK
<1>2. UNCHANGED <<errs, cur, called>>
  BY DEF TaskStep, Put, Block, Created, RegisterHook, Register, Delete, Deleted, UnregisterHook, Unregister,
     Interrupted, hookVars
<1>3. \A u \in Tasks : task[u] \in AtWork => task'[u] \in AtWork
  BY <1>1 DEF AtWork, TaskStep, Put, Block, Created, RegisterHook, Delete, Deleted, UnregisterHook, Interrupted
<1>4. \A u \in Tasks : task[u] \in AtWork /\ resource[u] = "deleted" => resource'[u] = "deleted"
  BY <1>1 DEF AtWork, TaskStep, Put, Block, Created, RegisterHook, Delete, Deleted, UnregisterHook, Interrupted
<1>5. CASE RegisterHook(t)
  <2>1. fnOf' = Append(fnOf, t) /\ t \in Fns /\ task' = [task EXCEPT ![t] = "work"]
    BY <1>5 DEF RegisterHook, Register, Tasks
  <2>2. /\ DOMAIN fnOf' = 1..(Len(fnOf) + 1) /\ fnOf'[Len(fnOf) + 1] = t
        /\ \A r \in DOMAIN fnOf : fnOf'[r] = fnOf[r]
    BY <1>1, <2>1
  <2>3. task'[t] \in AtWork
    BY <1>1, <2>1 DEF AtWork
  <2>4. \A r \in DOMAIN fnOf' : r \in DOMAIN fnOf \/ task'[fnOf'[r]] \in AtWork
    <3>1. \A r \in 1..(Len(fnOf) + 1) : r \in 1..Len(fnOf) \/ r = Len(fnOf) + 1
      BY <1>1
    <3>2. QED
      BY <1>1, <2>2, <2>3, <3>1
  <2>5. QED
    BY <1>2, <1>3, <1>4, <2>2, <2>4, CleanKept
<1>6. CASE ~RegisterHook(t)
  <2>1. fnOf' = fnOf
    BY <1>6 DEF TaskStep, Put, Block, Created, Delete, Deleted, UnregisterHook, Unregister, Interrupted, hookVars
  <2>2. QED
    BY <1>2, <1>3, <1>4, <2>1, CleanKept
<1>7. QED
  BY <1>5, <1>6

\* A hook that returns without an error, or whose script fails, has deleted its resource.
LEMMA CleanHook ==
  ASSUME TypeOK, RunTypeOK, CleanInv, StartHook \/ HookDeletes \/ HookInterrupted
  PROVE  CleanInv'
<1>1. /\ called \in Seq(0..Len(fnOf)) /\ Len(called) \in Nat /\ cur \in 0..Len(fnOf)
      /\ resource \in [Tasks -> {"absent", "present", "deleted"}]
      /\ fnOf \in Seq(Fns) /\ Len(fnOf) \in Nat /\ \A r \in 1..Len(fnOf) : fnOf[r] \in Tasks
  BY DEF TypeOK, RunTypeOK, Tasks
<1>2. fnOf' = fnOf /\ task' = task
  BY DEF StartHook, HookDeletes, HookInterrupted, CallHook, HookReturns
<1>3. CASE StartHook
  <2>1. cur = 0 /\ called' = Append(called, cur') /\ UNCHANGED <<resource, errs>>
    BY <1>3 DEF StartHook, CallHook
  <2>2. \A k \in DOMAIN called' : called'[k] # cur' => k \in DOMAIN called /\ called'[k] = called[k]
    <3>1. /\ DOMAIN called' = 1..(Len(called) + 1) /\ called'[Len(called) + 1] = cur'
          /\ \A k \in 1..Len(called) : called'[k] = called[k]
      BY <1>1, <2>1
    <3>2. \A k \in 1..(Len(called) + 1) : k \in 1..Len(called) \/ k = Len(called) + 1
      BY <1>1
    <3>3. QED
      BY <1>1, <3>1, <3>2
  <2>3. QED
    BY <1>2, <2>1, <2>2 DEF CleanInv
<1>4. CASE HookDeletes
  <2>1. /\ cur # 0 /\ cur' = 0 /\ called' = called /\ errs \subseteq errs'
        /\ resource' = [resource EXCEPT ![fnOf[cur]] = "deleted"]
    BY <1>4 DEF HookDeletes, HookReturns
  <2>2. fnOf[cur] \in Tasks /\ resource'[fnOf[cur]] = "deleted"
        /\ \A u \in Tasks : resource[u] = "deleted" => resource'[u] = "deleted"
    BY <1>1, <2>1
  <2>3. ASSUME errs' \subseteq {ScriptError}, NEW k \in DOMAIN called, called[k] # 0
        PROVE  resource'[fnOf[called[k]]] = "deleted"
    <3>1. called[k] \in 1..Len(fnOf)
      BY <1>1, <2>3
    <3>2. CASE called[k] = cur
      BY <2>2, <3>2
    <3>3. CASE called[k] # cur
      <4>1. resource[fnOf[called[k]]] = "deleted"
        BY <2>1, <2>3, <3>3 DEF CleanInv
      <4>2. QED
        BY <1>1, <2>2, <3>1, <4>1
    <3>4. QED
      BY <3>2, <3>3
  <2>4. QED
    BY <1>2, <2>1, <2>3 DEF CleanInv
<1>5. CASE HookInterrupted
  <2>1. Canceled # ScriptError /\ Wire(backend, Custom("hook")) # ScriptError
    BY DEF Canceled, ScriptError, Wire, WireCadence, WireTemporal, Custom, IsCustom, Generic, GoError, Application
  <2>2. ~(errs' \subseteq {ScriptError})
    BY <1>5, <2>1 DEF HookInterrupted, HookReturns
  <2>3. QED
    BY <1>2, <2>2 DEF CleanInv
<1>6. QED
  BY <1>3, <1>4, <1>5

LEMMA CleanNext == TypeOK /\ RunTypeOK /\ CleanInv /\ [RunNext]_vars => CleanInv'
<1> SUFFICES ASSUME TypeOK, RunTypeOK, CleanInv, [RunNext]_vars PROVE CleanInv'
  OBVIOUS
<1>1. ASSUME UNCHANGED <<fnOf, errs, cur, called, task, resource>> PROVE CleanInv'
  BY <1>1 DEF CleanInv
<1>2. CASE \E t \in Tasks : TaskStep(t)
  BY <1>2, CleanTask
<1>3. CASE StartHook \/ HookDeletes \/ HookInterrupted
  BY <1>3, CleanHook
<1>4. CASE \/ \E e \in PrepareErrors : PrepareFails(e)
           \/ StartMain \/ Panic \/ ParentFails \/ CancelWorkflow
  BY <1>1, <1>4 DEF PrepareFails, StartMain, Panic, ParentFails, CancelWorkflow, hookVars
<1>5. CASE \E e \in MainErrors : MainReturns(e)
  BY <1>1, <1>5 DEF MainReturns, BeginRun
<1>6. CASE Finish
  BY <1>1, <1>6 DEF Finish, EndRun
<1>7. CASE UNCHANGED vars
  BY <1>1, <1>7 DEF vars, hookVars, runVars
<1>8. QED
  BY <1>2, <1>3, <1>4, <1>5, <1>6, <1>7 DEF RunNext

\* Once the loop has ended, the run has: only the runs above go on.
LEMMA ClosedStep ==
  ASSUME RunIInv, phase = "closed", [RunNext]_vars
  PROVE  /\ UNCHANGED <<hookVars, task, resource, mainErr, backend, run>>
         /\ ParentFails \/ UNCHANGED vars
<1>1. run = "end"
  BY DEF RunIInv, RunTypeOK, StageInv
<1>2. ParentFails \/ UNCHANGED vars
  <2>1. ~ \E t \in Tasks : TaskStep(t)
    BY <1>1 DEF TaskStep, Put, Block, Created, RegisterHook, Delete, Deleted, UnregisterHook, Interrupted, Resumed
  <2>2. ~(StartHook \/ HookDeletes \/ HookInterrupted)
    BY <1>1 DEF StartHook, HookDeletes, HookInterrupted
  <2>3. ~((\E e \in PrepareErrors : PrepareFails(e)) \/ StartMain \/ \E e \in MainErrors : MainReturns(e))
    BY <1>1 DEF PrepareFails, StartMain, MainReturns
  <2>4. ~(Panic \/ Finish \/ CancelWorkflow)
    BY <1>1 DEF Panic, Finish, CancelWorkflow
  <2>5. QED
    BY <2>1, <2>2, <2>3, <2>4 DEF RunNext
<1>3. QED
  BY <1>2 DEF ParentFails, vars, runVars

\* Only the end of Run ends the loop.
LEMMA OnlyFinishCloses ==
  ASSUME phase # "closed", phase' = "closed", [RunNext]_vars
  PROVE  Finish
<1>1. ~ \E t \in Tasks : TaskStep(t)
  BY DEF TaskStep, Put, Block, Created, RegisterHook, Register, Delete, Deleted, UnregisterHook, Unregister,
     Interrupted, hookVars
<1>2. ~(StartHook \/ HookDeletes \/ HookInterrupted)
  BY DEF StartHook, CallHook, HookDeletes, HookInterrupted, HookReturns
<1>3. ~ \E e \in MainErrors : MainReturns(e)
  BY DEF MainReturns, BeginRun
<1>4. ~((\E e \in PrepareErrors : PrepareFails(e)) \/ StartMain \/ Panic \/ ParentFails \/ CancelWorkflow)
  BY DEF PrepareFails, StartMain, Panic, ParentFails, CancelWorkflow, hookVars
<1>5. ~(UNCHANGED vars)
  BY DEF vars, hookVars
<1>6. QED
  BY <1>1, <1>2, <1>3, <1>4, <1>5 DEF RunNext

\* When the loop ends it has called every hook of its start that is registered.
LEMMA CleanAtEnd ==
  ASSUME IInv, RunIInv, CleanInv, HooksCleanUp, [RunNext]_vars
  PROVE  HooksCleanUp'
<1>1. CASE phase = "closed"
  <2>1. UNCHANGED <<phase, errs, start, slots, len, fnOf, resource>>
    BY <1>1, ClosedStep DEF hookVars
  <2>2. QED
    BY <2>1 DEF HooksCleanUp, Standing, Registered
<1>2. CASE phase # "closed" /\ phase' = "closed"
  <2>1. EndRun
    <3>1. [Next]_hookVars
      BY RunStepIsStep
    <3>2. QED
      BY <1>2, <3>1 DEF Next, hookVars, Register, Unregister, BeginRun, CallHook, HookReturns
  <2>2. Finish
    BY <1>2, OnlyFinishCloses
  <2>3. /\ phase = "running" /\ cur = 0 /\ pos = 0
        /\ UNCHANGED <<errs, start, slots, len, fnOf, called, resource>>
    BY <2>1, <2>2 DEF EndRun, Finish
  <2>4. Standing \subseteq {called[k] : k \in DOMAIN called}
    <3>1. {Seen[k] : k \in 1..pos} = {}
      BY <2>3
    <3>2. QED
      BY <2>3, <3>1 DEF IInv, OwedBelow, Owed, Standing
  <2>5. ASSUME errs \subseteq {ScriptError}, NEW r \in Standing
        PROVE  resource[fnOf[r]] = "deleted"
    <3>1. PICK k \in DOMAIN called : r = called[k]
      BY <2>4
    <3>2. r # 0
      <4>1. start \in Seq(1..Len(fnOf))
        BY DEF IInv, TypeOK
      <4>2. QED
        BY <4>1 DEF Standing
    <3>3. QED
      BY <2>3, <2>5, <3>1, <3>2 DEF CleanInv
  <2>6. Standing' = Standing
    BY <2>3 DEF Standing, Registered
  <2>7. QED
    BY <2>3, <2>5, <2>6 DEF HooksCleanUp
<1>3. CASE phase' # "closed"
  BY <1>3 DEF HooksCleanUp
<1>4. QED
  BY <1>1, <1>2, <1>3

\* However main and the coroutines it left behind go on, and whatever fails or is
\* canceled: a run whose hooks all ran to their end has deleted the resource of
\* each hook that was registered when main returned and still is.
THEOREM CleanedUp == RunSpec => []HooksCleanUp
<1> DEFINE Inv == CleanInv /\ HooksCleanUp
<1>1. RunInit => Inv
  BY DEF RunInit, Init, CleanInv, HooksCleanUp
<1>2. IInv /\ RunIInv /\ Inv /\ [RunNext]_vars => Inv'
  BY CleanNext, CleanAtEnd DEF IInv, RunIInv
<1>3. QED
  BY <1>1, <1>2, RunInvariance, PTL DEF RunSpec

-----------------------------------------------------------------------------
(* What a failed run tells *)

LEMMA NotCustom == ~IsCustom(NoError) /\ ~IsCustom(GoError)
BY DEF IsCustom, NoError, GoError

\* The reason processError gives, and none if there is no custom error.
LEMMA ProcessReason ==
  ASSUME NEW b, NEW main, NEW hooks, NEW e \in ProcessError(b, main, hooks), e # NoError
  PROVE  IF Given(main, hooks) = {} THEN e = Custom(Unknown)
         ELSE \E r \in Given(main, hooks) : e = Custom(IF b = "cadence" THEN r ELSE TextOf(r))
<1>1. ~(main = NoError /\ hooks = {})
  <2>1. main = NoError /\ hooks = {} => ProcessError(b, main, hooks) = {NoError}
    BY NotCustom DEF ProcessError
  <2>2. QED
    BY <2>1
<1>2. CASE IsCustom(main)
  <2>1. e = Custom(ReasonOf(b, main)) /\ Given(main, hooks) = {main[2]}
    BY <1>1, <1>2 DEF ProcessError, Given
  <2>2. QED
    BY <2>1 DEF ReasonOf, ReasonCadence, ReasonTemporal
<1>3. CASE ~IsCustom(main) /\ \E h \in hooks : IsCustom(h)
  <2>1. PICK h \in {x \in hooks : IsCustom(x)} : e = Custom(ReasonOf(b, h))
    BY <1>1, <1>3 DEF ProcessError
  <2>2. h[2] \in Given(main, hooks)
    BY <1>3 DEF Given
  <2>3. QED
    BY <2>1, <2>2 DEF ReasonOf, ReasonCadence, ReasonTemporal
<1>4. CASE ~IsCustom(main) /\ ~ \E h \in hooks : IsCustom(h)
  <2>1. e = Custom(Unknown)
    BY <1>1, <1>4 DEF ProcessError
  <2>2. Given(main, hooks) = {}
    BY <1>4 DEF Given
  <2>3. QED
    BY <2>1, <2>2
<1>5. QED
  BY <1>2, <1>3, <1>4

\* A run's own error, as processError makes it of main's and of the hooks'.
LEMMA FinishTells ==
  ASSUME RunIInv, ToldInv, Finish
  PROVE  ReasonReported' /\ ToldInv'
<1> DEFINE given == Given(mainErr, errs)
<1>1. /\ run = "hooks" /\ run' = "end" /\ level = 0
      /\ UNCHANGED <<backend, level, mainErr, errs>>
      /\ err' \in ProcessError(backend, mainErr, errs)
  BY DEF Finish, EndRun, ToldInv
<1>2. backend \in {"cadence", "temporal"}
  BY DEF RunIInv, RunTypeOK
<1>3. CASE err' = NoError
  BY <1>1, <1>3 DEF ReasonReported, ToldInv
<1>4. CASE err' # NoError
  <2>1. IF given = {} THEN err' = Custom(Unknown)
        ELSE \E r \in given : err' = Custom(IF backend = "cadence" THEN r ELSE TextOf(r))
    BY <1>1, <1>4, ProcessReason
  <2>2. IsCustom(err')
    BY <2>1 DEF IsCustom, Custom
  <2>3. ReasonReported'
    BY <1>1, <1>2, <2>1 DEF ReasonReported
  <2>4. QED
    BY <1>1, <2>2, <2>3 DEF ToldInv
<1>5. QED
  BY <1>3, <1>4

\* What the run above makes of the error of the run it waits for.
LEMMA ParentTells ==
  ASSUME RunIInv, ToldInv, ReasonReported, phase = "closed", ParentFails
  PROVE  ReasonReported' /\ ToldInv'
<1> DEFINE given == Given(mainErr, errs)
<1>1. /\ run = "end" /\ err # NoError /\ IsCustom(err)
      /\ level \in Nat /\ level' = level + 1
      /\ UNCHANGED <<backend, run, mainErr, errs, phase>>
      /\ err' \in ProcessError(backend, Wire(backend, err), {})
      /\ backend \in {"cadence", "temporal"}
  BY LevelAssumption DEF ParentFails, ToldInv, RunIInv, RunTypeOK, hookVars
<1>2. CASE backend = "cadence"
  <2>1. Wire(backend, err) = err
    BY <1>1, <1>2 DEF Wire, WireCadence, IsCustom, GoError, ScriptError
  <2>2. err' = Custom(err[2])
    BY <1>1, <1>2, <2>1, NotCustom DEF ProcessError, ReasonOf, ReasonCadence
  <2>3. err = Custom(err[2])
    <3>1. PICK r : err = Custom(r)
      BY <1>1, <1>2 DEF ReasonReported
    <3>2. QED
      BY <3>1 DEF Custom
  <2>4. err' = err
    BY <2>2, <2>3
  <2>5. ReasonReported'
    BY <1>1, <1>2, <2>4 DEF ReasonReported
  <2>6. QED
    BY <1>1, <2>4, <2>5 DEF ToldInv
<1>3. CASE backend = "temporal"
  <2>1. Wire(backend, err) = Application("TemporalCustomError")
    <3>1. err \notin {GoError, ScriptError}
      BY <1>1 DEF IsCustom, GoError, ScriptError
    <3>2. WireTemporal(err) = Application("TemporalCustomError")
      BY <1>1, <3>1 DEF WireTemporal
    <3>3. QED
      BY <1>3, <3>2 DEF Wire
  <2>2. err' = Custom(Unknown)
    <3>1. ~IsCustom(Application("TemporalCustomError")) /\ Application("TemporalCustomError") # NoError
      BY DEF IsCustom, Application, NoError
    <3>2. QED
      BY <1>1, <2>1, <3>1 DEF ProcessError
  <2>3. ReasonReported'
    BY <1>1, <1>3, <2>2 DEF ReasonReported
  <2>4. IsCustom(err')
    BY <2>2 DEF IsCustom, Custom
  <2>5. QED
    BY <1>1, <2>3, <2>4 DEF ToldInv
<1>4. QED
  BY <1>1, <1>2, <1>3

LEMMA ReasonNext ==
  ASSUME RunIInv, ToldInv, ReasonReported, [RunNext]_vars
  PROVE  ReasonReported' /\ ToldInv'
<1>1. CASE phase = "closed"
  <2>1. CASE ParentFails
    BY <1>1, <2>1, ParentTells
  <2>2. CASE UNCHANGED vars
    BY <2>2 DEF vars, hookVars, runVars, ReasonReported, ToldInv
  <2>3. QED
    BY <1>1, <2>1, <2>2, ClosedStep
<1>2. CASE Finish
  BY <1>2, FinishTells
<1>3. CASE phase # "closed" /\ ~Finish
  <2>1. phase' # "closed"
    BY <1>3, OnlyFinishCloses
  <2>2. run' # "end" => level' = 0
    <3>1. (\E t \in Tasks : TaskStep(t)) => UNCHANGED <<run, level>>
      BY DEF TaskStep, Put, Block, Created, RegisterHook, Delete, Deleted, UnregisterHook, Interrupted
    <3>2. (StartHook \/ HookDeletes \/ HookInterrupted) => UNCHANGED <<run, level>>
      BY DEF StartHook, HookDeletes, HookInterrupted
    <3>3. ((\E e \in PrepareErrors : PrepareFails(e)) \/ StartMain \/ Panic \/ CancelWorkflow)
             => level' = level /\ (run' # "end" => run # "end")
      BY DEF PrepareFails, StartMain, Panic, CancelWorkflow
    <3>4. (\E e \in MainErrors : MainReturns(e)) => level' = level /\ run # "end"
      BY DEF MainReturns
    <3>5. ParentFails => run' = "end"
      BY DEF ParentFails
    <3>6. UNCHANGED vars => UNCHANGED <<run, level>>
      BY DEF vars, runVars
    <3>7. QED
      BY <1>3, <3>1, <3>2, <3>3, <3>4, <3>5, <3>6 DEF RunNext, ToldInv
  <2>3. QED
    BY <2>1, <2>2 DEF ReasonReported, ToldInv
<1>4. QED
  BY <1>1, <1>2, <1>3

\* However many runs wait for each other above a failed one: on Cadence its error has
\* the reason that was given where it failed, main's before that of a hook; on
\* Temporal the text of the error, and above it no reason at all.
THEOREM Reasons == RunSpec => []ReasonReported
<1>1. RunInit => ReasonReported /\ ToldInv
  BY DEF RunInit, Init, ReasonReported, ToldInv
<1>2. RunIInv /\ ReasonReported /\ ToldInv /\ [RunNext]_vars => (ReasonReported /\ ToldInv)'
  BY ReasonNext
<1>3. QED
  BY <1>1, <1>2, RunInvariance, PTL DEF RunSpec
=============================================================================
