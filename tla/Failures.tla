------------------------------- MODULE Failures -------------------------------
(***************************************************************************)
(* Errors as scripts meet them: how the backends make the errors of this   *)
(* code (NewCustomError), how those of activities and child workflows come *)
(* back to the one who waits, and what Service.Run makes of them.          *)
(*                                                                         *)
(* An error is a tuple that begins with its kind.  Details and messages    *)
(* are left out.                                                           *)
(***************************************************************************)

NoError == <<"none">>
ScriptError == <<"fail">>       \* an EvalError without a cause in Go
GoError == <<"plain">>          \* an error of Go with a text only
PanicError == <<"panic">>       \* a panic of an activity, as the SDKs report it
Timeout == <<"timeout">>
Canceled == <<"cancel">>
Custom(r) == <<"custom", r>>    \* a CustomError with the reason r it was made with
Generic == <<"generic">>        \* Cadence: an error of Go, on the other side
Application(type) == <<"application", type>>  \* Temporal: the same, or a custom one

IsCustom(e) == e[1] = "custom"
Unknown == "unknown"

\* The whole text of an error with the reason r.
TextOf(r) == <<"text", r>>

\* Variant, not the code's: Cadence's reason is the text too.
ReasonCadenceText(e) == TextOf(e[2])

\* Reason of the two backends.  Temporal's is the whole text of the error.
ReasonCadence(e) == e[2]
ReasonTemporal(e) == TextOf(e[2])
ReasonOf(backend, e) == IF backend = "cadence" THEN ReasonCadence(e) ELSE ReasonTemporal(e)

\* The error of an activity or a child workflow, to the one who waits for it.
\* Temporal names an error it does not know by its type in Go.
WireCadence(e) ==
  IF e \in {GoError, ScriptError} THEN Generic ELSE e
WireTemporal(e) ==
  CASE IsCustom(e) -> Application("TemporalCustomError")
    [] e \in {GoError, ScriptError} -> Application("errorString")
    [] OTHER -> e
Wire(backend, e) == IF backend = "cadence" THEN WireCadence(e) ELSE WireTemporal(e)

\* Variant, not the code's: no error counts as a cancellation.
LooksCanceledNever(backend, e) == FALSE

\* errors.As(err, &canceledErr) in Run: the target is an interface with details
\* (internal/types.go), which more errors satisfy than cancellations.  Cadence's
\* timeout is one of them; Temporal's has no details but those of its last heartbeat
\* (the failure of an earlier attempt, which it may come with, is left out).
LooksCanceled(backend, e) ==
  e[1] \in {"cancel", "custom", "application"} \cup (IF backend = "cadence" THEN {"timeout"} ELSE {})

\* Variants, not the code's: main's error is returned as it is; nothing failed
\* unless main did.
ProcessErrorAsIs(backend, main, hooks) ==
  IF main = NoError /\ hooks # {} THEN {Custom(Unknown)} ELSE {main}
ProcessErrorOfMain(backend, main, hooks) ==
  IF main = NoError THEN {NoError} ELSE {Custom(Unknown)}

\* processError of main's error and those of the hooks, in the order they are
\* joined: the errors Run may return, with the reason of the first custom error.
\* The errors of the hooks are kept without their order.
ProcessError(backend, main, hooks) ==
  CASE main = NoError /\ hooks = {} -> {NoError}
    [] IsCustom(main) -> {Custom(ReasonOf(backend, main))}
    [] ~IsCustom(main) /\ \E e \in hooks : IsCustom(e) ->
         {Custom(ReasonOf(backend, e)) : e \in {h \in hooks : IsCustom(h)}}
    [] OTHER -> {Custom(Unknown)}
=============================================================================
