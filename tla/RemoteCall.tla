------------------------------ MODULE RemoteCall ------------------------------
(***************************************************************************)
(* A script calls an activity or a child workflow (plugin/workflow): the   *)
(* service was built with some options, Service.Run has put them into the  *)
(* context, the keywords of the call change them, the backend's converter  *)
(* writes the arguments and its propagator the headers, the callee reads   *)
(* them and answers with the first argument, and the script reads the      *)
(* answer.  It then makes the same call again with that answer in the      *)
(* first place.                                                            *)
(*                                                                         *)
(* The first call may be the start of the workflow by the run command; the *)
(* run then calls an activity with the arguments it was started with.      *)
(* Failures of the callee and retries are those of ActivityRetry.          *)
(***************************************************************************)
EXTENDS Command, Options, Headers

CONSTANT Calls  \* calls a script or a command makes, see IsCall

KeywordNames == {"task_list", "domain", "as_bytes", "headers", "other"}

IsRecord(r, fields) == r = [f \in fields |-> r[f]]

IsKeyword(k) ==
  /\ k.key \in KeywordNames
  /\ k.typed \in BOOLEAN  \* val has the type the key wants
  /\ k.key = "as_bytes" /\ k.typed => k.val \in BOOLEAN

IsSetter(s) ==
  \/ s[1] = "list"
  \/ s[1] = "activity" /\ IsRecord(s[2], DOMAIN DefaultActivityOptions)
  \/ s[1] = "child" /\ IsRecord(s[2], DOMAIN DefaultChildWorkflowOptions)

IsFlags(f) == f.readable \in BOOLEAN /\ IsTree(f.args) /\ IsTree(f.kwargs) /\ IsSeq(f.env)

IsStart(c) ==
  /\ c.kind = "start" /\ c.kwargs = <<>>
  /\ c.propagates \in BOOLEAN  \* the client has the propagator
  /\ IsFlags(c.flags)

\* A call by a script.
IsExecution(c) ==
  /\ c.kind \in {"activity", "workflow"}
  /\ IsRecord(c, {"kind", "setters", "headers", "kwargs", "args", "params"})
  /\ IsSeq(c.args) /\ Len(c.args) > 0 /\ (\A i \in DOMAIN c.args : IsValue(c.args[i]))
  /\ IsSeq(c.params) /\ Len(c.params) > 0 /\ (\A i \in DOMAIN c.params : c.params[i] \in {"value", "bytes"})
  /\ IsFunction(c.headers)

IsCall(c) ==
  /\ IsSeq(c.kwargs) /\ (\A i \in DOMAIN c.kwargs : IsKeyword(c.kwargs[i]))
  /\ \A i, j \in DOMAIN c.kwargs : c.kwargs[i].key = c.kwargs[j].key => i = j
  /\ IsSeq(c.setters) /\ (\A i \in DOMAIN c.setters : IsSetter(c.setters[i]))
  /\ IsStart(c) \/ IsExecution(c)

ASSUME CallsAssumption == \A c \in Calls : IsCall(c)

VARIABLES
  backend,  \* "cadence", "temporal", or another name the service is built with
  call,     \* the call being made
  step,     \* "flags", "building", "entering", "keywords", "scheduled", "running",
            \* "returned", "done"; "failed" or "panic"
  pos,      \* next keyword
  opts,     \* the service's options, then those of the call's context
  asBytes,  \* the local variable
  headers,  \* headers of the caller's context
  wire,     \* headers the propagator has written
  data,     \* what the converter has written
  got,      \* what the callee has read
  gotten,   \* headers of the callee's context
  res,      \* what the script has read
  first     \* history: the result of the first call, or Nil

callee == <<got, gotten>>
written == <<data, wire>>
vars == <<backend, call, step, pos, opts, asBytes, headers, written, callee, res, first>>

-----------------------------------------------------------------------------
(* The service *)

Init ==
  /\ backend \in {"cadence", "temporal", "other"}
  /\ call \in Calls
  /\ step = IF call.kind = "start" THEN "flags" ELSE "building"
  /\ pos = 1 /\ opts = NewServiceBuilder /\ asBytes = FALSE
  /\ headers = IF call.kind = "start" THEN Absent ELSE Headers(call.headers)
  /\ data = Unset /\ wire = Absent /\ got = <<>> /\ gotten = Absent /\ res = Nil /\ first = Nil

\* The setter at pos is called on the builder.
Set ==
  /\ step = "building" /\ pos <= Len(call.setters)
  /\ LET c == call.setters[pos]
     IN opts' = CASE c[1] = "list" -> SetClientTaskList(opts, c[2])
                  [] c[1] = "activity" -> SetActivityOptions(opts, c[2])
                  [] c[1] = "child" -> SetChildWorkflowOptions(opts, c[2])
  /\ pos' = pos + 1
  /\ UNCHANGED <<backend, call, step, asBytes, headers, written, callee, res, first>>

\* Build makes a service only for a known backend.
Build ==
  /\ step = "building" /\ pos > Len(call.setters)
  /\ step' = IF backend \in {"cadence", "temporal"} THEN "entering" ELSE "failed"
  /\ pos' = 1
  /\ UNCHANGED <<backend, call, opts, asBytes, headers, written, callee, res, first>>

\* Service.Run puts the service's options into the context.
EnterRun ==
  /\ step = "entering"
  /\ IF AttributesPanic(backend, opts.child) THEN step' = "panic" /\ UNCHANGED opts
     ELSE /\ step' = "keywords"
          /\ opts' = WithChildOptions(backend,
                       WithActivityOptions(backend, RootContext, opts.activity), opts.child)
  /\ UNCHANGED <<backend, call, pos, asBytes, headers, written, callee, res, first>>

\* The command makes arguments of its flags, and has no keywords.
ReadFlags ==
  /\ step = "flags" /\ backend # "other"
  /\ LET args == Arguments(backend, call.flags)
     IN IF BrokenTree \in {args[i] : i \in DOMAIN args} THEN step' = "failed" /\ UNCHANGED <<call, opts>>
        ELSE /\ step' = "keywords"
             /\ call' = [kind |-> "start", args |-> args, params |-> RunParams, flags |-> call.flags,
                         kwargs |-> <<>>, setters |-> call.setters, propagates |-> call.propagates]
             /\ opts' = [start |-> StartOptions(backend, call.flags)]
  /\ UNCHANGED <<backend, pos, asBytes, headers, written, callee, res, first>>

-----------------------------------------------------------------------------
(* A call *)

\* One turn of the loop over the keywords.
AtKeyword == step = "keywords" /\ pos <= Len(call.kwargs)
Keyword == call.kwargs[pos]
NextKeyword == pos' = pos + 1 /\ UNCHANGED <<backend, call, step, headers, written, callee, res, first>>

TaskList ==
  /\ AtKeyword /\ Keyword.key = "task_list" /\ Keyword.typed
  /\ opts' = IF call.kind = "activity" THEN WithTaskList(opts, Keyword.val)
                                       ELSE WithWorkflowTaskList(backend, opts, Keyword.val)
  /\ UNCHANGED asBytes /\ NextKeyword

Domain ==
  /\ AtKeyword /\ Keyword.key = "domain" /\ Keyword.typed /\ call.kind = "workflow"
  /\ opts' = WithWorkflowDomain(backend, opts, Keyword.val)
  /\ UNCHANGED asBytes /\ NextKeyword

AsBytes ==
  /\ AtKeyword /\ Keyword.key = "as_bytes" /\ Keyword.typed
  /\ asBytes' = Keyword.val
  /\ UNCHANGED opts /\ NextKeyword

EndsWith(s) ==
  step' = s /\ UNCHANGED <<backend, call, pos, opts, asBytes, headers, written, callee, res, first>>

Accepted == {"task_list", "as_bytes"} \cup IF call.kind = "workflow" THEN {"domain"} ELSE {}

\* headers, and keys the call does not have, are errors.
RefuseKeyword == AtKeyword /\ Keyword.key \notin Accepted /\ EndsWith("failed")

\* The type assertion on a keyword's value panics.
WrongType ==
  AtKeyword /\ Keyword.key \in Accepted /\ ~Keyword.typed /\ EndsWith("panic")

\* The converters of the backend.
Write(vs) == IF backend = "cadence" THEN ToData(vs) ELSE ToPayloads(vs)
Read(d, targets) ==
  IF backend = "cadence" THEN FromData(d, targets) ELSE FromPayloads(d, targets)

\* A client without the propagator writes no headers.
Outgoing ==
  IF call.kind = "start" /\ ~call.propagates THEN Headers(<<>>) ELSE Inject(backend, headers)

\* ExecuteActivity, ExecuteChildWorkflow, or the client's start of the workflow,
\* with the call's arguments.
Execute ==
  /\ step = "keywords" /\ pos > Len(call.kwargs)
  /\ data' = Write(call.args)
  /\ wire' = Outgoing
  /\ step' = CASE data' = Broken -> "failed"
               [] data' # Broken /\ wire' = Panics -> "panic"
               [] OTHER -> "scheduled"
  /\ UNCHANGED <<backend, call, pos, opts, asBytes, headers, callee, res, first>>

\* The SDK reads the arguments into the callee's parameters and the headers into
\* its context.
CalleeReads ==
  /\ step = "scheduled"
  /\ LET r == Read(data, call.params)
     IN IF r = Broken THEN step' = "failed" /\ UNCHANGED callee
        ELSE step' = "running" /\ got' = r[2] /\ gotten' = Extract(backend, wire)
  /\ UNCHANGED <<backend, call, pos, opts, asBytes, headers, written, res, first>>

\* The callee answers with its first parameter.
CalleeReturns ==
  /\ step = "running" /\ call.kind # "start"
  /\ data' = Write(<<got[1]>>)
  /\ step' = IF data' = Broken THEN "failed" ELSE "returned"
  /\ UNCHANGED <<backend, call, pos, opts, asBytes, headers, wire, callee, res, first>>

\* executeFuture: future.Get into bytes or into a value.  The interpreter
\* refuses a value that was not set.
ExecuteFuture ==
  /\ step = "returned"
  /\ LET r == Read(data, <<IF asBytes THEN "bytes" ELSE "value">>)
     IN IF r = Broken \/ r = <<"values", <<Nil>>>>
        THEN step' = "failed" /\ UNCHANGED res
        ELSE step' = "done" /\ res' = r[2][1]
  /\ UNCHANGED <<backend, call, pos, opts, asBytes, headers, written, callee, first>>

\* The next call of the same run begins with the options of Service.Run.
Onward(c) ==
  /\ call' = c
  /\ step' = "building" /\ pos' = 1 /\ opts' = NewServiceBuilder /\ asBytes' = FALSE
  /\ UNCHANGED <<backend, written, callee, res>>

\* The script makes the call again, with what it got.
CallAgain ==
  /\ step = "done" /\ first = Nil
  /\ first' = res
  /\ Onward([call EXCEPT !.args[1] = res])
  /\ UNCHANGED headers

\* The elements of a tuple.
Elements(v) == [i \in 1..Size(v) |-> Below(v, Index(i))]

\* The run that was started calls an activity with the arguments of its function.
RunCalls ==
  /\ step = "running" /\ call.kind = "start"
  /\ LET args == IF got[4] \in {Nil, Leaf(Tuple)} THEN <<None>> ELSE Elements(got[4])
     IN Onward([kind |-> "activity", kwargs |-> <<>>, setters |-> call.setters, headers |-> gotten[2],
                args |-> args, params |-> [i \in DOMAIN args |-> "value"]])
  /\ headers' = gotten
  /\ UNCHANGED first

Next ==
  \/ Set \/ Build \/ EnterRun \/ ReadFlags
  \/ TaskList \/ Domain \/ AsBytes \/ RefuseKeyword \/ WrongType
  \/ Execute \/ CalleeReads \/ CalleeReturns \/ ExecuteFuture
  \/ CallAgain \/ RunCalls

Spec == Init /\ [][Next]_vars

-----------------------------------------------------------------------------
(* Properties *)

\* What the code means by a value that can be passed: JSON, or bytes alone.
IsJson(v) ==
  \A p \in DOMAIN v : v[p][1] \in {"none", "int", "str", "tuple", "list", "dict", "dataclass"}

\* How it should arrive: as it is, but for the tuples, which are lists, and for
\* what __codec__ tells a dict or dataclass to be.
Arrived(v) ==
  [p \in DOMAIN v |->
     CASE v[p] \in {Tuple, List} -> List
       [] v[p] \in {Dict, Dataclass} -> IF SaysDataclass(v, p) THEN Dataclass ELSE Dict
       [] OTHER -> v[p]]

\* Each argument has a parameter of its kind.
ArgumentsFit ==
  /\ call.kind # "start" /\ Len(call.args) = Len(call.params)
  /\ \A i \in DOMAIN call.args :
       IF call.params[i] = "bytes" THEN IsBytes(call.args[i]) ELSE IsJson(call.args[i])

\* The script reads the answer as what the callee sends.
AnswerFits == asBytes = (call.params[1] = "bytes")

Called == step \in {"scheduled", "running", "returned", "done"}

\* "Enables passing Starlark values between Cadence workflows and activities"
\* (internal_cadence.go:503; internal_temporal.go:548): arguments that fit the
\* callee reach it, on either backend, in their places and unchanged but for
\* what JSON has no form for, and so does the answer reach the script, if
\* as_bytes is given for bytes and for nothing else.
ValuesArrive ==
  step # "flags" /\ ArgumentsFit =>
    /\ (step \in {"running", "returned", "done"} =>
          got = [i \in DOMAIN call.args |-> Arrived(call.args[i])])
    /\ (step = "failed" /\ pos > Len(call.kwargs) /\ backend # "other" => ~AnswerFits)
    /\ (step = "done" /\ AnswerFits => res = Arrived(call.args[1]))

\* Whatever a value has lost on its way, it loses once: if as_bytes is given for a
\* callee with a parameter of bytes and for no other, what came back from a call
\* arrives and comes back from the next as it is, even where the argument of the
\* first did not fit and became something else on its way.
EchoSettles ==
  first # Nil /\ Len(call.args) = Len(call.params) /\ AnswerFits =>
    /\ step # "failed"
    /\ (step = "done" => res = first)

\* A variable of the environment, as the user's last --env gives it.
GivenEnv(f, k) ==
  LET n == CHOOSE i \in DOMAIN f.env :
             f.env[i][1] = k /\ \A j \in DOMAIN f.env : f.env[j][1] = k => j <= i
  IN f.env[n][2]

\* What a workflow is started with is what the flags of the command say: the
\* file, the function, its arguments, the values last given for the environment
\* (all of them lost if they look like a dataclass), and a package; but Temporal's
\* command starts a workflow without one if the file cannot be read.
StartsAsFlagged ==
  step = "running" /\ call.kind = "start" =>
    LET f == call.flags
    IN /\ got[1] = IF f.readable THEN Bytes(Plain) ELSE Bytes(Empty)
       /\ (~f.readable => backend = "temporal" /\ f.package = "file")
       /\ Root(got[2])[2][2] = f.file
       /\ got[3] = Str(IF f.function = Unset THEN <<"main">> ELSE f.function)
       /\ (IF f.args = Leaf(<<"null">>) THEN got[4] = Nil
           ELSE Root(got[4]) = Tuple /\ Relabelled(got[4], List) = Value(f.args))
       /\ (IF f.kwargs = Leaf(<<"null">>) THEN got[5] = Nil
           ELSE /\ Root(got[5]) = Keywords
                /\ [p \in DOMAIN got[5] |-> IF Len(p) <= 1 THEN List ELSE got[5][p]] = Value(f.kwargs))
       /\ (IF f.env = <<>> THEN got[6] = Nil
           ELSE IF "__codec__" \in EnvKeys(f) /\ GivenEnv(f, "__codec__") = DataclassType
           THEN got[6] = Leaf(Dict)
           ELSE /\ DOMAIN got[6] = {<<>>} \cup {<<Entry(k)>> : k \in EnvKeys(f)} /\ Root(got[6]) = Dict
                /\ \A k \in EnvKeys(f) : got[6][<<Entry(k)>>] = <<"str", GivenEnv(f, k)>>)
       /\ opts.start.queue = FlagOr(f.queue, <<"default">>)

\* The callee's headers are those of its caller, through any number of calls, and
\* no workflow or activity panics over them: only a client that has the
\* propagator does, since nothing can put headers into its context.
HeadersArrive ==
  /\ (step \in {"running", "returned", "done"} =>
        gotten = IF call.kind = "start" THEN Headers(<<>>) ELSE headers)
  /\ (wire = Panics => call.kind = "start" /\ call.propagates)

-----------------------------------------------------------------------------
(* Options *)

\* One of the first n keywords has this key, and its value.
Has(kwargs, key, n) == \E i \in 1..n : kwargs[i].key = key
Asked(kwargs, key) == kwargs[CHOOSE i \in DOMAIN kwargs : kwargs[i].key = key].val

\* The last of the first n setters that is of a kind, or 0.
LastOf(setters, kind, n) ==
  CHOOSE i \in 0..n :
    /\ i = 0 \/ setters[i][1] = kind
    /\ \A j \in (i + 1)..n : setters[j][1] # kind

\* What the first n told the builder of a kind: the options last set, and the task
\* list of the client unless the options were set after it.
ToldBy(setters, kind, default, n) ==
  LET last == LastOf(setters, kind, n)
      list == LastOf(setters, "list", n)
      options == IF last = 0 THEN default ELSE setters[last][2]
  IN IF list > last THEN [options EXCEPT !.queue = setters[list][2]] ELSE options

\* What the whole of them told it.
ToldTo(setters, n) ==
  [activity |-> ToldBy(setters, "activity", DefaultActivityOptions, n),
   child |-> ToldBy(setters, "child", DefaultChildWorkflowOptions, n)]
ToldActivity == ToldTo(call.setters, Len(call.setters)).activity
ToldChild == ToldTo(call.setters, Len(call.setters)).child

\* An activity runs under the options its service was built with, in the queue
\* the script asked for in its first n keywords, whatever their order; only
\* Temporal's policy does not expire.
ActivityAsAsked(n) ==
  opts.activity =
    [ToldActivity EXCEPT
       !.queue = IF Has(call.kwargs, "task_list", n) THEN Asked(call.kwargs, "task_list") ELSE @,
       !.retry = IF backend = "cadence" THEN @ ELSE WithoutExpiration(@)]

\* So does a child, with the domain asked for; but the close policy is lost on both
\* backends, the reuse policy on Cadence, and on Temporal the expiration, the
\* task list asked for, and with a domain everything but the queue; its search
\* attributes are the workflow's own then, which Cadence leaves alone.
ChildAsAsked(n) ==
  LET built == [ToldChild EXCEPT !.close = "unset"]
      domain == IF Has(call.kwargs, "domain", n) THEN Asked(call.kwargs, "domain") ELSE built.domain
  IN /\ opts.own = IF backend = "cadence" THEN {} ELSE ToldChild.attributes
     /\ IF backend = "cadence"
        THEN opts.workflow =
               [built EXCEPT !.domain = domain, !.reuse = 0,
                             !.queue = IF Has(call.kwargs, "task_list", n)
                                       THEN Asked(call.kwargs, "task_list") ELSE @]
        ELSE IF Has(call.kwargs, "domain", n)
        THEN /\ opts.workflow.domain = Given(domain, built.domain)
             /\ opts.workflow.queue = built.queue
             /\ opts.workflow.attributes = built.attributes
        ELSE opts.workflow = [built EXCEPT !.retry = WithoutExpiration(@), !.reuse = ReusePolicy(@)]

\* Calls are scheduled with what the service was built with and the script asked
\* for, as the two backends understand it.
CallsAsAsked ==
  Called =>
    /\ (call.kind = "activity" => ActivityAsAsked(Len(call.kwargs)))
    /\ (call.kind = "workflow" => ChildAsAsked(Len(call.kwargs)))
-----------------------------------------------------------------------------
(* The inductive invariant *)

CallInv ==
  /\ IsCall(call) /\ backend \in {"cadence", "temporal", "other"} /\ pos \in Nat \ {0}
  /\ step \in {"flags", "building", "entering", "keywords", "failed", "panic"} \/ Called
  /\ step = "flags" => call.kind = "start"
  /\ step \in {"building", "entering", "returned", "done"} => call.kind # "start"
  /\ step \notin {"flags", "building", "failed"} => backend # "other"

\* The loop over the keywords and what it accepted so far.
KeywordsRead == IF step = "keywords" THEN pos - 1 ELSE Len(call.kwargs)
InCall == step = "keywords" \/ Called
Refused == pos <= Len(call.kwargs) \/ backend = "other"
BytesAsked(kwargs, n) == \E i \in 1..n : kwargs[i].key = "as_bytes" /\ kwargs[i].val = TRUE

KeywordInv ==
  /\ step = "building" => pos <= Len(call.setters) + 1
  /\ step \in {"flags", "building", "entering"} => asBytes = FALSE
  /\ step \in {"flags", "entering"} => pos = 1
  /\ step = "keywords" => pos <= Len(call.kwargs) + 1
  /\ Called => pos = Len(call.kwargs) + 1
  /\ InCall \/ (step = "failed" /\ call.kind # "start" /\ ~Refused) =>
       /\ \A i \in 1..KeywordsRead : call.kwargs[i].key \in Accepted /\ call.kwargs[i].typed
       /\ asBytes = BytesAsked(call.kwargs, KeywordsRead)

\* Only a start has no headers to write, and nothing is scheduled with a panic.
HeadersInv ==
  /\ headers = IF call.kind = "start" THEN Absent ELSE Headers(call.headers)
  /\ wire = Panics => call.kind = "start" /\ call.propagates
  /\ Called => wire = Outgoing /\ wire # Panics
  /\ Called /\ step # "scheduled" => gotten = Extract(backend, wire)

\* The last of a kind is one of the setters called so far, or none is of it.
LastInv(setters, n) ==
  \A kind \in {"list", "activity", "child"} :
    LET i == LastOf(setters, kind, n)
    IN /\ i \in 0..n /\ (i = 0 \/ setters[i][1] = kind)
       /\ \A j \in (i + 1)..n : setters[j][1] # kind

\* The options, from the first setter to the last keyword.
Records(told) ==
  IsRecord(told.activity, DOMAIN DefaultActivityOptions) /\ IsRecord(told.child, DOMAIN DefaultChildWorkflowOptions)

OptsInv ==
  /\ step = "building" =>
       LastInv(call.setters, pos - 1) /\ opts = ToldTo(call.setters, pos - 1) /\ Records(opts)
  /\ step = "entering" => opts = ToldTo(call.setters, Len(call.setters)) /\ Records(opts)
  /\ InCall /\ call.kind # "start" =>
       /\ Records(ToldTo(call.setters, Len(call.setters))) /\ IsRecord(opts, {"activity", "workflow", "own"})
       /\ (call.kind = "activity" => ActivityAsAsked(KeywordsRead))
       /\ (call.kind = "workflow" => ChildAsAsked(KeywordsRead))

\* What the callee reads, and what the script reads of its answer.
CalleeGets == Read(Write(call.args), call.params)
ScriptGets == Read(Write(<<CalleeGets[2][1]>>), <<IF asBytes THEN "bytes" ELSE "value">>)
NoAnswer == <<"values", <<Nil>>>>

WireInv ==
  /\ Called => Write(call.args) # Broken
  /\ step = "scheduled" => data = Write(call.args)
  /\ step \in {"running", "returned", "done"} => CalleeGets # Broken /\ got = CalleeGets[2]
  /\ step \in {"returned", "done"} => Write(<<CalleeGets[2][1]>>) # Broken
  /\ step = "returned" => data = Write(<<CalleeGets[2][1]>>)
  /\ step = "done" => ScriptGets \notin {Broken, NoAnswer} /\ res = ScriptGets[2][1]
  /\ step = "failed" /\ call.kind # "start" /\ ~Refused =>
       \/ Write(call.args) = Broken \/ CalleeGets = Broken \/ Write(<<CalleeGets[2][1]>>) = Broken
       \/ ScriptGets \in {Broken, NoAnswer}

\* A run that was started carries the arguments of the command.
StartInv ==
  call.kind = "start" /\ InCall =>
    /\ call.args = Arguments(backend, call.flags) /\ call.params = RunParams
    /\ \A i \in 1..6 : call.args[i] # BrokenTree
    /\ opts = [start |-> StartOptions(backend, call.flags)]

\* What came back from a call has the form its second trip keeps, and the other
\* arguments have made the trip before.
Settled(v, asked) == IF asked THEN IsBytes(v) ELSE IsJson(v) /\ Arrived(v) = v
OthersPass ==
  Len(call.args) = Len(call.params) =>
    \A i \in 2..Len(call.args) :
      LET line == ToLine(call.args[i])
      IN line # BrokenTree /\ Decode(line, call.params[i]) # BrokenTree

FirstInv ==
  first # Nil =>
    /\ call.kind # "start" /\ backend # "other" /\ call.args[1] = first
    /\ IsValue(first) /\ Settled(first, BytesAsked(call.kwargs, Len(call.kwargs)))
    /\ \A i \in DOMAIN call.kwargs : call.kwargs[i].key \in Accepted /\ call.kwargs[i].typed
    /\ OthersPass
    /\ step = "failed" => ~Refused

IInv == CallInv /\ KeywordInv /\ HeadersInv /\ OptsInv /\ WireInv /\ StartInv /\ FirstInv
=============================================================================
