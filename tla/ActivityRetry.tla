---------------------------- MODULE ActivityRetry ----------------------------
(***************************************************************************)
(* The activities of the request plugin (plugin/request/activities.go)     *)
(* under the options that Service.Run gives every activity                 *)
(* (service/defaults.go), as the Cadence and the Temporal backend hand     *)
(* them on (internal/internal_cadence.go, internal/internal_temporal.go).  *)
(*                                                                         *)
(* The service that keeps the activity's timers, and the HTTP server, are  *)
(* modelled from how the source uses them.  An activity is attempted       *)
(* again, from its beginning, until it succeeds, its error is one the      *)
(* policy excludes, or the time for retries is over.  Time is counted in   *)
(* units of the interval between attempts, 15 seconds.                     *)
(***************************************************************************)
EXTENDS Integers

CONSTANTS Backend,    \* "cadence" or "temporal"
          Requests,   \* calls of do and do_json, see IsRequest
          Statuses,   \* status codes the server answers with
          Expiration, \* ExpirationInterval of the default retry policy
          Never       \* no limit of time

IsRequest(r) ==
  /\ r.fn \in {"do", "do_json"}
  /\ {r.marshals, r.valid, r.asserts} \subseteq BOOLEAN
  /\ r.expected \subseteq Statuses

ASSUME ActivityRetryAssumption ==
  /\ Backend \in {"cadence", "temporal"}
  /\ Expiration \in Nat \ {0} /\ Never \notin Nat
  /\ (\A r \in Requests : IsRequest(r)) /\ "none" \notin Statuses

VARIABLES
  req,      \* the arguments of the activity
  phase,    \* "scheduled", "sent", "answered", "reported", "waiting", "closed"
  answer,   \* the server's answer to this attempt
  handled,  \* how many attempts the server has handled, up to 2
  reason,   \* the error of the last attempt, or "none"
  result,   \* what the workflow gets: "none", "value" or "error"
  elapsed   \* time since the first attempt was scheduled, up to Expiration + 1

vars == <<req, phase, answer, handled, reason, result, elapsed>>

\* The reason of a panic, by Cadence's name.
Panic == "cadenceInternal:Panic"

Reasons ==
  Statuses \cup {"400", "412", "invalid-argument", "unknown", "internal", "timeout", Panic}

\* What comes of the assertion about the body depends on the values compared: a list
\* or a map on both sides of == panics.
NoAnswer == [status |-> "none", json |-> FALSE, assertion |-> "fails"]
Answers == [status : Statuses, json : BOOLEAN, assertion : {"holds", "fails", "panics"}]

-----------------------------------------------------------------------------
(* The options *)

\* DefaultNonRetriableErrorReasons, of the reasons that occur here.
NonRetriable == {Panic, "400", "401", "403", "404", "405", "502", "invalid-argument", "internal"}

DefaultRetryPolicy == [expiration |-> Expiration, reasons |-> NonRetriable]

\* Variant, not the code's: the reasons are not handed on.
CadencePolicyNoReasons == [DefaultRetryPolicy EXCEPT !.reasons = {}]

\* Variant, not the code's: the expiration is not handed on.
CadencePolicyNoEnd == [DefaultRetryPolicy EXCEPT !.expiration = Never]

\* WithActivityOptions of the backends.  Temporal's policy has no expiration,
\* and the activity no time limit over all attempts.
CadencePolicy == DefaultRetryPolicy
TemporalPolicy == [DefaultRetryPolicy EXCEPT !.expiration = Never]

Policy == IF Backend = "cadence" THEN CadencePolicy ELSE TemporalPolicy

\* NewCustomError of the backends: what the service takes for the error's
\* reason.  Temporal's SDK reports the Go type of an error that is no
\* ApplicationError of its own, and a panic by a name of its own.
SeenAs(r) ==
  CASE r = "timeout" \/ Backend = "cadence" -> r
    [] r = Panic /\ Backend = "temporal" -> "PanicError"
    [] OTHER -> "TemporalCustomError"

-----------------------------------------------------------------------------
Init ==
  /\ req \in Requests
  /\ phase = "scheduled" /\ answer = NoAnswer
  /\ handled = 0 /\ reason = "none" /\ result = "none" /\ elapsed = 0

Later == IF elapsed > Expiration THEN elapsed ELSE elapsed + 1

\* The attempt ends with an error.
Report(r) == phase' = "reported" /\ reason' = r

\* The part of Do and DoJSON before client.Do.
Send ==
  /\ phase = "scheduled"
  /\ answer' = NoAnswer
  /\ IF (req.fn = "do_json" /\ ~req.marshals) \/ ~req.valid
     THEN Report("invalid-argument")
     ELSE phase' = "sent" /\ UNCHANGED reason
  /\ UNCHANGED <<req, handled, result, elapsed>>

\* The server handles the request, whatever becomes of its answer.
Handle ==
  /\ phase = "sent"
  /\ answer' \in Answers
  /\ handled' = IF handled = 2 THEN 2 ELSE handled + 1
  /\ phase' = "answered"
  /\ UNCHANGED <<req, reason, result, elapsed>>

\* client.Do: no connection, or no answer.
DoFails ==
  /\ phase \in {"sent", "answered"}
  /\ Report("unknown")
  /\ UNCHANGED <<req, answer, handled, result, elapsed>>

\* The worker is lost or slow: StartToCloseTimeout.
TimesOut ==
  /\ phase \in {"sent", "answered"}
  /\ Report("timeout")
  /\ elapsed' = Later
  /\ UNCHANGED <<req, answer, handled, result>>

Close(r) == phase' = "closed" /\ result' = r

\* do: the answer is passed on as it is, unless it cannot be written down.
Do ==
  /\ phase = "answered" /\ req.fn = "do"
  /\ \/ Close("value") /\ UNCHANGED reason
     \/ Report("internal") /\ UNCHANGED result
  /\ UNCHANGED <<req, answer, handled, elapsed>>

\* What the assertion about the body ends the attempt with.
Asserted ==
  CASE ~req.asserts \/ answer.assertion = "holds" -> "none"
    [] req.asserts /\ answer.assertion = "fails" -> "412"
    [] req.asserts /\ answer.assertion = "panics" -> Panic

\* Variant, not the code's: the body is read before the status is looked at.
CheckBodyFirst ==
  CASE ~answer.json -> "400"
    [] answer.json /\ answer.status \notin req.expected -> answer.status
    [] OTHER -> Asserted

\* Variant, not the code's: no status is refused.
CheckNoStatus == IF answer.json THEN Asserted ELSE "400"

\* DoJSON after client.Do: the status, then the body, then what is asserted of it.
Check ==
  CASE answer.status \notin req.expected -> answer.status
    [] answer.status \in req.expected /\ ~answer.json -> "400"
    [] OTHER -> Asserted

DoJSON ==
  /\ phase = "answered" /\ req.fn = "do_json"
  /\ IF Check = "none" THEN Close("value") /\ UNCHANGED reason
     ELSE Report(Check) /\ UNCHANGED result
  /\ UNCHANGED <<req, answer, handled, elapsed>>

\* The service: no retry for an excluded reason, nor past the expiration.
GivesUp ==
  \/ SeenAs(reason) \in Policy.reasons
  \/ Policy.expiration # Never /\ elapsed >= Policy.expiration

Decide ==
  /\ phase = "reported"
  /\ IF GivesUp THEN Close("error") ELSE phase' = "waiting" /\ UNCHANGED result
  /\ UNCHANGED <<req, answer, handled, reason, elapsed>>

\* The next attempt, an interval later (BackoffCoefficient 1).
Retry ==
  /\ phase = "waiting"
  /\ phase' = "scheduled"
  /\ elapsed' = Later
  /\ UNCHANGED <<req, answer, handled, reason, result>>

Next == Send \/ Handle \/ DoFails \/ TimesOut \/ Do \/ DoJSON \/ Decide \/ Retry

Spec == Init /\ [][Next]_vars

\* Attempts end, by their timeout if not by themselves, and the service decides
\* and retries.
FairSpec == Spec /\ WF_vars(Next)

-----------------------------------------------------------------------------
(* Properties *)

TypeOK ==
  /\ req \in Requests
  /\ phase \in {"scheduled", "sent", "answered", "reported", "waiting", "closed"}
  /\ answer \in Answers \cup {NoAnswer}
  /\ handled \in 0..2
  /\ reason \in Reasons \cup {"none"}
  /\ result \in {"none", "value", "error"} /\ ((result # "none") <=> (phase = "closed"))
  /\ elapsed \in 0..(Expiration + 1)
  /\ (phase = "answered" => handled > 0 /\ answer \in Answers)

\* "Cadence server will stop retry if error reason matches this list"
\* (internal/types.go:114): an attempt that ended with a reason of
\* DefaultNonRetriableErrorReasons is the last one.
StopsOnNonRetriable == [][phase = "waiting" => reason \notin NonRetriable]_vars

\* do_json does not give up early on an answer with a status that is neither
\* expected nor excluded by the policy, such as 500, whatever its body is.
TransientIsRetried ==
  [][phase = "reported" /\ phase' = "closed" /\ req.fn = "do_json"
     /\ answer.status \in Statuses \ (NonRetriable \cup req.expected)
     => elapsed >= Expiration]_vars

\* A value of do_json is an answer with an expected status and a JSON body that
\* fulfils the assertion, from an attempt that was not given up: what a late or
\* refused answer said is never the result.
ValueIsAsserted ==
  result = "value" /\ req.fn = "do_json" =>
    /\ handled > 0
    /\ answer.status \in req.expected /\ answer.json
    /\ req.asserts => answer.assertion = "holds"

\* What the properties rest on: an attempt whose answer has such a status ends with
\* that status, without an answer or late; and an attempt is followed by another
\* only if the policy does not exclude its reason.
ReasonInv ==
  /\ (phase = "reported" /\ req.fn = "do_json"
      /\ answer.status \in Statuses \ (NonRetriable \cup req.expected))
       => reason \in {answer.status, "unknown", "timeout"}
  /\ phase = "waiting" => SeenAs(reason) \notin Policy.reasons
IInv == TypeOK /\ ValueIsAsserted /\ ReasonInv

\* do and do_json return or fail, whatever the server does: "Maximum time to
\* retry.  When exceeded the retries stop" (internal/types.go:106).
RetriesEnd == <>(phase = "closed")
=============================================================================
