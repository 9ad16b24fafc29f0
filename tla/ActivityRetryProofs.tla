-------------------------- MODULE ActivityRetryProofs --------------------------
(***************************************************************************)
(* Theorems about ActivityRetry, for every set of status codes, every      *)
(* request and every expiration: what a value of do_json means on both     *)
(* backends, and when retries stop.  The invariant adds which reason an    *)
(* attempt may have ended with, given the answer that is still remembered. *)
(***************************************************************************)
EXTENDS ActivityRetry, TLAPS

LEMMA PolicyFacts ==
  /\ Policy.reasons = NonRetriable
  /\ Backend = "cadence" => Policy.expiration = Expiration /\ Expiration # Never
  /\ Backend = "temporal" => Policy.expiration = Never
BY ActivityRetryAssumption DEF Policy, CadencePolicy, TemporalPolicy, DefaultRetryPolicy

LEMMA LaterInRange == ASSUME TypeOK PROVE Later \in 0..(Expiration + 1)
BY ActivityRetryAssumption DEF TypeOK, Later

LEMMA CheckFacts ==
  ASSUME TypeOK, answer \in Answers
  PROVE  /\ Check \in Reasons \cup {"none"}
         /\ Check = "none" => /\ answer.status \in req.expected /\ answer.json
                              /\ req.asserts => answer.assertion = "holds"
         /\ answer.status \notin req.expected => Check = answer.status
<1>1. answer.status \in Statuses /\ answer.json \in BOOLEAN
  BY DEF Answers
<1>2. CASE answer.status \notin req.expected
  BY <1>1, <1>2, ActivityRetryAssumption DEF Check, Reasons
<1>3. CASE answer.status \in req.expected /\ ~answer.json
  BY <1>3 DEF Check, Reasons
<1>4. CASE answer.status \in req.expected /\ answer.json
  <2>1. Check = Asserted
    BY <1>4 DEF Check
  <2>2. answer.assertion \in {"holds", "fails", "panics"}
    BY DEF Answers
  <2>3. Asserted \in {"none", "412", Panic} /\ (Asserted = "none" => ~req.asserts \/ answer.assertion = "holds")
    BY <2>2 DEF Asserted, Panic
  <2>4. QED
    BY <1>4, <2>1, <2>3 DEF Reasons
<1>5. QED
  BY <1>1, <1>2, <1>3, <1>4

LEMMA InitInv == Init => IInv
BY ActivityRetryAssumption DEF Init, IInv, TypeOK, ValueIsAsserted, ReasonInv, NoAnswer

LEMMA NextInv == IInv /\ [Next]_vars => IInv'
<1> SUFFICES ASSUME IInv, [Next]_vars PROVE IInv'
  OBVIOUS
<1>1. TypeOK /\ ValueIsAsserted /\ ReasonInv
  BY DEF IInv
<1>2. NoAnswer.status = "none" /\ "none" \notin Statuses
  BY ActivityRetryAssumption DEF NoAnswer
<1>3. CASE Send
  BY <1>1, <1>2, <1>3 DEF Send, Report, IInv, TypeOK, ValueIsAsserted, ReasonInv, Reasons
<1>4. CASE Handle
  BY <1>1, <1>4 DEF Handle, IInv, TypeOK, ValueIsAsserted, ReasonInv
<1>5. CASE DoFails
  BY <1>1, <1>5 DEF DoFails, Report, IInv, TypeOK, ValueIsAsserted, ReasonInv, Reasons
<1>6. CASE TimesOut
  BY <1>1, <1>6, LaterInRange DEF TimesOut, Report, IInv, TypeOK, ValueIsAsserted, ReasonInv, Reasons
<1>7. CASE Do
  BY <1>1, <1>7 DEF Do, Close, Report, IInv, TypeOK, ValueIsAsserted, ReasonInv, Reasons
<1>8. CASE DoJSON
  <2>1. /\ phase = "answered" /\ req.fn = "do_json" /\ UNCHANGED <<req, answer, handled, elapsed>>
        /\ \/ Check = "none" /\ phase' = "closed" /\ result' = "value" /\ reason' = reason
           \/ Check # "none" /\ phase' = "reported" /\ reason' = Check /\ result' = result
    BY <1>8 DEF DoJSON, Close, Report
  <2>2. answer \in Answers
    BY <1>1, <2>1 DEF TypeOK
  <2>3. QED
    BY <1>1, <2>1, <2>2, CheckFacts DEF IInv, TypeOK, ValueIsAsserted, ReasonInv
<1>9. CASE Decide
  BY <1>1, <1>9 DEF Decide, Close, GivesUp, IInv, TypeOK, ValueIsAsserted, ReasonInv
<1>10. CASE Retry
  BY <1>1, <1>10, LaterInRange DEF Retry, IInv, TypeOK, ValueIsAsserted, ReasonInv
<1>11. CASE UNCHANGED vars
  BY <1>1, <1>11 DEF vars, IInv, TypeOK, ValueIsAsserted, ReasonInv, SeenAs
<1>12. QED
  BY <1>3, <1>4, <1>5, <1>6, <1>7, <1>8, <1>9, <1>10, <1>11 DEF Next

\* The inductive invariant of the activity.
THEOREM Invariance == Spec => []IInv
BY InitInv, NextInv, PTL DEF Spec

\* The types of the activity and of what the workflow gets.
THEOREM TypeCorrect == Spec => []TypeOK
<1>1. IInv => TypeOK
  BY DEF IInv
<1>2. QED
  BY <1>1, Invariance, PTL

\* A value of do_json is an answer that passed every check, on both backends.
THEOREM ValuesAreAsserted == Spec => []ValueIsAsserted
<1>1. IInv => ValueIsAsserted
  BY DEF IInv
<1>2. QED
  BY <1>1, Invariance, PTL

\* On Cadence no attempt follows one that ended with an excluded reason.
THEOREM StopsOnCadence ==
  ASSUME Backend = "cadence" PROVE Spec => StopsOnNonRetriable
<1>1. IInv => (phase = "waiting" => reason \notin NonRetriable)
  <2> SUFFICES ASSUME IInv, phase = "waiting" PROVE reason \notin NonRetriable
    OBVIOUS
  <2>1. SeenAs(reason) = reason /\ Policy.reasons = NonRetriable
    BY PolicyFacts DEF SeenAs
  <2>2. QED
    BY <2>1 DEF IInv, ReasonInv
<1>2. IInv /\ [Next]_vars => [phase = "waiting" => reason \notin NonRetriable]_vars
  BY <1>1
<1>3. QED
  BY <1>2, Invariance, PTL DEF Spec, StopsOnNonRetriable

\* An answer with a status that is neither expected nor excluded is retried until
\* the time for retries is over, on both backends.
THEOREM TransientRetried == Spec => TransientIsRetried
<1> DEFINE Due ==
      phase = "reported" /\ phase' = "closed" /\ req.fn = "do_json"
        /\ answer.status \in Statuses \ (NonRetriable \cup req.expected)
      => elapsed >= Expiration
<1>1. IInv /\ [Next]_vars => [Due]_vars
  <2> SUFFICES ASSUME IInv, Next, phase = "reported", phase' = "closed", req.fn = "do_json",
                      answer.status \in Statuses \ (NonRetriable \cup req.expected)
               PROVE  elapsed >= Expiration
    OBVIOUS
  <2>1. Decide
    BY DEF Next, Send, Handle, DoFails, TimesOut, Do, DoJSON, Retry
  <2>2. GivesUp
    BY <2>1 DEF Decide
  <2>3. reason \in {answer.status, "unknown", "timeout"} /\ answer.status \notin NonRetriable
    BY DEF IInv, ReasonInv
  <2>4. SeenAs(reason) \in {reason, "TemporalCustomError", "PanicError"}
    BY ActivityRetryAssumption DEF SeenAs
  <2>5. SeenAs(reason) \notin NonRetriable
    BY <2>3, <2>4 DEF NonRetriable, Panic
  <2>6. Policy.expiration # Never /\ elapsed >= Policy.expiration
    BY <2>2, <2>5, PolicyFacts DEF GivesUp
  <2>7. QED
    BY <2>6, PolicyFacts, ActivityRetryAssumption
<1>2. QED
  BY <1>1, Invariance, PTL DEF Spec, TransientIsRetried
=============================================================================
