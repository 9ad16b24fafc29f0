------------------------------- MODULE Options -------------------------------
(***************************************************************************)
(* The options of activities and child workflows (internal/types.go): what *)
(* a service is built with (service/service.go, service/defaults.go), and  *)
(* what the adapters of the backends make of it (internal_cadence.go,      *)
(* internal_temporal.go).                                                  *)
(*                                                                         *)
(* An option is "unset" or names the value it was set to.  The timeouts of *)
(* a kind are one option, and so are the intervals of a retry policy;      *)
(* memo, eager execution, versioning and summary are left out.             *)
(***************************************************************************)
EXTENDS Naturals

\* A retry policy is a record, or none.
NoRetry == [none |-> "unset"]

\* DefaultRetryPolicy, DefaultActivityOptions, DefaultChildWorkflowOptions.
DefaultRetryPolicy ==
  [intervals |-> "15s", expiration |-> "5m", attempts |-> "unset", reasons |-> "default"]

DefaultActivityOptions ==
  [queue |-> "unset", timeouts |-> "15s", wait |-> "unset", id |-> "unset",
   retry |-> DefaultRetryPolicy]

DefaultChildWorkflowOptions ==
  [domain |-> "unset", id |-> "unset", queue |-> "unset", timeouts |-> "10y", wait |-> "unset",
   reuse |-> 0, retry |-> NoRetry, cron |-> "unset", attributes |-> {}, close |-> "unset"]

-----------------------------------------------------------------------------
(* ServiceBuilder *)

NewServiceBuilder == [activity |-> DefaultActivityOptions, child |-> DefaultChildWorkflowOptions]

SetClientTaskList(b, q) == [b EXCEPT !.activity.queue = q, !.child.queue = q]
SetActivityOptions(b, o) == [b EXCEPT !.activity = o]
SetChildWorkflowOptions(b, o) == [b EXCEPT !.child = o]

-----------------------------------------------------------------------------
(* A context holds the options of the next activity and the next child, and *)
(* the search attributes of the workflow itself.  An unset option is that   *)
(* of the caller or the service's default.                                  *)

RootContext ==
  [activity |-> [DefaultActivityOptions EXCEPT !.timeouts = "unset", !.retry = NoRetry],
   workflow |-> [DefaultChildWorkflowOptions EXCEPT !.timeouts = "unset"], own |-> {}]

\* What the SDKs leave as it is if it is not given.
Given(new, old) == IF new = "unset" THEN old ELSE new

\* The policy both adapters of Temporal pass on has no expiration.
WithoutExpiration(p) == IF p = NoRetry THEN p ELSE [p EXCEPT !.expiration = "unset"]

WithActivityOptionsCadence(c, o) ==
  [c EXCEPT !.activity = [o EXCEPT !.queue = Given(@, c.activity.queue)]]

WithActivityOptionsTemporal(c, o) ==
  [c EXCEPT !.activity = [o EXCEPT !.queue = Given(@, c.activity.queue),
                                   !.retry = WithoutExpiration(@)]]

\* Cadence's adapter leaves out the reuse policy and the close policy.
WithChildOptionsCadence(c, o) ==
  [c EXCEPT !.workflow = [o EXCEPT !.queue = Given(@, c.workflow.queue),
                                   !.domain = Given(@, c.workflow.domain),
                                   !.reuse = 0, !.close = "unset"]]

\* convertCadenceToTemporalReusePolicy, as the number in types.go that means
\* the same; 4 stands for UNSPECIFIED.
ReusePolicy(n) == IF n \in 0..3 THEN n ELSE 4

\* Temporal's adapter leaves out the close policy and the expiration; search
\* attributes go to the workflow itself, and the child gets all of its.
WithChildOptionsTemporal(c, o) ==
  LET own == c.own \cup o.attributes
  IN [c EXCEPT !.own = own,
               !.workflow = [o EXCEPT !.queue = Given(@, c.workflow.queue),
                                      !.domain = Given(@, c.workflow.domain),
                                      !.reuse = ReusePolicy(@), !.close = "unset",
                                      !.retry = WithoutExpiration(@), !.attributes = own]]

\* A search attribute must be a string; "number" is one that is not.
AttributesPanic(backend, o) == backend = "temporal" /\ "number" \in o.attributes

\* The facade (workflow/workflow.go).
WithActivityOptions(backend, c, o) ==
  IF backend = "cadence" THEN WithActivityOptionsCadence(c, o) ELSE WithActivityOptionsTemporal(c, o)

WithChildOptions(backend, c, o) ==
  IF backend = "cadence" THEN WithChildOptionsCadence(c, o) ELSE WithChildOptionsTemporal(c, o)

\* WithTaskList of both backends.
WithTaskList(c, q) == [c EXCEPT !.activity.queue = q]

\* WithWorkflowTaskList.  Temporal's sets the queue of activities.
WithWorkflowTaskListCadence(c, q) == [c EXCEPT !.workflow.queue = q]
WithWorkflowTaskListTemporal(c, q) == WithTaskList(c, q)
WithWorkflowTaskList(backend, c, q) ==
  IF backend = "cadence" THEN WithWorkflowTaskListCadence(c, q) ELSE WithWorkflowTaskListTemporal(c, q)

\* WithWorkflowDomain.  Temporal's passes options that hold only the domain.
WithWorkflowDomainCadence(c, d) == [c EXCEPT !.workflow.domain = d]
WithWorkflowDomainTemporal(c, d) ==
  WithChildOptionsTemporal(c, [DefaultChildWorkflowOptions EXCEPT !.timeouts = "unset", !.domain = d])

\* Variant, not the code's: Cadence takes the way of Temporal.
WithWorkflowDomainReset(backend, c, d) == WithWorkflowDomainTemporal(c, d)

WithWorkflowDomain(backend, c, d) ==
  IF backend = "cadence" THEN WithWorkflowDomainCadence(c, d) ELSE WithWorkflowDomainTemporal(c, d)
=============================================================================
