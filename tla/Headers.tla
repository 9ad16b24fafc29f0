------------------------------- MODULE Headers -------------------------------
(***************************************************************************)
(* The headers of a context, which the propagators of the workers hand on  *)
(* from a workflow to its activities and children                          *)
(* (cadence/headers_context_propagator.go and its twin for Temporal).      *)
(*                                                                         *)
(* Headers are <<"headers", f>> with a function f from names to bytes, or  *)
(* Absent from a context no propagator has made.  On the wire Temporal's   *)
(* values are in payloads.                                                 *)
(***************************************************************************)

Headers(f) == <<"headers", f>>
Absent == <<"absent">>
Panics == <<"panics">>

\* inject of Cadence: the type assertion of GetContextHeaders panics on Absent.
InjectCadence(hs) == IF hs = Absent THEN Panics ELSE hs

\* inject of Temporal: the same, each value in a payload.
InjectTemporal(hs) ==
  IF hs = Absent THEN Panics ELSE Headers([k \in DOMAIN hs[2] |-> <<"payload", hs[2][k]>>])

Inject(backend, hs) ==
  IF backend = "cadence" THEN InjectCadence(hs) ELSE InjectTemporal(hs)

\* Extract and ExtractToWorkflow: a map is put into the context, if only an
\* empty one.
ExtractCadence(wire) == wire
ExtractTemporal(wire) == Headers([k \in DOMAIN wire[2] |-> wire[2][k][2]])

\* Variant, not the code's: a context gets headers only if there are some.
ExtractSome(backend, wire) ==
  CASE DOMAIN wire[2] = {} -> Absent
    [] DOMAIN wire[2] # {} /\ backend = "cadence" -> ExtractCadence(wire)
    [] OTHER -> ExtractTemporal(wire)

Extract(backend, wire) ==
  IF backend = "cadence" THEN ExtractCadence(wire) ELSE ExtractTemporal(wire)
=============================================================================
