---------------------------- MODULE MCExitHooks ----------------------------
(* The registry with two functions, which may be registered several times. *)
EXTENDS ExitHooks
=============================================================================
