---------------------------- MODULE MCSideEffects ----------------------------
(* Every script of five operations, lost twice: long enough for a draw on     *)
(* either side of a block after a seed, and for a second seed.  Scripts that    *)
(* ask for the time have four operations, under every kind of STARLARK_TIME.   *)
EXTENDS SideEffects

Numbers == [1..5 -> {"seed", "draw", "uuid", "block"}]
Times == [1..4 -> {"now", "sleep", "nap", "block", "uuid"}]
MCEnvs == {<<>>, <<"bad">>, <<"unix", -40>>, <<"unix", -5>>, <<"unix", 14>>, <<"unix", 40>>}
MCRuns == (Numbers \X {<<>>}) \cup (Times \X MCEnvs)
=============================================================================
