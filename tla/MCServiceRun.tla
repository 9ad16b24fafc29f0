---------------------------- MODULE MCServiceRun ----------------------------
(* A run whose main leaves two coroutines behind.  Each registers one hook,  *)
(* so MaxReg bounds nothing.                                                 *)
EXTENDS ServiceRun

Kinds == {ScriptError, Canceled, Custom("hook"), Application("TemporalCustomError")}
AllFaults == {"panic", "activity"}
=============================================================================
