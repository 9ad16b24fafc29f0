----------------------------- MODULE MCThreadLogs -----------------------------
(* Three coroutines whose limits differ: negative, the default (2 here, 1000   *)
(* in the code) and larger, and enough lines to pass each of them.            *)
EXTENDS Coroutines

SomeLengths == {-1, 3}
=============================================================================
