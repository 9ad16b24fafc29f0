------------------------------ MODULE MCBatchGet ------------------------------
(* Batches under every kind of max_concurrency, read into slices shorter,     *)
(* equal and longer than the batch: empty, partly filled and full.            *)
EXTENDS BatchGet

\* Negative, unset, serial, and a limit below the number of callables.
Limits == {-1, 0, 1, 2}
=============================================================================
