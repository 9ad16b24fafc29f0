-------------------------- MODULE MCActivityRetry --------------------------
EXTENDS ActivityRetry

\* 200 is expected by default, 404 is excluded from retries, 500 is neither.
MCStatuses == {"200", "404", "500"}

\* Every kind of call; the second expects the status that is not retried.
MCRequests ==
  [fn : {"do", "do_json"}, marshals : BOOLEAN, valid : BOOLEAN,
   asserts : BOOLEAN, expected : {{"200"}, {"200", "404"}}]
=============================================================================
