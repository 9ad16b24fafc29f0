CONSTANTS
  Backend = "cadence"
  Requests <- MCRequests
  Statuses <- MCStatuses
  Expiration = 3
  Never = Never
SPECIFICATION FairSpec
INVARIANTS
  ValueIsAsserted
PROPERTIES
  StopsOnNonRetriable
  TransientIsRetried
  RetriesEnd
CHECK_DEADLOCK FALSE
