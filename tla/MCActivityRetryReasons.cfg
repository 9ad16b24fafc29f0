CONSTANTS
  Backend = "temporal"
  Requests <- MCRequests
  Statuses <- MCStatuses
  Expiration = 3
  Never = Never
SPECIFICATION Spec
PROPERTIES
  StopsOnNonRetriable
CHECK_DEADLOCK FALSE
