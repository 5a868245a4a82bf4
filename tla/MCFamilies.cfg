SPECIFICATION MCSpec
CONSTANTS
  Requests <- AllRequests
  Foreign <- NoForeign
  Localhost <- localhost
  Loopback <- loopback
  MaxCerts = 5
  MaxNow = 2
INVARIANT TypeOK
INVARIANT ChainPermits
INVARIANT ConstraintsCarried
INVARIANT RefusedForCause
INVARIANT ValidWithinIssuers
\* Calls may stop at any time; the bounds stop the model.
CHECK_DEADLOCK FALSE
