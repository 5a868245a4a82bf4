SPECIFICATION Spec
CONSTANTS
  Requests <- DotRequests
  Foreign <- NoForeign
  Localhost <- localhost
  Loopback <- loopback
  MaxCerts = 2
  MaxNow = 0
INVARIANT ConstraintsInherited
\* Calls may stop at any time; the bounds stop the model.
CHECK_DEADLOCK FALSE
