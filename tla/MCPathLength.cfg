SPECIFICATION Spec
CONSTANTS
  Requests <- LevelRequests
  Foreign <- NoForeign
  Localhost <- localhost
  Loopback <- loopback
  MaxCerts = 4
  MaxNow = 0
INVARIANT PathLengthKept
\* Calls may stop at any time; the bounds stop the model.
CHECK_DEADLOCK FALSE
