SPECIFICATION Spec
CONSTANTS
  Configs <- AllConfigs
  NoCertificate = NoCertificate
  MaxRetries = 2
  MaxKeys = 3
  MaxSessions = 2
  MaxChanges = 1
INVARIANT TypeOK
INVARIANT OneWrongAttempt
INVARIANT IssuedVerifies
INVARIANT RootUsable
PROPERTY CertifiedKeyKept
\* The bounds on sessions and changes stop the model.
CHECK_DEADLOCK FALSE
