CONSTANTS
  Callers = {c1, c2}
  MaxConcurrent = 1
  Volume = 2

SPECIFICATION Spec

\* a caller whose command was rejected waits forever (see CallsReturn), so
\* every caller can end up blocked
CHECK_DEADLOCK FALSE

INVARIANT TypeOK
PROPERTY AdmittedCallsReturn
