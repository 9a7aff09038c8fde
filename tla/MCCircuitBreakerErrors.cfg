CONSTANTS
  Callers = {c1, c2}
  MaxConcurrent = 1
  Volume = 2

SPECIFICATION Spec

\* every caller can end up blocked in the select
CHECK_DEADLOCK FALSE

PROPERTY BreakerErrorsSurface
