CONSTANTS
  ta = ta
  tb = tb
  TenantOrder <- MCTenantOrder
  ConcurrencyLimit = 2

SPECIFICATION Spec

\* the loop goroutine returns on a cancelled context or an error, and then
\* nothing is left to run
CHECK_DEADLOCK FALSE

INVARIANT TypeOK
PROPERTY AcquireNotStarved
