\* A window of two milliseconds, clocks that lag; t2 may lose calls.
SPECIFICATION Spec
CONSTANTS
  t1 = t1
  t2 = t2
  Tasks = {t1, t2}
  Costs = {1, 2}
  MaxAttempts = 2
  Drift = 1
  Unreliable = {t2}
  MaxClock = 4
  RequestsPerTask = 1
  MaxRequests = 2
  WindowMs = 2
CHECK_DEADLOCK FALSE
INVARIANTS IInv NoBurstInOrder BurstPerRewind LogIsExact RetryForOneSucceeds
PROPERTIES ChecksAreAtomic
