\* A queue of two requests that leaks 1.5 of them a millisecond; t2 may lose calls.
SPECIFICATION Spec
CONSTANTS
  t1 = t1
  t2 = t2
  Tasks = {t1, t2}
  Costs = {1, 2}
  MaxAttempts = 2
  Drift = 1
  Unreliable = {t2}
  MaxClock = 3
  RequestsPerTask = 1
  QueueCapacity = 2
  LeakRate = 3
  Unit = 2
CHECK_DEADLOCK FALSE
INVARIANTS RateBound
PROPERTIES IsTokenBucket
