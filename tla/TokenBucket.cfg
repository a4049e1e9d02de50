\* A bucket of two and a half tokens that takes 1.5 tokens a millisecond; t2 may lose calls.
SPECIFICATION Spec
CONSTANTS
  t1 = t1
  t2 = t2
  Tasks = {t1, t2}
  Costs = {1, 2}
  MaxAttempts = 3
  Drift = 1
  Unreliable = {t2}
  MaxClock = 2
  RequestsPerTask = 1
  Capacity = 5
  Rate = 3
  Unit = 2
CHECK_DEADLOCK FALSE
INVARIANTS IInv RateBound ReliablyCharged PaysByRound RetrySucceedsSoon
PROPERTIES ChecksAreAtomic
