\* A lost answer of etcd makes a check pay twice, or pay and be refused.
SPECIFICATION Spec
CONSTANTS
  t1 = t1
  t2 = t2
  Tasks = {t1, t2}
  Costs = {1, 2}
  MaxAttempts = 2
  Drift = 0
  Unreliable = {t2}
  MaxClock = 2
  RequestsPerTask = 1
  Capacity = 5
  Rate = 3
  Unit = 2
CHECK_DEADLOCK FALSE
INVARIANTS ChargedAsAnswered
