\* Reliable store, exact clocks: a round that reads the clock before the window ends and writes after.
SPECIFICATION Spec
CONSTANTS
  t1 = t1
  t2 = t2
  Tasks = {t1, t2}
  Costs = {1, 2}
  MaxAttempts = 2
  Drift = 0
  Unreliable = {}
  MaxClock = 3
  RequestsPerTask = 2
  MaxRequests = 2
  WindowSecs = 2
SYMMETRY Symmetry
CHECK_DEADLOCK FALSE
INVARIANTS WindowLimit
