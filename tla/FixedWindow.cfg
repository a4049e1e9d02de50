\* A task whose calls are answered beside one whose calls may be lost, by clocks that lag; fair scheduling.
SPECIFICATION FairSpec
CONSTANTS
  t1 = t1
  t2 = t2
  Tasks = {t1, t2}
  Costs = {1, 2}
  MaxAttempts = 3
  Drift = 1
  Unreliable = {t2}
  MaxClock = 2
  RequestsPerTask = 1
  MaxRequests = 2
  WindowSecs = 2
CHECK_DEADLOCK FALSE
INVARIANTS IInv CountIsAdmissions WindowBudget ContentionHasCause AdvisedRetrySucceeds
PROPERTIES ChecksAreAtomic EveryCheckEnds
