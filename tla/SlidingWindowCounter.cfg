\* Three windows, requests of two units against a limit of five; two each of two tasks, of which t2 may lose calls.
SPECIFICATION Spec
CONSTANTS
  t1 = t1
  t2 = t2
  Tasks = {t1, t2}
  Costs = {2}
  MaxAttempts = 2
  Drift = 0
  Unreliable = {t2}
  MaxClock = 4
  RequestsPerTask = 2
  MaxRequests = 5
  WindowSecs = 2
  ShortSeconds = {1}
CHECK_DEADLOCK FALSE
INVARIANTS IInv WindowBudget CountsAreAdmissions NoBoundaryBurst RetrySucceedsNextWindow
PROPERTIES AdmitsWithinEstimate ChecksAreAtomic
