\* Three threads on two keys.
SPECIFICATION Spec
CONSTANTS
  t1 = t1
  t2 = t2
  t3 = t3
  k1 = k1
  k2 = k2
  v1 = v1
  v2 = v2
  Nothing = Nothing
  Callers = {t1, t2, t3}
  Keys = {k1, k2}
  Values = {v1, v2}
  MaxCalls = 4
SYMMETRY Symmetry
CHECK_DEADLOCK FALSE
INVARIANTS IInv
PROPERTIES IsStateStore
