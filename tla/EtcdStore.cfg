\* Two tasks of one replica, one of another whose calls may fail.
SPECIFICATION FairSpec
CONSTANTS
  t1 = t1
  t2 = t2
  t3 = t3
  r1 = r1
  r2 = r2
  k1 = k1
  v1 = v1
  Nothing = Nothing
  Callers = {t1, t2, t3}
  Keys = {k1}
  Values = {v1}
  Replicas = {r1, r2}
  Home <- Homes
  Lossy = {t2}
  MaxCalls = 3
CHECK_DEADLOCK FALSE
INVARIANTS IInv
PROPERTIES IsStateStore EveryCallReturns
