\* Signed answers, and their verification by the Python client.
SPECIFICATION Spec
CONSTANTS
  c1 = c1
  h1 = h1
  Clients = {c1}
  Callers = {h1}
  Apps = {c1}
  Foreign = {}
  Costs = {2}
  MaxMsgBytes = 1
  MaxSends = 2
  MaxAttempts = 1
  Unreliable = {}
  Nothing <- BucketNothing
  NewState <- BucketFresh
  Algorithm <- BucketEvaluate
  StoredStates <- BucketStates
  Room <- BucketRoom
  Configs <- AllConfigs
  Secrets = {"s"}
  Quota = 2
  MaxVersion = 1
  MaxExits = 1
  Capacity = 3000
  Rate = 1
  Unit = 1500
CHECK_DEADLOCK FALSE
INVARIANTS GenuineMacVerifies
