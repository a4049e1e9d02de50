\* An application and a foreign peer over TCP, one HTTP caller, one exit of the process.
SPECIFICATION FairSpec
CONSTANTS
  c1 = c1
  c2 = c2
  h1 = h1
  Clients = {c1, c2}
  Callers = {h1}
  Apps = {c1}
  Foreign = {c2}
  Costs = {1}
  MaxMsgBytes = 1
  MaxSends = 2
  MaxAttempts = 1
  Unreliable = {h1}
  Nothing <- BucketNothing
  NewState <- BucketFresh
  Algorithm <- BucketEvaluate
  StoredStates <- BucketStates
  Room <- BucketRoom
  Configs <- AllConfigs
  Secrets = {"s"}
  Quota = 1
  MaxVersion = 1
  MaxExits = 1
  Capacity = 1500
  Rate = 1
  Unit = 1500
CHECK_DEADLOCK FALSE
INVARIANTS IInv AnswersMatch AdmissionsPaid QuotaPerState CutForCause RetryAfterLeadsIn
PROPERTIES EveryRequestEnds
