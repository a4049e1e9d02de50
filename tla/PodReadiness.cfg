\* The readiness probe as k8s/ and helm/ have it.
SPECIFICATION Spec
CONSTANTS
  Configs <- ManifestConfigs
  Secrets = {"s"}
  MaxExits = 1
  ReadinessRoute <- ManifestRoute
CHECK_DEADLOCK FALSE
PROPERTIES ReadinessFollowsStore
