SPECIFICATION Spec
CONSTANTS
  ValidNames <- MCNames
  Root = "absolute"
  HostPrefixes <- MCPrefixes
  ClusterDNS <- MCDNS
  HasTokens = TRUE
  FailureThreshold = 2
  SuccessThreshold = 1
  MaxGen = 2
  PodSet <- UngatedPods
  Objects <- MCObjects
  Limits <- MCLimits
  MaxUid = 2
INVARIANTS ReadyOnlyWhenProbed
CHECK_DEADLOCK FALSE
