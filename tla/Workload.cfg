SPECIFICATION FairSpec
CONSTANTS
  ValidNames <- MCNames
  Root = "absolute"
  HostPrefixes <- MCPrefixes
  ClusterDNS <- MCDNS
  HasTokens = TRUE
  FailureThreshold = 2
  SuccessThreshold = 1
  MaxGen = 2
  PodSet <- MCPods
  Objects <- MCObjects
  Limits <- MCLimits
  MaxUid = 2
INVARIANTS RunsAsDeclared TreeComplete ReadyIsProbed
PROPERTIES  HangAnswered
CHECK_DEADLOCK FALSE
